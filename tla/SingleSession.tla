----------------------------- MODULE SingleSession ----------------------------
(***************************************************************************)
(* What session handling promises: a user has at most one session, it is   *)
(* nobody else's, and a session that was given to its user and is over     *)
(* never comes back.                                                       *)
(*                                                                         *)
(* The module has no source of its own: Session.tla implements it.         *)
(***************************************************************************)

CONSTANTS Identities, Sessions, NoSession

VARIABLES
    current,         \* current[i]: the session of user i
    given            \* sessions that were given to their users

vars == <<current, given>>

Init ==
    /\ current = [i \in Identities |-> NoSession]
    /\ given = {}

Begin(i, s) ==
    /\ s \notin given
    /\ \A j \in Identities \ {i} : current[j] # s
    /\ current' = [current EXCEPT ![i] = s]
    /\ UNCHANGED given

Give(s) ==
    /\ given' = given \union {s}
    /\ UNCHANGED current

End(i) ==
    /\ current' = [current EXCEPT ![i] = NoSession]
    /\ UNCHANGED given

Next ==
    \/ \E i \in Identities : End(i) \/ \E s \in Sessions : Begin(i, s)
    \/ \E s \in Sessions : Give(s)

Spec == Init /\ [][Next]_vars

===============================================================================
