------------------------------ MODULE TunnelRPC ------------------------------
(***************************************************************************)
(* What the reverse tunnel promises to the callers of sendTunnelRequest.   *)
(* A request ends once: with the answer the remote cluster gave when it    *)
(* executed the request, with an error before the request was sent, or     *)
(* with an error after it was sent.  A request refused before it was sent  *)
(* never executes; one that was sent executes at most once, possibly after *)
(* its caller was told that it failed, for the 15 second timeout cannot    *)
(* recall what was written.                                                *)
(*                                                                         *)
(* The module has no source of its own: Tunnel.tla implements it.          *)
(***************************************************************************)

CONSTANT Requests    \* the requests that callers may make

VARIABLES
    status,          \* status[q]: where the caller of q stands
    executed         \* the requests that the remote cluster has executed

vars == <<status, executed>>

Init ==
    /\ status = [q \in Requests |-> "new"]
    /\ executed = {}

Call(q) ==
    /\ status[q] = "new"
    /\ status' = [status EXCEPT ![q] = "called"]
    /\ UNCHANGED executed

Send(q) ==
    /\ status[q] = "called"
    /\ status' = [status EXCEPT ![q] = "sent"]
    /\ UNCHANGED executed

\* At most once, and only what was sent; the caller may be told of a failure
\* before.
Execute(q) ==
    /\ status[q] \in {"sent", "failed"}
    /\ q \notin executed
    /\ executed' = executed \union {q}
    /\ UNCHANGED status

Answer(q) ==
    /\ status[q] = "sent"
    /\ q \in executed
    /\ status' = [status EXCEPT ![q] = "answered"]
    /\ UNCHANGED executed

\* Some requests end with an error: all of those on a replica when it dies.
Abort(S) ==
    /\ \A q \in S : status[q] \in {"new", "called", "sent"}
    /\ status' = [q \in Requests |->
                    IF q \notin S THEN status[q]
                    ELSE IF status[q] = "sent" THEN "failed" ELSE "refused"]
    /\ UNCHANGED executed

Next ==
    \/ \E q \in Requests : Call(q) \/ Send(q) \/ Execute(q) \/ Answer(q)
    \/ \E S \in SUBSET Requests : Abort(S)

Spec == Init /\ [][Next]_vars

==============================================================================
