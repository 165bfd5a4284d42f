------------------------------ MODULE Admission -------------------------------
(***************************************************************************)
(* What enrollment promises.  A join token is issued for a name, and at    *)
(* most one live token has that name.  A token is used up by the admission *)
(* of one cluster or is withdrawn; no cluster is admitted without using up *)
(* a live token of its name.  The names and the certificates of the        *)
(* clusters are distinct, and the ID of a cluster is never given again.    *)
(* The certificate of a cluster may give way to one with which a cluster   *)
(* of its name was admitted, and to no other.                              *)
(*                                                                         *)
(* The module has no source of its own: Enrollment.tla implements it.      *)
(***************************************************************************)

CONSTANTS Names, Certs, Tokens, Ids, NoName

VARIABLES
    issuedTo,        \* issuedTo[k]: the name token k was issued for
    usedUp,          \* tokens that were used or withdrawn
    clusters,        \* the clusters: records of id, name and cert
    admitted         \* clusters as they were admitted, past and present

vars == <<issuedTo, usedUp, clusters, admitted>>

Clusters == [id : Ids, name : Names, cert : Certs]

Live(k, n) == issuedTo[k] = n /\ k \notin usedUp

Init ==
    /\ issuedTo = [k \in Tokens |-> NoName]
    /\ usedUp = {}
    /\ clusters = {}
    /\ admitted = {}

Issue(k, n) ==
    /\ issuedTo[k] = NoName
    /\ \A l \in Tokens : ~Live(l, n)
    /\ issuedTo' = [issuedTo EXCEPT ![k] = n]
    /\ UNCHANGED <<usedUp, clusters, admitted>>

Withdraw(k) ==
    /\ \E n \in Names : Live(k, n)
    /\ usedUp' = usedUp \union {k}
    /\ UNCHANGED <<issuedTo, clusters, admitted>>

Admit(r, k) ==
    /\ Live(k, r.name)
    /\ \A s \in admitted : s.id # r.id
    /\ \A s \in clusters : s.name # r.name /\ s.cert # r.cert
    /\ usedUp' = usedUp \union {k}
    /\ clusters' = clusters \union {r}
    /\ admitted' = admitted \union {r}
    /\ UNCHANGED issuedTo

Remove(r) ==
    /\ r \in clusters
    /\ clusters' = clusters \ {r}
    /\ UNCHANGED <<issuedTo, usedUp, admitted>>

Restore(r, s) ==
    /\ r \in clusters
    /\ s \in admitted
    /\ s.name = r.name
    /\ \A other \in clusters \ {r} : other.cert # s.cert
    /\ clusters' = (clusters \ {r}) \union {[r EXCEPT !.cert = s.cert]}
    /\ UNCHANGED <<issuedTo, usedUp, admitted>>

Next ==
    \/ \E k \in Tokens : Withdraw(k) \/ \E n \in Names : Issue(k, n)
    \/ \E r \in Clusters : Remove(r) \/ \E k \in Tokens : Admit(r, k)
    \/ \E r, s \in Clusters : Restore(r, s)

Spec == Init /\ [][Next]_vars

===============================================================================
