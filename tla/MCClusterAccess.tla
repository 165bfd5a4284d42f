--------------------------- MODULE MCClusterAccess ----------------------------
(***************************************************************************)
(* A small instance of ClusterAccess.  A certificate is its own            *)
(* fingerprint.                                                            *)
(***************************************************************************)
EXTENDS ClusterAccess, TLC

MCFingerprintOf == [c \in Certs |-> c]

Symmetry == Permutations(Joins) \union Permutations(Tokens)
    \union Permutations(Names) \union Permutations(Certs)

\* Bounds: no request for a token fails, no token lapses, no rebuild is begun
\* again, one cluster at a time is leaving, no token is withdrawn before a join
\* presents it.  MCEnrollment and MCMtlsAuth have all of these.
Bound ==
    /\ \A k \in Tokens : post[k] \notin {"unanswered", "refused"}
    /\ lapsed = {}
    /\ \A r \in Replicas : rebuilds[r] = 1
    /\ \A i, j \in leaving : i = j
    /\ \A k \in UsedUp : \E j \in Joins : asked[j] # NoAsk /\ asked[j].token = k

===============================================================================
