---------------------------- MODULE ClusterAccess -----------------------------
(***************************************************************************)
(* Enrollment and mutual TLS authentication together: from the token that  *)
(* an administrator is given to the request of a cluster that is let       *)
(* through.                                                                *)
(*                                                                         *)
(* The joins of Enrollment are served by replicas of the connector, which  *)
(* have the caches of MtlsAuth.  The two meet in three places: a join that *)
(* has committed calls AddCertificate, which waits for the cache's lock; a *)
(* cluster that leaves is first let through by its certificate; a replica  *)
(* that dies takes its joins, requests and cache along.  A step here is    *)
(* one of Enrollment, one of MtlsAuth, or one of each; ImplementsMtlsAuth  *)
(* says that nothing that Enrollment does surprises the caches.            *)
(***************************************************************************)

EXTENDS Enrollment

CONSTANTS
    Replicas,        \* replicas of the cluster connector
    Fingerprints,    \* fingerprints of certificates
    FingerprintOf,   \* FingerprintOf[c]: of the certificate with the text c
    Auths,           \* goroutines that serve requests of remote clusters
    NoCluster,       \* a nil cache entry
    NoAuth,          \* the cache is not being rebuilt
    None             \* a replica, a fingerprint or a name not chosen yet

ASSUME FingerprintOfAssumption == FingerprintOf \in [Certs -> Fingerprints]
ASSUME NoClusterAssumption == NoCluster \notin Joins \X (1..MaxRetries)
ASSUME NoAuthAssumption == NoAuth \notin Auths
ASSUME NoneAssumption == None \notin Replicas \union Fingerprints \union Names

VARIABLES
    server,          \* server[j]: the replica that serves join j
    rewritten,       \* as in MtlsAuth
    cache, fresh, builder, rebuilds, snapshot,   \* as in MtlsAuth; rebuilds is its attempt
    auth, place, presented, result               \* as in MtlsAuth

cacheVars == <<cache, fresh, builder, rebuilds, snapshot>>
authVars == <<auth, place, presented, result>>
connectorVars == <<server, rewritten, cacheVars, authVars>>
accessVars == <<vars, connectorVars>>

(***************************************************************************)
(* What the caches see of a row: whether its join has the answer of the    *)
(* commit, who serves the join, the name, and the fingerprints of the      *)
(* certificates that it was inserted with and has by now.  A row of an     *)
(* earlier attempt, or of a join that failed after the commit, is one that *)
(* nobody adds to a cache.                                                 *)
(***************************************************************************)
Committed(id) == id \in rows \/ id \in removed

RowJoin(id) ==
    IF ~Committed(id) THEN "new"
    ELSE IF id[2] = attempt[id[1]] /\ join[id[1]] \in {"committed", "done"} THEN join[id[1]]
    ELSE "failed"

RowServer(id) == IF Committed(id) THEN server[id[1]] ELSE None
RowName(id) == IF Committed(id) THEN NameOf(id) ELSE None
RowFingerprint(id) == IF Committed(id) THEN FingerprintOf[asked[id[1]].cert] ELSE None
RowColumn(id) == IF Committed(id) THEN FingerprintOf[CertOf(id)] ELSE None

Caches == INSTANCE MtlsAuth WITH
    Clusters <- Ids,
    join <- [id \in Ids |-> RowJoin(id)],
    server <- [id \in Ids |-> RowServer(id)],
    name <- [id \in Ids |-> RowName(id)],
    fingerprint <- [id \in Ids |-> RowFingerprint(id)],
    column <- [id \in Ids |-> RowColumn(id)],
    attempt <- rebuilds

AccessInit ==
    /\ Init
    /\ server = [j \in Joins |-> None]
    /\ Caches!Init

-------------------------------------------------------------------------------
(***************************************************************************)
(* The joins, on the replicas that serve them.                             *)
(***************************************************************************)

\* A request to join arrives at r and passes the checks of its token.
CheckTokenAt(j, r, ask) ==
    /\ CheckToken(j, ask)
    /\ server' = [server EXCEPT ![j] = r]
    /\ UNCHANGED <<rewritten, cacheVars, authVars>>

\* Fault: the ID is that which the first attempt has drawn.
AddCertificateOfFirstAttempt(j) ==
    /\ Trust(j)
    /\ Caches!Unlocked(server[j])
    /\ cache' = [cache EXCEPT ![server[j]][RowFingerprint(Id(j))] = <<j, 1>>]
    /\ UNCHANGED <<server, rewritten, fresh, builder, rebuilds, snapshot, authVars>>

\* Fault: the ID is looked up by the name of the cluster, after the commit.
AddCertificateByName(j) ==
    /\ Trust(j)
    /\ Caches!Unlocked(server[j])
    /\ \E id \in RowsNamed(asked[j].name) :
        cache' = [cache EXCEPT ![server[j]][RowFingerprint(Id(j))] = id]
    /\ UNCHANGED <<server, rewritten, fresh, builder, rebuilds, snapshot, authVars>>

\* AddCertificate, with the ID of the row that was committed.
AddCertificate(j) ==
    /\ Trust(j)
    /\ Caches!Unlocked(server[j])
    /\ cache' = [cache EXCEPT ![server[j]][RowFingerprint(Id(j))] = Id(j)]
    /\ UNCHANGED <<server, rewritten, fresh, builder, rebuilds, snapshot, authVars>>

\* The statements that concern the database alone.
Database ==
    /\ \/ TokenNext
       \/ \E j \in Joins : JoinTransacts(j) \/ CheckTokenFails(j)
       \/ \E n \in Names : DeleteCluster(n)
       \/ \E id \in Ids : DeleteLeaving(id)
    /\ UNCHANGED connectorVars

\* An update, which may put the certificate of a deleted cluster in a row.
Update(id, old) ==
    /\ UpdateRow(id, old)
    /\ rewritten' = IF FingerprintOf[asked[old[1]].cert] = RowFingerprint(id)
                     THEN rewritten ELSE rewritten \union {id}
    /\ UNCHANGED <<server, cacheVars, authVars>>

-------------------------------------------------------------------------------
(***************************************************************************)
(* The requests of clusters.                                               *)
(***************************************************************************)

Authenticate ==
    /\ UNCHANGED <<vars, server>>
    /\ \/ \E a \in Auths :
            \/ Caches!AuthProceeds(a) \/ Caches!Finish(a)
            \/ \E r \in Replicas, f \in Fingerprints : Caches!Present(a, r, f)
       \/ \E r \in Replicas : Caches!Expire(r)

\* A cluster that was let through asks to leave: the row of the ID it was
\* let through as is read.
Leave(a) ==
    /\ auth[a] = "accepted"
    /\ ReadLeaving(result[a])
    /\ UNCHANGED connectorVars

\* A replica dies and is started again.
Restart(r) ==
    /\ Die({j \in Joins : server[j] = r /\ UnderWay(j)})
    /\ UNCHANGED server
    /\ Caches!Restart(r)

-------------------------------------------------------------------------------
AccessNext ==
    \/ Database \/ Authenticate
    \/ \E j \in Joins :
        \/ AddCertificate(j)
        \/ \E r \in Replicas, ask \in Asks : CheckTokenAt(j, r, ask)
    \/ \E id, old \in Ids : Update(id, old)
    \/ \E a \in Auths : Leave(a)
    \/ \E r \in Replicas : Restart(r)

AccessSpec == AccessInit /\ [][AccessNext]_accessVars

-------------------------------------------------------------------------------
(***************************************************************************)
(* Correctness.                                                            *)
(***************************************************************************)

\* What MtlsAuth takes to happen to rows is what Enrollment does to them, in
\* spite of retries, deletions by name, updates and deaths between the commit
\* and AddCertificate: a row is committed once, by one join, whose replica adds
\* its certificate after that, and is deleted alone.
ImplementsMtlsAuth == Caches!Spec

\* From end to end: a request is let through as a cluster only with a
\* certificate of the fingerprint of that with which this cluster joined or, if
\* an update has written back what it had read, with which a cluster of the
\* same name joined that was deleted; and whichever it was had joined with a
\* token that an administrator was given for the very name.
OnlyEnrolled ==
    \A a \in Auths : auth[a] = "accepted" =>
        /\ result[a] \in Known
        /\ \E id \in removed \union {result[a]} :
            LET ask == asked[id[1]] IN
            /\ id = result[a] \/ result[a] \in rewritten
            /\ presented[a] = FingerprintOf[ask.cert]
            /\ ask.name = NameOf(result[a])
            /\ tokenName[ask.token] = ask.name
            /\ post[ask.token] = "issued"

(***************************************************************************)
(* The inductive invariant of the proofs, besides those of the two parts.  *)
(***************************************************************************)

\* A join whose token was accepted has a replica, also after its row was
\* deleted, and one that has the answer of its commit has a row, or had.
ServedInv ==
    /\ server \in [Joins -> Replicas \union {None}]
    /\ \A j \in Joins : join[j] \notin {"new", "failed"} => server[j] \in Replicas
    /\ \A id \in Known : server[id[1]] \in Replicas
    /\ \A j \in Joins : join[j] \in {"committed", "done"} => Id(j) \in Known

===============================================================================
