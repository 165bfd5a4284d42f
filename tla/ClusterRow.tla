----------------------------- MODULE ClusterRow -------------------------------
(***************************************************************************)
(* The rows of one cluster, and the transactions that update and delete    *)
(* them side by side: heartbeats of the cluster (remoteClusterStatusPost), *)
(* changes by an administrator (remoteClusterPatch), and deletions, by an  *)
(* administrator or by the cluster itself (remoteClusterDelete of the      *)
(* management API and of the connector).                                   *)
(*                                                                         *)
(* All of them read remote_clusters, and later write back every column of  *)
(* what they read, to the row that has the name then.  PostgreSQL runs     *)
(* them as READ COMMITTED: a read takes no lock and sees what is           *)
(* committed; an update or a delete locks the row until the transaction    *)
(* ends, and waits for whoever holds it.  Deleting the row of the cluster  *)
(* deletes its rows in remote_cluster_details and remote_cluster_config,   *)
(* each of which is locked then.                                           *)
(*                                                                         *)
(* Only one name is modelled: transactions for different names meet in no  *)
(* row.  Clusters that join under it, one after the other, have IDs of     *)
(* their own.  A read, and the lock a statement takes, is a step; a        *)
(* write shows when the transaction commits.  Of the columns that are      *)
(* written back, the certificate and the UUID stand for all.               *)
(*                                                                         *)
(* A heartbeat that brings metrics sends them to Prometheus before it      *)
(* commits, with its rows locked, and waits for the answer as long as that *)
(* takes.  What has a limit, of 10 seconds, is the transaction.            *)
(***************************************************************************)

EXTENDS Naturals

CONSTANTS
    Clusters,        \* IDs of the clusters that join under the name
    Requests,        \* requests that update or delete the cluster
    NoCluster,       \* no row has the name; no UUID; nothing read
    NoRequest,       \* a column that no request has written
    MaxRetries       \* attempts at a transaction

ASSUME NoClusterAssumption == NoCluster \notin Clusters
ASSUME NoRequestAssumption == NoRequest \notin Requests
ASSUME MaxRetriesAssumption == MaxRetries \in Nat \ {0}

VARIABLES
    named,           \* the cluster whose row in remote_clusters has the name
    joined,          \* the clusters that have joined
    certificate,     \* columns of that row: whose certificate
    uuid,            \*   and whose UUID it has
    threshold,       \* its rows in remote_cluster_config: who wrote their value
    rewritten,       \* (history) clusters over whose row a patch that sets no
                     \*   threshold has written what it read of another's
    kind,            \* kind[t]: what request t does
    sets,            \* sets[t]: what its payload contains
    at,              \* at[t]: where its transaction is
    on,              \* on[t]: the cluster it is about, as far as it knows
    copy,            \* copy[t]: the row it read
    held,            \* held[t]: which rows of cluster on[t] it has locked
    attempt          \* attempt[t]: how often the transaction was begun

rowVars == <<certificate, uuid, threshold, rewritten>>
requestVars == <<kind, sets, at, on, copy, held, attempt>>
vars == <<named, joined, rowVars, requestVars>>

Keys == {"disk", "memory"}               \* keys in remote_cluster_config
Lockables == {"detail", "row"} \union Keys
Fields == {"uuid", "metrics"} \union Keys
Writers == Requests \union {NoRequest}

Row == [cluster : Clusters \union {NoCluster},
        certificate : Clusters \union {NoCluster},
        uuid : Clusters \union {NoCluster}]

\* The row that has the name, as it is committed.
Columns == [cluster |-> named, certificate |-> certificate, uuid |-> uuid]

NoRow == [cluster |-> NoCluster, certificate |-> NoCluster, uuid |-> NoCluster]

Kinds == {"none", "heartbeat", "patch", "delete", "leave"}
Deletes == {"delete", "leave"}
Writing == {"writing", "forwarding"}
States == {"new", "begun", "expired", "done", "failed"} \union Writing

\* The type of the state.
TypeOK ==
    /\ named \in Clusters \union {NoCluster}
    /\ joined \subseteq Clusters
    /\ certificate \in Clusters \union {NoCluster}
    /\ uuid \in Clusters \union {NoCluster}
    /\ threshold \in [Keys -> Writers]
    /\ rewritten \subseteq Clusters
    /\ kind \in [Requests -> Kinds]
    /\ sets \in [Requests -> SUBSET Fields]
    /\ at \in [Requests -> States]
    /\ on \in [Requests -> Clusters \union {NoCluster}]
    /\ copy \in [Requests -> Row]
    /\ held \in [Requests -> SUBSET Lockables]
    /\ attempt \in [Requests -> 1..MaxRetries]

Init ==
    /\ named = NoCluster
    /\ joined = {}
    /\ certificate = NoCluster
    /\ uuid = NoCluster
    /\ threshold = [k \in Keys |-> NoRequest]
    /\ rewritten = {}
    /\ kind = [t \in Requests |-> "none"]
    /\ sets = [t \in Requests |-> {}]
    /\ at = [t \in Requests |-> "new"]
    /\ on = [t \in Requests |-> NoCluster]
    /\ copy = [t \in Requests |-> NoRow]
    /\ held = [t \in Requests |-> {}]
    /\ attempt = [t \in Requests |-> 1]

-------------------------------------------------------------------------------
(***************************************************************************)
(* Clusters join, one after the other: the transaction that inserts the    *)
(* rows of a cluster waits until no row has the name.  Module Enrollment   *)
(* has its steps.                                                          *)
(***************************************************************************)

Join(c) ==
    /\ c \notin joined
    /\ named = NoCluster
    /\ named' = c
    /\ joined' = joined \union {c}
    /\ certificate' = c
    /\ uuid' = NoCluster
    /\ threshold' = [k \in Keys |-> NoRequest]
    /\ UNCHANGED <<rewritten, requestVars>>

-------------------------------------------------------------------------------
(***************************************************************************)
(* Requests begin: a cluster is authenticated as a cluster that has        *)
(* joined, and may have been deleted since; an administrator names it.     *)
(***************************************************************************)

Begin(t, k, fields) ==
    /\ at[t] = "new"
    /\ kind' = [kind EXCEPT ![t] = k]
    /\ sets' = [sets EXCEPT ![t] = fields]
    /\ at' = [at EXCEPT ![t] = "begun"]
    /\ UNCHANGED <<named, joined, rowVars, copy, held, attempt>>

\* Older versions of MicroCloud report no UUID.
BeginHeartbeat(t, c, fields) ==
    /\ c \in joined
    /\ Begin(t, "heartbeat", fields)
    /\ on' = [on EXCEPT ![t] = c]

BeginPatch(t, fields) ==
    /\ Begin(t, "patch", fields)
    /\ UNCHANGED on

BeginDelete(t) ==
    /\ Begin(t, "delete", {})
    /\ UNCHANGED on

BeginLeave(t, c) ==
    /\ c \in joined
    /\ Begin(t, "leave", {})
    /\ on' = [on EXCEPT ![t] = c]

-------------------------------------------------------------------------------
(***************************************************************************)
(* The transaction of a request reads the row of the cluster, ...          *)
(***************************************************************************)

Goes(t, to) == at' = [at EXCEPT ![t] = to]

\* A cluster's row is read by its ID, ...
ReadById(t) ==
    /\ at[t] = "begun"
    /\ kind[t] \in {"heartbeat", "leave"}
    /\ named = on[t]
    /\ named # NoCluster
    /\ copy' = [copy EXCEPT ![t] = Columns]
    /\ Goes(t, "writing")
    /\ UNCHANGED <<named, joined, rowVars, kind, sets, on, held, attempt>>

\* ... and the one an administrator names by its name.
ReadByName(t) ==
    /\ at[t] = "begun"
    /\ kind[t] = "patch"
    /\ named # NoCluster
    /\ copy' = [copy EXCEPT ![t] = Columns]
    /\ on' = [on EXCEPT ![t] = named]
    /\ Goes(t, "writing")
    /\ UNCHANGED <<named, joined, rowVars, kind, sets, held, attempt>>

\* The delete of an administrator reads nothing.
SkipRead(t) ==
    /\ at[t] = "begun"
    /\ kind[t] = "delete"
    /\ Goes(t, "writing")
    /\ UNCHANGED <<named, joined, rowVars, kind, sets, on, copy, held, attempt>>

-------------------------------------------------------------------------------
(***************************************************************************)
(* ... writes one row after the other, ...                                 *)
(***************************************************************************)

\* The rows a request writes.
Plan(t) ==
    CASE kind[t] = "heartbeat" -> {"detail", "row"}
      [] kind[t] = "patch" -> (sets[t] \intersect Keys) \union {"row"}
      [] kind[t] \in Deletes -> Lockables
      [] OTHER -> {}

\* Fault: a request that updates writes the row of the cluster first.
RankRowFirst(t, r) ==
    CASE r = "row" -> 1
      [] r = "detail" -> 2
      [] OTHER -> 3

\* Fault: the thresholds are written in the order a map happens to yield.
RankThresholdsInAnyOrder(t, r) ==
    CASE r = "row" -> IF kind[t] \in Deletes THEN 1 ELSE 4
      [] r = "detail" -> 2
      [] OTHER -> 3

\* In which order: updates end with the row of the cluster, a delete begins
\* with it, and goes on with the tables that refer to it.  The delete meets
\* the two thresholds in the order they happen to be stored.
Rank(t, r) ==
    CASE r = "row" -> IF kind[t] \in Deletes THEN 1 ELSE 5
      [] r = "detail" -> 2
      [] r = "disk" -> 3
      [] r = "memory" -> IF kind[t] \in Deletes THEN 3 ELSE 4

Missing(t) == Plan(t) \ held[t]

\* The row that the next statement of t writes.
Wants(t, r) ==
    /\ at[t] = "writing"
    /\ r \in Missing(t)
    /\ \A s \in Missing(t) : Rank(t, r) <= Rank(t, s)

\* Fault: the rows of other tables are found by the name too.
FoundByName(t, r) == named # NoCluster

\* Row r is there: it is found by the ID of the cluster, and the row of the
\* cluster itself by the name.
Found(t, r) ==
    /\ named # NoCluster
    /\ r # "row" => named = on[t]

\* Some other transaction has it locked.
Taken(t, r) == \E u \in Requests \ {t} : r \in held[u] /\ on[u] = named

\* Fault: a threshold is stored at once, in a transaction of its own.
LockAndStore(t, r) ==
    /\ Wants(t, r)
    /\ Found(t, r)
    /\ r \notin Keys => ~Taken(t, r)
    /\ held' = [held EXCEPT ![t] = @ \union {r}]
    /\ on' = [on EXCEPT ![t] = named]
    /\ threshold' = [k \in Keys |-> IF k = r /\ kind[t] = "patch" THEN t ELSE threshold[k]]
    /\ UNCHANGED <<named, joined, certificate, uuid, rewritten, kind, sets, at, copy, attempt>>

\* A statement finds its row and locks it.
Lock(t, r) ==
    /\ Wants(t, r)
    /\ Found(t, r)
    /\ ~Taken(t, r)
    /\ held' = [held EXCEPT ![t] = @ \union {r}]
    /\ on' = [on EXCEPT ![t] = named]
    /\ UNCHANGED <<named, joined, rowVars, kind, sets, at, copy, attempt>>

UpdateRemoteClusterDetail(t) == kind[t] = "heartbeat" /\ Lock(t, "detail")

UpdateRemoteClusterConfig(t, k) == kind[t] = "patch" /\ Lock(t, k)

UpdateRemoteCluster(t) == kind[t] \notin Deletes /\ Lock(t, "row")

DeleteRemoteCluster(t) == kind[t] \in Deletes /\ Lock(t, "row")

\* The rows of the other tables go with that of the cluster.
Cascade(t, r) == kind[t] \in Deletes /\ r # "row" /\ Lock(t, r)

-------------------------------------------------------------------------------
(***************************************************************************)
(* ... and commits, or is rolled back.                                     *)
(***************************************************************************)

\* The metrics are sent to Prometheus when everything is written.
Forward(t) ==
    /\ at[t] = "writing"
    /\ Missing(t) = {}
    /\ "metrics" \in sets[t]
    /\ Goes(t, "forwarding")
    /\ UNCHANGED <<named, joined, rowVars, kind, sets, on, copy, held, attempt>>

\* Nothing is left to do; Prometheus has answered, or failed to.
Written(t) ==
    /\ Missing(t) = {}
    /\ \/ at[t] = "writing" /\ "metrics" \notin sets[t]
       \/ at[t] = "forwarding"

\* What becomes visible.  A heartbeat writes every column it has read back,
\* but the UUID it reports (and the time, as joined_at); ...
StoreHeartbeat(t) ==
    /\ kind[t] = "heartbeat"
    /\ certificate' = copy[t].certificate
    /\ uuid' = IF "uuid" \in sets[t] THEN copy[t].cluster ELSE copy[t].uuid
    /\ UNCHANGED <<named, threshold, rewritten>>

\* ... a patch every column (but the description, if it sets one); ...
StorePatch(t) ==
    /\ kind[t] = "patch"
    /\ certificate' = copy[t].certificate
    /\ uuid' = copy[t].uuid
    /\ threshold' = [k \in Keys |-> IF k \in sets[t] THEN t ELSE threshold[k]]
    /\ rewritten' = IF copy[t].cluster # named /\ sets[t] \intersect Keys = {}
                    THEN rewritten \union {named} ELSE rewritten
    /\ UNCHANGED named

\* ... and a delete leaves nothing.
StoreDelete(t) ==
    /\ kind[t] \in Deletes
    /\ named' = NoCluster
    /\ UNCHANGED rowVars

Store(t) ==
    /\ Written(t)
    /\ StoreHeartbeat(t) \/ StorePatch(t) \/ StoreDelete(t)
    /\ held' = [held EXCEPT ![t] = {}]
    /\ copy' = [copy EXCEPT ![t] = NoRow]
    /\ UNCHANGED <<joined, kind, sets, on>>

\* to = "failed" when the answer to the commit is lost, or the 10 seconds of
\* the transaction are over just then.
Commit(t, to) ==
    /\ Store(t)
    /\ Goes(t, to)
    /\ UNCHANGED attempt

\* The answer to the commit is a transient error: the function runs again.
CommitAndRetry(t) ==
    /\ attempt[t] < MaxRetries
    /\ Store(t)
    /\ Goes(t, "begun")
    /\ attempt' = [attempt EXCEPT ![t] = @ + 1]

Ends(t, to) ==
    /\ Goes(t, to)
    /\ held' = [held EXCEPT ![t] = {}]
    /\ copy' = [copy EXCEPT ![t] = NoRow]
    /\ UNCHANGED <<named, joined, rowVars, kind, sets, on>>

\* No such row is found: none is affected.
NotFound(t) ==
    /\ \/ at[t] = "begun" /\ kind[t] # "delete"
            /\ (named = NoCluster \/ (kind[t] # "patch" /\ named # on[t]))
       \/ \E r \in Lockables : Wants(t, r) /\ ~Found(t, r)
    /\ Ends(t, "failed")
    /\ UNCHANGED attempt

\* The transaction fails: an error that is not transient, or the time is over.
RollBack(t) ==
    /\ at[t] \in {"begun", "writing"}
    /\ Ends(t, "failed")
    /\ UNCHANGED attempt

\* Fault: one attempt too many.
RollBackAndRetryOnceMore(t) ==
    /\ at[t] \in {"begun", "writing"}
    /\ attempt[t] <= MaxRetries
    /\ Ends(t, "begun")
    /\ attempt' = [attempt EXCEPT ![t] = @ + 1]

\* A transient error: it is rolled back and run again.
RollBackAndRetry(t) ==
    /\ at[t] \in {"begun", "writing"}
    /\ attempt[t] < MaxRetries
    /\ Ends(t, "begun")
    /\ attempt' = [attempt EXCEPT ![t] = @ + 1]

\* The 10 seconds of the transaction are over while Prometheus has not
\* answered: the database rolls it back, the handler goes on waiting, ...
Expire(t) ==
    /\ at[t] = "forwarding"
    /\ Ends(t, "expired")
    /\ UNCHANGED attempt

\* ... and finds nothing to commit then.
AnswerLate(t) ==
    /\ at[t] = "expired"
    /\ Ends(t, "failed")
    /\ UNCHANGED attempt

\* Each of S waits for a row that another of S has locked.
Stuck(S) ==
    \A t \in S :
        /\ at[t] = "writing" /\ Missing(t) # {}
        /\ \A r \in Lockables : Wants(t, r) =>
            Found(t, r) /\ \E u \in S \ {t} : r \in held[u] /\ on[u] = named

Cycle(S) == S # {} /\ Stuck(S) /\ \A T \in SUBSET S : T # {} /\ Stuck(T) => T = S

Deadlocked(t) == \E S \in SUBSET Requests : t \in S /\ Cycle(S)

\* Fault: a victim of a deadlock is run again without a limit.
ResolveForever(t) ==
    /\ Deadlocked(t)
    /\ Ends(t, "begun")
    /\ UNCHANGED attempt

\* The database has found a deadlock, and rolls one of its transactions back:
\* this error is transient.
Resolve(t) ==
    /\ Deadlocked(t)
    /\ \/ /\ attempt[t] < MaxRetries
          /\ Ends(t, "begun")
          /\ attempt' = [attempt EXCEPT ![t] = @ + 1]
       \/ /\ attempt[t] = MaxRetries
          /\ Ends(t, "failed")
          /\ UNCHANGED attempt

-------------------------------------------------------------------------------
Proceed(t) ==
    \/ ReadById(t) \/ ReadByName(t) \/ SkipRead(t)
    \/ UpdateRemoteClusterDetail(t) \/ UpdateRemoteCluster(t)
    \/ \E k \in Keys : UpdateRemoteClusterConfig(t, k)
    \/ DeleteRemoteCluster(t) \/ \E r \in Lockables : Cascade(t, r)
    \/ Forward(t) \/ NotFound(t)
    \/ at[t] = "writing" /\ Commit(t, "done")

RequestBegins(t) ==
    \/ \E c \in Clusters :
        \/ \E fields \in SUBSET {"uuid", "metrics"} : BeginHeartbeat(t, c, fields)
        \/ BeginLeave(t, c)
    \/ \E fields \in SUBSET Keys : BeginPatch(t, fields)
    \/ BeginDelete(t)

Next ==
    \/ \E c \in Clusters : Join(c)
    \/ \E t \in Requests :
        \/ RequestBegins(t) \/ Proceed(t) \/ Resolve(t)
        \/ \E to \in {"done", "failed"} : Commit(t, to)
        \/ CommitAndRetry(t) \/ RollBack(t) \/ RollBackAndRetry(t)
        \/ Expire(t) \/ AnswerLate(t)

Spec == Init /\ [][Next]_vars

(***************************************************************************)
(* Fairness: the database answers a statement that waits for no lock, it   *)
(* looks for deadlocks, and the time of a transaction ends.  Nothing is    *)
(* assumed of errors, nor of Prometheus.                                   *)
(***************************************************************************)
FairSpec ==
    Spec /\ \A t \in Requests :
        WF_vars(Proceed(t)) /\ WF_vars(Resolve(t)) /\ WF_vars(Expire(t))

-------------------------------------------------------------------------------
(***************************************************************************)
(* Correctness.                                                            *)
(***************************************************************************)

\* The row of a cluster has the cluster's own certificate, although updates
\* write back what they have read to the row that has the name by then: they
\* have a row of the cluster's details or thresholds locked before, no delete
\* gets past that, and so no other cluster takes the name meanwhile.  Only a
\* patch that sets no threshold locks nothing before: if the cluster it has
\* read was deleted, and another one has joined, the row of that one gets the
\* certificate of the deleted one.  Nothing else brings one in.
OwnCertificate == named # NoCluster => certificate = named \/ named \in rewritten

\* Heartbeats and patches never wait for each other in a circle, however many
\* there are: a deadlock takes a delete, which locks the rows of a cluster in
\* the opposite order.
DeadlocksTakeADelete ==
    \A S \in SUBSET Requests : Cycle(S) => \E t \in S : kind[t] \in Deletes

\* The two thresholds that are stored do not come from two patches each of
\* which set both.
ThresholdsOfOnePatch ==
    \A t, u \in Requests :
        /\ threshold["disk"] = t
        /\ threshold["memory"] = u
        /\ Keys \subseteq sets[t]
        /\ Keys \subseteq sets[u]
        => t = u

\* A request that has begun is answered, but one that waits for Prometheus
\* itself: deadlocks are resolved, their victims are not run again for ever,
\* and nobody else waits for Prometheus.
RequestsEnd ==
    \A t \in Requests : at[t] = "begun" ~> at[t] \in {"done", "failed", "forwarding"}

\* remote_cluster.go:251, "Persist the cluster UUID reported in the
\* heartbeat", and "only update the stored value when a valid UUID is
\* provided": a UUID that is stored is not lost.
UuidPersists ==
    [][named' = named /\ uuid # NoCluster => uuid' # NoCluster]_vars

-------------------------------------------------------------------------------
(***************************************************************************)
(* The inductive invariant of the proofs.                                  *)
(***************************************************************************)

\* Locks are held while a transaction writes, on rows that it writes.
PlanInv == \A t \in Requests :
    held[t] \subseteq Plan(t) /\ (held[t] # {} => at[t] \in Writing)

\* A lock is held on a row that is there: nobody deletes it meanwhile.
PinInv == \A t \in Requests : held[t] # {} => named # NoCluster /\ on[t] = named

\* No two transactions hold the same row.
ExclusiveInv == \A t, u \in Requests : t # u => held[t] \intersect held[u] = {}

\* The rows are locked in the order of their ranks.
OrderInv == \A t \in Requests : \A r \in held[t], s \in Missing(t) : Rank(t, r) <= Rank(t, s)

\* An update is about the cluster whose row it has read.  (But a patch that
\* sets no threshold learns which row it writes when it locks it.)
OwnInv == \A t \in Requests :
    /\ at[t] \in Writing
    /\ kind[t] \in {"heartbeat", "patch"}
    /\ "row" \notin held[t] \/ Plan(t) # {"row"}
    => on[t] = copy[t].cluster

\* What an update has read is the certificate of the cluster, as far as the
\* row has it.
CopyInv == \A t \in Requests :
    at[t] \in Writing /\ kind[t] \in {"heartbeat", "patch"} =>
        copy[t].certificate = copy[t].cluster \/ copy[t].cluster \in rewritten

\* Who has stored a threshold has begun.
WriterInv == \A t \in Requests :
    at[t] = "new" => kind[t] = "none" /\ \A k \in Keys : threshold[k] # t

IInv ==
    /\ TypeOK /\ PlanInv /\ PinInv /\ ExclusiveInv /\ OrderInv /\ OwnInv /\ CopyInv
    /\ OwnCertificate /\ WriterInv /\ ThresholdsOfOnePatch

===============================================================================
