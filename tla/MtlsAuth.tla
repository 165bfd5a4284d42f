------------------------------- MODULE MtlsAuth -------------------------------
(***************************************************************************)
(* Mutual TLS authentication of remote clusters, on all the replicas of    *)
(* the cluster connector.                                                  *)
(*                                                                         *)
(* Each replica keeps a cache of the certificates it trusts, keyed by      *)
(* fingerprint.  A request that finds the cache expired rebuilds it from   *)
(* remote_clusters under the cache's lock; a join adds its certificate to  *)
(* the cache of the replica that serves it, after its transaction has      *)
(* committed.  Nothing tells a replica of a deletion, or of a join that    *)
(* another replica serves: it learns of them when its cache expires.       *)
(*                                                                         *)
(* Joins are taken from Enrollment, reduced to what the cache sees: the    *)
(* commit of the row, and the call of AddCertificate.  ClusterAccess has   *)
(* both in full and implements this module.  Patches and heartbeats are    *)
(* reduced to what they may do to the certificate of a row.                *)
(***************************************************************************)

EXTENDS Naturals

CONSTANTS
    Replicas,        \* replicas of the cluster connector
    Clusters,        \* IDs of rows in remote_clusters, never given again
    Fingerprints,    \* fingerprints of certificates
    Names,           \* names of clusters
    Auths,           \* goroutines that serve requests of remote clusters
    NoCluster,       \* a nil cache entry
    NoAuth,          \* the cache is not being rebuilt
    MaxRetries,      \* attempts at a transaction
    None             \* a replica, a fingerprint or a name not chosen yet

ASSUME NoClusterAssumption == NoCluster \notin Clusters
ASSUME NoAuthAssumption == NoAuth \notin Auths
ASSUME MaxRetriesAssumption == MaxRetries \in Nat \ {0}
ASSUME NoneAssumption == None \notin Replicas \union Fingerprints \union Names

VARIABLES
    rows,            \* remote_clusters: IDs of the committed rows
    removed,         \* IDs of the rows that were deleted
    join,            \* join[i]: where the join that inserts row i is
    server,          \* server[i]: the replica that serves that join
    name,            \* name[i]: the name in row i
    fingerprint,     \* fingerprint[i]: of the certificate row i was inserted with
    column,          \* column[i]: of the certificate that is in row i by now
    rewritten,       \* rows that got another's (history: no action reads it)
    cache,           \* cache[r]: CertificatesCache.Certificates of r
    fresh,           \* fresh[r]: r's TTL has not passed
    builder,         \* builder[r]: the request that rebuilds r's cache
    attempt,         \* attempt[r]: how often its transaction was begun
    snapshot,        \* snapshot[r]: the entries it has read
    auth,            \* auth[a]: where the request is
    place,           \* place[a]: the replica that serves it
    presented,       \* presented[a]: the fingerprint of the peer certificate
    result           \* result[a]: the cluster it is authenticated as

rowVars == <<rows, removed, name, fingerprint, column, rewritten>>
joinVars == <<rowVars, join, server>>
cacheVars == <<cache, fresh, builder, attempt, snapshot>>
authVars == <<auth, place, presented, result>>
vars == <<joinVars, cacheVars, authVars>>

Entries == [Fingerprints -> Clusters \union {NoCluster}]
NoEntries == [f \in Fingerprints |-> NoCluster]

JoinStates == {"new", "committed", "done", "failed"}
AuthStates == {"idle", "presented", "expired", "building", "filling", "checking",
               "trusted", "accepted", "rejected"}

\* The type of the state.
TypeOK ==
    /\ rows \subseteq Clusters
    /\ removed \subseteq Clusters
    /\ join \in [Clusters -> JoinStates]
    /\ server \in [Clusters -> Replicas \union {None}]
    /\ name \in [Clusters -> Names \union {None}]
    /\ fingerprint \in [Clusters -> Fingerprints \union {None}]
    /\ column \in [Clusters -> Fingerprints \union {None}]
    /\ rewritten \subseteq Clusters
    /\ cache \in [Replicas -> Entries]
    /\ fresh \in [Replicas -> BOOLEAN]
    /\ builder \in [Replicas -> Auths \union {NoAuth}]
    /\ attempt \in [Replicas -> 1..MaxRetries]
    /\ snapshot \in [Replicas -> Entries]
    /\ auth \in [Auths -> AuthStates]
    /\ place \in [Auths -> Replicas \union {None}]
    /\ presented \in [Auths -> Fingerprints \union {None}]
    /\ result \in [Auths -> Clusters \union {NoCluster}]

\* A cache starts with a zero TTL, which is expired.
Init ==
    /\ rows = {}
    /\ removed = {}
    /\ join = [i \in Clusters |-> "new"]
    /\ server = [i \in Clusters |-> None]
    /\ name = [i \in Clusters |-> None]
    /\ fingerprint = [i \in Clusters |-> None]
    /\ column = [i \in Clusters |-> None]
    /\ rewritten = {}
    /\ cache = [r \in Replicas |-> NoEntries]
    /\ fresh = [r \in Replicas |-> FALSE]
    /\ builder = [r \in Replicas |-> NoAuth]
    /\ attempt = [r \in Replicas |-> 1]
    /\ snapshot = [r \in Replicas |-> NoEntries]
    /\ auth = [a \in Auths |-> "idle"]
    /\ place = [a \in Auths |-> None]
    /\ presented = [a \in Auths |-> None]
    /\ result = [a \in Auths |-> NoCluster]

Unlocked(r) == builder[r] = NoAuth

-------------------------------------------------------------------------------
(***************************************************************************)
(* remote_clusters.                                                        *)
(***************************************************************************)

\* The transaction of a join as n commits, served by r, with a certificate of
\* fingerprint f; to = "failed" when the answer of the commit is lost or r
\* dies before the join goes on.  The unique constraint is on the text of the
\* certificate, not on its fingerprint.
Commit(i, r, n, f, to) ==
    /\ join[i] = "new"
    /\ rows' = rows \union {i}
    /\ join' = [join EXCEPT ![i] = to]
    /\ server' = [server EXCEPT ![i] = r]
    /\ name' = [name EXCEPT ![i] = n]
    /\ fingerprint' = [fingerprint EXCEPT ![i] = f]
    /\ column' = [column EXCEPT ![i] = f]
    /\ UNCHANGED <<removed, rewritten, cacheVars, authVars>>

\* The ID is drawn and the transaction is rolled back.
RollBack(i) ==
    /\ join[i] = "new"
    /\ join' = [join EXCEPT ![i] = "failed"]
    /\ UNCHANGED <<rowVars, server, cacheVars, authVars>>

\* By an administrator, or the cluster leaves.
Delete(i) ==
    /\ i \in rows
    /\ rows' = rows \ {i}
    /\ removed' = removed \union {i}
    /\ UNCHANGED <<name, fingerprint, column, rewritten, join, server, cacheVars, authVars>>

\* f is of the certificate that i joined with, or a cluster of the same name
\* that was deleted.
IsFrom(f, i) == \E k \in removed \union {i} : f = fingerprint[k] /\ name[k] = name[i]

\* A patch or a heartbeat writes every column of the row back, the certificate
\* as it was read included.  Both times the row is found by name, so this may be
\* the certificate of a cluster that was deleted in between.
Rewrite(i, f) ==
    /\ i \in rows
    /\ IsFrom(f, i)
    /\ column' = [column EXCEPT ![i] = f]
    /\ rewritten' = IF f = fingerprint[i] THEN rewritten ELSE rewritten \union {i}
    /\ UNCHANGED <<rows, removed, name, fingerprint, join, server, cacheVars, authVars>>

-------------------------------------------------------------------------------
(***************************************************************************)
(* The cache of a replica.                                                 *)
(***************************************************************************)

\* Fault: the certificate is added without the lock.
AddCertificateUnlocked(i) ==
    /\ join[i] = "committed"
    /\ join' = [join EXCEPT ![i] = "done"]
    /\ cache' = [cache EXCEPT ![server[i]][fingerprint[i]] = i]
    /\ UNCHANGED <<rowVars, server, fresh, builder, attempt, snapshot, authVars>>

\* AddCertificate, after the commit: an entry of the same fingerprint is
\* overwritten, and the row may have been deleted by now.
AddCertificate(i) ==
    /\ join[i] = "committed"
    /\ Unlocked(server[i])
    /\ join' = [join EXCEPT ![i] = "done"]
    /\ cache' = [cache EXCEPT ![server[i]][fingerprint[i]] = i]
    /\ UNCHANGED <<rowVars, server, fresh, builder, attempt, snapshot, authVars>>

\* 60 seconds after a rebuild.
Expire(r) ==
    /\ fresh[r]
    /\ fresh' = [fresh EXCEPT ![r] = FALSE]
    /\ UNCHANGED <<joinVars, cache, builder, attempt, snapshot, authVars>>

-------------------------------------------------------------------------------
(***************************************************************************)
(* A request a: MtlsAuthenticator.Auth.                                    *)
(***************************************************************************)

AuthGoes(a, to) == auth' = [auth EXCEPT ![a] = to]

Present(a, r, f) ==
    /\ auth[a] = "idle"
    /\ AuthGoes(a, "presented")
    /\ place' = [place EXCEPT ![a] = r]
    /\ presented' = [presented EXCEPT ![a] = f]
    /\ UNCHANGED <<joinVars, cacheVars, result>>

\* Expired, under the read lock.
CheckExpiry(a) ==
    /\ auth[a] = "presented"
    /\ Unlocked(place[a])
    /\ AuthGoes(a, IF fresh[place[a]] THEN "checking" ELSE "expired")
    /\ UNCHANGED <<joinVars, cacheVars, place, presented, result>>

\* RebuildCache, by the time its lock is free: another request has rebuilt
\* the cache ...
RebuildSkipped(a) ==
    /\ auth[a] = "expired"
    /\ Unlocked(place[a])
    /\ fresh[place[a]]
    /\ AuthGoes(a, "checking")
    /\ UNCHANGED <<joinVars, cacheVars, place, presented, result>>

\* ... or this one does.
BeginRebuild(a) ==
    /\ auth[a] = "expired"
    /\ Unlocked(place[a])
    /\ ~fresh[place[a]]
    /\ builder' = [builder EXCEPT ![place[a]] = a]
    /\ AuthGoes(a, "building")
    /\ UNCHANGED <<joinVars, cache, fresh, attempt, snapshot, place, presented, result>>

\* Fault: deleted rows are not left out.
RowsWithDeleted(f) == {i \in rows \union removed : column[i] = f}

\* The rebuild skips a certificate it cannot parse; no row has one, for a join
\* parses its certificate first and an update writes one that was in a row.
RowsWith(f) == {i \in rows : column[i] = f}

\* What one query of the rows gives; of two rows with one fingerprint the
\* last in the order of their names counts.
ReadRows(a) ==
    /\ auth[a] = "building"
    /\ \E s \in Entries :
        /\ \A f \in Fingerprints :
            IF RowsWith(f) = {} THEN s[f] = NoCluster ELSE s[f] \in RowsWith(f)
        /\ snapshot' = [snapshot EXCEPT ![place[a]] = s]
    /\ AuthGoes(a, "filling")
    /\ UNCHANGED <<joinVars, cache, fresh, builder, attempt, place, presented, result>>

Release(a) ==
    /\ builder' = [builder EXCEPT ![place[a]] = NoAuth]
    /\ attempt' = [attempt EXCEPT ![place[a]] = 1]
    /\ snapshot' = [snapshot EXCEPT ![place[a]] = NoEntries]

\* Fault: the entries read are added to those that are there.
FillCacheMerges(a, to) ==
    /\ auth[a] = "filling"
    /\ LET r == place[a] IN
        /\ cache' = [cache EXCEPT ![r] = [f \in Fingerprints |->
                        IF snapshot[r][f] = NoCluster THEN cache[r][f] ELSE snapshot[r][f]]]
        /\ fresh' = [fresh EXCEPT ![r] = TRUE]
    /\ Release(a)
    /\ AuthGoes(a, to)
    /\ UNCHANGED <<joinVars, place, presented, result>>

\* The cache is replaced and its TTL set, then the transaction ends; when its
\* commit fails the request is rejected, but the cache stays as it is.
FillCache(a, to) ==
    /\ auth[a] = "filling"
    /\ cache' = [cache EXCEPT ![place[a]] = snapshot[place[a]]]
    /\ fresh' = [fresh EXCEPT ![place[a]] = TRUE]
    /\ Release(a)
    /\ AuthGoes(a, to)
    /\ UNCHANGED <<joinVars, place, presented, result>>

\* Fault: the lock is not released when the rebuild fails.
RebuildFailsLocked(a) ==
    /\ auth[a] \in {"building", "filling"}
    /\ AuthGoes(a, "rejected")
    /\ UNCHANGED <<joinVars, cacheVars, place, presented, result>>

\* The query fails: the cache stays expired.
RebuildFails(a) ==
    /\ auth[a] \in {"building", "filling"}
    /\ Release(a)
    /\ AuthGoes(a, "rejected")
    /\ UNCHANGED <<joinVars, cache, fresh, place, presented, result>>

\* The transaction begins again, with the lock held all along.
BeginAgain(a) ==
    /\ attempt' = [attempt EXCEPT ![place[a]] = @ + 1]
    /\ snapshot' = [snapshot EXCEPT ![place[a]] = NoEntries]
    /\ AuthGoes(a, "building")
    /\ UNCHANGED <<joinVars, builder, place, presented, result>>

\* A transient error of the query ...
RetryRebuild(a) ==
    /\ auth[a] \in {"building", "filling"}
    /\ attempt[place[a]] < MaxRetries
    /\ BeginAgain(a)
    /\ UNCHANGED <<cache, fresh>>

\* ... or of the commit, when the cache has been replaced already.
FillCacheAndRetry(a) ==
    /\ auth[a] = "filling"
    /\ attempt[place[a]] < MaxRetries
    /\ cache' = [cache EXCEPT ![place[a]] = snapshot[place[a]]]
    /\ fresh' = [fresh EXCEPT ![place[a]] = TRUE]
    /\ BeginAgain(a)

\* GetTrustedCerts and CheckMutualTLS, which also looks at the certificate's
\* period of validity.
CheckTrusted(a) ==
    /\ auth[a] = "checking"
    /\ Unlocked(place[a])
    /\ \E valid \in BOOLEAN :
        AuthGoes(a, IF valid /\ cache[place[a]][presented[a]] # NoCluster THEN "trusted" ELSE "rejected")
    /\ UNCHANGED <<joinVars, cacheVars, place, presented, result>>

\* Fault: the entry is taken to be there still, and a request that lost it is
\* let through as whatever cluster the replica has.
GetEntryUnchecked(a) ==
    /\ auth[a] = "trusted"
    /\ Unlocked(place[a])
    /\ \E f \in Fingerprints : result' = [result EXCEPT ![a] = cache[place[a]][f]]
    /\ AuthGoes(a, "accepted")
    /\ UNCHANGED <<joinVars, cacheVars, place, presented>>

\* GetCertificateEntry: the cache may have been rebuilt since.
GetEntry(a) ==
    /\ auth[a] = "trusted"
    /\ Unlocked(place[a])
    /\ result' = [result EXCEPT ![a] = cache[place[a]][presented[a]]]
    /\ AuthGoes(a, IF cache[place[a]][presented[a]] # NoCluster THEN "accepted" ELSE "rejected")
    /\ UNCHANGED <<joinVars, cacheVars, place, presented>>

\* The request is served or refused, and another one may come.  Serving one
\* may take for ever: behind the same authenticator is remoteClusterWsGet,
\* which lasts as long as its WebSocket, and no deletion closes that.
Finish(a) ==
    /\ auth[a] \in {"accepted", "rejected"}
    /\ AuthGoes(a, "idle")
    /\ place' = [place EXCEPT ![a] = None]
    /\ presented' = [presented EXCEPT ![a] = None]
    /\ result' = [result EXCEPT ![a] = NoCluster]
    /\ UNCHANGED <<joinVars, cacheVars>>

-------------------------------------------------------------------------------
\* A replica dies and is started again with an empty, expired cache.
Restart(r) ==
    LET auths == {a \in Auths : place[a] = r}
        joins == {i \in Clusters : server[i] = r /\ join[i] = "committed"} IN
    /\ cache' = [cache EXCEPT ![r] = NoEntries]
    /\ fresh' = [fresh EXCEPT ![r] = FALSE]
    /\ builder' = [builder EXCEPT ![r] = NoAuth]
    /\ attempt' = [attempt EXCEPT ![r] = 1]
    /\ snapshot' = [snapshot EXCEPT ![r] = NoEntries]
    /\ join' = [i \in Clusters |-> IF i \in joins THEN "failed" ELSE join[i]]
    /\ auth' = [a \in Auths |-> IF a \in auths THEN "idle" ELSE auth[a]]
    /\ place' = [a \in Auths |-> IF a \in auths THEN None ELSE place[a]]
    /\ presented' = [a \in Auths |-> IF a \in auths THEN None ELSE presented[a]]
    /\ result' = [a \in Auths |-> IF a \in auths THEN NoCluster ELSE result[a]]
    /\ UNCHANGED <<rowVars, server>>

-------------------------------------------------------------------------------
\* What authenticates a request; the handler it is let through to is not in it.
AuthProceeds(a) ==
    \/ CheckExpiry(a) \/ RebuildSkipped(a) \/ BeginRebuild(a) \/ ReadRows(a)
    \/ FillCache(a, "checking") \/ FillCache(a, "rejected") \/ RebuildFails(a)
    \/ RetryRebuild(a) \/ FillCacheAndRetry(a)
    \/ CheckTrusted(a) \/ GetEntry(a)

Next ==
    \/ \E i \in Clusters :
        \/ RollBack(i) \/ Delete(i) \/ AddCertificate(i)
        \/ \E r \in Replicas, n \in Names, f \in Fingerprints, to \in {"committed", "failed"} :
            Commit(i, r, n, f, to)
        \/ \E f \in Fingerprints : Rewrite(i, f)
    \/ \E a \in Auths :
        \/ AuthProceeds(a) \/ Finish(a)
        \/ \E r \in Replicas, f \in Fingerprints : Present(a, r, f)
    \/ \E r \in Replicas : Expire(r) \/ Restart(r)

Spec == Init /\ [][Next]_vars

(***************************************************************************)
(* Fairness: time passes; goroutines are scheduled, and sync.RWMutex does  *)
(* not let a goroutine that waits for it starve, hence strong fairness for *)
(* the steps that take the cache's lock.  Nothing says that a request that *)
(* was let through is ever served to its end.                              *)
(***************************************************************************)
FairSpec ==
    /\ Spec
    /\ \A r \in Replicas : WF_vars(Expire(r))
    /\ \A i \in Clusters : SF_vars(AddCertificate(i))
    /\ \A a \in Auths : SF_vars(AuthProceeds(a))

-------------------------------------------------------------------------------
(***************************************************************************)
(* Correctness.                                                            *)
(***************************************************************************)

\* Row i may have had a certificate of f.
Carried(f, i) == f = fingerprint[i] \/ (i \in rewritten /\ IsFrom(f, i))

\* A request is let through only as a cluster whose join committed, with the
\* certificate it joined with or that of a deleted cluster of its name which an
\* update has put in its row: never as a join that was rolled back, never as the
\* cluster that took the place of an entry while the request was between its
\* reads of the cache.
AuthenticatedAsItself ==
    \A a \in Auths : auth[a] = "accepted" =>
        /\ result[a] \in rows \union removed
        /\ Carried(presented[a], result[a])

\* The replica that answered a join trusts the cluster from then on until the
\* cluster is deleted, or its row gets another's certificate: no rebuild that
\* had read the rows before the join committed takes its certificate out of
\* the cache again.
JoinedIsTrusted ==
    \A i \in rows : (join[i] = "done" /\ fresh[server[i]] /\ i \notin rewritten) =>
        cache[server[i]][fingerprint[i]] # NoCluster

\* No replica knows i, and none is about to.
Forgotten(i) ==
    /\ i \in removed
    /\ join[i] # "committed"
    /\ \A r \in Replicas, f \in Fingerprints : cache[r][f] # i /\ snapshot[r][f] # i

\* A step that lets nobody through as i who was not before.
LetsNobodyIn(i) == \A a \in Auths : result'[a] = i => result[a] = i

\* A deleted cluster that is forgotten stays so, and no request is let through
\* as that cluster any more: neither a rebuild, run again or late, nor a join
\* brings it back.
RevokedForGood ==
    [][\A i \in Clusters : Forgotten(i) => Forgotten(i)' /\ LetsNobodyIn(i)]_vars

\* A deletion takes effect on every replica in the end, although a join may
\* add the certificate after it, a rebuild may have read the row before it,
\* and rebuilds may fail: from some point on no request is let through as the
\* deleted cluster.  (Those that were before may go on.)
RevokedInTheEnd ==
    \A i \in Clusters : <>(i \in removed) => <>[][LetsNobodyIn(i)]_vars

\* A request of a remote cluster is answered, however many others wait for
\* the cache's lock and whatever becomes of their rebuilds.
AuthsEnd ==
    \A a \in Auths : auth[a] = "presented" ~> auth[a] \in {"accepted", "rejected", "idle"}

-------------------------------------------------------------------------------
(***************************************************************************)
(* The inductive invariant of the proofs.                                  *)
(***************************************************************************)

Known == rows \union removed

\* A row was committed by a join that is over, or that goes on to the cache;
\* once deleted it is never there again.
JoinInv ==
    /\ rows \intersect removed = {}
    /\ \A i \in Known : join[i] # "new" /\ server[i] \in Replicas /\ fingerprint[i] \in Fingerprints
    /\ \A i \in Known : Carried(column[i], i)
    /\ \A i \in Clusters : join[i] \in {"committed", "done"} => i \in Known

\* Entries, in the cache or read from the database, are of committed rows.
EntriesInv ==
    \A r \in Replicas, f \in Fingerprints :
        /\ cache[r][f] # NoCluster => cache[r][f] \in Known /\ Carried(f, cache[r][f])
        /\ snapshot[r][f] # NoCluster => snapshot[r][f] \in Known /\ Carried(f, snapshot[r][f])

\* A request that is under way has a replica, and rebuilds that replica's
\* cache exactly while it holds the lock.
LockInv ==
    /\ \A a \in Auths : auth[a] # "idle" => place[a] \in Replicas /\ presented[a] \in Fingerprints
    /\ \A a \in Auths : auth[a] \in {"building", "filling"} => builder[place[a]] = a
    /\ \A r \in Replicas : builder[r] # NoAuth =>
        place[builder[r]] = r /\ auth[builder[r]] \in {"building", "filling"}

\* What a rebuild has read covers every join that its replica has answered:
\* the others wait for the lock.
SnapshotInv ==
    \A a \in Auths, i \in rows :
        (auth[a] = "filling" /\ join[i] = "done" /\ server[i] = place[a] /\ i \notin rewritten) =>
            snapshot[place[a]][fingerprint[i]] # NoCluster

\* Inductive: entries never name a cluster that has nothing to do with their
\* certificate, and the lock keeps joins out of a rebuild (cache.go:34, 83).
IInv ==
    /\ TypeOK
    /\ JoinInv
    /\ EntriesInv
    /\ LockInv
    /\ SnapshotInv
    /\ AuthenticatedAsItself
    /\ JoinedIsTrusted

===============================================================================
