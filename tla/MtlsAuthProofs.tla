-------------------------- MODULE MtlsAuthProofs ---------------------------
(***************************************************************************)
(* Proofs about MtlsAuth, for every set of replicas, clusters,             *)
(* fingerprints and requests and every number of retries.  IInv is         *)
(* inductive; each of its conjuncts has a lemma, with one step per action. *)
(***************************************************************************)
EXTENDS MtlsAuth, TLAPS

LEMMA InitIInv == Init => IInv
BY NoClusterAssumption, NoAuthAssumption, NoneAssumption, MaxRetriesAssumption
   DEF Init, IInv, TypeOK, Entries, NoEntries, JoinStates, AuthStates, Known, JoinInv,
       EntriesInv, LockInv, SnapshotInv, AuthenticatedAsItself, JoinedIsTrusted

\* Every step keeps the state in its type.
LEMMA TypeStep ==
  ASSUME TypeOK, JoinInv, LockInv, [Next]_vars
  PROVE  TypeOK'
<1> USE NoClusterAssumption, NoAuthAssumption, NoneAssumption,
   MaxRetriesAssumption DEF TypeOK, JoinInv, LockInv, Known, Entries,
   NoEntries, JoinStates, AuthStates
<1>1. ASSUME NEW i \in Clusters, RollBack(i)
      PROVE  TypeOK'
  BY <1>1 DEF RollBack, rowVars, joinVars, cacheVars, authVars
<1>2. ASSUME NEW i \in Clusters, Delete(i)
      PROVE  TypeOK'
  BY <1>2 DEF Delete, rowVars, joinVars, cacheVars, authVars
<1>3. ASSUME NEW i \in Clusters, AddCertificate(i)
      PROVE  TypeOK'
  BY <1>3 DEF AddCertificate, Unlocked, rowVars, joinVars, cacheVars, authVars
<1>4. ASSUME NEW i \in Clusters, NEW r \in Replicas, NEW n \in Names, NEW f \in Fingerprints,
             NEW to \in {"committed", "failed"}, Commit(i, r, n, f, to)
      PROVE  TypeOK'
  BY <1>4 DEF Commit, rowVars, joinVars, cacheVars, authVars
<1>20. ASSUME NEW i \in Clusters, NEW f \in Fingerprints, Rewrite(i, f)
       PROVE  TypeOK'
  BY <1>20 DEF Rewrite, rowVars, joinVars, cacheVars, authVars
<1>5. ASSUME NEW a \in Auths, CheckExpiry(a)
      PROVE  TypeOK'
  BY <1>5 DEF CheckExpiry, AuthGoes, rowVars, joinVars, cacheVars, authVars
<1>6. ASSUME NEW a \in Auths, RebuildSkipped(a)
      PROVE  TypeOK'
  BY <1>6 DEF RebuildSkipped, AuthGoes, rowVars, joinVars, cacheVars, authVars
<1>7. ASSUME NEW a \in Auths, BeginRebuild(a)
      PROVE  TypeOK'
  BY <1>7 DEF BeginRebuild, Unlocked, AuthGoes, rowVars, joinVars, cacheVars, authVars
<1>8. ASSUME NEW a \in Auths, ReadRows(a)
      PROVE  TypeOK'
  BY <1>8 DEF ReadRows, RowsWith, AuthGoes, rowVars, joinVars, cacheVars, authVars
<1>9. ASSUME NEW a \in Auths, NEW to \in {"checking", "rejected"}, FillCache(a, to)
      PROVE  TypeOK'
  BY <1>9 DEF FillCache, Release, AuthGoes, rowVars, joinVars, cacheVars, authVars
<1>10. ASSUME NEW a \in Auths, RebuildFails(a)
      PROVE  TypeOK'
  BY <1>10 DEF RebuildFails, Release, AuthGoes, rowVars, joinVars, cacheVars, authVars
<1>11. ASSUME NEW a \in Auths, RetryRebuild(a)
      PROVE  TypeOK'
  BY <1>11 DEF RetryRebuild, BeginAgain, AuthGoes, rowVars, joinVars, cacheVars,
     authVars
<1>12. ASSUME NEW a \in Auths, FillCacheAndRetry(a)
      PROVE  TypeOK'
  BY <1>12 DEF FillCacheAndRetry, BeginAgain, AuthGoes, rowVars, joinVars, cacheVars,
     authVars
<1>13. ASSUME NEW a \in Auths, CheckTrusted(a)
      PROVE  TypeOK'
  BY <1>13 DEF CheckTrusted, AuthGoes, rowVars, joinVars, cacheVars, authVars
<1>14. ASSUME NEW a \in Auths, GetEntry(a)
      PROVE  TypeOK'
  BY <1>14 DEF GetEntry, AuthGoes, rowVars, joinVars, cacheVars, authVars
<1>15. ASSUME NEW a \in Auths, Finish(a)
      PROVE  TypeOK'
  BY <1>15 DEF Finish, AuthGoes, rowVars, joinVars, cacheVars, authVars
<1>16. ASSUME NEW a \in Auths, NEW r \in Replicas, NEW f \in Fingerprints, Present(a, r, f)
      PROVE  TypeOK'
  BY <1>16 DEF Present, AuthGoes, rowVars, joinVars, cacheVars, authVars
<1>17. ASSUME NEW r \in Replicas, Expire(r)
      PROVE  TypeOK'
  BY <1>17 DEF Expire, rowVars, joinVars, cacheVars, authVars
<1>18. ASSUME NEW r \in Replicas, Restart(r)
      PROVE  TypeOK'
  BY <1>18 DEF Restart, rowVars, joinVars, cacheVars, authVars
<1>19. CASE UNCHANGED vars
  BY <1>19 DEF vars, rowVars, joinVars, cacheVars, authVars
<1> HIDE DEF TypeOK, JoinInv, LockInv, Known, Entries,
   NoEntries, JoinStates, AuthStates
<1> QED
  BY <1>1, <1>2, <1>3, <1>4, <1>5, <1>6, <1>7, <1>8, <1>9, <1>10, <1>11,
     <1>12, <1>13, <1>14, <1>15, <1>16, <1>17, <1>18, <1>19, <1>20 DEF Next,
     AuthProceeds

\* Rows come from joins that commit, and keep their replica and fingerprint.
LEMMA JoinStep ==
  ASSUME TypeOK, JoinInv, [Next]_vars
  PROVE  JoinInv'
<1> USE NoneAssumption DEF TypeOK, JoinInv, Known, Carried, IsFrom, JoinStates
<1>1. ASSUME NEW i \in Clusters, RollBack(i)
      PROVE  JoinInv'
  BY <1>1 DEF RollBack, rowVars, joinVars, cacheVars, authVars
<1>2. ASSUME NEW i \in Clusters, Delete(i)
      PROVE  JoinInv'
  BY <1>2 DEF Delete, rowVars, joinVars, cacheVars, authVars
<1>3. ASSUME NEW i \in Clusters, AddCertificate(i)
      PROVE  JoinInv'
  BY <1>3 DEF AddCertificate, Unlocked, rowVars, joinVars, cacheVars, authVars
<1>4. ASSUME NEW i \in Clusters, NEW r \in Replicas, NEW n \in Names, NEW f \in Fingerprints,
             NEW to \in {"committed", "failed"}, Commit(i, r, n, f, to)
      PROVE  JoinInv'
  BY <1>4 DEF Commit, rowVars, joinVars, cacheVars, authVars
<1>20. ASSUME NEW i \in Clusters, NEW f \in Fingerprints, Rewrite(i, f)
       PROVE  JoinInv'
  BY <1>20 DEF Rewrite, rowVars, joinVars, cacheVars, authVars
<1>5. ASSUME NEW a \in Auths, CheckExpiry(a)
      PROVE  JoinInv'
  BY <1>5 DEF CheckExpiry, AuthGoes, rowVars, joinVars, cacheVars, authVars
<1>6. ASSUME NEW a \in Auths, RebuildSkipped(a)
      PROVE  JoinInv'
  BY <1>6 DEF RebuildSkipped, AuthGoes, rowVars, joinVars, cacheVars, authVars
<1>7. ASSUME NEW a \in Auths, BeginRebuild(a)
      PROVE  JoinInv'
  BY <1>7 DEF BeginRebuild, Unlocked, AuthGoes, rowVars, joinVars, cacheVars, authVars
<1>8. ASSUME NEW a \in Auths, ReadRows(a)
      PROVE  JoinInv'
  BY <1>8 DEF ReadRows, RowsWith, AuthGoes, rowVars, joinVars, cacheVars, authVars
<1>9. ASSUME NEW a \in Auths, NEW to \in {"checking", "rejected"}, FillCache(a, to)
      PROVE  JoinInv'
  BY <1>9 DEF FillCache, Release, AuthGoes, rowVars, joinVars, cacheVars, authVars
<1>10. ASSUME NEW a \in Auths, RebuildFails(a)
      PROVE  JoinInv'
  BY <1>10 DEF RebuildFails, Release, AuthGoes, rowVars, joinVars, cacheVars, authVars
<1>11. ASSUME NEW a \in Auths, RetryRebuild(a)
      PROVE  JoinInv'
  BY <1>11 DEF RetryRebuild, BeginAgain, AuthGoes, rowVars, joinVars, cacheVars,
     authVars
<1>12. ASSUME NEW a \in Auths, FillCacheAndRetry(a)
      PROVE  JoinInv'
  BY <1>12 DEF FillCacheAndRetry, BeginAgain, AuthGoes, rowVars, joinVars, cacheVars,
     authVars
<1>13. ASSUME NEW a \in Auths, CheckTrusted(a)
      PROVE  JoinInv'
  BY <1>13 DEF CheckTrusted, AuthGoes, rowVars, joinVars, cacheVars, authVars
<1>14. ASSUME NEW a \in Auths, GetEntry(a)
      PROVE  JoinInv'
  BY <1>14 DEF GetEntry, AuthGoes, rowVars, joinVars, cacheVars, authVars
<1>15. ASSUME NEW a \in Auths, Finish(a)
      PROVE  JoinInv'
  BY <1>15 DEF Finish, AuthGoes, rowVars, joinVars, cacheVars, authVars
<1>16. ASSUME NEW a \in Auths, NEW r \in Replicas, NEW f \in Fingerprints, Present(a, r, f)
      PROVE  JoinInv'
  BY <1>16 DEF Present, AuthGoes, rowVars, joinVars, cacheVars, authVars
<1>17. ASSUME NEW r \in Replicas, Expire(r)
      PROVE  JoinInv'
  BY <1>17 DEF Expire, rowVars, joinVars, cacheVars, authVars
<1>18. ASSUME NEW r \in Replicas, Restart(r)
      PROVE  JoinInv'
  BY <1>18 DEF Restart, rowVars, joinVars, cacheVars, authVars
<1>19. CASE UNCHANGED vars
  BY <1>19 DEF vars, rowVars, joinVars, cacheVars, authVars
<1> HIDE DEF TypeOK, JoinInv, Known, Carried, IsFrom, JoinStates
<1> QED
  BY <1>1, <1>2, <1>3, <1>4, <1>5, <1>6, <1>7, <1>8, <1>9, <1>10, <1>11,
     <1>12, <1>13, <1>14, <1>15, <1>16, <1>17, <1>18, <1>19, <1>20 DEF Next,
     AuthProceeds

\* A cluster that was known stays known, and so does what its row carried.
LEMMA CarriedKept ==
  ASSUME TypeOK, JoinInv, [Next]_vars,
         NEW i \in Known, NEW f \in Fingerprints, Carried(f, i)
  PROVE  i \in Known' /\ Carried(f, i)'
<1>1. \/ UNCHANGED rowVars
      \/ \E k \in Clusters : RollBack(k) \/ Delete(k) \/ AddCertificate(k)
      \/ \E k \in Clusters, r \in Replicas, n \in Names, g \in Fingerprints,
            to \in {"committed", "failed"} : Commit(k, r, n, g, to)
      \/ \E k \in Clusters, g \in Fingerprints : Rewrite(k, g)
  BY DEF Next, AuthProceeds, vars, joinVars, CheckExpiry, RebuildSkipped, BeginRebuild,
     ReadRows, FillCache, RebuildFails, RetryRebuild, FillCacheAndRetry, BeginAgain,
     CheckTrusted, GetEntry, Finish, Present, Expire, Restart
<1> DEFINE Kept == /\ removed \subseteq removed' /\ rewritten \subseteq rewritten'
                   /\ Known \subseteq Known'
                   /\ \A k \in Known : fingerprint'[k] = fingerprint[k] /\ name'[k] = name[k]
<1>2. Kept
  <2>1. CASE UNCHANGED rowVars
    BY <2>1 DEF rowVars, Known
  <2>2. ASSUME NEW k \in Clusters, RollBack(k) \/ AddCertificate(k)
        PROVE  UNCHANGED rowVars
    BY <2>2 DEF RollBack, AddCertificate
  <2>3. ASSUME NEW k \in Clusters, Delete(k)
        PROVE  Kept
    BY <2>3 DEF Delete, Known
  <2>4. ASSUME NEW k \in Clusters, NEW r \in Replicas, NEW n \in Names, NEW g \in Fingerprints,
               NEW to \in {"committed", "failed"}, Commit(k, r, n, g, to)
        PROVE  Kept
    <3>1. k \notin Known
      BY <2>4 DEF Commit, JoinInv
    <3> QED
      BY <2>4, <3>1 DEF Commit, TypeOK, Known
  <2>5. ASSUME NEW k \in Clusters, NEW g \in Fingerprints, Rewrite(k, g)
        PROVE  Kept
    BY <2>5 DEF Rewrite, Known
  <2> QED
    BY <1>1, <2>1, <2>2, <2>3, <2>4, <2>5
<1>3. CASE f = fingerprint[i]
  BY <1>2, <1>3 DEF Carried
<1>4. CASE i \in rewritten /\ IsFrom(f, i)
  <2>1. PICK l \in removed \union {i} : f = fingerprint[l] /\ name[l] = name[i]
    BY <1>4 DEF IsFrom
  <2> QED
    BY <1>2, <1>4, <2>1 DEF Carried, IsFrom, Known
<1> QED
  BY <1>3, <1>4 DEF Carried

\* No entry names a cluster other than that of its certificate.
LEMMA EntriesStep ==
  ASSUME TypeOK, JoinInv, EntriesInv, LockInv, [Next]_vars
  PROVE  EntriesInv'
<1> USE NoClusterAssumption, NoneAssumption DEF TypeOK, JoinInv, EntriesInv,
   LockInv, Entries, NoEntries
<1>21. \A i \in Known, f \in Fingerprints : Carried(f, i) => i \in Known' /\ Carried(f, i)'
  BY CarriedKept
<1>1. ASSUME NEW i \in Clusters, RollBack(i)
      PROVE  EntriesInv'
  BY <1>21, <1>1 DEF RollBack, rowVars, joinVars, cacheVars, authVars
<1>2. ASSUME NEW i \in Clusters, Delete(i)
      PROVE  EntriesInv'
  BY <1>21, <1>2 DEF Delete, rowVars, joinVars, cacheVars, authVars
<1>3. ASSUME NEW i \in Clusters, AddCertificate(i)
      PROVE  EntriesInv'
  <2>1. i \in Known /\ server[i] \in Replicas /\ fingerprint[i] \in Fingerprints
    BY <1>3 DEF AddCertificate, Known
  <2>2. Carried(fingerprint[i], i)
    BY DEF Carried
  <2>3. \A q \in Replicas, f \in Fingerprints :
            cache'[q][f] = IF q = server[i] /\ f = fingerprint[i] THEN i ELSE cache[q][f]
    BY <1>3, <2>1 DEF AddCertificate
  <2>4. UNCHANGED snapshot
    BY <1>3 DEF AddCertificate
  <2>5. ASSUME NEW r \in Replicas, NEW f \in Fingerprints
        PROVE  /\ (cache[r][f] # NoCluster => cache[r][f] \in Known /\ Carried(f, cache[r][f]))'
               /\ (snapshot[r][f] # NoCluster =>
                    snapshot[r][f] \in Known /\ Carried(f, snapshot[r][f]))'
    <3>1. CASE r = server[i] /\ f = fingerprint[i]
      BY <1>21, <2>1, <2>2, <2>3, <2>4, <3>1
    <3>2. CASE ~(r = server[i] /\ f = fingerprint[i])
      BY <1>21, <2>3, <2>4, <3>2
    <3> QED
      BY <3>1, <3>2
  <2> QED
    BY <2>5
<1>4. ASSUME NEW i \in Clusters, NEW r \in Replicas, NEW n \in Names, NEW f \in Fingerprints,
             NEW to \in {"committed", "failed"}, Commit(i, r, n, f, to)
      PROVE  EntriesInv'
  BY <1>21, <1>4 DEF Commit, cacheVars
<1>20. ASSUME NEW i \in Clusters, NEW f \in Fingerprints, Rewrite(i, f)
       PROVE  EntriesInv'
  BY <1>21, <1>20 DEF Rewrite, rowVars, joinVars, cacheVars, authVars
<1>5. ASSUME NEW a \in Auths, CheckExpiry(a)
      PROVE  EntriesInv'
  BY <1>21, <1>5 DEF CheckExpiry, AuthGoes, rowVars, joinVars, cacheVars, authVars
<1>6. ASSUME NEW a \in Auths, RebuildSkipped(a)
      PROVE  EntriesInv'
  BY <1>21, <1>6 DEF RebuildSkipped, AuthGoes, rowVars, joinVars, cacheVars, authVars
<1>7. ASSUME NEW a \in Auths, BeginRebuild(a)
      PROVE  EntriesInv'
  BY <1>21, <1>7 DEF BeginRebuild, Unlocked, AuthGoes, rowVars, joinVars, cacheVars, authVars
<1>8. ASSUME NEW a \in Auths, ReadRows(a)
      PROVE  EntriesInv'
  <2>1. PICK s \in Entries :
          /\ \A f \in Fingerprints :
                IF RowsWith(f) = {} THEN s[f] = NoCluster ELSE s[f] \in RowsWith(f)
          /\ snapshot' = [snapshot EXCEPT ![place[a]] = s]
    BY <1>21, <1>8 DEF ReadRows
  <2>2. \A f \in Fingerprints : s[f] # NoCluster =>
            s[f] \in Known /\ column[s[f]] = f /\ Carried(f, s[f])
    BY <2>1 DEF RowsWith, Known
  <2>3. UNCHANGED cache
    BY <1>8 DEF ReadRows
  <2> QED
    BY <1>21, <2>1, <2>2, <2>3
<1>9. ASSUME NEW a \in Auths, NEW to \in {"checking", "rejected"}, FillCache(a, to)
      PROVE  EntriesInv'
  BY <1>21, <1>9 DEF FillCache, Release, AuthGoes, rowVars, joinVars, cacheVars, authVars
<1>10. ASSUME NEW a \in Auths, RebuildFails(a)
      PROVE  EntriesInv'
  BY <1>21, <1>10 DEF RebuildFails, Release, AuthGoes, rowVars, joinVars, cacheVars, authVars
<1>11. ASSUME NEW a \in Auths, RetryRebuild(a)
      PROVE  EntriesInv'
  BY <1>21, <1>11 DEF RetryRebuild, BeginAgain, AuthGoes, rowVars, joinVars, cacheVars,
     authVars
<1>12. ASSUME NEW a \in Auths, FillCacheAndRetry(a)
      PROVE  EntriesInv'
  BY <1>21, <1>12 DEF FillCacheAndRetry, BeginAgain, AuthGoes, rowVars, joinVars, cacheVars,
     authVars
<1>13. ASSUME NEW a \in Auths, CheckTrusted(a)
      PROVE  EntriesInv'
  BY <1>21, <1>13 DEF CheckTrusted, AuthGoes, rowVars, joinVars, cacheVars, authVars
<1>14. ASSUME NEW a \in Auths, GetEntry(a)
      PROVE  EntriesInv'
  BY <1>21, <1>14 DEF GetEntry, AuthGoes, rowVars, joinVars, cacheVars, authVars
<1>15. ASSUME NEW a \in Auths, Finish(a)
      PROVE  EntriesInv'
  BY <1>21, <1>15 DEF Finish, AuthGoes, rowVars, joinVars, cacheVars, authVars
<1>16. ASSUME NEW a \in Auths, NEW r \in Replicas, NEW f \in Fingerprints, Present(a, r, f)
      PROVE  EntriesInv'
  BY <1>21, <1>16 DEF Present, AuthGoes, rowVars, joinVars, cacheVars, authVars
<1>17. ASSUME NEW r \in Replicas, Expire(r)
      PROVE  EntriesInv'
  BY <1>21, <1>17 DEF Expire, rowVars, joinVars, cacheVars, authVars
<1>18. ASSUME NEW r \in Replicas, Restart(r)
      PROVE  EntriesInv'
  BY <1>21, <1>18 DEF Restart, rowVars, joinVars, cacheVars, authVars
<1>19. CASE UNCHANGED vars
  BY <1>21, <1>19 DEF vars, rowVars, joinVars, cacheVars, authVars
<1> HIDE DEF TypeOK, JoinInv, EntriesInv,
   LockInv, Entries, NoEntries
<1> QED
  BY <1>1, <1>2, <1>3, <1>4, <1>5, <1>6, <1>7, <1>8, <1>9, <1>10, <1>11,
     <1>12, <1>13, <1>14, <1>15, <1>16, <1>17, <1>18, <1>19, <1>20 DEF Next,
     AuthProceeds

\* One request at a time rebuilds the cache of a replica.
LEMMA LockStep ==
  ASSUME TypeOK, LockInv, [Next]_vars
  PROVE  LockInv'
<1> USE NoAuthAssumption, NoneAssumption DEF TypeOK, LockInv, AuthStates
<1>1. ASSUME NEW i \in Clusters, RollBack(i)
      PROVE  LockInv'
  BY <1>1 DEF RollBack, rowVars, joinVars, cacheVars, authVars
<1>2. ASSUME NEW i \in Clusters, Delete(i)
      PROVE  LockInv'
  BY <1>2 DEF Delete, rowVars, joinVars, cacheVars, authVars
<1>3. ASSUME NEW i \in Clusters, AddCertificate(i)
      PROVE  LockInv'
  BY <1>3 DEF AddCertificate, Unlocked, rowVars, joinVars, cacheVars, authVars
<1>4. ASSUME NEW i \in Clusters, NEW r \in Replicas, NEW n \in Names, NEW f \in Fingerprints,
             NEW to \in {"committed", "failed"}, Commit(i, r, n, f, to)
      PROVE  LockInv'
  BY <1>4 DEF Commit, rowVars, joinVars, cacheVars, authVars
<1>20. ASSUME NEW i \in Clusters, NEW f \in Fingerprints, Rewrite(i, f)
       PROVE  LockInv'
  BY <1>20 DEF Rewrite, rowVars, joinVars, cacheVars, authVars
<1>5. ASSUME NEW a \in Auths, CheckExpiry(a)
      PROVE  LockInv'
  BY <1>5 DEF CheckExpiry, AuthGoes, rowVars, joinVars, cacheVars, authVars
<1>6. ASSUME NEW a \in Auths, RebuildSkipped(a)
      PROVE  LockInv'
  BY <1>6 DEF RebuildSkipped, AuthGoes, rowVars, joinVars, cacheVars, authVars
<1>7. ASSUME NEW a \in Auths, BeginRebuild(a)
      PROVE  LockInv'
  BY <1>7 DEF BeginRebuild, Unlocked, AuthGoes, rowVars, joinVars, cacheVars, authVars
<1>8. ASSUME NEW a \in Auths, ReadRows(a)
      PROVE  LockInv'
  BY <1>8 DEF ReadRows, RowsWith, AuthGoes, rowVars, joinVars, cacheVars, authVars
<1>9. ASSUME NEW a \in Auths, NEW to \in {"checking", "rejected"}, FillCache(a, to)
      PROVE  LockInv'
  BY <1>9 DEF FillCache, Release, AuthGoes, rowVars, joinVars, cacheVars, authVars
<1>10. ASSUME NEW a \in Auths, RebuildFails(a)
      PROVE  LockInv'
  BY <1>10 DEF RebuildFails, Release, AuthGoes, rowVars, joinVars, cacheVars, authVars
<1>11. ASSUME NEW a \in Auths, RetryRebuild(a)
      PROVE  LockInv'
  BY <1>11 DEF RetryRebuild, BeginAgain, AuthGoes, rowVars, joinVars, cacheVars,
     authVars
<1>12. ASSUME NEW a \in Auths, FillCacheAndRetry(a)
      PROVE  LockInv'
  BY <1>12 DEF FillCacheAndRetry, BeginAgain, AuthGoes, rowVars, joinVars, cacheVars,
     authVars
<1>13. ASSUME NEW a \in Auths, CheckTrusted(a)
      PROVE  LockInv'
  BY <1>13 DEF CheckTrusted, AuthGoes, rowVars, joinVars, cacheVars, authVars
<1>14. ASSUME NEW a \in Auths, GetEntry(a)
      PROVE  LockInv'
  BY <1>14 DEF GetEntry, AuthGoes, rowVars, joinVars, cacheVars, authVars
<1>15. ASSUME NEW a \in Auths, Finish(a)
      PROVE  LockInv'
  BY <1>15 DEF Finish, AuthGoes, rowVars, joinVars, cacheVars, authVars
<1>16. ASSUME NEW a \in Auths, NEW r \in Replicas, NEW f \in Fingerprints, Present(a, r, f)
      PROVE  LockInv'
  BY <1>16 DEF Present, AuthGoes, rowVars, joinVars, cacheVars, authVars
<1>17. ASSUME NEW r \in Replicas, Expire(r)
      PROVE  LockInv'
  BY <1>17 DEF Expire, rowVars, joinVars, cacheVars, authVars
<1>18. ASSUME NEW r \in Replicas, Restart(r)
      PROVE  LockInv'
  BY <1>18 DEF Restart, rowVars, joinVars, cacheVars, authVars
<1>19. CASE UNCHANGED vars
  BY <1>19 DEF vars, rowVars, joinVars, cacheVars, authVars
<1> HIDE DEF TypeOK, LockInv, AuthStates
<1> QED
  BY <1>1, <1>2, <1>3, <1>4, <1>5, <1>6, <1>7, <1>8, <1>9, <1>10, <1>11,
     <1>12, <1>13, <1>14, <1>15, <1>16, <1>17, <1>18, <1>19, <1>20 DEF Next,
     AuthProceeds

\* What a rebuild has read covers the joins its replica has answered.
LEMMA SnapshotStep ==
  ASSUME TypeOK, JoinInv, LockInv, SnapshotInv, [Next]_vars
  PROVE  SnapshotInv'
<1> USE NoClusterAssumption, NoAuthAssumption, NoneAssumption DEF TypeOK,
   JoinInv, LockInv, SnapshotInv, Known, Entries
<1>1. ASSUME NEW i \in Clusters, RollBack(i)
      PROVE  SnapshotInv'
  BY <1>1 DEF RollBack, rowVars, joinVars, cacheVars, authVars
<1>2. ASSUME NEW i \in Clusters, Delete(i)
      PROVE  SnapshotInv'
  BY <1>2 DEF Delete, rowVars, joinVars, cacheVars, authVars
<1>3. ASSUME NEW i \in Clusters, AddCertificate(i)
      PROVE  SnapshotInv'
  BY <1>3 DEF AddCertificate, Unlocked, rowVars, joinVars, cacheVars, authVars
<1>4. ASSUME NEW i \in Clusters, NEW r \in Replicas, NEW n \in Names, NEW f \in Fingerprints,
             NEW to \in {"committed", "failed"}, Commit(i, r, n, f, to)
      PROVE  SnapshotInv'
  BY <1>4 DEF Commit, rowVars, joinVars, cacheVars, authVars
<1>20. ASSUME NEW i \in Clusters, NEW f \in Fingerprints, Rewrite(i, f)
       PROVE  SnapshotInv'
  BY <1>20 DEF Rewrite, rowVars, joinVars, cacheVars, authVars
<1>5. ASSUME NEW a \in Auths, CheckExpiry(a)
      PROVE  SnapshotInv'
  BY <1>5 DEF CheckExpiry, AuthGoes, rowVars, joinVars, cacheVars, authVars
<1>6. ASSUME NEW a \in Auths, RebuildSkipped(a)
      PROVE  SnapshotInv'
  BY <1>6 DEF RebuildSkipped, AuthGoes, rowVars, joinVars, cacheVars, authVars
<1>7. ASSUME NEW a \in Auths, BeginRebuild(a)
      PROVE  SnapshotInv'
  BY <1>7 DEF BeginRebuild, Unlocked, AuthGoes, rowVars, joinVars, cacheVars, authVars
<1>8. ASSUME NEW a \in Auths, ReadRows(a)
      PROVE  SnapshotInv'
  BY <1>8 DEF ReadRows, RowsWith, Carried, AuthGoes, rowVars, joinVars, cacheVars, authVars
<1>9. ASSUME NEW a \in Auths, NEW to \in {"checking", "rejected"}, FillCache(a, to)
      PROVE  SnapshotInv'
  BY <1>9 DEF FillCache, Release, AuthGoes, rowVars, joinVars, cacheVars, authVars
<1>10. ASSUME NEW a \in Auths, RebuildFails(a)
      PROVE  SnapshotInv'
  BY <1>10 DEF RebuildFails, Release, AuthGoes, rowVars, joinVars, cacheVars, authVars
<1>11. ASSUME NEW a \in Auths, RetryRebuild(a)
      PROVE  SnapshotInv'
  BY <1>11 DEF RetryRebuild, BeginAgain, AuthGoes, rowVars, joinVars, cacheVars,
     authVars
<1>12. ASSUME NEW a \in Auths, FillCacheAndRetry(a)
      PROVE  SnapshotInv'
  BY <1>12 DEF FillCacheAndRetry, BeginAgain, AuthGoes, rowVars, joinVars, cacheVars,
     authVars
<1>13. ASSUME NEW a \in Auths, CheckTrusted(a)
      PROVE  SnapshotInv'
  BY <1>13 DEF CheckTrusted, AuthGoes, rowVars, joinVars, cacheVars, authVars
<1>14. ASSUME NEW a \in Auths, GetEntry(a)
      PROVE  SnapshotInv'
  BY <1>14 DEF GetEntry, AuthGoes, rowVars, joinVars, cacheVars, authVars
<1>15. ASSUME NEW a \in Auths, Finish(a)
      PROVE  SnapshotInv'
  BY <1>15 DEF Finish, AuthGoes, rowVars, joinVars, cacheVars, authVars
<1>16. ASSUME NEW a \in Auths, NEW r \in Replicas, NEW f \in Fingerprints, Present(a, r, f)
      PROVE  SnapshotInv'
  BY <1>16 DEF Present, AuthGoes, rowVars, joinVars, cacheVars, authVars
<1>17. ASSUME NEW r \in Replicas, Expire(r)
      PROVE  SnapshotInv'
  BY <1>17 DEF Expire, rowVars, joinVars, cacheVars, authVars
<1>18. ASSUME NEW r \in Replicas, Restart(r)
      PROVE  SnapshotInv'
  BY <1>18 DEF Restart, rowVars, joinVars, cacheVars, authVars
<1>19. CASE UNCHANGED vars
  BY <1>19 DEF vars, rowVars, joinVars, cacheVars, authVars
<1> HIDE DEF TypeOK,
   JoinInv, LockInv, SnapshotInv, Known, Entries
<1> QED
  BY <1>1, <1>2, <1>3, <1>4, <1>5, <1>6, <1>7, <1>8, <1>9, <1>10, <1>11,
     <1>12, <1>13, <1>14, <1>15, <1>16, <1>17, <1>18, <1>19, <1>20 DEF Next,
     AuthProceeds

\* A request is let through with an entry of its fingerprint or not at all.
LEMMA AuthenticatedStep ==
  ASSUME TypeOK, JoinInv, EntriesInv, LockInv, AuthenticatedAsItself, [Next]_vars
  PROVE  AuthenticatedAsItself'
<1> USE NoClusterAssumption DEF TypeOK, JoinInv, EntriesInv, LockInv,
   AuthenticatedAsItself, Known, Carried, IsFrom
<1>1. ASSUME NEW i \in Clusters, RollBack(i)
      PROVE  AuthenticatedAsItself'
  BY <1>1 DEF RollBack, rowVars, joinVars, cacheVars, authVars
<1>2. ASSUME NEW i \in Clusters, Delete(i)
      PROVE  AuthenticatedAsItself'
  BY <1>2 DEF Delete, rowVars, joinVars, cacheVars, authVars
<1>3. ASSUME NEW i \in Clusters, AddCertificate(i)
      PROVE  AuthenticatedAsItself'
  BY <1>3 DEF AddCertificate, Unlocked, rowVars, joinVars, cacheVars, authVars
<1>4. ASSUME NEW i \in Clusters, NEW r \in Replicas, NEW n \in Names, NEW f \in Fingerprints,
             NEW to \in {"committed", "failed"}, Commit(i, r, n, f, to)
      PROVE  AuthenticatedAsItself'
  BY <1>4 DEF Commit, rowVars, joinVars, cacheVars, authVars
<1>20. ASSUME NEW i \in Clusters, NEW f \in Fingerprints, Rewrite(i, f)
       PROVE  AuthenticatedAsItself'
  BY <1>20 DEF Rewrite, rowVars, joinVars, cacheVars, authVars
<1>5. ASSUME NEW a \in Auths, CheckExpiry(a)
      PROVE  AuthenticatedAsItself'
  BY <1>5 DEF CheckExpiry, AuthGoes, rowVars, joinVars, cacheVars, authVars
<1>6. ASSUME NEW a \in Auths, RebuildSkipped(a)
      PROVE  AuthenticatedAsItself'
  BY <1>6 DEF RebuildSkipped, AuthGoes, rowVars, joinVars, cacheVars, authVars
<1>7. ASSUME NEW a \in Auths, BeginRebuild(a)
      PROVE  AuthenticatedAsItself'
  BY <1>7 DEF BeginRebuild, Unlocked, AuthGoes, rowVars, joinVars, cacheVars, authVars
<1>8. ASSUME NEW a \in Auths, ReadRows(a)
      PROVE  AuthenticatedAsItself'
  BY <1>8 DEF ReadRows, RowsWith, AuthGoes, rowVars, joinVars, cacheVars, authVars
<1>9. ASSUME NEW a \in Auths, NEW to \in {"checking", "rejected"}, FillCache(a, to)
      PROVE  AuthenticatedAsItself'
  BY <1>9 DEF FillCache, Release, AuthGoes, rowVars, joinVars, cacheVars, authVars
<1>10. ASSUME NEW a \in Auths, RebuildFails(a)
      PROVE  AuthenticatedAsItself'
  BY <1>10 DEF RebuildFails, Release, AuthGoes, rowVars, joinVars, cacheVars, authVars
<1>11. ASSUME NEW a \in Auths, RetryRebuild(a)
      PROVE  AuthenticatedAsItself'
  BY <1>11 DEF RetryRebuild, BeginAgain, AuthGoes, rowVars, joinVars, cacheVars,
     authVars
<1>12. ASSUME NEW a \in Auths, FillCacheAndRetry(a)
      PROVE  AuthenticatedAsItself'
  BY <1>12 DEF FillCacheAndRetry, BeginAgain, AuthGoes, rowVars, joinVars, cacheVars,
     authVars
<1>13. ASSUME NEW a \in Auths, CheckTrusted(a)
      PROVE  AuthenticatedAsItself'
  BY <1>13 DEF CheckTrusted, AuthGoes, rowVars, joinVars, cacheVars, authVars
<1>14. ASSUME NEW a \in Auths, GetEntry(a)
      PROVE  AuthenticatedAsItself'
  BY <1>14 DEF GetEntry, AuthGoes, rowVars, joinVars, cacheVars, authVars
<1>15. ASSUME NEW a \in Auths, Finish(a)
      PROVE  AuthenticatedAsItself'
  BY <1>15 DEF Finish, AuthGoes, rowVars, joinVars, cacheVars, authVars
<1>16. ASSUME NEW a \in Auths, NEW r \in Replicas, NEW f \in Fingerprints, Present(a, r, f)
      PROVE  AuthenticatedAsItself'
  BY <1>16 DEF Present, AuthGoes, rowVars, joinVars, cacheVars, authVars
<1>17. ASSUME NEW r \in Replicas, Expire(r)
      PROVE  AuthenticatedAsItself'
  BY <1>17 DEF Expire, rowVars, joinVars, cacheVars, authVars
<1>18. ASSUME NEW r \in Replicas, Restart(r)
      PROVE  AuthenticatedAsItself'
  BY <1>18 DEF Restart, rowVars, joinVars, cacheVars, authVars
<1>19. CASE UNCHANGED vars
  BY <1>19 DEF vars, rowVars, joinVars, cacheVars, authVars
<1> HIDE DEF TypeOK, JoinInv, EntriesInv, LockInv,
   AuthenticatedAsItself, Known, Carried, IsFrom
<1> QED
  BY <1>1, <1>2, <1>3, <1>4, <1>5, <1>6, <1>7, <1>8, <1>9, <1>10, <1>11,
     <1>12, <1>13, <1>14, <1>15, <1>16, <1>17, <1>18, <1>19, <1>20 DEF Next,
     AuthProceeds

\* A cluster that has joined stays in the cache of its replica.
LEMMA JoinedStep ==
  ASSUME TypeOK, JoinInv, LockInv, SnapshotInv, JoinedIsTrusted, [Next]_vars
  PROVE  JoinedIsTrusted'
<1> USE NoClusterAssumption, NoAuthAssumption DEF TypeOK, JoinInv, LockInv,
   SnapshotInv, JoinedIsTrusted, Known, Entries
<1>1. ASSUME NEW i \in Clusters, RollBack(i)
      PROVE  JoinedIsTrusted'
  BY <1>1 DEF RollBack, rowVars, joinVars, cacheVars, authVars
<1>2. ASSUME NEW i \in Clusters, Delete(i)
      PROVE  JoinedIsTrusted'
  BY <1>2 DEF Delete, rowVars, joinVars, cacheVars, authVars
<1>3. ASSUME NEW i \in Clusters, AddCertificate(i)
      PROVE  JoinedIsTrusted'
  <2>1. server[i] \in Replicas /\ fingerprint[i] \in Fingerprints
    BY <1>3 DEF AddCertificate
  <2>2. \A q \in Replicas, f \in Fingerprints :
            cache'[q][f] = IF q = server[i] /\ f = fingerprint[i] THEN i ELSE cache[q][f]
    BY <1>3, <2>1 DEF AddCertificate
  <2>3. \A k \in Clusters : join'[k] = IF k = i THEN "done" ELSE join[k]
    BY <1>3 DEF AddCertificate
  <2>4. UNCHANGED <<rows, rewritten, server, fingerprint, fresh>>
    BY <1>3 DEF AddCertificate, rowVars
  <2>5. \A k \in rows : server[k] \in Replicas /\ fingerprint[k] \in Fingerprints
    OBVIOUS
  <2> QED
    BY <2>2, <2>3, <2>4, <2>5
<1>4. ASSUME NEW i \in Clusters, NEW r \in Replicas, NEW n \in Names, NEW f \in Fingerprints,
             NEW to \in {"committed", "failed"}, Commit(i, r, n, f, to)
      PROVE  JoinedIsTrusted'
  BY <1>4 DEF Commit, rowVars, joinVars, cacheVars, authVars
<1>20. ASSUME NEW i \in Clusters, NEW f \in Fingerprints, Rewrite(i, f)
       PROVE  JoinedIsTrusted'
  BY <1>20 DEF Rewrite, rowVars, joinVars, cacheVars, authVars
<1>5. ASSUME NEW a \in Auths, CheckExpiry(a)
      PROVE  JoinedIsTrusted'
  BY <1>5 DEF CheckExpiry, AuthGoes, rowVars, joinVars, cacheVars, authVars
<1>6. ASSUME NEW a \in Auths, RebuildSkipped(a)
      PROVE  JoinedIsTrusted'
  BY <1>6 DEF RebuildSkipped, AuthGoes, rowVars, joinVars, cacheVars, authVars
<1>7. ASSUME NEW a \in Auths, BeginRebuild(a)
      PROVE  JoinedIsTrusted'
  BY <1>7 DEF BeginRebuild, Unlocked, AuthGoes, rowVars, joinVars, cacheVars, authVars
<1>8. ASSUME NEW a \in Auths, ReadRows(a)
      PROVE  JoinedIsTrusted'
  BY <1>8 DEF ReadRows, RowsWith, AuthGoes, rowVars, joinVars, cacheVars, authVars
<1>9. ASSUME NEW a \in Auths, NEW to \in {"checking", "rejected"}, FillCache(a, to)
      PROVE  JoinedIsTrusted'
  <2>1. place[a] \in Replicas
    BY <1>9 DEF FillCache
  <2>2. \A i \in rows : (join[i] = "done" /\ server[i] = place[a] /\ i \notin rewritten) =>
            cache'[place[a]][fingerprint[i]] # NoCluster
    BY <1>9, <2>1 DEF FillCache
  <2>3. \A r \in Replicas \ {place[a]} : cache'[r] = cache[r] /\ (fresh'[r] <=> fresh[r])
    BY <1>9, <2>1 DEF FillCache
  <2>4. \A i \in rows : server[i] \in Replicas
    OBVIOUS
  <2>5. UNCHANGED <<rows, join, server, fingerprint, rewritten>>
    BY <1>9 DEF FillCache, rowVars, joinVars
  <2>6. ASSUME NEW i \in rows, join[i] = "done", fresh'[server[i]], i \notin rewritten
        PROVE  cache'[server[i]][fingerprint[i]] # NoCluster
    BY <2>2, <2>3, <2>4, <2>6
  <2> QED
    BY <2>5, <2>6
<1>10. ASSUME NEW a \in Auths, RebuildFails(a)
      PROVE  JoinedIsTrusted'
  BY <1>10 DEF RebuildFails, Release, AuthGoes, rowVars, joinVars, cacheVars, authVars
<1>11. ASSUME NEW a \in Auths, RetryRebuild(a)
      PROVE  JoinedIsTrusted'
  BY <1>11 DEF RetryRebuild, BeginAgain, AuthGoes, rowVars, joinVars, cacheVars,
     authVars
<1>12. ASSUME NEW a \in Auths, FillCacheAndRetry(a)
      PROVE  JoinedIsTrusted'
  <2>1. place[a] \in Replicas
    BY <1>12 DEF FillCacheAndRetry, BeginAgain
  <2>2. \A i \in rows : (join[i] = "done" /\ server[i] = place[a] /\ i \notin rewritten) =>
            cache'[place[a]][fingerprint[i]] # NoCluster
    BY <1>12, <2>1 DEF FillCacheAndRetry, BeginAgain
  <2>3. \A r \in Replicas \ {place[a]} : cache'[r] = cache[r] /\ (fresh'[r] <=> fresh[r])
    BY <1>12, <2>1 DEF FillCacheAndRetry, BeginAgain
  <2>4. \A i \in rows : server[i] \in Replicas
    OBVIOUS
  <2>5. UNCHANGED joinVars
    BY <1>12 DEF FillCacheAndRetry, BeginAgain
  <2> QED
    BY <2>2, <2>3, <2>4, <2>5 DEF rowVars, joinVars
<1>13. ASSUME NEW a \in Auths, CheckTrusted(a)
      PROVE  JoinedIsTrusted'
  BY <1>13 DEF CheckTrusted, AuthGoes, rowVars, joinVars, cacheVars, authVars
<1>14. ASSUME NEW a \in Auths, GetEntry(a)
      PROVE  JoinedIsTrusted'
  BY <1>14 DEF GetEntry, AuthGoes, rowVars, joinVars, cacheVars, authVars
<1>15. ASSUME NEW a \in Auths, Finish(a)
      PROVE  JoinedIsTrusted'
  BY <1>15 DEF Finish, AuthGoes, rowVars, joinVars, cacheVars, authVars
<1>16. ASSUME NEW a \in Auths, NEW r \in Replicas, NEW f \in Fingerprints, Present(a, r, f)
      PROVE  JoinedIsTrusted'
  BY <1>16 DEF Present, AuthGoes, rowVars, joinVars, cacheVars, authVars
<1>17. ASSUME NEW r \in Replicas, Expire(r)
      PROVE  JoinedIsTrusted'
  <2>1. \A q \in Replicas : fresh'[q] => fresh[q]
    BY <1>17 DEF Expire
  <2>2. UNCHANGED <<joinVars, cache>>
    BY <1>17 DEF Expire
  <2> QED
    BY <2>1, <2>2 DEF rowVars, joinVars
<1>18. ASSUME NEW r \in Replicas, Restart(r)
      PROVE  JoinedIsTrusted'
  <2>1. \A q \in Replicas : fresh'[q] => fresh[q] /\ q # r
    BY <1>18 DEF Restart
  <2>2. \A q \in Replicas \ {r} : cache'[q] = cache[q]
    BY <1>18 DEF Restart
  <2>3. \A i \in Clusters : join'[i] = "done" => join[i] = "done"
    BY <1>18 DEF Restart
  <2>4. UNCHANGED <<rows, rewritten, server, fingerprint>>
    BY <1>18 DEF Restart, rowVars
  <2> QED
    BY <2>1, <2>2, <2>3, <2>4
<1>19. CASE UNCHANGED vars
  BY <1>19 DEF vars, rowVars, joinVars, cacheVars, authVars
<1> HIDE DEF TypeOK, JoinInv, LockInv,
   SnapshotInv, JoinedIsTrusted, Known, Entries
<1> QED
  BY <1>1, <1>2, <1>3, <1>4, <1>5, <1>6, <1>7, <1>8, <1>9, <1>10, <1>11,
     <1>12, <1>13, <1>14, <1>15, <1>16, <1>17, <1>18, <1>19, <1>20 DEF Next,
     AuthProceeds

LEMMA Induction == IInv /\ [Next]_vars => IInv'
BY TypeStep, JoinStep, EntriesStep, LockStep, SnapshotStep, AuthenticatedStep, JoinedStep
   DEF IInv

\* The inductive invariant holds in every reachable state.
THEOREM Invariance == Spec => []IInv
BY InitIInv, Induction, PTL DEF Spec

\* The state keeps its type.
THEOREM Typing == Spec => []TypeOK
BY Invariance, PTL DEF IInv

\* A request is only ever let through as the cluster whose certificate it
\* presented, in spite of rebuilds between its reads of the cache.
THEOREM NoMistakenIdentity == Spec => []AuthenticatedAsItself
BY Invariance, PTL DEF IInv

\* A replica trusts a cluster whose join it answered, whatever rebuild it was
\* in the middle of.
THEOREM JoinedStaysTrusted == Spec => []JoinedIsTrusted
BY Invariance, PTL DEF IInv

-------------------------------------------------------------------------------
(***************************************************************************)
(* Revocation.                                                             *)
(***************************************************************************)

\* A cluster that is forgotten has no row and an old ID, so that nothing a
\* rebuild reads, a join adds or a request looks up is of it.
LEMMA ForgottenStep ==
  ASSUME IInv, NEW d \in Clusters, Forgotten(d), [Next]_vars
  PROVE  Forgotten(d)' /\ LetsNobodyIn(d)
<1> USE NoClusterAssumption DEF Forgotten, LetsNobodyIn, IInv, TypeOK, JoinInv, LockInv, Known,
   Entries, NoEntries
<1>1. ASSUME NEW i \in Clusters, RollBack(i)
      PROVE  Forgotten(d)' /\ LetsNobodyIn(d)
  BY <1>1 DEF RollBack, rowVars, cacheVars, authVars
<1>2. ASSUME NEW i \in Clusters, Delete(i)
      PROVE  Forgotten(d)' /\ LetsNobodyIn(d)
  BY <1>2 DEF Delete, cacheVars, authVars
<1>3. ASSUME NEW i \in Clusters, AddCertificate(i)
      PROVE  Forgotten(d)' /\ LetsNobodyIn(d)
  BY <1>3 DEF AddCertificate, rowVars, authVars
<1>4. ASSUME NEW i \in Clusters, NEW r \in Replicas, NEW n \in Names, NEW f \in Fingerprints,
             NEW to \in {"committed", "failed"}, Commit(i, r, n, f, to)
      PROVE  Forgotten(d)' /\ LetsNobodyIn(d)
  BY <1>4 DEF Commit, cacheVars, authVars
<1>14. ASSUME NEW i \in Clusters, NEW f \in Fingerprints, Rewrite(i, f)
       PROVE  Forgotten(d)' /\ LetsNobodyIn(d)
  BY <1>14 DEF Rewrite, rowVars, joinVars, cacheVars, authVars
<1>5. ASSUME NEW a \in Auths, CheckExpiry(a) \/ RebuildSkipped(a) \/ BeginRebuild(a)
                  \/ CheckTrusted(a)
      PROVE  Forgotten(d)' /\ LetsNobodyIn(d)
  BY <1>5 DEF CheckExpiry, RebuildSkipped, BeginRebuild, CheckTrusted, rowVars, joinVars, cacheVars
<1>6. ASSUME NEW a \in Auths, ReadRows(a)
      PROVE  Forgotten(d)' /\ LetsNobodyIn(d)
  <2>1. PICK s \in Entries :
          /\ \A f \in Fingerprints :
                IF RowsWith(f) = {} THEN s[f] = NoCluster ELSE s[f] \in RowsWith(f)
          /\ snapshot' = [snapshot EXCEPT ![place[a]] = s]
    BY <1>6 DEF ReadRows
  <2>2. d \notin rows /\ d # NoCluster
    OBVIOUS
  <2>3. ASSUME NEW f \in Fingerprints, s[f] = d
        PROVE  FALSE
    <3>1. s[f] \in RowsWith(f)
      BY <2>1, <2>2, <2>3
    <3>2. RowsWith(f) \subseteq rows
      BY DEF RowsWith
    <3> QED
      BY <2>2, <2>3, <3>1, <3>2
  <2>4. \A r \in Replicas, f \in Fingerprints : snapshot'[r][f] # d
    BY <2>1, <2>3
  <2>5. UNCHANGED <<removed, join, cache, result>>
    BY <1>6 DEF ReadRows, rowVars, joinVars
  <2> QED
    BY <2>4, <2>5
<1>7. ASSUME NEW a \in Auths, NEW to \in {"checking", "rejected"}, FillCache(a, to)
      PROVE  Forgotten(d)' /\ LetsNobodyIn(d)
  BY <1>7 DEF FillCache, Release, rowVars, joinVars
<1>8. ASSUME NEW a \in Auths, RebuildFails(a) \/ RetryRebuild(a) \/ FillCacheAndRetry(a)
      PROVE  Forgotten(d)' /\ LetsNobodyIn(d)
  <2>1. CASE RebuildFails(a)
    BY <2>1 DEF RebuildFails, Release, rowVars, joinVars
  <2>2. CASE RetryRebuild(a)
    BY <2>2 DEF RetryRebuild, BeginAgain, rowVars, joinVars
  <2>3. CASE FillCacheAndRetry(a)
    BY <2>3 DEF FillCacheAndRetry, BeginAgain, rowVars, joinVars
  <2> QED
    BY <1>8, <2>1, <2>2, <2>3
<1>9. ASSUME NEW a \in Auths, GetEntry(a) \/ Finish(a)
      PROVE  Forgotten(d)' /\ LetsNobodyIn(d)
  BY <1>9 DEF GetEntry, Finish, rowVars, joinVars, cacheVars
<1>10. ASSUME NEW a \in Auths, NEW r \in Replicas, NEW f \in Fingerprints, Present(a, r, f)
      PROVE  Forgotten(d)' /\ LetsNobodyIn(d)
  BY <1>10 DEF Present, rowVars, joinVars, cacheVars
<1>11. ASSUME NEW r \in Replicas, Expire(r)
      PROVE  Forgotten(d)' /\ LetsNobodyIn(d)
  BY <1>11 DEF Expire, rowVars, joinVars, authVars
<1>12. ASSUME NEW r \in Replicas, Restart(r)
      PROVE  Forgotten(d)' /\ LetsNobodyIn(d)
  BY <1>12 DEF Restart, rowVars
<1>13. CASE UNCHANGED vars
  BY <1>13 DEF vars, rowVars, joinVars, cacheVars, authVars
<1> QED
  BY <1>1, <1>2, <1>3, <1>4, <1>5, <1>6, <1>7, <1>8, <1>9, <1>10, <1>11, <1>12, <1>13,
     <1>14 DEF Next, AuthProceeds

\* Revocation is final: once no replica knows a deleted cluster, and its join
\* is over, nobody is let through as that cluster again.
THEOREM RevocationIsFinal == Spec => RevokedForGood
<1>1. IInv /\ [Next]_vars => [\A i \in Clusters : Forgotten(i) => Forgotten(i)' /\ LetsNobodyIn(i)]_vars
  BY ForgottenStep
<1> QED
  BY <1>1, Invariance, PTL DEF Spec, RevokedForGood

==============================================================================
