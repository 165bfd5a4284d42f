---------------------------- MODULE ClusterRowProofs ---------------------------
(***************************************************************************)
(* Proofs about ClusterRow, for every number of clusters, of requests and  *)
(* of attempts.  IInv is inductive; each of its conjuncts has a lemma,     *)
(* with one step per action.                                               *)
(***************************************************************************)
EXTENDS ClusterRow, TLAPS

LEMMA InitIInv == Init => IInv
BY NoClusterAssumption, NoRequestAssumption, MaxRetriesAssumption
   DEF Init, IInv, TypeOK, Row, NoRow, Writers, Kinds, States, Writing, Keys, Lockables, PlanInv,
       PinInv, ExclusiveInv, OrderInv, OwnInv, CopyInv, OwnCertificate, WriterInv,
       ThresholdsOfOnePatch, Plan,
       Deletes, Missing

\* The statements that write differ in the row they lock.
LEMMA ProceedCases ==
  ASSUME NEW t \in Requests, Proceed(t)
  PROVE  \/ ReadById(t) \/ ReadByName(t) \/ SkipRead(t)
         \/ \E r \in Lockables : Lock(t, r)
         \/ Forward(t) \/ NotFound(t) \/ Commit(t, "done")
<1>1. ASSUME UpdateRemoteClusterDetail(t)
      PROVE  \E r \in Lockables : Lock(t, r)
  BY <1>1 DEF UpdateRemoteClusterDetail, Lockables
<1>2. ASSUME UpdateRemoteCluster(t) \/ DeleteRemoteCluster(t)
      PROVE  \E r \in Lockables : Lock(t, r)
  BY <1>2 DEF UpdateRemoteCluster, DeleteRemoteCluster, Lockables
<1>3. ASSUME NEW k \in Keys, UpdateRemoteClusterConfig(t, k)
      PROVE  \E r \in Lockables : Lock(t, r)
  BY <1>3 DEF UpdateRemoteClusterConfig, Lockables
<1>4. ASSUME NEW r \in Lockables, Cascade(t, r)
      PROVE  \E s \in Lockables : Lock(t, s)
  BY <1>4 DEF Cascade
<1> QED
  BY <1>1, <1>2, <1>3, <1>4 DEF Proceed

\* A patch that stores something has the row of a cluster locked.
LEMMA PatchHasRow ==
  ASSUME TypeOK, PinInv, NEW t \in Requests, kind[t] = "patch", Store(t)
  PROVE  named \in Clusters
<1>1. "row" \in Plan(t)
  BY DEF Plan, Deletes
<1>2. held[t] # {}
  BY <1>1 DEF Store, Written, Missing
<1> QED
  BY <1>2 DEF PinInv, TypeOK

\* Every step keeps the state in its type.
LEMMA TypeStep ==
  ASSUME TypeOK, PinInv, [Next]_vars
  PROVE  TypeOK'
<1> USE NoClusterAssumption, NoRequestAssumption, MaxRetriesAssumption DEF
   TypeOK, Row, Columns, NoRow, Writers, Kinds, States, Writing, Deletes,
   Keys, Lockables, Fields
<1>1. ASSUME NEW c \in Clusters, Join(c)
      PROVE  TypeOK'
  BY <1>1 DEF Join, rowVars, requestVars
<1>2. ASSUME NEW t \in Requests, NEW c \in Clusters, NEW fields \in SUBSET {"uuid", "metrics"}, BeginHeartbeat(t, c, fields)
      PROVE  TypeOK'
  BY <1>2 DEF BeginHeartbeat, Begin, rowVars, requestVars
<1>3. ASSUME NEW t \in Requests, NEW c \in Clusters, BeginLeave(t, c)
      PROVE  TypeOK'
  BY <1>3 DEF BeginLeave, Begin, rowVars, requestVars
<1>4. ASSUME NEW t \in Requests, NEW fields \in SUBSET Keys, BeginPatch(t, fields)
      PROVE  TypeOK'
  BY <1>4 DEF BeginPatch, Begin, rowVars, requestVars
<1>5. ASSUME NEW t \in Requests, BeginDelete(t)
      PROVE  TypeOK'
  BY <1>5 DEF BeginDelete, Begin, rowVars, requestVars
<1>6. ASSUME NEW t \in Requests, ReadById(t)
      PROVE  TypeOK'
  BY <1>6 DEF ReadById, Goes, Columns, rowVars, requestVars
<1>7. ASSUME NEW t \in Requests, ReadByName(t)
      PROVE  TypeOK'
  BY <1>7 DEF ReadByName, Goes, Columns, rowVars, requestVars
<1>8. ASSUME NEW t \in Requests, SkipRead(t)
      PROVE  TypeOK'
  BY <1>8 DEF SkipRead, Goes, rowVars, requestVars
<1>9. ASSUME NEW t \in Requests, NEW r \in Lockables, Lock(t, r)
      PROVE  TypeOK'
  BY <1>9 DEF Lock, Wants, Found, Taken, rowVars, requestVars
<1>10. ASSUME NEW t \in Requests, Forward(t)
      PROVE  TypeOK'
  BY <1>10 DEF Forward, Goes, rowVars, requestVars
<1>11. ASSUME NEW t \in Requests, NEW to \in {"done", "failed"}, Commit(t, to)
      PROVE  TypeOK'
  <2>1. ASSUME kind[t] = "patch"
        PROVE  named \in Clusters
    BY <1>11, <2>1, PatchHasRow DEF Commit
  <2> QED
    BY <1>11, <2>1 DEF Commit, Store, Written, StoreHeartbeat, StorePatch,
       StoreDelete, Goes, rowVars, requestVars
<1>12. ASSUME NEW t \in Requests, CommitAndRetry(t)
      PROVE  TypeOK'
  <2>1. ASSUME kind[t] = "patch"
        PROVE  named \in Clusters
    BY <1>12, <2>1, PatchHasRow DEF CommitAndRetry
  <2> QED
    BY <1>12, <2>1 DEF CommitAndRetry, Store, Written, StoreHeartbeat, StorePatch,
       StoreDelete, Goes, rowVars, requestVars
<1>13. ASSUME NEW t \in Requests, NotFound(t)
      PROVE  TypeOK'
  BY <1>13 DEF NotFound, Ends, Goes, Wants, rowVars, requestVars
<1>14. ASSUME NEW t \in Requests, RollBack(t)
      PROVE  TypeOK'
  BY <1>14 DEF RollBack, Ends, Goes, rowVars, requestVars
<1>15. ASSUME NEW t \in Requests, RollBackAndRetry(t)
      PROVE  TypeOK'
  BY <1>15 DEF RollBackAndRetry, Ends, Goes, rowVars, requestVars
<1>16. ASSUME NEW t \in Requests, Resolve(t)
      PROVE  TypeOK'
  <2>1. CASE attempt[t] < MaxRetries
    <3>1. Ends(t, "begun") /\ attempt' = [attempt EXCEPT ![t] = @ + 1]
      BY <1>16, <2>1 DEF Resolve
    <3> QED
      BY <2>1, <3>1 DEF Ends, Goes, rowVars
  <2>2. CASE attempt[t] = MaxRetries
    <3>1. Ends(t, "failed") /\ UNCHANGED attempt
      BY <1>16, <2>2 DEF Resolve
    <3> QED
      BY <3>1 DEF Ends, Goes, rowVars
  <2> QED
    BY <1>16, <2>1, <2>2 DEF Resolve
<1>17. ASSUME NEW t \in Requests, Expire(t)
      PROVE  TypeOK'
  BY <1>17 DEF Expire, Ends, Goes, rowVars, requestVars
<1>18. ASSUME NEW t \in Requests, AnswerLate(t)
      PROVE  TypeOK'
  BY <1>18 DEF AnswerLate, Ends, Goes, rowVars, requestVars
<1>19. CASE UNCHANGED vars
  BY <1>19 DEF vars, rowVars, requestVars
<1> QED
  BY <1>1, <1>2, <1>3, <1>4, <1>5, <1>6, <1>7, <1>8, <1>9, <1>10, <1>11,
     <1>12, <1>13, <1>14, <1>15, <1>16, <1>17, <1>18, <1>19, ProceedCases DEF
     Next, RequestBegins

\* A transaction that ends releases its locks.
LEMMA PlanStep ==
  ASSUME TypeOK, PlanInv, [Next]_vars
  PROVE  PlanInv'
<1> USE DEF TypeOK, PlanInv, Plan, Missing, Written, Kinds, States, Writing,
   Deletes
<1>1. ASSUME NEW c \in Clusters, Join(c)
      PROVE  PlanInv'
  BY <1>1 DEF Join, rowVars, requestVars
<1>2. ASSUME NEW t \in Requests, NEW c \in Clusters, NEW fields \in SUBSET {"uuid", "metrics"}, BeginHeartbeat(t, c, fields)
      PROVE  PlanInv'
  BY <1>2 DEF BeginHeartbeat, Begin, rowVars, requestVars
<1>3. ASSUME NEW t \in Requests, NEW c \in Clusters, BeginLeave(t, c)
      PROVE  PlanInv'
  BY <1>3 DEF BeginLeave, Begin, rowVars, requestVars
<1>4. ASSUME NEW t \in Requests, NEW fields \in SUBSET Keys, BeginPatch(t, fields)
      PROVE  PlanInv'
  BY <1>4 DEF BeginPatch, Begin, rowVars, requestVars
<1>5. ASSUME NEW t \in Requests, BeginDelete(t)
      PROVE  PlanInv'
  BY <1>5 DEF BeginDelete, Begin, rowVars, requestVars
<1>6. ASSUME NEW t \in Requests, ReadById(t)
      PROVE  PlanInv'
  BY <1>6 DEF ReadById, Goes, Columns, rowVars, requestVars
<1>7. ASSUME NEW t \in Requests, ReadByName(t)
      PROVE  PlanInv'
  BY <1>7 DEF ReadByName, Goes, Columns, rowVars, requestVars
<1>8. ASSUME NEW t \in Requests, SkipRead(t)
      PROVE  PlanInv'
  BY <1>8 DEF SkipRead, Goes, rowVars, requestVars
<1>9. ASSUME NEW t \in Requests, NEW r \in Lockables, Lock(t, r)
      PROVE  PlanInv'
  BY <1>9 DEF Lock, Wants, Found, Taken, rowVars, requestVars
<1>10. ASSUME NEW t \in Requests, Forward(t)
      PROVE  PlanInv'
  BY <1>10 DEF Forward, Goes, rowVars, requestVars
<1>11. ASSUME NEW t \in Requests, NEW to \in {"done", "failed"}, Commit(t, to)
      PROVE  PlanInv'
  BY <1>11 DEF Commit, Store, Written, StoreHeartbeat, StorePatch,
     StoreDelete, Goes, rowVars, requestVars
<1>12. ASSUME NEW t \in Requests, CommitAndRetry(t)
      PROVE  PlanInv'
  BY <1>12 DEF CommitAndRetry, Store, Written, StoreHeartbeat, StorePatch,
     StoreDelete, Goes, rowVars, requestVars
<1>13. ASSUME NEW t \in Requests, NotFound(t)
      PROVE  PlanInv'
  BY <1>13 DEF NotFound, Ends, Goes, Wants, rowVars, requestVars
<1>14. ASSUME NEW t \in Requests, RollBack(t)
      PROVE  PlanInv'
  BY <1>14 DEF RollBack, Ends, Goes, rowVars, requestVars
<1>15. ASSUME NEW t \in Requests, RollBackAndRetry(t)
      PROVE  PlanInv'
  BY <1>15 DEF RollBackAndRetry, Ends, Goes, rowVars, requestVars
<1>16. ASSUME NEW t \in Requests, Resolve(t)
      PROVE  PlanInv'
  BY <1>16 DEF Resolve, Ends, Goes, rowVars, requestVars
<1>17. ASSUME NEW t \in Requests, Expire(t)
      PROVE  PlanInv'
  BY <1>17 DEF Expire, Ends, Goes, rowVars, requestVars
<1>18. ASSUME NEW t \in Requests, AnswerLate(t)
      PROVE  PlanInv'
  BY <1>18 DEF AnswerLate, Ends, Goes, rowVars, requestVars
<1>19. CASE UNCHANGED vars
  BY <1>19 DEF vars, rowVars, requestVars
<1> QED
  BY <1>1, <1>2, <1>3, <1>4, <1>5, <1>6, <1>7, <1>8, <1>9, <1>10, <1>11,
     <1>12, <1>13, <1>14, <1>15, <1>16, <1>17, <1>18, <1>19, ProceedCases DEF
     Next, RequestBegins

\* The plan of a request is made of rows.
LEMMA PlanType == \A t \in Requests : Plan(t) \subseteq Lockables
BY DEF Plan, Lockables, Keys

\* A delete that commits has all the rows: nobody else has one.
LEMMA PinStep ==
  ASSUME TypeOK, PlanInv, PinInv, ExclusiveInv, [Next]_vars
  PROVE  PinInv'
<1> USE NoClusterAssumption DEF TypeOK, PlanInv, PinInv, ExclusiveInv, Writing
<1>1. ASSUME NEW c \in Clusters, Join(c)
      PROVE  PinInv'
  BY <1>1 DEF Join, rowVars, requestVars
<1>2. ASSUME NEW t \in Requests, NEW c \in Clusters, NEW fields \in SUBSET {"uuid", "metrics"}, BeginHeartbeat(t, c, fields)
      PROVE  PinInv'
  BY <1>2 DEF BeginHeartbeat, Begin, rowVars, requestVars
<1>3. ASSUME NEW t \in Requests, NEW c \in Clusters, BeginLeave(t, c)
      PROVE  PinInv'
  BY <1>3 DEF BeginLeave, Begin, rowVars, requestVars
<1>4. ASSUME NEW t \in Requests, NEW fields \in SUBSET Keys, BeginPatch(t, fields)
      PROVE  PinInv'
  BY <1>4 DEF BeginPatch, Begin, rowVars, requestVars
<1>5. ASSUME NEW t \in Requests, BeginDelete(t)
      PROVE  PinInv'
  BY <1>5 DEF BeginDelete, Begin, rowVars, requestVars
<1>6. ASSUME NEW t \in Requests, ReadById(t)
      PROVE  PinInv'
  BY <1>6 DEF ReadById, Goes, Columns, rowVars, requestVars
<1>7. ASSUME NEW t \in Requests, ReadByName(t)
      PROVE  PinInv'
  BY <1>7 DEF ReadByName, Goes, Columns, rowVars, requestVars
<1>8. ASSUME NEW t \in Requests, SkipRead(t)
      PROVE  PinInv'
  BY <1>8 DEF SkipRead, Goes, rowVars, requestVars
<1>9. ASSUME NEW t \in Requests, NEW r \in Lockables, Lock(t, r)
      PROVE  PinInv'
  BY <1>9 DEF Lock, Wants, Found, Taken, rowVars, requestVars
<1>10. ASSUME NEW t \in Requests, Forward(t)
      PROVE  PinInv'
  BY <1>10 DEF Forward, Goes, rowVars, requestVars
<1>11. ASSUME NEW t \in Requests, NEW to \in {"done", "failed"}, Commit(t, to)
      PROVE  PinInv'
  <2>1. CASE kind[t] \in Deletes
    <3>1. Plan(t) = Lockables
      BY <2>1 DEF Plan, Deletes
    <3>2. held[t] = Lockables
      BY <1>11, <3>1 DEF Commit, CommitAndRetry, Store, Written, Missing
    <3>3. \A u \in Requests : held[u] \subseteq Lockables
      BY PlanType
    <3>4. \A u \in Requests \ {t} : held[u] = {}
      BY <3>2, <3>3
    <3>5. held' = [held EXCEPT ![t] = {}]
      BY <1>11 DEF Commit, CommitAndRetry, Store
    <3> QED
      BY <3>4, <3>5
  <2>2. CASE kind[t] \notin Deletes
    BY <1>11, <2>2 DEF Commit, Store, Written, StoreHeartbeat, StorePatch, StoreDelete, Goes, rowVars, requestVars, Deletes
  <2> QED
    BY <2>1, <2>2
<1>12. ASSUME NEW t \in Requests, CommitAndRetry(t)
      PROVE  PinInv'
  <2>1. CASE kind[t] \in Deletes
    <3>1. Plan(t) = Lockables
      BY <2>1 DEF Plan, Deletes
    <3>2. held[t] = Lockables
      BY <1>12, <3>1 DEF Commit, CommitAndRetry, Store, Written, Missing
    <3>3. \A u \in Requests : held[u] \subseteq Lockables
      BY PlanType
    <3>4. \A u \in Requests \ {t} : held[u] = {}
      BY <3>2, <3>3
    <3>5. held' = [held EXCEPT ![t] = {}]
      BY <1>12 DEF Commit, CommitAndRetry, Store
    <3> QED
      BY <3>4, <3>5
  <2>2. CASE kind[t] \notin Deletes
    BY <1>12, <2>2 DEF CommitAndRetry, Store, Written, StoreHeartbeat, StorePatch, StoreDelete, Goes, rowVars, requestVars, Deletes
  <2> QED
    BY <2>1, <2>2
<1>13. ASSUME NEW t \in Requests, NotFound(t)
      PROVE  PinInv'
  BY <1>13 DEF NotFound, Ends, Goes, Wants, rowVars, requestVars
<1>14. ASSUME NEW t \in Requests, RollBack(t)
      PROVE  PinInv'
  BY <1>14 DEF RollBack, Ends, Goes, rowVars, requestVars
<1>15. ASSUME NEW t \in Requests, RollBackAndRetry(t)
      PROVE  PinInv'
  BY <1>15 DEF RollBackAndRetry, Ends, Goes, rowVars, requestVars
<1>16. ASSUME NEW t \in Requests, Resolve(t)
      PROVE  PinInv'
  BY <1>16 DEF Resolve, Ends, Goes, rowVars, requestVars
<1>17. ASSUME NEW t \in Requests, Expire(t)
      PROVE  PinInv'
  BY <1>17 DEF Expire, Ends, Goes, rowVars, requestVars
<1>18. ASSUME NEW t \in Requests, AnswerLate(t)
      PROVE  PinInv'
  BY <1>18 DEF AnswerLate, Ends, Goes, rowVars, requestVars
<1>19. CASE UNCHANGED vars
  BY <1>19 DEF vars, rowVars, requestVars
<1> QED
  BY <1>1, <1>2, <1>3, <1>4, <1>5, <1>6, <1>7, <1>8, <1>9, <1>10, <1>11,
     <1>12, <1>13, <1>14, <1>15, <1>16, <1>17, <1>18, <1>19, ProceedCases DEF
     Next, RequestBegins

\* A row is only locked when nobody else has it.
LEMMA ExclusiveStep ==
  ASSUME TypeOK, PinInv, ExclusiveInv, [Next]_vars
  PROVE  ExclusiveInv'
<1> USE DEF TypeOK, PinInv, ExclusiveInv
<1>1. ASSUME NEW c \in Clusters, Join(c)
      PROVE  ExclusiveInv'
  BY <1>1 DEF Join, rowVars, requestVars
<1>2. ASSUME NEW t \in Requests, NEW c \in Clusters, NEW fields \in SUBSET {"uuid", "metrics"}, BeginHeartbeat(t, c, fields)
      PROVE  ExclusiveInv'
  BY <1>2 DEF BeginHeartbeat, Begin, rowVars, requestVars
<1>3. ASSUME NEW t \in Requests, NEW c \in Clusters, BeginLeave(t, c)
      PROVE  ExclusiveInv'
  BY <1>3 DEF BeginLeave, Begin, rowVars, requestVars
<1>4. ASSUME NEW t \in Requests, NEW fields \in SUBSET Keys, BeginPatch(t, fields)
      PROVE  ExclusiveInv'
  BY <1>4 DEF BeginPatch, Begin, rowVars, requestVars
<1>5. ASSUME NEW t \in Requests, BeginDelete(t)
      PROVE  ExclusiveInv'
  BY <1>5 DEF BeginDelete, Begin, rowVars, requestVars
<1>6. ASSUME NEW t \in Requests, ReadById(t)
      PROVE  ExclusiveInv'
  BY <1>6 DEF ReadById, Goes, Columns, rowVars, requestVars
<1>7. ASSUME NEW t \in Requests, ReadByName(t)
      PROVE  ExclusiveInv'
  BY <1>7 DEF ReadByName, Goes, Columns, rowVars, requestVars
<1>8. ASSUME NEW t \in Requests, SkipRead(t)
      PROVE  ExclusiveInv'
  BY <1>8 DEF SkipRead, Goes, rowVars, requestVars
<1>9. ASSUME NEW t \in Requests, NEW r \in Lockables, Lock(t, r)
      PROVE  ExclusiveInv'
  BY <1>9 DEF Lock, Wants, Found, Taken, rowVars, requestVars
<1>10. ASSUME NEW t \in Requests, Forward(t)
      PROVE  ExclusiveInv'
  BY <1>10 DEF Forward, Goes, rowVars, requestVars
<1>11. ASSUME NEW t \in Requests, NEW to \in {"done", "failed"}, Commit(t, to)
      PROVE  ExclusiveInv'
  BY <1>11 DEF Commit, Store, Written, StoreHeartbeat, StorePatch,
     StoreDelete, Goes, rowVars, requestVars
<1>12. ASSUME NEW t \in Requests, CommitAndRetry(t)
      PROVE  ExclusiveInv'
  BY <1>12 DEF CommitAndRetry, Store, Written, StoreHeartbeat, StorePatch,
     StoreDelete, Goes, rowVars, requestVars
<1>13. ASSUME NEW t \in Requests, NotFound(t)
      PROVE  ExclusiveInv'
  BY <1>13 DEF NotFound, Ends, Goes, Wants, rowVars, requestVars
<1>14. ASSUME NEW t \in Requests, RollBack(t)
      PROVE  ExclusiveInv'
  BY <1>14 DEF RollBack, Ends, Goes, rowVars, requestVars
<1>15. ASSUME NEW t \in Requests, RollBackAndRetry(t)
      PROVE  ExclusiveInv'
  BY <1>15 DEF RollBackAndRetry, Ends, Goes, rowVars, requestVars
<1>16. ASSUME NEW t \in Requests, Resolve(t)
      PROVE  ExclusiveInv'
  BY <1>16 DEF Resolve, Ends, Goes, rowVars, requestVars
<1>17. ASSUME NEW t \in Requests, Expire(t)
      PROVE  ExclusiveInv'
  BY <1>17 DEF Expire, Ends, Goes, rowVars, requestVars
<1>18. ASSUME NEW t \in Requests, AnswerLate(t)
      PROVE  ExclusiveInv'
  BY <1>18 DEF AnswerLate, Ends, Goes, rowVars, requestVars
<1>19. CASE UNCHANGED vars
  BY <1>19 DEF vars, rowVars, requestVars
<1> QED
  BY <1>1, <1>2, <1>3, <1>4, <1>5, <1>6, <1>7, <1>8, <1>9, <1>10, <1>11,
     <1>12, <1>13, <1>14, <1>15, <1>16, <1>17, <1>18, <1>19, ProceedCases DEF
     Next, RequestBegins

\* What a request writes, and in which order, is given when it begins.
LEMMA SamePlan ==
  ASSUME NEW t \in Requests, kind'[t] = kind[t], sets'[t] = sets[t]
  PROVE  Plan(t)' = Plan(t) /\ \A r \in Lockables : Rank(t, r)' = Rank(t, r)
<1>1. Plan(t)' = Plan(t)
  BY DEF Plan
<1>2. ASSUME NEW r \in Lockables
      PROVE  Rank(t, r)' = Rank(t, r)
  BY DEF Rank
<1> QED
  BY <1>1, <1>2

\* Who locks nothing keeps the order.
LEMMA OrderFrame ==
  ASSUME PlanInv, OrderInv, NEW t \in Requests,
         \/ held'[t] = {}
         \/ kind'[t] = kind[t] /\ sets'[t] = sets[t] /\ held'[t] = held[t]
  PROVE  (\A r \in held[t], s \in Missing(t) : Rank(t, r) <= Rank(t, s))'
<1>1. CASE held'[t] = {}
  BY <1>1
<1>2. CASE kind'[t] = kind[t] /\ sets'[t] = sets[t] /\ held'[t] = held[t]
  <2>1. Plan(t)' = Plan(t) /\ \A r \in Lockables : Rank(t, r)' = Rank(t, r)
    BY <1>2, SamePlan
  <2>2. Plan(t) \subseteq Lockables
    BY PlanType
  <2>3. Missing(t)' = Missing(t) /\ Missing(t) \subseteq Lockables /\ held[t] \subseteq Lockables
    BY <1>2, <2>1, <2>2 DEF Missing, PlanInv
  <2> QED
    BY <1>2, <2>1, <2>3 DEF OrderInv
<1> QED
  BY <1>1, <1>2

\* A statement writes the row of the least rank.
LEMMA OrderStep ==
  ASSUME TypeOK, PlanInv, OrderInv, [Next]_vars
  PROVE  OrderInv'
<1> USE DEF TypeOK, PlanInv, Writing
<1>1. ASSUME NEW c \in Clusters, Join(c)
      PROVE  OrderInv'
  <2>1. \A u \in Requests :
           \/ held'[u] = {}
           \/ kind'[u] = kind[u] /\ sets'[u] = sets[u] /\ held'[u] = held[u]
    BY <1>1 DEF Join, rowVars, requestVars
  <2> QED
    BY <2>1, OrderFrame DEF OrderInv
<1>2. ASSUME NEW t \in Requests, NEW c \in Clusters, NEW fields \in SUBSET {"uuid", "metrics"}, BeginHeartbeat(t, c, fields)
      PROVE  OrderInv'
  <2>1. \A u \in Requests :
           \/ held'[u] = {}
           \/ kind'[u] = kind[u] /\ sets'[u] = sets[u] /\ held'[u] = held[u]
    BY <1>2 DEF BeginHeartbeat, Begin, rowVars, requestVars
  <2> QED
    BY <2>1, OrderFrame DEF OrderInv
<1>3. ASSUME NEW t \in Requests, NEW c \in Clusters, BeginLeave(t, c)
      PROVE  OrderInv'
  <2>1. \A u \in Requests :
           \/ held'[u] = {}
           \/ kind'[u] = kind[u] /\ sets'[u] = sets[u] /\ held'[u] = held[u]
    BY <1>3 DEF BeginLeave, Begin, rowVars, requestVars
  <2> QED
    BY <2>1, OrderFrame DEF OrderInv
<1>4. ASSUME NEW t \in Requests, NEW fields \in SUBSET Keys, BeginPatch(t, fields)
      PROVE  OrderInv'
  <2>1. \A u \in Requests :
           \/ held'[u] = {}
           \/ kind'[u] = kind[u] /\ sets'[u] = sets[u] /\ held'[u] = held[u]
    BY <1>4 DEF BeginPatch, Begin, rowVars, requestVars
  <2> QED
    BY <2>1, OrderFrame DEF OrderInv
<1>5. ASSUME NEW t \in Requests, BeginDelete(t)
      PROVE  OrderInv'
  <2>1. \A u \in Requests :
           \/ held'[u] = {}
           \/ kind'[u] = kind[u] /\ sets'[u] = sets[u] /\ held'[u] = held[u]
    BY <1>5 DEF BeginDelete, Begin, rowVars, requestVars
  <2> QED
    BY <2>1, OrderFrame DEF OrderInv
<1>6. ASSUME NEW t \in Requests, ReadById(t)
      PROVE  OrderInv'
  <2>1. \A u \in Requests :
           \/ held'[u] = {}
           \/ kind'[u] = kind[u] /\ sets'[u] = sets[u] /\ held'[u] = held[u]
    BY <1>6 DEF ReadById, Goes, Columns, rowVars, requestVars
  <2> QED
    BY <2>1, OrderFrame DEF OrderInv
<1>7. ASSUME NEW t \in Requests, ReadByName(t)
      PROVE  OrderInv'
  <2>1. \A u \in Requests :
           \/ held'[u] = {}
           \/ kind'[u] = kind[u] /\ sets'[u] = sets[u] /\ held'[u] = held[u]
    BY <1>7 DEF ReadByName, Goes, Columns, rowVars, requestVars
  <2> QED
    BY <2>1, OrderFrame DEF OrderInv
<1>8. ASSUME NEW t \in Requests, SkipRead(t)
      PROVE  OrderInv'
  <2>1. \A u \in Requests :
           \/ held'[u] = {}
           \/ kind'[u] = kind[u] /\ sets'[u] = sets[u] /\ held'[u] = held[u]
    BY <1>8 DEF SkipRead, Goes, rowVars, requestVars
  <2> QED
    BY <2>1, OrderFrame DEF OrderInv
<1>9. ASSUME NEW t \in Requests, NEW r \in Lockables, Lock(t, r)
      PROVE  OrderInv'
  <2> SUFFICES ASSUME NEW u \in Requests
               PROVE  (\A s \in held[u], v \in Missing(u) : Rank(u, s) <= Rank(u, v))'
    BY DEF OrderInv
  <2>1. CASE u # t
    <3>1. kind'[u] = kind[u] /\ sets'[u] = sets[u] /\ held'[u] = held[u]
      BY <1>9, <2>1 DEF Lock, Wants, Found, Taken, rowVars, requestVars
    <3> QED
      BY <3>1, OrderFrame
  <2>2. CASE u = t
    <3>1. /\ kind'[t] = kind[t] /\ sets'[t] = sets[t] /\ held'[t] = held[t] \union {r}
          /\ r \in Missing(t) /\ \A s \in Missing(t) : Rank(t, r) <= Rank(t, s)
      BY <1>9 DEF Lock, Wants
    <3>2. Plan(t)' = Plan(t) /\ \A s \in Lockables : Rank(t, s)' = Rank(t, s)
      BY <3>1, SamePlan
    <3>3. Missing(t)' \subseteq Missing(t)
      BY <3>1, <3>2 DEF Missing
    <3>4. Plan(t) \subseteq Lockables
      BY PlanType
    <3>5. Missing(t) \subseteq Lockables /\ held'[t] \subseteq Lockables
      BY <3>1, <3>4 DEF Missing, PlanInv
    <3>6. \A s \in held'[t], v \in Missing(t)' : Rank(t, s) <= Rank(t, v)
      BY <3>1, <3>3 DEF OrderInv
    <3> QED
      BY <2>2, <3>2, <3>3, <3>5, <3>6
  <2> QED
    BY <2>1, <2>2
<1>10. ASSUME NEW t \in Requests, Forward(t)
      PROVE  OrderInv'
  <2>1. \A u \in Requests :
           \/ held'[u] = {}
           \/ kind'[u] = kind[u] /\ sets'[u] = sets[u] /\ held'[u] = held[u]
    BY <1>10 DEF Forward, Goes, rowVars, requestVars
  <2> QED
    BY <2>1, OrderFrame DEF OrderInv
<1>11. ASSUME NEW t \in Requests, NEW to \in {"done", "failed"}, Commit(t, to)
      PROVE  OrderInv'
  <2>1. \A u \in Requests :
           \/ held'[u] = {}
           \/ kind'[u] = kind[u] /\ sets'[u] = sets[u] /\ held'[u] = held[u]
    BY <1>11 DEF Commit, Store, Written, StoreHeartbeat, StorePatch, StoreDelete, Goes, rowVars, requestVars
  <2> QED
    BY <2>1, OrderFrame DEF OrderInv
<1>12. ASSUME NEW t \in Requests, CommitAndRetry(t)
      PROVE  OrderInv'
  <2>1. \A u \in Requests :
           \/ held'[u] = {}
           \/ kind'[u] = kind[u] /\ sets'[u] = sets[u] /\ held'[u] = held[u]
    BY <1>12 DEF CommitAndRetry, Store, Written, StoreHeartbeat, StorePatch, StoreDelete, Goes, rowVars, requestVars
  <2> QED
    BY <2>1, OrderFrame DEF OrderInv
<1>13. ASSUME NEW t \in Requests, NotFound(t)
      PROVE  OrderInv'
  <2>1. \A u \in Requests :
           \/ held'[u] = {}
           \/ kind'[u] = kind[u] /\ sets'[u] = sets[u] /\ held'[u] = held[u]
    BY <1>13 DEF NotFound, Ends, Goes, Wants, rowVars, requestVars
  <2> QED
    BY <2>1, OrderFrame DEF OrderInv
<1>14. ASSUME NEW t \in Requests, RollBack(t)
      PROVE  OrderInv'
  <2>1. \A u \in Requests :
           \/ held'[u] = {}
           \/ kind'[u] = kind[u] /\ sets'[u] = sets[u] /\ held'[u] = held[u]
    BY <1>14 DEF RollBack, Ends, Goes, rowVars, requestVars
  <2> QED
    BY <2>1, OrderFrame DEF OrderInv
<1>15. ASSUME NEW t \in Requests, RollBackAndRetry(t)
      PROVE  OrderInv'
  <2>1. \A u \in Requests :
           \/ held'[u] = {}
           \/ kind'[u] = kind[u] /\ sets'[u] = sets[u] /\ held'[u] = held[u]
    BY <1>15 DEF RollBackAndRetry, Ends, Goes, rowVars, requestVars
  <2> QED
    BY <2>1, OrderFrame DEF OrderInv
<1>16. ASSUME NEW t \in Requests, Resolve(t)
      PROVE  OrderInv'
  <2>1. \A u \in Requests :
           \/ held'[u] = {}
           \/ kind'[u] = kind[u] /\ sets'[u] = sets[u] /\ held'[u] = held[u]
    BY <1>16 DEF Resolve, Ends, Goes, rowVars, requestVars
  <2> QED
    BY <2>1, OrderFrame DEF OrderInv
<1>17. ASSUME NEW t \in Requests, Expire(t)
      PROVE  OrderInv'
  <2>1. \A u \in Requests :
           \/ held'[u] = {}
           \/ kind'[u] = kind[u] /\ sets'[u] = sets[u] /\ held'[u] = held[u]
    BY <1>17 DEF Expire, Ends, Goes, rowVars, requestVars
  <2> QED
    BY <2>1, OrderFrame DEF OrderInv
<1>18. ASSUME NEW t \in Requests, AnswerLate(t)
      PROVE  OrderInv'
  <2>1. \A u \in Requests :
           \/ held'[u] = {}
           \/ kind'[u] = kind[u] /\ sets'[u] = sets[u] /\ held'[u] = held[u]
    BY <1>18 DEF AnswerLate, Ends, Goes, rowVars, requestVars
  <2> QED
    BY <2>1, OrderFrame DEF OrderInv
<1>19. CASE UNCHANGED vars
  <2>1. \A u \in Requests :
           \/ held'[u] = {}
           \/ kind'[u] = kind[u] /\ sets'[u] = sets[u] /\ held'[u] = held[u]
    BY <1>19 DEF vars, rowVars, requestVars
  <2> QED
    BY <2>1, OrderFrame DEF OrderInv
<1> QED
  BY <1>1, <1>2, <1>3, <1>4, <1>5, <1>6, <1>7, <1>8, <1>9, <1>10, <1>11,
     <1>12, <1>13, <1>14, <1>15, <1>16, <1>17, <1>18, <1>19, ProceedCases DEF
     Next, RequestBegins

\* Who neither reads nor locks anything is about the same cluster.
LEMMA OwnFrame ==
  ASSUME OwnInv, NEW t \in Requests,
         \/ at'[t] \notin Writing
         \/ /\ at[t] \in Writing /\ kind'[t] = kind[t] /\ sets'[t] = sets[t]
            /\ held'[t] = held[t] /\ on'[t] = on[t] /\ copy'[t] = copy[t]
  PROVE  (/\ at[t] \in Writing
          /\ kind[t] \in {"heartbeat", "patch"}
          /\ "row" \notin held[t] \/ Plan(t) # {"row"}
          => on[t] = copy[t].cluster)'
<1>1. CASE at'[t] \notin Writing
  BY <1>1 DEF Writing
<1>2. CASE at'[t] \in Writing
  BY <1>2, SamePlan DEF OwnInv
<1> QED
  BY <1>1, <1>2

\* Only a row that is the first to be locked may be another cluster's.
LEMMA OwnStep ==
  ASSUME TypeOK, PlanInv, PinInv, OrderInv, OwnInv, [Next]_vars
  PROVE  OwnInv'
<1> USE DEF TypeOK
<1>1. ASSUME NEW c \in Clusters, Join(c)
      PROVE  OwnInv'
  <2>1. \A u \in Requests :
           \/ at'[u] \notin Writing
           \/ /\ at[u] \in Writing /\ kind'[u] = kind[u] /\ sets'[u] = sets[u]
              /\ held'[u] = held[u] /\ on'[u] = on[u] /\ copy'[u] = copy[u]
    BY <1>1 DEF Join, rowVars, requestVars, Writing
  <2> QED
    BY <2>1, OwnFrame DEF OwnInv
<1>2. ASSUME NEW t \in Requests, NEW c \in Clusters, NEW fields \in SUBSET {"uuid", "metrics"}, BeginHeartbeat(t, c, fields)
      PROVE  OwnInv'
  <2>1. \A u \in Requests :
           \/ at'[u] \notin Writing
           \/ /\ at[u] \in Writing /\ kind'[u] = kind[u] /\ sets'[u] = sets[u]
              /\ held'[u] = held[u] /\ on'[u] = on[u] /\ copy'[u] = copy[u]
    BY <1>2 DEF BeginHeartbeat, Begin, rowVars, requestVars, Writing
  <2> QED
    BY <2>1, OwnFrame DEF OwnInv
<1>3. ASSUME NEW t \in Requests, NEW c \in Clusters, BeginLeave(t, c)
      PROVE  OwnInv'
  <2>1. \A u \in Requests :
           \/ at'[u] \notin Writing
           \/ /\ at[u] \in Writing /\ kind'[u] = kind[u] /\ sets'[u] = sets[u]
              /\ held'[u] = held[u] /\ on'[u] = on[u] /\ copy'[u] = copy[u]
    BY <1>3 DEF BeginLeave, Begin, rowVars, requestVars, Writing
  <2> QED
    BY <2>1, OwnFrame DEF OwnInv
<1>4. ASSUME NEW t \in Requests, NEW fields \in SUBSET Keys, BeginPatch(t, fields)
      PROVE  OwnInv'
  <2>1. \A u \in Requests :
           \/ at'[u] \notin Writing
           \/ /\ at[u] \in Writing /\ kind'[u] = kind[u] /\ sets'[u] = sets[u]
              /\ held'[u] = held[u] /\ on'[u] = on[u] /\ copy'[u] = copy[u]
    BY <1>4 DEF BeginPatch, Begin, rowVars, requestVars, Writing
  <2> QED
    BY <2>1, OwnFrame DEF OwnInv
<1>5. ASSUME NEW t \in Requests, BeginDelete(t)
      PROVE  OwnInv'
  <2>1. \A u \in Requests :
           \/ at'[u] \notin Writing
           \/ /\ at[u] \in Writing /\ kind'[u] = kind[u] /\ sets'[u] = sets[u]
              /\ held'[u] = held[u] /\ on'[u] = on[u] /\ copy'[u] = copy[u]
    BY <1>5 DEF BeginDelete, Begin, rowVars, requestVars, Writing
  <2> QED
    BY <2>1, OwnFrame DEF OwnInv
<1>6. ASSUME NEW t \in Requests, ReadById(t)
      PROVE  OwnInv'
  <2>1. \A u \in Requests \ {t} :
           /\ at'[u] = at[u] /\ kind'[u] = kind[u] /\ sets'[u] = sets[u]
           /\ held'[u] = held[u] /\ on'[u] = on[u] /\ copy'[u] = copy[u]
    BY <1>6 DEF ReadById, Goes, Columns, rowVars, requestVars
  <2>2. on'[t] = copy'[t].cluster
    BY <1>6 DEF ReadById, Goes, Columns, rowVars, requestVars
  <2> QED
    BY <2>1, <2>2, OwnFrame DEF OwnInv
<1>7. ASSUME NEW t \in Requests, ReadByName(t)
      PROVE  OwnInv'
  <2>1. \A u \in Requests \ {t} :
           /\ at'[u] = at[u] /\ kind'[u] = kind[u] /\ sets'[u] = sets[u]
           /\ held'[u] = held[u] /\ on'[u] = on[u] /\ copy'[u] = copy[u]
    BY <1>7 DEF ReadByName, Goes, Columns, rowVars, requestVars
  <2>2. on'[t] = copy'[t].cluster
    BY <1>7 DEF ReadByName, Goes, Columns, rowVars, requestVars
  <2> QED
    BY <2>1, <2>2, OwnFrame DEF OwnInv
<1>8. ASSUME NEW t \in Requests, SkipRead(t)
      PROVE  OwnInv'
  <2>1. \A u \in Requests \ {t} :
           /\ at'[u] = at[u] /\ kind'[u] = kind[u] /\ sets'[u] = sets[u]
           /\ held'[u] = held[u] /\ on'[u] = on[u] /\ copy'[u] = copy[u]
    BY <1>8 DEF SkipRead, Goes, rowVars, requestVars
  <2>2. kind'[t] = "delete"
    BY <1>8 DEF SkipRead, Goes, rowVars, requestVars
  <2> QED
    BY <2>1, <2>2, OwnFrame DEF OwnInv
<1>9. ASSUME NEW t \in Requests, NEW r \in Lockables, Lock(t, r)
      PROVE  OwnInv'
  <2>1. /\ at'[t] = at[t] /\ kind'[t] = kind[t] /\ sets'[t] = sets[t]
        /\ held'[t] = held[t] \union {r} /\ on'[t] = named /\ copy'[t] = copy[t]
        /\ at[t] = "writing" /\ r \in Missing(t) /\ (r # "row" => named = on[t])
        /\ \A u \in Requests \ {t} :
              /\ at'[u] = at[u] /\ kind'[u] = kind[u] /\ sets'[u] = sets[u]
              /\ held'[u] = held[u] /\ on'[u] = on[u] /\ copy'[u] = copy[u]
    BY <1>9 DEF Lock, Wants, Found, Taken, rowVars, requestVars
  <2>2. Plan(t)' = Plan(t)
    BY <2>1, SamePlan
  <2>3. ASSUME kind[t] \in {"heartbeat", "patch"}, "row" \notin held'[t] \/ Plan(t) # {"row"}
        PROVE  named = on[t] /\ "row" \notin held[t]
    <3>1. "row" \in Plan(t)
      BY <2>3 DEF Plan, Deletes
    <3>2. CASE r # "row"
      <4>1. "row" \notin held[t]
        <5>1. ASSUME "row" \in held[t]
              PROVE  FALSE
          <6>1. Rank(t, "row") <= Rank(t, r)
            BY <2>1, <5>1 DEF OrderInv
          <6>2. r \in {"detail", "disk", "memory"}
            BY <2>1, <3>2, PlanType DEF Missing, Lockables, Keys
          <6>3. Rank(t, "row") = 5 /\ Rank(t, r) \in {2, 3, 4}
            BY <2>3, <6>2 DEF Rank, Deletes
          <6> QED
            BY <6>1, <6>3
        <5> QED
          BY <5>1
      <4> QED
        BY <2>1, <3>2, <4>1
    <3>3. CASE r = "row"
      <4>1. PICK s \in Plan(t) : s # "row"
        BY <2>1, <2>3, <3>1, <3>3
      <4>2. s \in {"detail", "disk", "memory"}
        BY <4>1, PlanType DEF Lockables, Keys
      <4>3. Rank(t, "row") = 5 /\ Rank(t, s) \in {2, 3, 4}
        BY <2>3, <4>2 DEF Rank, Deletes
      <4>4. s \notin Missing(t)
        <5>1. ASSUME s \in Missing(t)
              PROVE  FALSE
          <6>1. Rank(t, r) <= Rank(t, s)
            BY <1>9, <5>1 DEF Lock, Wants
          <6> QED
            BY <3>3, <4>3, <6>1
        <5> QED
          BY <5>1
      <4>5. held[t] # {}
        BY <4>1, <4>4 DEF Missing
      <4> QED
        BY <2>1, <3>3, <4>5 DEF PinInv, Missing
    <3> QED
      BY <3>2, <3>3
  <2>4. (/\ at[t] \in Writing
         /\ kind[t] \in {"heartbeat", "patch"}
         /\ "row" \notin held[t] \/ Plan(t) # {"row"}
         => on[t] = copy[t].cluster)'
    BY <2>1, <2>2, <2>3 DEF OwnInv, Writing
  <2> QED
    BY <2>1, <2>4, OwnFrame DEF OwnInv
<1>10. ASSUME NEW t \in Requests, Forward(t)
      PROVE  OwnInv'
  <2>1. \A u \in Requests :
           \/ at'[u] \notin Writing
           \/ /\ at[u] \in Writing /\ kind'[u] = kind[u] /\ sets'[u] = sets[u]
              /\ held'[u] = held[u] /\ on'[u] = on[u] /\ copy'[u] = copy[u]
    BY <1>10 DEF Forward, Goes, rowVars, requestVars, Writing
  <2> QED
    BY <2>1, OwnFrame DEF OwnInv
<1>11. ASSUME NEW t \in Requests, NEW to \in {"done", "failed"}, Commit(t, to)
      PROVE  OwnInv'
  <2>1. \A u \in Requests :
           \/ at'[u] \notin Writing
           \/ /\ at[u] \in Writing /\ kind'[u] = kind[u] /\ sets'[u] = sets[u]
              /\ held'[u] = held[u] /\ on'[u] = on[u] /\ copy'[u] = copy[u]
    BY <1>11 DEF Commit, Store, Written, StoreHeartbeat, StorePatch, StoreDelete, Goes, rowVars, requestVars, Writing
  <2> QED
    BY <2>1, OwnFrame DEF OwnInv
<1>12. ASSUME NEW t \in Requests, CommitAndRetry(t)
      PROVE  OwnInv'
  <2>1. \A u \in Requests :
           \/ at'[u] \notin Writing
           \/ /\ at[u] \in Writing /\ kind'[u] = kind[u] /\ sets'[u] = sets[u]
              /\ held'[u] = held[u] /\ on'[u] = on[u] /\ copy'[u] = copy[u]
    BY <1>12 DEF CommitAndRetry, Store, Written, StoreHeartbeat, StorePatch, StoreDelete, Goes, rowVars, requestVars, Writing
  <2> QED
    BY <2>1, OwnFrame DEF OwnInv
<1>13. ASSUME NEW t \in Requests, NotFound(t)
      PROVE  OwnInv'
  <2>1. \A u \in Requests :
           \/ at'[u] \notin Writing
           \/ /\ at[u] \in Writing /\ kind'[u] = kind[u] /\ sets'[u] = sets[u]
              /\ held'[u] = held[u] /\ on'[u] = on[u] /\ copy'[u] = copy[u]
    BY <1>13 DEF NotFound, Ends, Goes, Wants, rowVars, requestVars, Writing
  <2> QED
    BY <2>1, OwnFrame DEF OwnInv
<1>14. ASSUME NEW t \in Requests, RollBack(t)
      PROVE  OwnInv'
  <2>1. \A u \in Requests :
           \/ at'[u] \notin Writing
           \/ /\ at[u] \in Writing /\ kind'[u] = kind[u] /\ sets'[u] = sets[u]
              /\ held'[u] = held[u] /\ on'[u] = on[u] /\ copy'[u] = copy[u]
    BY <1>14 DEF RollBack, Ends, Goes, rowVars, requestVars, Writing
  <2> QED
    BY <2>1, OwnFrame DEF OwnInv
<1>15. ASSUME NEW t \in Requests, RollBackAndRetry(t)
      PROVE  OwnInv'
  <2>1. \A u \in Requests :
           \/ at'[u] \notin Writing
           \/ /\ at[u] \in Writing /\ kind'[u] = kind[u] /\ sets'[u] = sets[u]
              /\ held'[u] = held[u] /\ on'[u] = on[u] /\ copy'[u] = copy[u]
    BY <1>15 DEF RollBackAndRetry, Ends, Goes, rowVars, requestVars, Writing
  <2> QED
    BY <2>1, OwnFrame DEF OwnInv
<1>16. ASSUME NEW t \in Requests, Resolve(t)
      PROVE  OwnInv'
  <2>1. \A u \in Requests :
           \/ at'[u] \notin Writing
           \/ /\ at[u] \in Writing /\ kind'[u] = kind[u] /\ sets'[u] = sets[u]
              /\ held'[u] = held[u] /\ on'[u] = on[u] /\ copy'[u] = copy[u]
    BY <1>16 DEF Resolve, Ends, Goes, rowVars, requestVars, Writing
  <2> QED
    BY <2>1, OwnFrame DEF OwnInv
<1>17. ASSUME NEW t \in Requests, Expire(t)
      PROVE  OwnInv'
  <2>1. \A u \in Requests :
           \/ at'[u] \notin Writing
           \/ /\ at[u] \in Writing /\ kind'[u] = kind[u] /\ sets'[u] = sets[u]
              /\ held'[u] = held[u] /\ on'[u] = on[u] /\ copy'[u] = copy[u]
    BY <1>17 DEF Expire, Ends, Goes, rowVars, requestVars, Writing
  <2> QED
    BY <2>1, OwnFrame DEF OwnInv
<1>18. ASSUME NEW t \in Requests, AnswerLate(t)
      PROVE  OwnInv'
  <2>1. \A u \in Requests :
           \/ at'[u] \notin Writing
           \/ /\ at[u] \in Writing /\ kind'[u] = kind[u] /\ sets'[u] = sets[u]
              /\ held'[u] = held[u] /\ on'[u] = on[u] /\ copy'[u] = copy[u]
    BY <1>18 DEF AnswerLate, Ends, Goes, rowVars, requestVars, Writing
  <2> QED
    BY <2>1, OwnFrame DEF OwnInv
<1>19. CASE UNCHANGED vars
  <2>1. \A u \in Requests :
           \/ at'[u] \notin Writing
           \/ /\ at[u] \in Writing /\ kind'[u] = kind[u] /\ sets'[u] = sets[u]
              /\ held'[u] = held[u] /\ on'[u] = on[u] /\ copy'[u] = copy[u]
    BY <1>19 DEF vars, rowVars, requestVars, Writing
  <2> QED
    BY <2>1, OwnFrame DEF OwnInv
<1> QED
  BY <1>1, <1>2, <1>3, <1>4, <1>5, <1>6, <1>7, <1>8, <1>9, <1>10, <1>11,
     <1>12, <1>13, <1>14, <1>15, <1>16, <1>17, <1>18, <1>19, ProceedCases DEF
     Next, RequestBegins

\* Thresholds are stored by patches that commit.
LEMMA WriterStep ==
  ASSUME TypeOK, WriterInv, [Next]_vars
  PROVE  WriterInv'
<1> USE NoRequestAssumption DEF TypeOK, WriterInv, States
<1>1. ASSUME NEW c \in Clusters, Join(c)
      PROVE  WriterInv'
  BY <1>1 DEF Join, rowVars, requestVars
<1>2. ASSUME NEW t \in Requests, NEW c \in Clusters, NEW fields \in SUBSET {"uuid", "metrics"}, BeginHeartbeat(t, c, fields)
      PROVE  WriterInv'
  BY <1>2 DEF BeginHeartbeat, Begin, rowVars, requestVars
<1>3. ASSUME NEW t \in Requests, NEW c \in Clusters, BeginLeave(t, c)
      PROVE  WriterInv'
  BY <1>3 DEF BeginLeave, Begin, rowVars, requestVars
<1>4. ASSUME NEW t \in Requests, NEW fields \in SUBSET Keys, BeginPatch(t, fields)
      PROVE  WriterInv'
  BY <1>4 DEF BeginPatch, Begin, rowVars, requestVars
<1>5. ASSUME NEW t \in Requests, BeginDelete(t)
      PROVE  WriterInv'
  BY <1>5 DEF BeginDelete, Begin, rowVars, requestVars
<1>6. ASSUME NEW t \in Requests, ReadById(t)
      PROVE  WriterInv'
  BY <1>6 DEF ReadById, Goes, Columns, rowVars, requestVars
<1>7. ASSUME NEW t \in Requests, ReadByName(t)
      PROVE  WriterInv'
  BY <1>7 DEF ReadByName, Goes, Columns, rowVars, requestVars
<1>8. ASSUME NEW t \in Requests, SkipRead(t)
      PROVE  WriterInv'
  BY <1>8 DEF SkipRead, Goes, rowVars, requestVars
<1>9. ASSUME NEW t \in Requests, NEW r \in Lockables, Lock(t, r)
      PROVE  WriterInv'
  BY <1>9 DEF Lock, Wants, Found, Taken, rowVars, requestVars
<1>10. ASSUME NEW t \in Requests, Forward(t)
      PROVE  WriterInv'
  BY <1>10 DEF Forward, Goes, rowVars, requestVars
<1>11. ASSUME NEW t \in Requests, NEW to \in {"done", "failed"}, Commit(t, to)
      PROVE  WriterInv'
  BY <1>11 DEF Commit, Store, Written, StoreHeartbeat, StorePatch,
     StoreDelete, Goes, rowVars, requestVars
<1>12. ASSUME NEW t \in Requests, CommitAndRetry(t)
      PROVE  WriterInv'
  BY <1>12 DEF CommitAndRetry, Store, Written, StoreHeartbeat, StorePatch,
     StoreDelete, Goes, rowVars, requestVars
<1>13. ASSUME NEW t \in Requests, NotFound(t)
      PROVE  WriterInv'
  BY <1>13 DEF NotFound, Ends, Goes, Wants, rowVars, requestVars
<1>14. ASSUME NEW t \in Requests, RollBack(t)
      PROVE  WriterInv'
  BY <1>14 DEF RollBack, Ends, Goes, rowVars, requestVars
<1>15. ASSUME NEW t \in Requests, RollBackAndRetry(t)
      PROVE  WriterInv'
  BY <1>15 DEF RollBackAndRetry, Ends, Goes, rowVars, requestVars
<1>16. ASSUME NEW t \in Requests, Resolve(t)
      PROVE  WriterInv'
  BY <1>16 DEF Resolve, Ends, Goes, rowVars, requestVars
<1>17. ASSUME NEW t \in Requests, Expire(t)
      PROVE  WriterInv'
  BY <1>17 DEF Expire, Ends, Goes, rowVars, requestVars
<1>18. ASSUME NEW t \in Requests, AnswerLate(t)
      PROVE  WriterInv'
  BY <1>18 DEF AnswerLate, Ends, Goes, rowVars, requestVars
<1>19. CASE UNCHANGED vars
  BY <1>19 DEF vars, rowVars, requestVars
<1> QED
  BY <1>1, <1>2, <1>3, <1>4, <1>5, <1>6, <1>7, <1>8, <1>9, <1>10, <1>11,
     <1>12, <1>13, <1>14, <1>15, <1>16, <1>17, <1>18, <1>19, ProceedCases DEF
     Next, RequestBegins

\* A patch stores both of its thresholds, or none.
LEMMA ThresholdStep ==
  ASSUME TypeOK, WriterInv, ThresholdsOfOnePatch, [Next]_vars
  PROVE  ThresholdsOfOnePatch'
<1> USE NoRequestAssumption DEF TypeOK, WriterInv, ThresholdsOfOnePatch, Keys
<1>1. ASSUME NEW c \in Clusters, Join(c)
      PROVE  ThresholdsOfOnePatch'
  BY <1>1 DEF Join, rowVars, requestVars
<1>2. ASSUME NEW t \in Requests, NEW c \in Clusters, NEW fields \in SUBSET {"uuid", "metrics"}, BeginHeartbeat(t, c, fields)
      PROVE  ThresholdsOfOnePatch'
  BY <1>2 DEF BeginHeartbeat, Begin, rowVars, requestVars
<1>3. ASSUME NEW t \in Requests, NEW c \in Clusters, BeginLeave(t, c)
      PROVE  ThresholdsOfOnePatch'
  BY <1>3 DEF BeginLeave, Begin, rowVars, requestVars
<1>4. ASSUME NEW t \in Requests, NEW fields \in SUBSET Keys, BeginPatch(t, fields)
      PROVE  ThresholdsOfOnePatch'
  BY <1>4 DEF BeginPatch, Begin, rowVars, requestVars
<1>5. ASSUME NEW t \in Requests, BeginDelete(t)
      PROVE  ThresholdsOfOnePatch'
  BY <1>5 DEF BeginDelete, Begin, rowVars, requestVars
<1>6. ASSUME NEW t \in Requests, ReadById(t)
      PROVE  ThresholdsOfOnePatch'
  BY <1>6 DEF ReadById, Goes, Columns, rowVars, requestVars
<1>7. ASSUME NEW t \in Requests, ReadByName(t)
      PROVE  ThresholdsOfOnePatch'
  BY <1>7 DEF ReadByName, Goes, Columns, rowVars, requestVars
<1>8. ASSUME NEW t \in Requests, SkipRead(t)
      PROVE  ThresholdsOfOnePatch'
  BY <1>8 DEF SkipRead, Goes, rowVars, requestVars
<1>9. ASSUME NEW t \in Requests, NEW r \in Lockables, Lock(t, r)
      PROVE  ThresholdsOfOnePatch'
  BY <1>9 DEF Lock, Wants, Found, Taken, rowVars, requestVars
<1>10. ASSUME NEW t \in Requests, Forward(t)
      PROVE  ThresholdsOfOnePatch'
  BY <1>10 DEF Forward, Goes, rowVars, requestVars
<1>11. ASSUME NEW t \in Requests, NEW to \in {"done", "failed"}, Commit(t, to)
      PROVE  ThresholdsOfOnePatch'
  BY <1>11 DEF Commit, Store, Written, StoreHeartbeat, StorePatch,
     StoreDelete, Goes, rowVars, requestVars
<1>12. ASSUME NEW t \in Requests, CommitAndRetry(t)
      PROVE  ThresholdsOfOnePatch'
  BY <1>12 DEF CommitAndRetry, Store, Written, StoreHeartbeat, StorePatch,
     StoreDelete, Goes, rowVars, requestVars
<1>13. ASSUME NEW t \in Requests, NotFound(t)
      PROVE  ThresholdsOfOnePatch'
  BY <1>13 DEF NotFound, Ends, Goes, Wants, rowVars, requestVars
<1>14. ASSUME NEW t \in Requests, RollBack(t)
      PROVE  ThresholdsOfOnePatch'
  BY <1>14 DEF RollBack, Ends, Goes, rowVars, requestVars
<1>15. ASSUME NEW t \in Requests, RollBackAndRetry(t)
      PROVE  ThresholdsOfOnePatch'
  BY <1>15 DEF RollBackAndRetry, Ends, Goes, rowVars, requestVars
<1>16. ASSUME NEW t \in Requests, Resolve(t)
      PROVE  ThresholdsOfOnePatch'
  BY <1>16 DEF Resolve, Ends, Goes, rowVars, requestVars
<1>17. ASSUME NEW t \in Requests, Expire(t)
      PROVE  ThresholdsOfOnePatch'
  BY <1>17 DEF Expire, Ends, Goes, rowVars, requestVars
<1>18. ASSUME NEW t \in Requests, AnswerLate(t)
      PROVE  ThresholdsOfOnePatch'
  BY <1>18 DEF AnswerLate, Ends, Goes, rowVars, requestVars
<1>19. CASE UNCHANGED vars
  BY <1>19 DEF vars, rowVars, requestVars
<1> QED
  BY <1>1, <1>2, <1>3, <1>4, <1>5, <1>6, <1>7, <1>8, <1>9, <1>10, <1>11,
     <1>12, <1>13, <1>14, <1>15, <1>16, <1>17, <1>18, <1>19, ProceedCases DEF
     Next, RequestBegins

\* The history forgets nothing.
LEMMA RewrittenGrows ==
  ASSUME [Next]_vars
  PROVE  rewritten \subseteq rewritten'
<1>1. ASSUME NEW c \in Clusters, Join(c)
      PROVE  rewritten \subseteq rewritten'
  BY <1>1 DEF Join, rowVars, requestVars
<1>2. ASSUME NEW t \in Requests, NEW c \in Clusters, NEW fields \in SUBSET {"uuid", "metrics"}, BeginHeartbeat(t, c, fields)
      PROVE  rewritten \subseteq rewritten'
  BY <1>2 DEF BeginHeartbeat, Begin, rowVars, requestVars
<1>3. ASSUME NEW t \in Requests, NEW c \in Clusters, BeginLeave(t, c)
      PROVE  rewritten \subseteq rewritten'
  BY <1>3 DEF BeginLeave, Begin, rowVars, requestVars
<1>4. ASSUME NEW t \in Requests, NEW fields \in SUBSET Keys, BeginPatch(t, fields)
      PROVE  rewritten \subseteq rewritten'
  BY <1>4 DEF BeginPatch, Begin, rowVars, requestVars
<1>5. ASSUME NEW t \in Requests, BeginDelete(t)
      PROVE  rewritten \subseteq rewritten'
  BY <1>5 DEF BeginDelete, Begin, rowVars, requestVars
<1>6. ASSUME NEW t \in Requests, ReadById(t)
      PROVE  rewritten \subseteq rewritten'
  BY <1>6 DEF ReadById, Goes, Columns, rowVars, requestVars
<1>7. ASSUME NEW t \in Requests, ReadByName(t)
      PROVE  rewritten \subseteq rewritten'
  BY <1>7 DEF ReadByName, Goes, Columns, rowVars, requestVars
<1>8. ASSUME NEW t \in Requests, SkipRead(t)
      PROVE  rewritten \subseteq rewritten'
  BY <1>8 DEF SkipRead, Goes, rowVars, requestVars
<1>9. ASSUME NEW t \in Requests, NEW r \in Lockables, Lock(t, r)
      PROVE  rewritten \subseteq rewritten'
  BY <1>9 DEF Lock, Wants, Found, Taken, rowVars, requestVars
<1>10. ASSUME NEW t \in Requests, Forward(t)
      PROVE  rewritten \subseteq rewritten'
  BY <1>10 DEF Forward, Goes, rowVars, requestVars
<1>11. ASSUME NEW t \in Requests, NEW to \in {"done", "failed"}, Commit(t, to)
      PROVE  rewritten \subseteq rewritten'
  BY <1>11 DEF Commit, Store, Written, StoreHeartbeat, StorePatch,
     StoreDelete, Goes, rowVars, requestVars
<1>12. ASSUME NEW t \in Requests, CommitAndRetry(t)
      PROVE  rewritten \subseteq rewritten'
  BY <1>12 DEF CommitAndRetry, Store, Written, StoreHeartbeat, StorePatch,
     StoreDelete, Goes, rowVars, requestVars
<1>13. ASSUME NEW t \in Requests, NotFound(t)
      PROVE  rewritten \subseteq rewritten'
  BY <1>13 DEF NotFound, Ends, Goes, Wants, rowVars, requestVars
<1>14. ASSUME NEW t \in Requests, RollBack(t)
      PROVE  rewritten \subseteq rewritten'
  BY <1>14 DEF RollBack, Ends, Goes, rowVars, requestVars
<1>15. ASSUME NEW t \in Requests, RollBackAndRetry(t)
      PROVE  rewritten \subseteq rewritten'
  BY <1>15 DEF RollBackAndRetry, Ends, Goes, rowVars, requestVars
<1>16. ASSUME NEW t \in Requests, Resolve(t)
      PROVE  rewritten \subseteq rewritten'
  BY <1>16 DEF Resolve, Ends, Goes, rowVars, requestVars
<1>17. ASSUME NEW t \in Requests, Expire(t)
      PROVE  rewritten \subseteq rewritten'
  BY <1>17 DEF Expire, Ends, Goes, rowVars, requestVars
<1>18. ASSUME NEW t \in Requests, AnswerLate(t)
      PROVE  rewritten \subseteq rewritten'
  BY <1>18 DEF AnswerLate, Ends, Goes, rowVars, requestVars
<1>19. CASE UNCHANGED vars
  BY <1>19 DEF vars, rowVars, requestVars
<1> QED
  BY <1>1, <1>2, <1>3, <1>4, <1>5, <1>6, <1>7, <1>8, <1>9, <1>10, <1>11,
     <1>12, <1>13, <1>14, <1>15, <1>16, <1>17, <1>18, <1>19, ProceedCases DEF
     Next, RequestBegins

\* A row that is read has the certificate of its cluster.
LEMMA CopyStep ==
  ASSUME TypeOK, CopyInv, OwnCertificate, [Next]_vars
  PROVE  CopyInv'
<1> USE DEF TypeOK
<1>a. rewritten \subseteq rewritten'
  BY RewrittenGrows
<1>1. ASSUME NEW c \in Clusters, Join(c)
      PROVE  CopyInv'
  <2>1. \A u \in Requests :
           \/ at'[u] \notin Writing
           \/ at[u] \in Writing /\ kind'[u] = kind[u] /\ copy'[u] = copy[u]
    BY <1>1 DEF Join, rowVars, requestVars, Writing
  <2> QED
    BY <2>1, <1>a DEF CopyInv
<1>2. ASSUME NEW t \in Requests, NEW c \in Clusters, NEW fields \in SUBSET {"uuid", "metrics"}, BeginHeartbeat(t, c, fields)
      PROVE  CopyInv'
  <2>1. \A u \in Requests :
           \/ at'[u] \notin Writing
           \/ at[u] \in Writing /\ kind'[u] = kind[u] /\ copy'[u] = copy[u]
    BY <1>2 DEF BeginHeartbeat, Begin, rowVars, requestVars, Writing
  <2> QED
    BY <2>1, <1>a DEF CopyInv
<1>3. ASSUME NEW t \in Requests, NEW c \in Clusters, BeginLeave(t, c)
      PROVE  CopyInv'
  <2>1. \A u \in Requests :
           \/ at'[u] \notin Writing
           \/ at[u] \in Writing /\ kind'[u] = kind[u] /\ copy'[u] = copy[u]
    BY <1>3 DEF BeginLeave, Begin, rowVars, requestVars, Writing
  <2> QED
    BY <2>1, <1>a DEF CopyInv
<1>4. ASSUME NEW t \in Requests, NEW fields \in SUBSET Keys, BeginPatch(t, fields)
      PROVE  CopyInv'
  <2>1. \A u \in Requests :
           \/ at'[u] \notin Writing
           \/ at[u] \in Writing /\ kind'[u] = kind[u] /\ copy'[u] = copy[u]
    BY <1>4 DEF BeginPatch, Begin, rowVars, requestVars, Writing
  <2> QED
    BY <2>1, <1>a DEF CopyInv
<1>5. ASSUME NEW t \in Requests, BeginDelete(t)
      PROVE  CopyInv'
  <2>1. \A u \in Requests :
           \/ at'[u] \notin Writing
           \/ at[u] \in Writing /\ kind'[u] = kind[u] /\ copy'[u] = copy[u]
    BY <1>5 DEF BeginDelete, Begin, rowVars, requestVars, Writing
  <2> QED
    BY <2>1, <1>a DEF CopyInv
<1>6. ASSUME NEW t \in Requests, ReadById(t)
      PROVE  CopyInv'
  <2>1. \A u \in Requests \ {t} :
           at'[u] = at[u] /\ kind'[u] = kind[u] /\ copy'[u] = copy[u]
    BY <1>6 DEF ReadById, Goes, Columns, rowVars, requestVars
  <2>2. copy'[t].certificate = copy'[t].cluster \/ copy'[t].cluster \in rewritten
    BY <1>6, <1>a DEF ReadById, Goes, Columns, rowVars, requestVars, OwnCertificate
  <2> QED
    BY <2>1, <2>2, <1>a DEF CopyInv
<1>7. ASSUME NEW t \in Requests, ReadByName(t)
      PROVE  CopyInv'
  <2>1. \A u \in Requests \ {t} :
           at'[u] = at[u] /\ kind'[u] = kind[u] /\ copy'[u] = copy[u]
    BY <1>7 DEF ReadByName, Goes, Columns, rowVars, requestVars
  <2>2. copy'[t].certificate = copy'[t].cluster \/ copy'[t].cluster \in rewritten
    BY <1>7, <1>a DEF ReadByName, Goes, Columns, rowVars, requestVars, OwnCertificate
  <2> QED
    BY <2>1, <2>2, <1>a DEF CopyInv
<1>8. ASSUME NEW t \in Requests, SkipRead(t)
      PROVE  CopyInv'
  <2>1. \A u \in Requests \ {t} :
           at'[u] = at[u] /\ kind'[u] = kind[u] /\ copy'[u] = copy[u]
    BY <1>8 DEF SkipRead, Goes, rowVars, requestVars
  <2>2. kind'[t] = "delete"
    BY <1>8, <1>a DEF SkipRead, Goes, rowVars, requestVars, OwnCertificate
  <2> QED
    BY <2>1, <2>2, <1>a DEF CopyInv
<1>9. ASSUME NEW t \in Requests, NEW r \in Lockables, Lock(t, r)
      PROVE  CopyInv'
  <2>1. \A u \in Requests :
           \/ at'[u] \notin Writing
           \/ at[u] \in Writing /\ kind'[u] = kind[u] /\ copy'[u] = copy[u]
    BY <1>9 DEF Lock, Wants, Found, Taken, rowVars, requestVars, Writing
  <2> QED
    BY <2>1, <1>a DEF CopyInv
<1>10. ASSUME NEW t \in Requests, Forward(t)
      PROVE  CopyInv'
  <2>1. \A u \in Requests :
           \/ at'[u] \notin Writing
           \/ at[u] \in Writing /\ kind'[u] = kind[u] /\ copy'[u] = copy[u]
    BY <1>10 DEF Forward, Goes, rowVars, requestVars, Writing
  <2> QED
    BY <2>1, <1>a DEF CopyInv
<1>11. ASSUME NEW t \in Requests, NEW to \in {"done", "failed"}, Commit(t, to)
      PROVE  CopyInv'
  <2>1. \A u \in Requests :
           \/ at'[u] \notin Writing
           \/ at[u] \in Writing /\ kind'[u] = kind[u] /\ copy'[u] = copy[u]
    BY <1>11 DEF Commit, Store, Written, StoreHeartbeat, StorePatch, StoreDelete, Goes, rowVars, requestVars, Writing
  <2> QED
    BY <2>1, <1>a DEF CopyInv
<1>12. ASSUME NEW t \in Requests, CommitAndRetry(t)
      PROVE  CopyInv'
  <2>1. \A u \in Requests :
           \/ at'[u] \notin Writing
           \/ at[u] \in Writing /\ kind'[u] = kind[u] /\ copy'[u] = copy[u]
    BY <1>12 DEF CommitAndRetry, Store, Written, StoreHeartbeat, StorePatch, StoreDelete, Goes, rowVars, requestVars, Writing
  <2> QED
    BY <2>1, <1>a DEF CopyInv
<1>13. ASSUME NEW t \in Requests, NotFound(t)
      PROVE  CopyInv'
  <2>1. \A u \in Requests :
           \/ at'[u] \notin Writing
           \/ at[u] \in Writing /\ kind'[u] = kind[u] /\ copy'[u] = copy[u]
    BY <1>13 DEF NotFound, Ends, Goes, Wants, rowVars, requestVars, Writing
  <2> QED
    BY <2>1, <1>a DEF CopyInv
<1>14. ASSUME NEW t \in Requests, RollBack(t)
      PROVE  CopyInv'
  <2>1. \A u \in Requests :
           \/ at'[u] \notin Writing
           \/ at[u] \in Writing /\ kind'[u] = kind[u] /\ copy'[u] = copy[u]
    BY <1>14 DEF RollBack, Ends, Goes, rowVars, requestVars, Writing
  <2> QED
    BY <2>1, <1>a DEF CopyInv
<1>15. ASSUME NEW t \in Requests, RollBackAndRetry(t)
      PROVE  CopyInv'
  <2>1. \A u \in Requests :
           \/ at'[u] \notin Writing
           \/ at[u] \in Writing /\ kind'[u] = kind[u] /\ copy'[u] = copy[u]
    BY <1>15 DEF RollBackAndRetry, Ends, Goes, rowVars, requestVars, Writing
  <2> QED
    BY <2>1, <1>a DEF CopyInv
<1>16. ASSUME NEW t \in Requests, Resolve(t)
      PROVE  CopyInv'
  <2>1. \A u \in Requests :
           \/ at'[u] \notin Writing
           \/ at[u] \in Writing /\ kind'[u] = kind[u] /\ copy'[u] = copy[u]
    BY <1>16 DEF Resolve, Ends, Goes, rowVars, requestVars, Writing
  <2> QED
    BY <2>1, <1>a DEF CopyInv
<1>17. ASSUME NEW t \in Requests, Expire(t)
      PROVE  CopyInv'
  <2>1. \A u \in Requests :
           \/ at'[u] \notin Writing
           \/ at[u] \in Writing /\ kind'[u] = kind[u] /\ copy'[u] = copy[u]
    BY <1>17 DEF Expire, Ends, Goes, rowVars, requestVars, Writing
  <2> QED
    BY <2>1, <1>a DEF CopyInv
<1>18. ASSUME NEW t \in Requests, AnswerLate(t)
      PROVE  CopyInv'
  <2>1. \A u \in Requests :
           \/ at'[u] \notin Writing
           \/ at[u] \in Writing /\ kind'[u] = kind[u] /\ copy'[u] = copy[u]
    BY <1>18 DEF AnswerLate, Ends, Goes, rowVars, requestVars, Writing
  <2> QED
    BY <2>1, <1>a DEF CopyInv
<1>19. CASE UNCHANGED vars
  <2>1. \A u \in Requests :
           \/ at'[u] \notin Writing
           \/ at[u] \in Writing /\ kind'[u] = kind[u] /\ copy'[u] = copy[u]
    BY <1>19 DEF vars, rowVars, requestVars, Writing
  <2> QED
    BY <2>1, <1>a DEF CopyInv
<1> QED
  BY <1>1, <1>2, <1>3, <1>4, <1>5, <1>6, <1>7, <1>8, <1>9, <1>10, <1>11,
     <1>12, <1>13, <1>14, <1>15, <1>16, <1>17, <1>18, <1>19, ProceedCases DEF
     Next, RequestBegins

\* An update that commits writes the certificate of the cluster back, if the
\* row is that of the cluster it has read.
LEMMA StoreCertificate ==
  ASSUME TypeOK, PlanInv, PinInv, OwnInv, CopyInv, OwnCertificate,
         NEW t \in Requests, Store(t)
  PROVE  OwnCertificate'
<1> USE DEF TypeOK
<1>1. at[t] \in Writing /\ held[t] = Plan(t)
  BY DEF Store, Written, Writing, Missing, PlanInv
<1>2. CASE kind[t] \in Deletes
  BY <1>2 DEF Store, StoreHeartbeat, StorePatch, StoreDelete, Deletes, OwnCertificate
<1>3. CASE kind[t] \in {"heartbeat", "patch"}
  <2>1. certificate' = copy[t].certificate /\ named' = named /\ rewritten \subseteq rewritten'
    BY <1>3 DEF Store, StoreHeartbeat, StorePatch, StoreDelete, Deletes
  <2>2. CASE copy[t].cluster = named
    BY <1>1, <1>3, <2>1, <2>2 DEF CopyInv, OwnCertificate
  <2>3. CASE kind[t] = "patch" /\ sets[t] \intersect Keys = {} /\ copy[t].cluster # named
    <3>1. rewritten' = rewritten \union {named}
      BY <2>3 DEF Store, StoreHeartbeat, StorePatch, StoreDelete, Deletes
    <3> QED
      BY <2>1, <3>1 DEF OwnCertificate
  <2>4. CASE kind[t] = "heartbeat" \/ sets[t] \intersect Keys # {}
    <3>1. Plan(t) # {"row"} /\ Plan(t) # {}
      <4>1. CASE kind[t] = "heartbeat"
        BY <4>1 DEF Plan, Deletes
      <4>2. CASE kind[t] = "patch" /\ sets[t] \intersect Keys # {}
        <5>1. Plan(t) = (sets[t] \intersect Keys) \union {"row"}
          BY <4>2 DEF Plan, Deletes
        <5>2. "row" \notin Keys
          BY DEF Keys
        <5> QED
          BY <4>2, <5>1, <5>2
      <4> QED
        BY <1>3, <2>4, <4>1, <4>2
    <3>2. on[t] = copy[t].cluster
      BY <1>1, <1>3, <3>1 DEF OwnInv
    <3>3. on[t] = named
      BY <1>1, <3>1 DEF PinInv
    <3> QED
      BY <2>2, <3>2, <3>3
  <2> QED
    BY <1>3, <2>2, <2>3, <2>4
<1> QED
  BY <1>2, <1>3 DEF Store, StoreHeartbeat, StorePatch, StoreDelete

\* No other step changes the row of a cluster.
LEMMA CertificateStep ==
  ASSUME TypeOK, PlanInv, PinInv, OwnInv, CopyInv, OwnCertificate, [Next]_vars
  PROVE  OwnCertificate'
<1> USE DEF TypeOK
<1>1. ASSUME NEW c \in Clusters, Join(c)
      PROVE  OwnCertificate'
  BY <1>1 DEF OwnCertificate, Join, rowVars, requestVars
<1>2. ASSUME NEW t \in Requests, NEW c \in Clusters, NEW fields \in SUBSET {"uuid", "metrics"}, BeginHeartbeat(t, c, fields)
      PROVE  OwnCertificate'
  BY <1>2 DEF OwnCertificate, BeginHeartbeat, Begin, rowVars, requestVars
<1>3. ASSUME NEW t \in Requests, NEW c \in Clusters, BeginLeave(t, c)
      PROVE  OwnCertificate'
  BY <1>3 DEF OwnCertificate, BeginLeave, Begin, rowVars, requestVars
<1>4. ASSUME NEW t \in Requests, NEW fields \in SUBSET Keys, BeginPatch(t, fields)
      PROVE  OwnCertificate'
  BY <1>4 DEF OwnCertificate, BeginPatch, Begin, rowVars, requestVars
<1>5. ASSUME NEW t \in Requests, BeginDelete(t)
      PROVE  OwnCertificate'
  BY <1>5 DEF OwnCertificate, BeginDelete, Begin, rowVars, requestVars
<1>6. ASSUME NEW t \in Requests, ReadById(t)
      PROVE  OwnCertificate'
  BY <1>6 DEF OwnCertificate, ReadById, Goes, Columns, rowVars, requestVars
<1>7. ASSUME NEW t \in Requests, ReadByName(t)
      PROVE  OwnCertificate'
  BY <1>7 DEF OwnCertificate, ReadByName, Goes, Columns, rowVars, requestVars
<1>8. ASSUME NEW t \in Requests, SkipRead(t)
      PROVE  OwnCertificate'
  BY <1>8 DEF OwnCertificate, SkipRead, Goes, rowVars, requestVars
<1>9. ASSUME NEW t \in Requests, NEW r \in Lockables, Lock(t, r)
      PROVE  OwnCertificate'
  BY <1>9 DEF OwnCertificate, Lock, Wants, Found, Taken, rowVars, requestVars
<1>10. ASSUME NEW t \in Requests, Forward(t)
      PROVE  OwnCertificate'
  BY <1>10 DEF OwnCertificate, Forward, Goes, rowVars, requestVars
<1>11. ASSUME NEW t \in Requests, NEW to \in {"done", "failed"}, Commit(t, to)
      PROVE  OwnCertificate'
  BY <1>11, StoreCertificate DEF Commit
<1>12. ASSUME NEW t \in Requests, CommitAndRetry(t)
      PROVE  OwnCertificate'
  BY <1>12, StoreCertificate DEF CommitAndRetry
<1>13. ASSUME NEW t \in Requests, NotFound(t)
      PROVE  OwnCertificate'
  BY <1>13 DEF OwnCertificate, NotFound, Ends, Goes, Wants, rowVars, requestVars
<1>14. ASSUME NEW t \in Requests, RollBack(t)
      PROVE  OwnCertificate'
  BY <1>14 DEF OwnCertificate, RollBack, Ends, Goes, rowVars, requestVars
<1>15. ASSUME NEW t \in Requests, RollBackAndRetry(t)
      PROVE  OwnCertificate'
  BY <1>15 DEF OwnCertificate, RollBackAndRetry, Ends, Goes, rowVars, requestVars
<1>16. ASSUME NEW t \in Requests, Resolve(t)
      PROVE  OwnCertificate'
  BY <1>16 DEF OwnCertificate, Resolve, Ends, Goes, rowVars, requestVars
<1>17. ASSUME NEW t \in Requests, Expire(t)
      PROVE  OwnCertificate'
  BY <1>17 DEF OwnCertificate, Expire, Ends, Goes, rowVars, requestVars
<1>18. ASSUME NEW t \in Requests, AnswerLate(t)
      PROVE  OwnCertificate'
  BY <1>18 DEF OwnCertificate, AnswerLate, Ends, Goes, rowVars, requestVars
<1>19. CASE UNCHANGED vars
  BY <1>19 DEF OwnCertificate, vars, rowVars, requestVars
<1> QED
  BY <1>1, <1>2, <1>3, <1>4, <1>5, <1>6, <1>7, <1>8, <1>9, <1>10, <1>11,
     <1>12, <1>13, <1>14, <1>15, <1>16, <1>17, <1>18, <1>19, ProceedCases DEF
     Next, RequestBegins

LEMMA Induction == IInv /\ [Next]_vars => IInv'
BY TypeStep, PlanStep, PinStep, ExclusiveStep, OrderStep, OwnStep, CopyStep,
   CertificateStep, WriterStep, ThresholdStep DEF IInv

THEOREM Invariance == Spec => []IInv
BY InitIInv, Induction, PTL DEF Spec

\* The state keeps its type; no transaction is begun too often.
THEOREM Typing == Spec => []TypeOK
<1>1. IInv => TypeOK
  BY DEF IInv
<1> QED
  BY <1>1, Invariance, PTL

\* If the row of a cluster has another one's certificate, a patch that set no
\* threshold has put one in: no other update ever does.
THEOREM Certificate == Spec => []OwnCertificate
<1>1. IInv => OwnCertificate
  BY DEF IInv
<1> QED
  BY <1>1, Invariance, PTL

\* Two patches do not mix their thresholds.
THEOREM OnePatch == Spec => []ThresholdsOfOnePatch
<1>1. IInv => ThresholdsOfOnePatch
  BY DEF IInv
<1> QED
  BY <1>1, Invariance, PTL

-------------------------------------------------------------------------------
(***************************************************************************)
(* Deadlocks: in a stuck set of updates, who has the row that another one  *)
(* waits for waits for a row of a higher rank itself.                      *)
(***************************************************************************)

\* The rank of a row in an update.
UpdateRank(r) == IF r = "row" THEN 5 ELSE IF r = "detail" THEN 2 ELSE IF r = "disk" THEN 3 ELSE 4

LEMMA Ranks ==
  ASSUME NEW t \in Requests, kind[t] \notin Deletes, NEW r \in Lockables
  PROVE  Rank(t, r) = UpdateRank(r)
BY DEF Rank, UpdateRank, Lockables, Keys

\* Who has something left to write wants one row of it.
LEMMA SomethingWanted ==
  ASSUME IInv, NEW t \in Requests, kind[t] \notin Deletes, at[t] = "writing",
         Missing(t) # {}
  PROVE  \E r \in Lockables : Wants(t, r)
<1>1. Missing(t) \subseteq Lockables
  BY DEF Missing, Plan, Lockables, Keys
<1>2. \A r, s \in Missing(t) : Rank(t, r) <= Rank(t, s) <=> UpdateRank(r) <= UpdateRank(s)
  BY <1>1, Ranks
<1>3. CASE "detail" \in Missing(t)
  BY <1>1, <1>2, <1>3 DEF Wants, UpdateRank, Lockables, Keys
<1>4. CASE "detail" \notin Missing(t) /\ "disk" \in Missing(t)
  BY <1>1, <1>2, <1>4 DEF Wants, UpdateRank, Lockables, Keys
<1>5. CASE "detail" \notin Missing(t) /\ "disk" \notin Missing(t) /\ "memory" \in Missing(t)
  BY <1>1, <1>2, <1>5 DEF Wants, UpdateRank, Lockables, Keys
<1>6. CASE Missing(t) = {"row"}
  BY <1>1, <1>2, <1>6 DEF Wants, UpdateRank, Lockables, Keys
<1> QED
  BY <1>1, <1>3, <1>4, <1>5, <1>6 DEF Lockables, Keys

\* One that waits for a row waits for somebody who wants a row of a higher rank.
LEMMA HigherRank ==
  ASSUME IInv, NEW S \in SUBSET Requests, Stuck(S), \A t \in S : kind[t] \notin Deletes,
         NEW t \in S, NEW r \in Lockables, Wants(t, r)
  PROVE  \E u \in S, s \in Lockables : Wants(u, s) /\ UpdateRank(r) < UpdateRank(s)
<1>1. PICK u \in S : r \in held[u]
  BY DEF Stuck
<1>2. u \in Requests /\ at[u] = "writing" /\ Missing(u) # {} /\ kind[u] \notin Deletes
  BY <1>1 DEF Stuck
<1>3. PICK s \in Lockables : Wants(u, s)
  BY <1>2, SomethingWanted
<1>4. s \in Missing(u) /\ s # r
  BY <1>1, <1>3 DEF Wants, Missing
<1>5. UpdateRank(r) <= UpdateRank(s)
  BY <1>1, <1>2, <1>4, Ranks DEF IInv, OrderInv
<1>6. UpdateRank(r) # UpdateRank(s)
  BY <1>4 DEF UpdateRank, Lockables, Keys
<1>7. UpdateRank(r) \in Nat /\ UpdateRank(s) \in Nat
  BY DEF UpdateRank
<1> QED
  BY <1>1, <1>3, <1>5, <1>6, <1>7

LEMMA NoStuckUpdates ==
  ASSUME IInv, NEW S \in SUBSET Requests, S # {}, \A t \in S : kind[t] \notin Deletes
  PROVE  ~Stuck(S)
<1> SUFFICES ASSUME Stuck(S)
             PROVE  FALSE
  OBVIOUS
<1>1. \A t \in S : ~Wants(t, "row")
  BY HigherRank DEF UpdateRank, Lockables, Keys
<1>2. \A t \in S : ~Wants(t, "memory")
  BY <1>1, HigherRank DEF UpdateRank, Lockables, Keys
<1>3. \A t \in S : ~Wants(t, "disk")
  BY <1>1, <1>2, HigherRank DEF UpdateRank, Lockables, Keys
<1>4. \A t \in S : ~Wants(t, "detail")
  BY <1>1, <1>2, <1>3, HigherRank DEF UpdateRank, Lockables, Keys
<1>5. PICK t \in S : TRUE
  OBVIOUS
<1>6. \E r \in Lockables : Wants(t, r)
  BY SomethingWanted DEF Stuck
<1> QED
  BY <1>1, <1>2, <1>3, <1>4, <1>6 DEF Lockables, Keys

\* However many heartbeats and patches there are, a deadlock takes a delete.
THEOREM DeleteInDeadlock == Spec => []DeadlocksTakeADelete
<1>1. IInv => DeadlocksTakeADelete
  BY NoStuckUpdates DEF DeadlocksTakeADelete, Cycle
<1> QED
  BY <1>1, Invariance, PTL

===============================================================================
