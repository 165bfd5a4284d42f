------------------------- MODULE ClusterAccessProofs --------------------------
(***************************************************************************)
(* Proofs about ClusterAccess, for any replicas, requests, joins, tokens   *)
(* and retries.  A step of it is a step of Enrollment or none, so that     *)
(* Enrollment's inductive invariant holds; with it, a step is a step of    *)
(* MtlsAuth or none, so that the theorems about MtlsAuth hold of it.       *)
(***************************************************************************)
EXTENDS ClusterAccess, EnrollmentProofs

Proved == INSTANCE MtlsAuthProofs WITH
    Clusters <- Ids,
    join <- [id \in Ids |-> RowJoin(id)],
    server <- [id \in Ids |-> RowServer(id)],
    name <- [id \in Ids |-> RowName(id)],
    fingerprint <- [id \in Ids |-> RowFingerprint(id)],
    column <- [id \in Ids |-> RowColumn(id)],
    attempt <- rebuilds

-------------------------------------------------------------------------------
(***************************************************************************)
(* Enrollment.                                                             *)
(***************************************************************************)

\* A step is one of Enrollment, or none.
LEMMA EnrollmentStep ==
  ASSUME TypeOK, [AccessNext]_accessVars
  PROVE  [Next]_vars
<1>1. CASE Database
  BY <1>1 DEF Database, Next, JoinNext, JoinProceeds, DeleteNext
<1>2. CASE Authenticate
  BY <1>2 DEF Authenticate
<1>3. ASSUME NEW j \in Joins, AddCertificate(j)
      PROVE  Next
  BY <1>3 DEF AddCertificate, Next, JoinNext, JoinProceeds
<1>4. ASSUME NEW j \in Joins, NEW r \in Replicas, NEW ask \in Asks, CheckTokenAt(j, r, ask)
      PROVE  Next
  BY <1>4 DEF CheckTokenAt, Next, JoinNext
<1>5. ASSUME NEW a \in Auths, Leave(a)
      PROVE  Next
  <2>1. result[a] \in Ids
    BY <1>5 DEF Leave, ReadLeaving, TypeOK
  <2> QED
    BY <1>5, <2>1 DEF Leave, Next, DeleteNext
<1>6. ASSUME NEW r \in Replicas, Restart(r)
      PROVE  Next
  <2> DEFINE dead == {j \in Joins : server[j] = r /\ UnderWay(j)}
  <2>1. dead \in SUBSET Joins
    OBVIOUS
  <2> QED
    BY <1>6, <2>1 DEF Restart, Next, JoinNext
<1>8. ASSUME NEW id \in Ids, NEW old \in Ids, Update(id, old)
      PROVE  Next
  BY <1>8 DEF Update, Next, UpdateNext
<1>7. CASE UNCHANGED accessVars
  BY <1>7 DEF accessVars
<1> QED
  BY <1>1, <1>2, <1>3, <1>4, <1>5, <1>6, <1>7, <1>8 DEF AccessNext

\* The composition restricts Enrollment and adds nothing to it: all that is
\* proved of Enrollment holds here.
THEOREM KeepsEnrollment == AccessSpec => Spec
<1>1. AccessInit => Init
  BY DEF AccessInit
<1>2. Init => TypeOK
  BY InitIInv DEF IInv
<1>3. IInv /\ [AccessNext]_accessVars => [Next]_vars /\ IInv'
  BY EnrollmentStep, Induction DEF IInv
<1> QED
  BY <1>1, InitIInv, <1>3, PTL DEF AccessSpec, Spec

LEMMA EnrollmentInvariance == AccessSpec => []IInv
BY KeepsEnrollment, Invariance, PTL

-------------------------------------------------------------------------------
(***************************************************************************)
(* Who serves a join, and that what is answered is committed.              *)
(***************************************************************************)

LEMMA ServedStep ==
  ASSUME IInv, ServedInv, [AccessNext]_accessVars
  PROVE  ServedInv'
<1> USE DEF IInv, TypeOK, HolderInv, ServedInv, Known, Ids, Id, JoinStates
<1>1. CASE Database
  <2>1. UNCHANGED server
    BY <1>1 DEF Database, connectorVars, rowVars
  <2>2. CASE TokenNext
    BY <2>1, <2>2 DEF TokenNext, CheckName, PostFails, InsertToken, DeleteToken, Lapse, joinVars, rowVars
  <2>3. ASSUME NEW j \in Joins, InsertCluster(j) \/ InsertRefused(j) \/ NoTokenLeft(j)
                  \/ RollBack(j) \/ RollBackAndRetry(j) \/ CheckTokenFails(j)
        PROVE  ServedInv'
    BY <2>1, <2>3 DEF InsertCluster, InsertRefused, NoTokenLeft, RollBack, RollBackAndRetry,
         CheckTokenFails, JoinGoes, rowVars
  <2>4. ASSUME NEW j \in Joins, NEW to \in {"committed", "failed"}, ConsumeToken(j, to)
        PROVE  ServedInv'
    BY <2>1, <2>4 DEF ConsumeToken, JoinGoes, rowVars
  <2>5. ASSUME NEW j \in Joins, ConsumeTokenAndRetry(j)
        PROVE  ServedInv'
    BY <2>1, <2>5 DEF ConsumeTokenAndRetry, JoinGoes, rowVars
  <2>6. ASSUME NEW n \in Names, DeleteCluster(n)
        PROVE  ServedInv'
    BY <2>1, <2>6 DEF DeleteCluster, DeleteNamed, RowsNamed, joinVars, rowVars
  <2>7. ASSUME NEW id \in Ids, DeleteLeaving(id)
        PROVE  ServedInv'
    BY <2>1, <2>7 DEF DeleteLeaving, DeleteNamed, RowsNamed, joinVars, rowVars
  <2> QED
    BY <1>1, <2>2, <2>3, <2>4, <2>5, <2>6, <2>7 DEF Database, JoinTransacts
<1>2. CASE Authenticate
  BY <1>2 DEF Authenticate, vars, joinVars, rowVars
<1>3. ASSUME NEW j \in Joins, AddCertificate(j)
      PROVE  ServedInv'
  BY <1>3 DEF AddCertificate, Trust, JoinGoes, rowVars
<1>4. ASSUME NEW j \in Joins, NEW r \in Replicas, NEW ask \in Asks, CheckTokenAt(j, r, ask)
      PROVE  ServedInv'
  BY <1>4 DEF CheckTokenAt, CheckToken, JoinGoes, rowVars
<1>5. ASSUME NEW a \in Auths, Leave(a)
      PROVE  ServedInv'
  BY <1>5 DEF Leave, ReadLeaving, connectorVars, joinVars, rowVars
<1>6. ASSUME NEW r \in Replicas, Restart(r)
      PROVE  ServedInv'
  BY <1>6 DEF Restart, Die, UnderWay, rowVars
<1>8. ASSUME NEW id \in Ids, NEW old \in Ids, Update(id, old)
      PROVE  ServedInv'
  BY <1>8 DEF Update, UpdateRow, joinVars, rowVars
<1>7. CASE UNCHANGED accessVars
  BY <1>7 DEF accessVars, connectorVars, vars, rowVars, joinVars
<1> QED
  BY <1>1, <1>2, <1>3, <1>4, <1>5, <1>6, <1>7, <1>8 DEF AccessNext

\* A join that was accepted has a replica, and one that is told of its commit
\* has a row.
LEMMA Serving == AccessSpec => []ServedInv
<1>1. AccessInit => ServedInv
  BY DEF AccessInit, Init, ServedInv, Known
<1>2. IInv /\ ServedInv /\ [AccessNext]_accessVars => ServedInv'
  BY ServedStep
<1> QED
  BY <1>1, <1>2, EnrollmentInvariance, PTL DEF AccessSpec

-------------------------------------------------------------------------------
(***************************************************************************)
(* The caches: what they see of a row.                                     *)
(***************************************************************************)

\* What an update may change of a row, and what it may not.
RowColumns(id) == <<RowName(id), RowFingerprint(id), RowColumn(id)>>

LEMMA CommittedIsKnown == \A id : Committed(id) <=> id \in Known
BY DEF Committed, Known

\* Nothing changes for the caches when no row comes or goes, and the joins
\* of the rows there are do not change to them.
LEMMA SameRows ==
  ASSUME UNCHANGED <<rows, removed>>,
         \A id \in Known : UNCHANGED <<RowJoin(id), RowServer(id), RowColumns(id)>>,
         UNCHANGED <<rewritten, cacheVars, authVars>>
  PROVE  UNCHANGED Caches!vars
<1>1. \A id \in Ids : id \notin Known =>
          UNCHANGED <<RowJoin(id), RowServer(id), RowColumns(id)>>
  BY DEF Committed, Known, RowJoin, RowServer, RowColumns, RowName, RowFingerprint, RowColumn
<1>2. \A id \in Ids : UNCHANGED <<RowJoin(id), RowServer(id), RowColumns(id)>>
  BY <1>1
<1>3. /\ UNCHANGED [id \in Ids |-> RowJoin(id)]
      /\ UNCHANGED [id \in Ids |-> RowServer(id)]
      /\ UNCHANGED [id \in Ids |-> RowName(id)]
      /\ UNCHANGED [id \in Ids |-> RowFingerprint(id)]
      /\ UNCHANGED [id \in Ids |-> RowColumn(id)]
  BY <1>2 DEF RowColumns
<1> QED
  BY <1>3 DEF Caches!vars, Caches!rowVars, Caches!joinVars, Caches!cacheVars, Caches!authVars,
     cacheVars, authVars

\* A join that has neither the answer of its commit nor a row of its current
\* attempt does not show, whatever it does.
LEMMA UncommittedJoin ==
  ASSUME IInv, NEW j \in Joins,
         UNCHANGED <<rowVars, asked, connectorVars>>,
         join[j] \notin {"committed", "done"}, join'[j] \notin {"committed", "done"},
         \A i \in Joins \ {j} : UNCHANGED <<join[i], attempt[i]>>
  PROVE  UNCHANGED Caches!vars
<1>1. \A id \in Known : UNCHANGED <<Committed(id), RowServer(id), RowColumns(id)>>
  BY DEF Committed, RowServer, RowColumns, RowName, RowFingerprint, RowColumn, NameOf, CertOf,
     rowVars, connectorVars
<1>2. ASSUME NEW id \in Known
      PROVE  UNCHANGED RowJoin(id)
  <2>1. id[1] \in Joins
    BY DEF IInv, TypeOK, Known, Ids
  <2>2. CASE id[1] = j
    BY <1>1, <2>2 DEF RowJoin
  <2>3. CASE id[1] # j
    BY <1>1, <2>1, <2>3 DEF RowJoin
  <2> QED
    BY <2>2, <2>3
<1> QED
  BY <1>1, <1>2, SameRows DEF rowVars, connectorVars

\* A row is committed: by the transaction's current attempt, whose ID is new.
LEMMA CommitShows ==
  ASSUME IInv, ServedInv, NEW j \in Joins, NEW to \in {"committed", "failed"},
         ConsumeToken(j, to) \/ (to = "failed" /\ ConsumeTokenAndRetry(j)),
         UNCHANGED connectorVars
  PROVE  Caches!Commit(Id(j), server[j], asked[j].name, FingerprintOf[asked[j].cert], to)
<1> USE DEF IInv, TypeOK, HolderInv, IdInv, OwnerInv, Known, Ids, Id, JoinStates
<1> PICK id \in Ids : id = Id(j)
  OBVIOUS
<1>1. /\ id[1] = j /\ id[2] = attempt[j] /\ join[j] = "inserted"
      /\ id \notin Known /\ ~Committed(id) /\ owner[id] = id
  BY DEF ConsumeToken, ConsumeTokenAndRetry, Committed
<1>2. rows' = rows \union {id} /\ UNCHANGED <<removed, owner, asked, server, rewritten>>
  BY DEF ConsumeToken, ConsumeTokenAndRetry, connectorVars
<1>3. \A x : Committed(x)' <=> Committed(x) \/ x = id
  BY <1>2 DEF Committed
<1>4. \A x \in Ids : RowServer(x)' = IF x = id THEN server[j] ELSE RowServer(x)
  BY <1>1, <1>2, <1>3 DEF RowServer
<1>5. \A x \in Ids :
        /\ RowName(x)' = IF x = id THEN asked[j].name ELSE RowName(x)
        /\ RowFingerprint(x)' = IF x = id THEN FingerprintOf[asked[j].cert] ELSE RowFingerprint(x)
        /\ RowColumn(x)' = IF x = id THEN FingerprintOf[asked[j].cert] ELSE RowColumn(x)
  BY <1>1, <1>2, <1>3 DEF RowName, RowFingerprint, RowColumn, NameOf, CertOf
<1>6. \A x \in Ids : RowJoin(x)' = IF x = id THEN to ELSE RowJoin(x)
  <2>1. RowJoin(id)' = to
    <3>1. Committed(id)'
      BY <1>3
    <3>2. CASE ConsumeToken(j, to)
      <4>1. join'[j] = to /\ attempt'[j] = attempt[j]
        BY <3>2 DEF ConsumeToken, JoinGoes
      <4> QED
        BY <1>1, <3>1, <4>1 DEF RowJoin
    <3>3. CASE to = "failed" /\ ConsumeTokenAndRetry(j)
      <4>1. attempt'[j] # attempt[j]
        BY <3>3 DEF ConsumeTokenAndRetry
      <4> QED
        BY <1>1, <3>1, <3>3, <4>1 DEF RowJoin
    <3> QED
      BY <3>2, <3>3
  <2>2. ASSUME NEW x \in Ids, x # id, x[1] = j
        PROVE  RowJoin(x)' = RowJoin(x)
    <3>1. x[2] # attempt[j]
      BY <1>1, <2>2
    <3>2. Committed(x) => x[2] < attempt[j]
      BY <1>1, <2>2 DEF Committed
    <3>3. Committed(x) => RowJoin(x) = "failed"
      BY <2>2, <3>1 DEF RowJoin
    <3>4. Committed(x) => RowJoin(x)' = "failed"
      BY <1>1, <1>3, <2>2, <3>1, <3>2 DEF RowJoin, ConsumeToken, ConsumeTokenAndRetry, JoinGoes
    <3> QED
      BY <1>3, <2>2, <3>3, <3>4 DEF RowJoin
  <2>3. ASSUME NEW x \in Ids, x[1] # j
        PROVE  RowJoin(x)' = RowJoin(x)
    <3>1. UNCHANGED <<join[x[1]], attempt[x[1]]>>
      BY <2>3 DEF ConsumeToken, ConsumeTokenAndRetry, JoinGoes
    <3>2. Committed(x)' <=> Committed(x)
      BY <1>3, <2>3
    <3> QED
      BY <3>1, <3>2 DEF RowJoin
  <2> QED
    BY <2>1, <2>2, <2>3
<1>7. RowJoin(id) = "new"
  BY <1>1 DEF RowJoin
<1>8. /\ [x \in Ids |-> RowJoin(x)]' = [[x \in Ids |-> RowJoin(x)] EXCEPT ![id] = to]
      /\ [x \in Ids |-> RowServer(x)]' = [[x \in Ids |-> RowServer(x)] EXCEPT ![id] = server[j]]
      /\ [x \in Ids |-> RowName(x)]' = [[x \in Ids |-> RowName(x)] EXCEPT ![id] = asked[j].name]
      /\ [x \in Ids |-> RowFingerprint(x)]' =
            [[x \in Ids |-> RowFingerprint(x)] EXCEPT ![id] = FingerprintOf[asked[j].cert]]
      /\ [x \in Ids |-> RowColumn(x)]' =
            [[x \in Ids |-> RowColumn(x)] EXCEPT ![id] = FingerprintOf[asked[j].cert]]
  BY <1>4, <1>5, <1>6
<1> QED
  BY <1>1, <1>2, <1>7, <1>8 DEF Caches!Commit, Caches!cacheVars, Caches!authVars,
     connectorVars, cacheVars, authVars

\* A deletion by name takes one row with it, or none.
LEMMA DeletionShows ==
  ASSUME IInv, NEW n \in Names, DeleteNamed(n), UNCHANGED <<owner, joinVars, connectorVars>>
  PROVE  (\E id \in Ids : Caches!Delete(id)) \/ UNCHANGED Caches!vars
<1>1. \A x : Committed(x)' <=> Committed(x)
  BY DEF DeleteNamed, RowsNamed, Committed
<1>2. \A x \in Ids : UNCHANGED <<RowJoin(x), RowServer(x), RowColumns(x)>>
  BY <1>1 DEF RowJoin, RowServer, RowColumns, RowName, RowFingerprint, RowColumn, NameOf, CertOf,
     joinVars, connectorVars
<1>3. /\ UNCHANGED [id \in Ids |-> RowJoin(id)]
      /\ UNCHANGED [id \in Ids |-> RowServer(id)]
      /\ UNCHANGED [id \in Ids |-> RowName(id)]
      /\ UNCHANGED [id \in Ids |-> RowFingerprint(id)]
      /\ UNCHANGED [id \in Ids |-> RowColumn(id)]
  BY <1>2 DEF RowColumns
<1>4. CASE RowsNamed(n) = {}
  <2>1. UNCHANGED <<rows, removed>>
    BY <1>4 DEF DeleteNamed
  <2> QED
    BY <1>3, <2>1 DEF Caches!vars, Caches!rowVars, Caches!joinVars, Caches!cacheVars, Caches!authVars,
       connectorVars, cacheVars, authVars
<1>5. ASSUME NEW id \in RowsNamed(n)
      PROVE  \E x \in Ids : Caches!Delete(x)
  <2>1. id \in rows /\ id \in Ids
    BY DEF RowsNamed, IInv, TypeOK
  <2>2. RowsNamed(n) = {id}
    BY DEF RowsNamed, IInv, UniqueInv
  <2>3. Caches!Delete(id)
    BY <1>3, <2>1, <2>2 DEF DeleteNamed, Caches!Delete, Caches!cacheVars, Caches!authVars,
       connectorVars, cacheVars, authVars
  <2> QED
    BY <2>1, <2>3
<1> QED
  BY <1>4, <1>5

\* An update puts in a row what a deleted row of the same name was inserted with.
LEMMA UpdateShows ==
  ASSUME IInv, NEW id \in Ids, NEW old \in Ids, Update(id, old)
  PROVE  Caches!Next
<1> DEFINE f == FingerprintOf[asked[old[1]].cert]
<1>1. /\ id \in rows /\ old \in removed \union {id} /\ NameOf(old) = NameOf(id)
      /\ owner' = [owner EXCEPT ![id] = old]
      /\ UNCHANGED <<rows, removed, joinVars, server, cacheVars, authVars>>
  BY DEF Update, UpdateRow
<1>2. f \in Fingerprints
  BY <1>1, FingerprintOfAssumption DEF IInv, TypeOK, HolderInv, Known, Asks
<1>3. Committed(id) /\ Committed(old)
  BY <1>1 DEF Committed
<1>4. Caches!IsFrom(f, id)
  BY <1>1, <1>3 DEF Caches!IsFrom, RowFingerprint, RowName
<1>5. \A x \in Ids : UNCHANGED <<RowJoin(x), RowServer(x), RowName(x), RowFingerprint(x)>>
  BY <1>1 DEF RowJoin, RowServer, RowName, RowFingerprint, Committed, NameOf, joinVars
<1>6. \A x \in Ids : RowColumn(x)' = IF x = id THEN f ELSE RowColumn(x)
  BY <1>1, <1>3 DEF RowColumn, Committed, CertOf, joinVars, IInv, TypeOK
<1>7. /\ UNCHANGED [x \in Ids |-> RowJoin(x)]
      /\ UNCHANGED [x \in Ids |-> RowServer(x)]
      /\ UNCHANGED [x \in Ids |-> RowName(x)]
      /\ UNCHANGED [x \in Ids |-> RowFingerprint(x)]
      /\ [x \in Ids |-> RowColumn(x)]' = [[x \in Ids |-> RowColumn(x)] EXCEPT ![id] = f]
  BY <1>5, <1>6
<1>8. rewritten' = IF f = RowFingerprint(id) THEN rewritten ELSE rewritten \union {id}
  BY DEF Update
<1>9. Caches!Rewrite(id, f)
  BY <1>1, <1>4, <1>7, <1>8 DEF Caches!Rewrite, Caches!cacheVars, Caches!authVars, cacheVars, authVars
<1> QED
  BY <1>2, <1>9 DEF Caches!Next

\* A step is one of MtlsAuth, or none.
LEMMA CachesStep ==
  ASSUME IInv, ServedInv, [AccessNext]_accessVars
  PROVE  [Caches!Next]_(Caches!vars)
<1>1. CASE Database
  <2>1. UNCHANGED connectorVars
    BY <1>1 DEF Database
  <2>2. CASE TokenNext
    <3>1. UNCHANGED <<rowVars, joinVars>>
      BY <2>2 DEF TokenNext, CheckName, PostFails, InsertToken, DeleteToken, Lapse
    <3>2. \A id \in Known : UNCHANGED <<RowJoin(id), RowServer(id), RowColumns(id)>>
      BY <2>1, <3>1 DEF Committed, RowJoin, RowServer, RowColumns, RowName, RowFingerprint, RowColumn,
         NameOf, CertOf, rowVars, joinVars, connectorVars
    <3> QED
      BY <2>1, <3>1, <3>2, SameRows DEF rowVars, connectorVars
  <2>3. ASSUME NEW j \in Joins, InsertCluster(j) \/ InsertRefused(j) \/ NoTokenLeft(j)
                  \/ RollBack(j) \/ RollBackAndRetry(j) \/ CheckTokenFails(j)
        PROVE  UNCHANGED Caches!vars
    <3>1. /\ join[j] \notin {"committed", "done"} /\ join'[j] \notin {"committed", "done"}
          /\ UNCHANGED <<rowVars, asked>>
          /\ \A i \in Joins \ {j} : UNCHANGED <<join[i], attempt[i]>>
      BY <2>3 DEF InsertCluster, InsertRefused, NoTokenLeft, RollBack, RollBackAndRetry,
         CheckTokenFails, JoinGoes, IInv, TypeOK
    <3> QED
      BY <2>1, <3>1, UncommittedJoin DEF connectorVars
  <2>4. ASSUME NEW j \in Joins, NEW to \in {"committed", "failed"},
               ConsumeToken(j, to) \/ (to = "failed" /\ ConsumeTokenAndRetry(j))
        PROVE  Caches!Next
    <3>1. Caches!Commit(Id(j), server[j], asked[j].name, FingerprintOf[asked[j].cert], to)
      BY <2>1, <2>4, CommitShows
    <3>2. /\ Id(j) \in Ids /\ server[j] \in Replicas
          /\ asked[j].name \in Names /\ FingerprintOf[asked[j].cert] \in Fingerprints
      BY <2>4, FingerprintOfAssumption DEF ConsumeToken, ConsumeTokenAndRetry, IInv, TypeOK,
         HolderInv, ServedInv, Ids, Id, Asks
    <3> QED
      BY <3>1, <3>2 DEF Caches!Next
  <2>5. ASSUME NEW n \in Names, DeleteCluster(n)
        PROVE  [Caches!Next]_(Caches!vars)
    BY <2>1, <2>5, DeletionShows DEF DeleteCluster, Caches!Next
  <2>6. ASSUME NEW id \in Ids, DeleteLeaving(id)
        PROVE  [Caches!Next]_(Caches!vars)
    <3>1. NameOf(id) \in Names
      BY <2>6 DEF DeleteLeaving, IInv, TypeOK, HolderInv, IdInv, Known, NameOf, Asks
    <3> QED
      BY <2>1, <2>6, <3>1, DeletionShows DEF DeleteLeaving, Caches!Next
  <2> QED
    BY <1>1, <2>2, <2>3, <2>4, <2>5, <2>6 DEF Database, JoinTransacts
<1>2. CASE Authenticate
  BY <1>2 DEF Authenticate, Caches!Next
<1>3. ASSUME NEW j \in Joins, AddCertificate(j)
      PROVE  Caches!Next
  <2> PICK id \in Ids : id = Id(j)
    BY DEF IInv, TypeOK, Ids, Id
  <2>1. Committed(id) /\ id[1] = j /\ id[2] = attempt[j]
    BY <1>3 DEF AddCertificate, Trust, IInv, TypeOK, ServedInv, Known, Committed, Ids, Id
  <2>2. RowJoin(id) = "committed" /\ RowServer(id) = server[j]
    BY <1>3, <2>1 DEF AddCertificate, Trust, RowJoin, RowServer
  <2>3. UNCHANGED <<rowVars, asked, attempt, server, rewritten>>
    BY <1>3 DEF AddCertificate, Trust
  <2>4. \A x \in Ids : UNCHANGED <<Committed(x), RowServer(x), RowColumns(x)>>
    BY <2>3 DEF Committed, RowServer, RowColumns, RowName, RowFingerprint, RowColumn,
         NameOf, CertOf, rowVars
  <2>5. \A x \in Ids : RowJoin(x)' = IF x = id THEN "done" ELSE RowJoin(x)
    <3>1. RowJoin(id)' = "done"
      BY <1>3, <2>1, <2>3, <2>4 DEF AddCertificate, Trust, JoinGoes, RowJoin, IInv, TypeOK
    <3>2. ASSUME NEW x \in Ids, x # id
          PROVE  RowJoin(x)' = RowJoin(x)
      <4>1. CASE x[1] = j
        <5>1. x[2] # attempt[j]
          BY <2>1, <3>2, <4>1 DEF Ids, Id
        <5> QED
          BY <2>3, <2>4, <4>1, <5>1 DEF RowJoin
      <4>2. CASE x[1] # j
        BY <1>3, <2>3, <2>4, <4>2 DEF AddCertificate, Trust, JoinGoes, RowJoin, Ids, IInv, TypeOK
      <4> QED
        BY <4>1, <4>2
    <3> QED
      BY <3>1, <3>2
  <2>6. /\ [x \in Ids |-> RowJoin(x)]' = [[x \in Ids |-> RowJoin(x)] EXCEPT ![id] = "done"]
        /\ UNCHANGED [x \in Ids |-> RowServer(x)]
        /\ UNCHANGED [x \in Ids |-> RowName(x)]
        /\ UNCHANGED [x \in Ids |-> RowFingerprint(x)]
        /\ UNCHANGED [x \in Ids |-> RowColumn(x)]
    BY <2>4, <2>5 DEF RowColumns
  <2>7. Caches!AddCertificate(id)
    BY <1>3, <2>1, <2>2, <2>3, <2>6 DEF AddCertificate, Trust, Caches!AddCertificate,
       Caches!rowVars, Caches!authVars, authVars, rowVars
  <2> QED
    BY <2>1, <2>7 DEF Caches!Next
<1>4. ASSUME NEW j \in Joins, NEW r \in Replicas, NEW ask \in Asks, CheckTokenAt(j, r, ask)
      PROVE  UNCHANGED Caches!vars
  <2>1. \A id \in Known : id[1] # j /\ id[1] \in Joins
    BY <1>4 DEF CheckTokenAt, CheckToken, IInv, TypeOK, HolderInv, Known, Ids
  <2>2. /\ UNCHANGED <<rowVars, rewritten, attempt, cacheVars, authVars>>
        /\ \A i \in Joins \ {j} : UNCHANGED <<join[i], asked[i], server[i]>>
    BY <1>4 DEF CheckTokenAt, CheckToken, JoinGoes, IInv, TypeOK, ServedInv
  <2>4. \A id \in Known : id \in Ids /\ owner[id] \in Known
    BY DEF IInv, TypeOK, OwnerInv, Known
  <2>3. \A id \in Known : UNCHANGED <<RowJoin(id), RowServer(id), RowColumns(id)>>
    BY <2>1, <2>2, <2>4 DEF Committed, RowJoin, RowServer, RowColumns, RowName, RowFingerprint, RowColumn,
         NameOf, CertOf, rowVars
  <2> QED
    BY <2>2, <2>3, SameRows DEF rowVars
<1>5. ASSUME NEW a \in Auths, Leave(a)
      PROVE  UNCHANGED Caches!vars
  <2>1. UNCHANGED <<rowVars, joinVars, connectorVars>>
    BY <1>5 DEF Leave, ReadLeaving
  <2>2. \A id \in Known : UNCHANGED <<RowJoin(id), RowServer(id), RowColumns(id)>>
    BY <2>1 DEF Committed, RowJoin, RowServer, RowColumns, RowName, RowFingerprint, RowColumn,
         NameOf, CertOf, rowVars, joinVars, connectorVars
  <2> QED
    BY <2>1, <2>2, SameRows DEF rowVars, connectorVars
<1>6. ASSUME NEW r \in Replicas, Restart(r)
      PROVE  Caches!Next
  BY <1>6 DEF Restart, Caches!Next
<1>7. CASE UNCHANGED accessVars
  <2>1. UNCHANGED <<rowVars, joinVars, connectorVars>>
    BY <1>7 DEF accessVars, vars
  <2>2. \A id \in Known : UNCHANGED <<RowJoin(id), RowServer(id), RowColumns(id)>>
    BY <2>1 DEF Committed, RowJoin, RowServer, RowColumns, RowName, RowFingerprint, RowColumn,
         NameOf, CertOf, rowVars, joinVars, connectorVars
  <2> QED
    BY <2>1, <2>2, SameRows DEF rowVars, connectorVars
<1>8. ASSUME NEW id \in Ids, NEW old \in Ids, Update(id, old)
      PROVE  Caches!Next
  BY <1>8, UpdateShows
<1> QED
  BY <1>1, <1>2, <1>3, <1>4, <1>5, <1>6, <1>7, <1>8 DEF AccessNext

\* What the caches of MtlsAuth are told of rows is what becomes of the rows of
\* Enrollment.
THEOREM Composition == AccessSpec => ImplementsMtlsAuth
<1>1. AccessInit => Caches!Init
  BY DEF AccessInit
<1>2. IInv /\ ServedInv /\ [AccessNext]_accessVars => [Caches!Next]_(Caches!vars)
  BY CachesStep
<1> QED
  BY <1>1, <1>2, EnrollmentInvariance, Serving, PTL DEF AccessSpec, ImplementsMtlsAuth, Caches!Spec

-------------------------------------------------------------------------------
(***************************************************************************)
(* What is proved of MtlsAuth, carried over.                               *)
(***************************************************************************)

\* The constants of the composition are as MtlsAuth assumes them to be.
LEMMA CachesAssumptions ==
  /\ NoCluster \notin Ids
  /\ NoAuth \notin Auths
  /\ MaxRetries \in Nat \ {0}
  /\ None \notin Replicas \union Fingerprints \union Names
BY NoClusterAssumption, NoAuthAssumption, MaxRetriesAssumption, NoneAssumption DEF Ids

\* MtlsAuth as MtlsAuthProofs has it is MtlsAuth.
LEMMA SameCaches == Caches!Spec => Proved!Spec
<1> USE DEF Caches!vars, Proved!vars, Caches!rowVars, Proved!rowVars, Caches!joinVars, Proved!joinVars, Caches!cacheVars,
       Proved!cacheVars, Caches!authVars, Proved!authVars, Caches!NoEntries, Proved!NoEntries
<1>1. Caches!Init => Proved!Init
  BY DEF Caches!Init, Proved!Init
<1>2. ASSUME NEW i \in Ids
      PROVE  /\ Caches!RollBack(i) => Proved!RollBack(i)
             /\ Caches!Delete(i) => Proved!Delete(i)
             /\ Caches!AddCertificate(i) => Proved!AddCertificate(i)
             /\ \A r, n, f, to : Caches!Commit(i, r, n, f, to) => Proved!Commit(i, r, n, f, to)
             /\ \A f : Caches!Rewrite(i, f) => Proved!Rewrite(i, f)
  BY DEF Caches!RollBack, Proved!RollBack, Caches!Delete, Proved!Delete, Caches!Unlocked,
     Proved!Unlocked, Caches!AddCertificate, Proved!AddCertificate, Caches!Commit, Proved!Commit,
     Caches!Rewrite, Proved!Rewrite, Caches!IsFrom, Proved!IsFrom
<1>3. ASSUME NEW a \in Auths
      PROVE  /\ Caches!AuthProceeds(a) => Proved!AuthProceeds(a)
             /\ Caches!Finish(a) => Proved!Finish(a)
  BY DEF Caches!AuthProceeds, Proved!AuthProceeds, Caches!Unlocked, Proved!Unlocked,
     Caches!AuthGoes, Proved!AuthGoes, Caches!Entries, Proved!Entries,
     Caches!RowsWith, Proved!RowsWith, Caches!Release, Proved!Release,
     Caches!BeginAgain, Proved!BeginAgain, Caches!CheckExpiry, Proved!CheckExpiry,
     Caches!RebuildSkipped, Proved!RebuildSkipped, Caches!BeginRebuild, Proved!BeginRebuild,
     Caches!ReadRows, Proved!ReadRows, Caches!FillCache, Proved!FillCache,
     Caches!RebuildFails, Proved!RebuildFails, Caches!RetryRebuild, Proved!RetryRebuild,
     Caches!FillCacheAndRetry, Proved!FillCacheAndRetry, Caches!CheckTrusted,
     Proved!CheckTrusted, Caches!GetEntry, Proved!GetEntry, Caches!Finish, Proved!Finish
<1>4. ASSUME NEW a \in Auths, NEW r \in Replicas, NEW f \in Fingerprints
      PROVE  Caches!Present(a, r, f) => Proved!Present(a, r, f)
  BY DEF Caches!Present, Proved!Present, Caches!AuthGoes, Proved!AuthGoes
<1>5. ASSUME NEW r \in Replicas
      PROVE  /\ Caches!Expire(r) => Proved!Expire(r)
             /\ Caches!Restart(r) => Proved!Restart(r)
  BY DEF Caches!Expire, Proved!Expire, Caches!Restart, Proved!Restart
<1>6. [Caches!Next]_(Caches!vars) => [Proved!Next]_(Proved!vars)
  BY <1>2, <1>3, <1>4, <1>5 DEF Caches!Next, Proved!Next
<1> QED
  BY <1>1, <1>6, PTL DEF Caches!Spec, Proved!Spec

\* The inductive invariant of MtlsAuth holds of the caches.
LEMMA CachesInvariance == AccessSpec => []Proved!IInv
BY Composition, SameCaches, CachesAssumptions, Proved!Invariance, PTL DEF ImplementsMtlsAuth

\* A cluster whose join was answered stays in the cache of the replica that
\* answered it as long as its row is there, whatever other joins, deletions
\* and retried commits do to the rows in the meantime.
THEOREM EnrolledStaysTrusted == AccessSpec => []Caches!JoinedIsTrusted
<1>1. Proved!IInv => Caches!JoinedIsTrusted
  BY DEF Proved!IInv, Proved!JoinedIsTrusted, Caches!JoinedIsTrusted
<1> QED
  BY <1>1, CachesInvariance, PTL

\* Revocation is final in the composition too: a name that is enrolled anew, or
\* a transaction that is run again, gives no deleted row its access back.
THEOREM RevokedStaysOut == AccessSpec => Caches!RevokedForGood
<1>1. ASSUME NEW i \in Ids
      PROVE  Caches!Forgotten(i) <=> Proved!Forgotten(i)
  BY DEF Caches!Forgotten, Proved!Forgotten
<1>2. ASSUME NEW i \in Ids
      PROVE  Caches!Forgotten(i)' <=> Proved!Forgotten(i)'
  BY DEF Caches!Forgotten, Proved!Forgotten
<1>3. ASSUME NEW i \in Ids
      PROVE  Caches!LetsNobodyIn(i) <=> Proved!LetsNobodyIn(i)
  BY DEF Caches!LetsNobodyIn, Proved!LetsNobodyIn
<1>4. [\A i \in Ids : Proved!Forgotten(i) => Proved!Forgotten(i)' /\ Proved!LetsNobodyIn(i)]_(Proved!vars)
        => [\A i \in Ids : Caches!Forgotten(i) => Caches!Forgotten(i)' /\ Caches!LetsNobodyIn(i)]_(Caches!vars)
  BY <1>1, <1>2, <1>3 DEF Caches!vars, Proved!vars, Caches!rowVars, Proved!rowVars,
     Caches!joinVars, Proved!joinVars, Caches!cacheVars, Proved!cacheVars, Caches!authVars,
     Proved!authVars
<1> QED
  BY <1>4, Composition, SameCaches, CachesAssumptions, Proved!RevocationIsFinal, PTL
     DEF ImplementsMtlsAuth, Caches!RevokedForGood, Proved!RevokedForGood

\* From end to end: whoever is let through presents a certificate with the
\* fingerprint of the one with which the cluster it is taken for has joined, or,
\* if an update has put it in the row, a deleted cluster of the same name; and
\* that cluster held a token an administrator was given for its name.
THEOREM EndToEnd == AccessSpec => []OnlyEnrolled
<1>1. IInv /\ Proved!IInv => OnlyEnrolled
  <2> SUFFICES ASSUME IInv, Proved!IInv, NEW a \in Auths, auth[a] = "accepted"
               PROVE  /\ result[a] \in Known
                      /\ \E id \in removed \union {result[a]} :
                            /\ id = result[a] \/ result[a] \in rewritten
                            /\ presented[a] = FingerprintOf[asked[id[1]].cert]
                            /\ asked[id[1]].name = NameOf(result[a])
                            /\ tokenName[asked[id[1]].token] = asked[id[1]].name
                            /\ post[asked[id[1]].token] = "issued"
    BY DEF OnlyEnrolled
  <2> PICK x : x = result[a]
    OBVIOUS
  <2>1. x \in Known /\ x \in Ids
    BY DEF Proved!IInv, Proved!AuthenticatedAsItself, Known, IInv, TypeOK
  <2>2. PICK id \in removed \union {x} :
          /\ id = x \/ x \in rewritten
          /\ id \in Ids /\ presented[a] = RowFingerprint(id) /\ RowName(id) = RowName(x)
    BY <2>1 DEF Proved!IInv, Proved!AuthenticatedAsItself, Proved!Carried, Proved!IsFrom, IInv, TypeOK
  <2>3. id \in Known
    BY <2>1, <2>2 DEF Known
  <2>4. presented[a] = FingerprintOf[asked[id[1]].cert] /\ asked[id[1]].name = NameOf(x)
    BY <2>1, <2>2, <2>3, CommittedIsKnown DEF RowFingerprint, RowName, NameOf
  <2>5. tokenName[asked[id[1]].token] = asked[id[1]].name /\ post[asked[id[1]].token] = "issued"
    <3>1. asked[id[1]] \in Asks /\ id[1] \in Joins
      BY <2>2, <2>3 DEF IInv, HolderInv, Ids
    <3> QED
      BY <3>1, NoAskAssumption DEF IInv, HolderInv, Asks
  <2> QED
    BY <2>1, <2>2, <2>4, <2>5
<1> QED
  BY <1>1, EnrollmentInvariance, CachesInvariance, PTL

===============================================================================
