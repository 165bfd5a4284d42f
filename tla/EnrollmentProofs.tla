------------------------- MODULE EnrollmentProofs --------------------------
(***************************************************************************)
(* Proofs about Enrollment, for every set of names, certificates, tokens   *)
(* and joins and every number of retries.  IInv is inductive; each of its  *)
(* conjuncts has a lemma, with one step per action.  RefinementStep maps   *)
(* every step to a step of Admission or to none.                           *)
(***************************************************************************)
EXTENDS Enrollment, TLAPS

LEMMA InitIInv == Init => IInv
BY NoNameAssumption, NoTokenAssumption, NoAskAssumption, MaxRetriesAssumption
   DEF Init, IInv, TypeOK, Asks, Ids, PostStates, JoinStates, Known, TokenInv, HolderInv,
       IdInv, OwnerInv, UniqueInv

\* Every step keeps the state in its type.
LEMMA TypeStep ==
  ASSUME TypeOK, HolderInv, [Next]_vars
  PROVE  TypeOK'
<1> USE NoTokenAssumption, MaxRetriesAssumption DEF TypeOK, HolderInv, Asks,
   Ids, Id, PostStates, JoinStates, Known
<1>1. ASSUME NEW k \in Tokens, NEW n \in Names, CheckName(k, n)
      PROVE  TypeOK'
  BY <1>1 DEF CheckName, PostGoes, rowVars, tokenVars, joinVars
<1>2. ASSUME NEW k \in Tokens, PostFails(k)
      PROVE  TypeOK'
  BY <1>2 DEF PostFails, PostGoes, rowVars, tokenVars, joinVars
<1>3. ASSUME NEW k \in Tokens, NEW to \in {"issued", "unanswered"}, InsertToken(k, to)
      PROVE  TypeOK'
  BY <1>3 DEF InsertToken, PostGoes, rowVars, tokenVars, joinVars
<1>4. ASSUME NEW n \in Names, DeleteToken(n)
      PROVE  TypeOK'
  BY <1>4 DEF DeleteToken, rowVars, tokenVars, joinVars
<1>5. ASSUME NEW k \in Tokens, Lapse(k)
      PROVE  TypeOK'
  BY <1>5 DEF Lapse, rowVars, tokenVars, joinVars
<1>6. ASSUME NEW j \in Joins, NEW ask \in Asks, CheckToken(j, ask)
      PROVE  TypeOK'
  BY <1>6 DEF CheckToken, JoinGoes, rowVars, tokenVars, joinVars
<1>7. ASSUME NEW j \in Joins, CheckTokenFails(j)
      PROVE  TypeOK'
  BY <1>7 DEF CheckTokenFails, JoinGoes, rowVars, tokenVars, joinVars
<1>8. ASSUME NEW j \in Joins, InsertCluster(j)
      PROVE  TypeOK'
  BY <1>8 DEF InsertCluster, JoinGoes, rowVars, tokenVars, joinVars
<1>9. ASSUME NEW j \in Joins, InsertRefused(j)
      PROVE  TypeOK'
  BY <1>9 DEF InsertRefused, JoinGoes, rowVars, tokenVars, joinVars
<1>10. ASSUME NEW j \in Joins, NEW to \in {"committed", "failed"}, ConsumeToken(j, to)
      PROVE  TypeOK'
  BY <1>10 DEF ConsumeToken, JoinGoes, rowVars, tokenVars, joinVars
<1>11. ASSUME NEW j \in Joins, ConsumeTokenAndRetry(j)
      PROVE  TypeOK'
  BY <1>11 DEF ConsumeTokenAndRetry, JoinGoes, rowVars, tokenVars, joinVars
<1>12. ASSUME NEW j \in Joins, NoTokenLeft(j)
      PROVE  TypeOK'
  BY <1>12 DEF NoTokenLeft, JoinGoes, rowVars, tokenVars, joinVars
<1>13. ASSUME NEW j \in Joins, RollBack(j)
      PROVE  TypeOK'
  BY <1>13 DEF RollBack, JoinGoes, rowVars, tokenVars, joinVars
<1>14. ASSUME NEW j \in Joins, RollBackAndRetry(j)
      PROVE  TypeOK'
  BY <1>14 DEF RollBackAndRetry, JoinGoes, rowVars, tokenVars, joinVars
<1>15. ASSUME NEW j \in Joins, Trust(j)
      PROVE  TypeOK'
  BY <1>15 DEF Trust, JoinGoes, rowVars, tokenVars, joinVars
<1>16. ASSUME NEW dead \in SUBSET Joins, Die(dead)
      PROVE  TypeOK'
  BY <1>16 DEF Die, UnderWay, rowVars, tokenVars, joinVars
<1>17. ASSUME NEW n \in Names, DeleteCluster(n)
      PROVE  TypeOK'
  BY <1>17 DEF DeleteCluster, DeleteNamed, RowsNamed, rowVars, tokenVars, joinVars
<1>18. ASSUME NEW id \in Ids, ReadLeaving(id)
      PROVE  TypeOK'
  BY <1>18 DEF ReadLeaving, rowVars, tokenVars, joinVars
<1>19. ASSUME NEW id \in Ids, DeleteLeaving(id)
      PROVE  TypeOK'
  BY <1>19 DEF DeleteLeaving, DeleteNamed, RowsNamed, rowVars, tokenVars, joinVars
<1>21. ASSUME NEW id \in Ids, NEW old \in Ids, UpdateRow(id, old)
       PROVE  TypeOK'
  BY <1>21 DEF UpdateRow, rowVars, tokenVars, joinVars
<1>20. CASE UNCHANGED vars
  BY <1>20 DEF vars, rowVars, tokenVars, joinVars
<1> QED
  BY <1>1, <1>2, <1>3, <1>4, <1>5, <1>6, <1>7, <1>8, <1>9, <1>10, <1>11,
     <1>12, <1>13, <1>14, <1>15, <1>16, <1>17, <1>18, <1>19, <1>20, <1>21 DEF Next,
     TokenNext, JoinNext, JoinProceeds,
     JoinTransacts, DeleteNext, UpdateNext

\* What is stored for a name was issued for it.
LEMMA TokenStep ==
  ASSUME TypeOK, TokenInv, [Next]_vars
  PROVE  TokenInv'
<1> USE NoTokenAssumption DEF TypeOK, TokenInv, PostStates
<1>1. ASSUME NEW k \in Tokens, NEW n \in Names, CheckName(k, n)
      PROVE  TokenInv'
  BY <1>1 DEF CheckName, PostGoes, rowVars, tokenVars, joinVars
<1>2. ASSUME NEW k \in Tokens, PostFails(k)
      PROVE  TokenInv'
  BY <1>2 DEF PostFails, PostGoes, rowVars, tokenVars, joinVars
<1>3. ASSUME NEW k \in Tokens, NEW to \in {"issued", "unanswered"}, InsertToken(k, to)
      PROVE  TokenInv'
  BY <1>3 DEF InsertToken, PostGoes, rowVars, tokenVars, joinVars
<1>4. ASSUME NEW n \in Names, DeleteToken(n)
      PROVE  TokenInv'
  BY <1>4 DEF DeleteToken, rowVars, tokenVars, joinVars
<1>5. ASSUME NEW k \in Tokens, Lapse(k)
      PROVE  TokenInv'
  BY <1>5 DEF Lapse, rowVars, tokenVars, joinVars
<1>6. ASSUME NEW j \in Joins, NEW ask \in Asks, CheckToken(j, ask)
      PROVE  TokenInv'
  BY <1>6 DEF CheckToken, JoinGoes, rowVars, tokenVars, joinVars
<1>7. ASSUME NEW j \in Joins, CheckTokenFails(j)
      PROVE  TokenInv'
  BY <1>7 DEF CheckTokenFails, JoinGoes, rowVars, tokenVars, joinVars
<1>8. ASSUME NEW j \in Joins, InsertCluster(j)
      PROVE  TokenInv'
  BY <1>8 DEF InsertCluster, JoinGoes, rowVars, tokenVars, joinVars
<1>9. ASSUME NEW j \in Joins, InsertRefused(j)
      PROVE  TokenInv'
  BY <1>9 DEF InsertRefused, JoinGoes, rowVars, tokenVars, joinVars
<1>10. ASSUME NEW j \in Joins, NEW to \in {"committed", "failed"}, ConsumeToken(j, to)
      PROVE  TokenInv'
  BY <1>10 DEF ConsumeToken, JoinGoes, rowVars, tokenVars, joinVars
<1>11. ASSUME NEW j \in Joins, ConsumeTokenAndRetry(j)
      PROVE  TokenInv'
  BY <1>11 DEF ConsumeTokenAndRetry, JoinGoes, rowVars, tokenVars, joinVars
<1>12. ASSUME NEW j \in Joins, NoTokenLeft(j)
      PROVE  TokenInv'
  BY <1>12 DEF NoTokenLeft, JoinGoes, rowVars, tokenVars, joinVars
<1>13. ASSUME NEW j \in Joins, RollBack(j)
      PROVE  TokenInv'
  BY <1>13 DEF RollBack, JoinGoes, rowVars, tokenVars, joinVars
<1>14. ASSUME NEW j \in Joins, RollBackAndRetry(j)
      PROVE  TokenInv'
  BY <1>14 DEF RollBackAndRetry, JoinGoes, rowVars, tokenVars, joinVars
<1>15. ASSUME NEW j \in Joins, Trust(j)
      PROVE  TokenInv'
  BY <1>15 DEF Trust, JoinGoes, rowVars, tokenVars, joinVars
<1>16. ASSUME NEW dead \in SUBSET Joins, Die(dead)
      PROVE  TokenInv'
  BY <1>16 DEF Die, UnderWay, rowVars, tokenVars, joinVars
<1>17. ASSUME NEW n \in Names, DeleteCluster(n)
      PROVE  TokenInv'
  BY <1>17 DEF DeleteCluster, DeleteNamed, RowsNamed, rowVars, tokenVars, joinVars
<1>18. ASSUME NEW id \in Ids, ReadLeaving(id)
      PROVE  TokenInv'
  BY <1>18 DEF ReadLeaving, rowVars, tokenVars, joinVars
<1>19. ASSUME NEW id \in Ids, DeleteLeaving(id)
      PROVE  TokenInv'
  BY <1>19 DEF DeleteLeaving, DeleteNamed, RowsNamed, rowVars, tokenVars, joinVars
<1>21. ASSUME NEW id \in Ids, NEW old \in Ids, UpdateRow(id, old)
       PROVE  TokenInv'
  BY <1>21 DEF UpdateRow, rowVars, tokenVars, joinVars
<1>20. CASE UNCHANGED vars
  BY <1>20 DEF vars, rowVars, tokenVars, joinVars
<1> QED
  BY <1>1, <1>2, <1>3, <1>4, <1>5, <1>6, <1>7, <1>8, <1>9, <1>10, <1>11,
     <1>12, <1>13, <1>14, <1>15, <1>16, <1>17, <1>18, <1>19, <1>20, <1>21 DEF Next,
     TokenNext, JoinNext, JoinProceeds,
     JoinTransacts, DeleteNext, UpdateNext

\* Joins that passed the check, and rows, hold a token of their name.
LEMMA HolderStep ==
  ASSUME TypeOK, TokenInv, HolderInv, [Next]_vars
  PROVE  HolderInv'
<1> USE NoTokenAssumption, NoAskAssumption DEF TypeOK, TokenInv, HolderInv,
   Known, Asks, Ids, Id, PostStates, JoinStates
<1>1. ASSUME NEW k \in Tokens, NEW n \in Names, CheckName(k, n)
      PROVE  HolderInv'
  BY <1>1 DEF CheckName, PostGoes, rowVars, tokenVars, joinVars
<1>2. ASSUME NEW k \in Tokens, PostFails(k)
      PROVE  HolderInv'
  BY <1>2 DEF PostFails, PostGoes, rowVars, tokenVars, joinVars
<1>3. ASSUME NEW k \in Tokens, NEW to \in {"issued", "unanswered"}, InsertToken(k, to)
      PROVE  HolderInv'
  BY <1>3 DEF InsertToken, PostGoes, rowVars, tokenVars, joinVars
<1>4. ASSUME NEW n \in Names, DeleteToken(n)
      PROVE  HolderInv'
  BY <1>4 DEF DeleteToken, rowVars, tokenVars, joinVars
<1>5. ASSUME NEW k \in Tokens, Lapse(k)
      PROVE  HolderInv'
  BY <1>5 DEF Lapse, rowVars, tokenVars, joinVars
<1>6. ASSUME NEW j \in Joins, NEW ask \in Asks, CheckToken(j, ask)
      PROVE  HolderInv'
  BY <1>6 DEF CheckToken, JoinGoes, rowVars, tokenVars, joinVars
<1>7. ASSUME NEW j \in Joins, CheckTokenFails(j)
      PROVE  HolderInv'
  BY <1>7 DEF CheckTokenFails, JoinGoes, rowVars, tokenVars, joinVars
<1>8. ASSUME NEW j \in Joins, InsertCluster(j)
      PROVE  HolderInv'
  BY <1>8 DEF InsertCluster, JoinGoes, rowVars, tokenVars, joinVars
<1>9. ASSUME NEW j \in Joins, InsertRefused(j)
      PROVE  HolderInv'
  BY <1>9 DEF InsertRefused, JoinGoes, rowVars, tokenVars, joinVars
<1>10. ASSUME NEW j \in Joins, NEW to \in {"committed", "failed"}, ConsumeToken(j, to)
      PROVE  HolderInv'
  BY <1>10 DEF ConsumeToken, JoinGoes, rowVars, tokenVars, joinVars
<1>11. ASSUME NEW j \in Joins, ConsumeTokenAndRetry(j)
      PROVE  HolderInv'
  BY <1>11 DEF ConsumeTokenAndRetry, JoinGoes, rowVars, tokenVars, joinVars
<1>12. ASSUME NEW j \in Joins, NoTokenLeft(j)
      PROVE  HolderInv'
  BY <1>12 DEF NoTokenLeft, JoinGoes, rowVars, tokenVars, joinVars
<1>13. ASSUME NEW j \in Joins, RollBack(j)
      PROVE  HolderInv'
  BY <1>13 DEF RollBack, JoinGoes, rowVars, tokenVars, joinVars
<1>14. ASSUME NEW j \in Joins, RollBackAndRetry(j)
      PROVE  HolderInv'
  BY <1>14 DEF RollBackAndRetry, JoinGoes, rowVars, tokenVars, joinVars
<1>15. ASSUME NEW j \in Joins, Trust(j)
      PROVE  HolderInv'
  BY <1>15 DEF Trust, JoinGoes, rowVars, tokenVars, joinVars
<1>16. ASSUME NEW dead \in SUBSET Joins, Die(dead)
      PROVE  HolderInv'
  BY <1>16 DEF Die, UnderWay, rowVars, tokenVars, joinVars
<1>17. ASSUME NEW n \in Names, DeleteCluster(n)
      PROVE  HolderInv'
  BY <1>17 DEF DeleteCluster, DeleteNamed, RowsNamed, rowVars, tokenVars, joinVars
<1>18. ASSUME NEW id \in Ids, ReadLeaving(id)
      PROVE  HolderInv'
  BY <1>18 DEF ReadLeaving, rowVars, tokenVars, joinVars
<1>19. ASSUME NEW id \in Ids, DeleteLeaving(id)
      PROVE  HolderInv'
  BY <1>19 DEF DeleteLeaving, DeleteNamed, RowsNamed, rowVars, tokenVars, joinVars
<1>21. ASSUME NEW id \in Ids, NEW old \in Ids, UpdateRow(id, old)
       PROVE  HolderInv'
  BY <1>21 DEF UpdateRow, rowVars, tokenVars, joinVars
<1>20. CASE UNCHANGED vars
  BY <1>20 DEF vars, rowVars, tokenVars, joinVars
<1> QED
  BY <1>1, <1>2, <1>3, <1>4, <1>5, <1>6, <1>7, <1>8, <1>9, <1>10, <1>11,
     <1>12, <1>13, <1>14, <1>15, <1>16, <1>17, <1>18, <1>19, <1>20, <1>21 DEF Next,
     TokenNext, JoinNext, JoinProceeds,
     JoinTransacts, DeleteNext, UpdateNext

\* IDs are drawn once.
LEMMA IdStep ==
  ASSUME TypeOK, HolderInv, IdInv, [Next]_vars
  PROVE  IdInv'
<1> USE MaxRetriesAssumption DEF TypeOK, HolderInv, IdInv, Known, Ids, Id,
   JoinStates
<1>1. ASSUME NEW k \in Tokens, NEW n \in Names, CheckName(k, n)
      PROVE  IdInv'
  BY <1>1 DEF CheckName, PostGoes, rowVars, tokenVars, joinVars
<1>2. ASSUME NEW k \in Tokens, PostFails(k)
      PROVE  IdInv'
  BY <1>2 DEF PostFails, PostGoes, rowVars, tokenVars, joinVars
<1>3. ASSUME NEW k \in Tokens, NEW to \in {"issued", "unanswered"}, InsertToken(k, to)
      PROVE  IdInv'
  BY <1>3 DEF InsertToken, PostGoes, rowVars, tokenVars, joinVars
<1>4. ASSUME NEW n \in Names, DeleteToken(n)
      PROVE  IdInv'
  BY <1>4 DEF DeleteToken, rowVars, tokenVars, joinVars
<1>5. ASSUME NEW k \in Tokens, Lapse(k)
      PROVE  IdInv'
  BY <1>5 DEF Lapse, rowVars, tokenVars, joinVars
<1>6. ASSUME NEW j \in Joins, NEW ask \in Asks, CheckToken(j, ask)
      PROVE  IdInv'
  BY <1>6 DEF CheckToken, JoinGoes, rowVars, tokenVars, joinVars
<1>7. ASSUME NEW j \in Joins, CheckTokenFails(j)
      PROVE  IdInv'
  BY <1>7 DEF CheckTokenFails, JoinGoes, rowVars, tokenVars, joinVars
<1>8. ASSUME NEW j \in Joins, InsertCluster(j)
      PROVE  IdInv'
  BY <1>8 DEF InsertCluster, JoinGoes, rowVars, tokenVars, joinVars
<1>9. ASSUME NEW j \in Joins, InsertRefused(j)
      PROVE  IdInv'
  BY <1>9 DEF InsertRefused, JoinGoes, rowVars, tokenVars, joinVars
<1>10. ASSUME NEW j \in Joins, NEW to \in {"committed", "failed"}, ConsumeToken(j, to)
      PROVE  IdInv'
  BY <1>10 DEF ConsumeToken, JoinGoes, rowVars, tokenVars, joinVars
<1>11. ASSUME NEW j \in Joins, ConsumeTokenAndRetry(j)
      PROVE  IdInv'
  BY <1>11 DEF ConsumeTokenAndRetry, JoinGoes, rowVars, tokenVars, joinVars
<1>12. ASSUME NEW j \in Joins, NoTokenLeft(j)
      PROVE  IdInv'
  BY <1>12 DEF NoTokenLeft, JoinGoes, rowVars, tokenVars, joinVars
<1>13. ASSUME NEW j \in Joins, RollBack(j)
      PROVE  IdInv'
  BY <1>13 DEF RollBack, JoinGoes, rowVars, tokenVars, joinVars
<1>14. ASSUME NEW j \in Joins, RollBackAndRetry(j)
      PROVE  IdInv'
  BY <1>14 DEF RollBackAndRetry, JoinGoes, rowVars, tokenVars, joinVars
<1>15. ASSUME NEW j \in Joins, Trust(j)
      PROVE  IdInv'
  BY <1>15 DEF Trust, JoinGoes, rowVars, tokenVars, joinVars
<1>16. ASSUME NEW dead \in SUBSET Joins, Die(dead)
      PROVE  IdInv'
  BY <1>16 DEF Die, UnderWay, rowVars, tokenVars, joinVars
<1>17. ASSUME NEW n \in Names, DeleteCluster(n)
      PROVE  IdInv'
  BY <1>17 DEF DeleteCluster, DeleteNamed, RowsNamed, rowVars, tokenVars, joinVars
<1>18. ASSUME NEW id \in Ids, ReadLeaving(id)
      PROVE  IdInv'
  BY <1>18 DEF ReadLeaving, rowVars, tokenVars, joinVars
<1>19. ASSUME NEW id \in Ids, DeleteLeaving(id)
      PROVE  IdInv'
  BY <1>19 DEF DeleteLeaving, DeleteNamed, RowsNamed, rowVars, tokenVars, joinVars
<1>21. ASSUME NEW id \in Ids, NEW old \in Ids, UpdateRow(id, old)
       PROVE  IdInv'
  BY <1>21 DEF UpdateRow, rowVars, tokenVars, joinVars
<1>20. CASE UNCHANGED vars
  BY <1>20 DEF vars, rowVars, tokenVars, joinVars
<1> QED
  BY <1>1, <1>2, <1>3, <1>4, <1>5, <1>6, <1>7, <1>8, <1>9, <1>10, <1>11,
     <1>12, <1>13, <1>14, <1>15, <1>16, <1>17, <1>18, <1>19, <1>20, <1>21 DEF Next,
     TokenNext, JoinNext, JoinProceeds,
     JoinTransacts, DeleteNext, UpdateNext

\* A row has another's certificate only from a deleted cluster of its name.
LEMMA OwnerStep ==
  ASSUME TypeOK, HolderInv, IdInv, OwnerInv, [Next]_vars
  PROVE  OwnerInv'
<1> USE DEF TypeOK, HolderInv, IdInv, OwnerInv, Known, Ids, Id, NameOf, JoinStates
<1>1. ASSUME NEW k \in Tokens, NEW n \in Names, CheckName(k, n)
      PROVE  OwnerInv'
  BY <1>1 DEF CheckName, PostGoes, rowVars, tokenVars, joinVars
<1>2. ASSUME NEW k \in Tokens, PostFails(k)
      PROVE  OwnerInv'
  BY <1>2 DEF PostFails, PostGoes, rowVars, tokenVars, joinVars
<1>3. ASSUME NEW k \in Tokens, NEW to \in {"issued", "unanswered"}, InsertToken(k, to)
      PROVE  OwnerInv'
  BY <1>3 DEF InsertToken, PostGoes, rowVars, tokenVars, joinVars
<1>4. ASSUME NEW n \in Names, DeleteToken(n)
      PROVE  OwnerInv'
  BY <1>4 DEF DeleteToken, rowVars, tokenVars, joinVars
<1>5. ASSUME NEW k \in Tokens, Lapse(k)
      PROVE  OwnerInv'
  BY <1>5 DEF Lapse, rowVars, tokenVars, joinVars
<1>6. ASSUME NEW j \in Joins, NEW ask \in Asks, CheckToken(j, ask)
      PROVE  OwnerInv'
  BY <1>6 DEF CheckToken, JoinGoes, rowVars, tokenVars, joinVars
<1>7. ASSUME NEW j \in Joins, CheckTokenFails(j)
      PROVE  OwnerInv'
  BY <1>7 DEF CheckTokenFails, JoinGoes, rowVars, tokenVars, joinVars
<1>8. ASSUME NEW j \in Joins, InsertCluster(j)
      PROVE  OwnerInv'
  BY <1>8 DEF InsertCluster, JoinGoes, rowVars, tokenVars, joinVars
<1>9. ASSUME NEW j \in Joins, InsertRefused(j)
      PROVE  OwnerInv'
  BY <1>9 DEF InsertRefused, JoinGoes, rowVars, tokenVars, joinVars
<1>10. ASSUME NEW j \in Joins, NEW to \in {"committed", "failed"}, ConsumeToken(j, to)
      PROVE  OwnerInv'
  BY <1>10 DEF ConsumeToken, JoinGoes, rowVars, tokenVars, joinVars
<1>11. ASSUME NEW j \in Joins, ConsumeTokenAndRetry(j)
      PROVE  OwnerInv'
  BY <1>11 DEF ConsumeTokenAndRetry, JoinGoes, rowVars, tokenVars, joinVars
<1>12. ASSUME NEW j \in Joins, NoTokenLeft(j)
      PROVE  OwnerInv'
  BY <1>12 DEF NoTokenLeft, JoinGoes, rowVars, tokenVars, joinVars
<1>13. ASSUME NEW j \in Joins, RollBack(j)
      PROVE  OwnerInv'
  BY <1>13 DEF RollBack, JoinGoes, rowVars, tokenVars, joinVars
<1>14. ASSUME NEW j \in Joins, RollBackAndRetry(j)
      PROVE  OwnerInv'
  BY <1>14 DEF RollBackAndRetry, JoinGoes, rowVars, tokenVars, joinVars
<1>15. ASSUME NEW j \in Joins, Trust(j)
      PROVE  OwnerInv'
  BY <1>15 DEF Trust, JoinGoes, rowVars, tokenVars, joinVars
<1>16. ASSUME NEW dead \in SUBSET Joins, Die(dead)
      PROVE  OwnerInv'
  BY <1>16 DEF Die, UnderWay, rowVars, tokenVars, joinVars
<1>17. ASSUME NEW n \in Names, DeleteCluster(n)
      PROVE  OwnerInv'
  BY <1>17 DEF DeleteCluster, DeleteNamed, RowsNamed, rowVars, tokenVars, joinVars
<1>18. ASSUME NEW id \in Ids, ReadLeaving(id)
      PROVE  OwnerInv'
  BY <1>18 DEF ReadLeaving, rowVars, tokenVars, joinVars
<1>19. ASSUME NEW id \in Ids, DeleteLeaving(id)
      PROVE  OwnerInv'
  BY <1>19 DEF DeleteLeaving, DeleteNamed, RowsNamed, rowVars, tokenVars, joinVars
<1>21. ASSUME NEW id \in Ids, NEW old \in Ids, UpdateRow(id, old)
       PROVE  OwnerInv'
  BY <1>21 DEF UpdateRow, rowVars, tokenVars, joinVars
<1>20. CASE UNCHANGED vars
  BY <1>20 DEF vars, rowVars, tokenVars, joinVars
<1> QED
  BY <1>1, <1>2, <1>3, <1>4, <1>5, <1>6, <1>7, <1>8, <1>9, <1>10, <1>11,
     <1>12, <1>13, <1>14, <1>15, <1>16, <1>17, <1>18, <1>19, <1>20, <1>21 DEF Next,
     TokenNext, JoinNext, JoinProceeds,
     JoinTransacts, DeleteNext, UpdateNext

\* No two rows share a name or a certificate.
LEMMA UniqueStep ==
  ASSUME TypeOK, HolderInv, IdInv, OwnerInv, UniqueInv, [Next]_vars
  PROVE  UniqueInv'
<1> USE DEF TypeOK, HolderInv, IdInv, OwnerInv, UniqueInv, Known, Ids, Id, NameOf,
   CertOf, Clash, JoinStates
<1>1. ASSUME NEW k \in Tokens, NEW n \in Names, CheckName(k, n)
      PROVE  UniqueInv'
  BY <1>1 DEF CheckName, PostGoes, rowVars, tokenVars, joinVars
<1>2. ASSUME NEW k \in Tokens, PostFails(k)
      PROVE  UniqueInv'
  BY <1>2 DEF PostFails, PostGoes, rowVars, tokenVars, joinVars
<1>3. ASSUME NEW k \in Tokens, NEW to \in {"issued", "unanswered"}, InsertToken(k, to)
      PROVE  UniqueInv'
  BY <1>3 DEF InsertToken, PostGoes, rowVars, tokenVars, joinVars
<1>4. ASSUME NEW n \in Names, DeleteToken(n)
      PROVE  UniqueInv'
  BY <1>4 DEF DeleteToken, rowVars, tokenVars, joinVars
<1>5. ASSUME NEW k \in Tokens, Lapse(k)
      PROVE  UniqueInv'
  BY <1>5 DEF Lapse, rowVars, tokenVars, joinVars
<1>6. ASSUME NEW j \in Joins, NEW ask \in Asks, CheckToken(j, ask)
      PROVE  UniqueInv'
  BY <1>6 DEF CheckToken, JoinGoes, rowVars, tokenVars, joinVars
<1>7. ASSUME NEW j \in Joins, CheckTokenFails(j)
      PROVE  UniqueInv'
  BY <1>7 DEF CheckTokenFails, JoinGoes, rowVars, tokenVars, joinVars
<1>8. ASSUME NEW j \in Joins, InsertCluster(j)
      PROVE  UniqueInv'
  <2>1. UNCHANGED <<rows, removed, owner, asked, attempt>>
    BY <1>8 DEF InsertCluster, rowVars
  <2>2. \A i, k \in Joins : Clash(k, Id(i))' <=> Clash(k, Id(i))
    BY <2>1
  <2>3. \A i \in Joins, id \in rows : Clash(i, id)' <=> Clash(i, id)
    BY <2>1
  <2>4. \A i \in Joins : join'[i] = "inserted" <=> join[i] = "inserted" \/ i = j
    BY <1>8 DEF InsertCluster, JoinGoes
  <2>5. /\ \A id \in rows : ~Clash(j, id)
        /\ \A i \in Joins : join[i] = "inserted" => ~Clash(j, Id(i))
    BY <1>8 DEF InsertCluster
  <2>6. \A i \in Joins : owner[Id(i)] = Id(i) \/ join[i] \notin {"checked", "inserted"}
    OBVIOUS
  <2>7. \A i \in Joins : join[i] = "inserted" => (Clash(i, Id(j)) <=> Clash(j, Id(i)))
    BY <1>8, <2>6 DEF InsertCluster
  <2>8. \A id \in rows : NameOf(id)' = NameOf(id) /\ CertOf(id)' = CertOf(id)
    BY <2>1
  <2> HIDE DEF NameOf, CertOf, Clash, Id, TypeOK, HolderInv, IdInv, OwnerInv
  <2>9. \A i \in Joins : join'[i] = "inserted" => \A id \in rows' : ~Clash(i, id)'
    BY <2>1, <2>3, <2>4, <2>5
  <2>10. \A i, k \in Joins :
            (i # k /\ join'[i] = "inserted" /\ join'[k] = "inserted") => ~Clash(k, Id(i))'
    BY <2>2, <2>4, <2>5, <2>7
  <2> QED
    BY <2>1, <2>8, <2>9, <2>10
<1>9. ASSUME NEW j \in Joins, InsertRefused(j)
      PROVE  UniqueInv'
  BY <1>9 DEF InsertRefused, JoinGoes, rowVars, tokenVars, joinVars
<1>10. ASSUME NEW j \in Joins, NEW to \in {"committed", "failed"}, ConsumeToken(j, to)
      PROVE  UniqueInv'
  BY <1>10 DEF ConsumeToken, JoinGoes, rowVars, tokenVars, joinVars
<1>11. ASSUME NEW j \in Joins, ConsumeTokenAndRetry(j)
      PROVE  UniqueInv'
  BY <1>11 DEF ConsumeTokenAndRetry, JoinGoes, rowVars, tokenVars, joinVars
<1>12. ASSUME NEW j \in Joins, NoTokenLeft(j)
      PROVE  UniqueInv'
  BY <1>12 DEF NoTokenLeft, JoinGoes, rowVars, tokenVars, joinVars
<1>13. ASSUME NEW j \in Joins, RollBack(j)
      PROVE  UniqueInv'
  BY <1>13 DEF RollBack, JoinGoes, rowVars, tokenVars, joinVars
<1>14. ASSUME NEW j \in Joins, RollBackAndRetry(j)
      PROVE  UniqueInv'
  BY <1>14 DEF RollBackAndRetry, JoinGoes, rowVars, tokenVars, joinVars
<1>15. ASSUME NEW j \in Joins, Trust(j)
      PROVE  UniqueInv'
  BY <1>15 DEF Trust, JoinGoes, rowVars, tokenVars, joinVars
<1>16. ASSUME NEW dead \in SUBSET Joins, Die(dead)
      PROVE  UniqueInv'
  BY <1>16 DEF Die, UnderWay, rowVars, tokenVars, joinVars
<1>17. ASSUME NEW n \in Names, DeleteCluster(n)
      PROVE  UniqueInv'
  BY <1>17 DEF DeleteCluster, DeleteNamed, RowsNamed, rowVars, tokenVars, joinVars
<1>18. ASSUME NEW id \in Ids, ReadLeaving(id)
      PROVE  UniqueInv'
  BY <1>18 DEF ReadLeaving, rowVars, tokenVars, joinVars
<1>19. ASSUME NEW id \in Ids, DeleteLeaving(id)
      PROVE  UniqueInv'
  BY <1>19 DEF DeleteLeaving, DeleteNamed, RowsNamed, rowVars, tokenVars, joinVars
<1>21. ASSUME NEW id \in Ids, NEW old \in Ids, UpdateRow(id, old)
       PROVE  UniqueInv'
  BY <1>21 DEF UpdateRow, rowVars, tokenVars, joinVars
<1>20. CASE UNCHANGED vars
  BY <1>20 DEF vars, rowVars, tokenVars, joinVars
<1> QED
  BY <1>1, <1>2, <1>3, <1>4, <1>5, <1>6, <1>7, <1>8, <1>9, <1>10, <1>11,
     <1>12, <1>13, <1>14, <1>15, <1>16, <1>17, <1>18, <1>19, <1>20, <1>21 DEF Next,
     TokenNext, JoinNext, JoinProceeds,
     JoinTransacts, DeleteNext, UpdateNext

LEMMA Induction == IInv /\ [Next]_vars => IInv'
BY TypeStep, TokenStep, HolderStep, IdStep, OwnerStep, UniqueStep DEF IInv

\* The inductive invariant holds in every reachable state.
THEOREM Invariance == Spec => []IInv
BY InitIInv, Induction, PTL DEF Spec

\* The state keeps its type.
THEOREM Typing == Spec => []TypeOK
BY Invariance, PTL DEF IInv

\* Whatever is deleted, replaced or retried in the meantime, a cluster is only
\* admitted with a token that was issued for its name.
THEOREM OnlyHoldersJoin == Spec => []HoldersJoin
<1>1. IInv => HoldersJoin
  BY NoAskAssumption DEF IInv, TypeOK, HolderInv, Known, Ids, Asks, HoldersJoin, NameOf
<1> QED
  BY <1>1, Invariance, PTL

\* Every step of enrollment is a step of Admission or none.
LEMMA RefinementStep ==
  ASSUME TypeOK, TokenInv, HolderInv, IdInv, OwnerInv, UniqueInv, [Next]_vars
  PROVE  Admissions!Next \/ UNCHANGED Admissions!vars
<1> USE DEF TypeOK, TokenInv, HolderInv, IdInv, OwnerInv, UniqueInv
<1>1. ASSUME NEW k \in Tokens, NEW n \in Names, CheckName(k, n)
      PROVE  Admissions!Next \/ UNCHANGED Admissions!vars
  <2>1. IssuedTo' = IssuedTo
    BY <1>1 DEF CheckName, PostGoes, rowVars, tokenVars, joinVars, IssuedTo, Given
  <2>2. UNCHANGED <<IssuedTo, UsedUp>>
    BY <1>1, <2>1, NoTokenAssumption DEF CheckName, PostGoes, rowVars, tokenVars, joinVars, UsedUp, Given
  <2>3. UNCHANGED <<rowVars, asked>>
    BY <1>1 DEF CheckName, PostGoes, rowVars, tokenVars, joinVars
  <2>4. UNCHANGED <<Present, Admitted>>
    BY <2>3 DEF rowVars, Present, Admitted, AsAdmitted, Row, NameOf, CertOf, Known
  <2> QED
    BY <2>2, <2>4 DEF Admissions!vars
<1>2. ASSUME NEW k \in Tokens, PostFails(k)
      PROVE  Admissions!Next \/ UNCHANGED Admissions!vars
  <2>1. IssuedTo' = IssuedTo
    BY <1>2 DEF PostFails, PostGoes, rowVars, tokenVars, joinVars, IssuedTo, Given
  <2>2. UNCHANGED <<IssuedTo, UsedUp>>
    BY <1>2, <2>1, NoTokenAssumption DEF PostFails, PostGoes, rowVars, tokenVars, joinVars, UsedUp, Given
  <2>3. UNCHANGED <<rowVars, asked>>
    BY <1>2 DEF PostFails, PostGoes, rowVars, tokenVars, joinVars
  <2>4. UNCHANGED <<Present, Admitted>>
    BY <2>3 DEF rowVars, Present, Admitted, AsAdmitted, Row, NameOf, CertOf, Known
  <2> QED
    BY <2>2, <2>4 DEF Admissions!vars
<1>3. ASSUME NEW k \in Tokens, NEW to \in {"issued", "unanswered"}, InsertToken(k, to)
      PROVE  Admissions!Next \/ UNCHANGED Admissions!vars
  <2>1. UNCHANGED <<rowVars, asked>>
    BY <1>3 DEF InsertToken, PostGoes, rowVars, tokenVars, joinVars
  <2>2. UNCHANGED <<Present, Admitted>>
    BY <2>1 DEF rowVars, Present, Admitted, AsAdmitted, Row, NameOf, CertOf, Known
  <2> DEFINE n == tokenName[k]
  <2>3. n \in Names /\ stored[n] = NoToken /\ ~Given(k)
    BY <1>3 DEF InsertToken, PostGoes, rowVars, tokenVars, joinVars, Given
  <2>4. /\ IssuedTo[k] = NoName
        /\ IssuedTo' = [IssuedTo EXCEPT ![k] = n]
    BY <1>3, <2>3 DEF InsertToken, PostGoes, rowVars, tokenVars, joinVars, IssuedTo, Given
  <2>5. \A l \in Tokens : ~Admissions!Live(l, n)
    BY <2>3, NoTokenAssumption, NoNameAssumption DEF Admissions!Live, IssuedTo, UsedUp, Given
  <2>6. UsedUp' = UsedUp
    <3>1. \A l \in Tokens : l # k => Given(l)' = Given(l) /\ tokenName'[l] = tokenName[l]
      BY <1>3 DEF InsertToken, PostGoes, rowVars, tokenVars, joinVars, Given
    <3>2. \A l \in Tokens : l # k /\ Given(l) =>
              (stored'[tokenName[l]] # l <=> stored[tokenName[l]] # l)
      BY <1>3, <2>3, NoTokenAssumption DEF InsertToken, PostGoes, rowVars, tokenVars, joinVars, Given
    <3>3. tokenName' = tokenName /\ stored'[n] = k
      BY <1>3, <2>3 DEF InsertToken, PostGoes, rowVars, tokenVars, joinVars
    <3> QED
      BY <2>3, <3>1, <3>2, <3>3 DEF UsedUp
  <2>7. Admissions!Issue(k, n)
    BY <2>2, <2>4, <2>5, <2>6 DEF Admissions!Issue
  <2> QED
    BY <2>3, <2>7 DEF Admissions!Next
<1>4. ASSUME NEW n \in Names, DeleteToken(n)
      PROVE  Admissions!Next \/ UNCHANGED Admissions!vars
  <2>1. UNCHANGED <<rowVars, asked>>
    BY <1>4 DEF DeleteToken, rowVars, tokenVars, joinVars
  <2>2. UNCHANGED <<Present, Admitted>>
    BY <2>1 DEF rowVars, Present, Admitted, AsAdmitted, Row, NameOf, CertOf, Known
  <2> DEFINE k == stored[n]
  <2>3. k \in Tokens /\ tokenName[k] = n /\ Given(k)
    BY <1>4 DEF DeleteToken, rowVars, tokenVars, joinVars, Given
  <2>4. Admissions!Live(k, n)
    BY <2>3 DEF Admissions!Live, IssuedTo, UsedUp
  <2>5. IssuedTo' = IssuedTo
    BY <1>4 DEF DeleteToken, rowVars, tokenVars, joinVars, IssuedTo, Given
  <2>6. UsedUp' = UsedUp \union {k}
    BY <1>4, <2>3, NoTokenAssumption DEF DeleteToken, rowVars, tokenVars, joinVars, UsedUp, Given
  <2>7. Admissions!Withdraw(k)
    BY <2>2, <2>4, <2>5, <2>6 DEF Admissions!Withdraw
  <2> QED
    BY <2>3, <2>7 DEF Admissions!Next
<1>5. ASSUME NEW k \in Tokens, Lapse(k)
      PROVE  Admissions!Next \/ UNCHANGED Admissions!vars
  <2>1. UNCHANGED <<post, tokenName, stored>>
    BY <1>5 DEF Lapse, rowVars, tokenVars, joinVars
  <2>2. UNCHANGED <<IssuedTo, UsedUp>>
    BY <2>1 DEF IssuedTo, UsedUp, Given
  <2>3. UNCHANGED <<rowVars, asked>>
    BY <1>5 DEF Lapse, rowVars, tokenVars, joinVars
  <2>4. UNCHANGED <<Present, Admitted>>
    BY <2>3 DEF rowVars, Present, Admitted, AsAdmitted, Row, NameOf, CertOf, Known
  <2> QED
    BY <2>2, <2>4 DEF Admissions!vars
<1>6. ASSUME NEW j \in Joins, NEW ask \in Asks, CheckToken(j, ask)
      PROVE  Admissions!Next \/ UNCHANGED Admissions!vars
  <2>1. UNCHANGED <<post, tokenName, stored>>
    BY <1>6 DEF CheckToken, JoinGoes, rowVars, tokenVars, joinVars
  <2>2. UNCHANGED <<IssuedTo, UsedUp>>
    BY <2>1 DEF IssuedTo, UsedUp, Given
  <2>3. \A id \in Known : asked'[id[1]] = asked[id[1]]
    BY <1>6 DEF CheckToken, JoinGoes, rowVars, tokenVars, joinVars, Known, Ids
  <2>4. UNCHANGED <<Present, Admitted>>
    <3>1. UNCHANGED rowVars
      BY <1>6 DEF CheckToken
    <3>2. \A id \in rows : owner[id] \in Known
      BY DEF Known
    <3>3. \A id \in rows : Row(id)' = Row(id)
      BY <2>3, <3>1, <3>2 DEF Row, NameOf, CertOf, rowVars, Known
    <3>4. \A id \in Known : AsAdmitted(id)' = AsAdmitted(id)
      BY <2>3 DEF AsAdmitted, NameOf
    <3> QED
      BY <3>1, <3>3, <3>4 DEF Present, Admitted, Known, rowVars
  <2> QED
    BY <2>2, <2>4 DEF Admissions!vars
<1>7. ASSUME NEW j \in Joins, CheckTokenFails(j)
      PROVE  Admissions!Next \/ UNCHANGED Admissions!vars
  <2>1. UNCHANGED <<post, tokenName, stored>>
    BY <1>7 DEF CheckTokenFails, JoinGoes, rowVars, tokenVars, joinVars
  <2>2. UNCHANGED <<IssuedTo, UsedUp>>
    BY <2>1 DEF IssuedTo, UsedUp, Given
  <2>3. UNCHANGED <<rowVars, asked>>
    BY <1>7 DEF CheckTokenFails, JoinGoes, rowVars, tokenVars, joinVars
  <2>4. UNCHANGED <<Present, Admitted>>
    BY <2>3 DEF rowVars, Present, Admitted, AsAdmitted, Row, NameOf, CertOf, Known
  <2> QED
    BY <2>2, <2>4 DEF Admissions!vars
<1>8. ASSUME NEW j \in Joins, InsertCluster(j)
      PROVE  Admissions!Next \/ UNCHANGED Admissions!vars
  <2>1. UNCHANGED <<post, tokenName, stored>>
    BY <1>8 DEF InsertCluster, JoinGoes, rowVars, tokenVars, joinVars
  <2>2. UNCHANGED <<IssuedTo, UsedUp>>
    BY <2>1 DEF IssuedTo, UsedUp, Given
  <2>3. UNCHANGED <<rowVars, asked>>
    BY <1>8 DEF InsertCluster, JoinGoes, rowVars, tokenVars, joinVars
  <2>4. UNCHANGED <<Present, Admitted>>
    BY <2>3 DEF rowVars, Present, Admitted, AsAdmitted, Row, NameOf, CertOf, Known
  <2> QED
    BY <2>2, <2>4 DEF Admissions!vars
<1>9. ASSUME NEW j \in Joins, InsertRefused(j)
      PROVE  Admissions!Next \/ UNCHANGED Admissions!vars
  <2>1. UNCHANGED <<post, tokenName, stored>>
    BY <1>9 DEF InsertRefused, JoinGoes, rowVars, tokenVars, joinVars
  <2>2. UNCHANGED <<IssuedTo, UsedUp>>
    BY <2>1 DEF IssuedTo, UsedUp, Given
  <2>3. UNCHANGED <<rowVars, asked>>
    BY <1>9 DEF InsertRefused, JoinGoes, rowVars, tokenVars, joinVars
  <2>4. UNCHANGED <<Present, Admitted>>
    BY <2>3 DEF rowVars, Present, Admitted, AsAdmitted, Row, NameOf, CertOf, Known
  <2> QED
    BY <2>2, <2>4 DEF Admissions!vars
<1>10. ASSUME NEW j \in Joins, NEW to \in {"committed", "failed"}, ConsumeToken(j, to)
      PROVE  Admissions!Next \/ UNCHANGED Admissions!vars
  <2> DEFINE n == asked[j].name
             k == stored[n]
  <2>1. /\ n \in Names /\ asked[j].cert \in Certs
        /\ k \in Tokens /\ tokenName[k] = n /\ Given(k)
    BY <1>10 DEF ConsumeToken, JoinGoes, rowVars, tokenVars, joinVars, Given, Asks, JoinStates
  <2>2. /\ Id(j) \in Ids /\ Id(j) \notin Known /\ owner[Id(j)] = Id(j)
        /\ NameOf(Id(j)) = n /\ CertOf(Id(j)) = asked[j].cert
        /\ AsAdmitted(Id(j)) = Row(Id(j))
    <3>1. Id(j) \in Ids /\ Id(j)[1] = j
      BY DEF Id, Ids
    <3>2. Id(j) \notin Known
      BY <1>10 DEF ConsumeToken, Id, Known
    <3>3. owner[Id(j)] = Id(j)
      BY <3>1, <3>2
    <3> QED
      BY <3>1, <3>2, <3>3 DEF NameOf, CertOf, AsAdmitted, Row
  <2>3. Row(Id(j)) \in Admissions!Clusters /\ Row(Id(j)).name = n
    BY <2>1, <2>2 DEF Admissions!Clusters, Row
  <2>4. Admissions!Live(k, Row(Id(j)).name)
    BY <2>1, <2>3 DEF Admissions!Live, IssuedTo, UsedUp
  <2>5. \A r \in Present : r.name # Row(Id(j)).name /\ r.cert # Row(Id(j)).cert
    BY <1>10, <2>2 DEF ConsumeToken, JoinGoes, rowVars, tokenVars, joinVars, Present, Row, Clash
  <2>6. UsedUp' = UsedUp \union {k} /\ IssuedTo' = IssuedTo
    BY <1>10, <2>1, NoTokenAssumption DEF ConsumeToken, JoinGoes, rowVars, tokenVars, joinVars, UsedUp, IssuedTo, Given
  <2>7. rows' = rows \union {Id(j)} /\ UNCHANGED <<removed, owner, asked>>
    BY <1>10 DEF ConsumeToken, JoinGoes, rowVars, tokenVars, joinVars
  <2>8. Present' = Present \union {Row(Id(j))}
    BY <2>7 DEF Present, Row, NameOf, CertOf
  <2>9. /\ \A s \in Admitted : s.id # Row(Id(j)).id
        /\ Admitted' = Admitted \union {Row(Id(j))}
    <3>1. Known' = Known \union {Id(j)}
      BY <2>7 DEF Known
    <3>2. \A id \in Known' : AsAdmitted(id)' = AsAdmitted(id)
      BY <2>7 DEF AsAdmitted, NameOf
    <3>3. Admitted' = Admitted \union {AsAdmitted(Id(j))}
      BY <3>1, <3>2 DEF Admitted
    <3> QED
      BY <2>2, <3>3 DEF Admitted, AsAdmitted, Row
  <2>10. Admissions!Admit(Row(Id(j)), k)
    BY <2>4, <2>5, <2>6, <2>8, <2>9 DEF Admissions!Admit
  <2> QED
    BY <2>1, <2>3, <2>10 DEF Admissions!Next
<1>11. ASSUME NEW j \in Joins, ConsumeTokenAndRetry(j)
      PROVE  Admissions!Next \/ UNCHANGED Admissions!vars
  <2> DEFINE n == asked[j].name
             k == stored[n]
  <2>1. /\ n \in Names /\ asked[j].cert \in Certs
        /\ k \in Tokens /\ tokenName[k] = n /\ Given(k)
    BY <1>11 DEF ConsumeTokenAndRetry, JoinGoes, rowVars, tokenVars, joinVars, Given, Asks, JoinStates
  <2>2. /\ Id(j) \in Ids /\ Id(j) \notin Known /\ owner[Id(j)] = Id(j)
        /\ NameOf(Id(j)) = n /\ CertOf(Id(j)) = asked[j].cert
        /\ AsAdmitted(Id(j)) = Row(Id(j))
    <3>1. Id(j) \in Ids /\ Id(j)[1] = j
      BY DEF Id, Ids
    <3>2. Id(j) \notin Known
      BY <1>11 DEF ConsumeTokenAndRetry, Id, Known
    <3>3. owner[Id(j)] = Id(j)
      BY <3>1, <3>2
    <3> QED
      BY <3>1, <3>2, <3>3 DEF NameOf, CertOf, AsAdmitted, Row
  <2>3. Row(Id(j)) \in Admissions!Clusters /\ Row(Id(j)).name = n
    BY <2>1, <2>2 DEF Admissions!Clusters, Row
  <2>4. Admissions!Live(k, Row(Id(j)).name)
    BY <2>1, <2>3 DEF Admissions!Live, IssuedTo, UsedUp
  <2>5. \A r \in Present : r.name # Row(Id(j)).name /\ r.cert # Row(Id(j)).cert
    BY <1>11, <2>2 DEF ConsumeTokenAndRetry, JoinGoes, rowVars, tokenVars, joinVars, Present, Row, Clash
  <2>6. UsedUp' = UsedUp \union {k} /\ IssuedTo' = IssuedTo
    BY <1>11, <2>1, NoTokenAssumption DEF ConsumeTokenAndRetry, JoinGoes, rowVars, tokenVars, joinVars, UsedUp, IssuedTo, Given
  <2>7. rows' = rows \union {Id(j)} /\ UNCHANGED <<removed, owner, asked>>
    BY <1>11 DEF ConsumeTokenAndRetry, JoinGoes, rowVars, tokenVars, joinVars
  <2>8. Present' = Present \union {Row(Id(j))}
    BY <2>7 DEF Present, Row, NameOf, CertOf
  <2>9. /\ \A s \in Admitted : s.id # Row(Id(j)).id
        /\ Admitted' = Admitted \union {Row(Id(j))}
    <3>1. Known' = Known \union {Id(j)}
      BY <2>7 DEF Known
    <3>2. \A id \in Known' : AsAdmitted(id)' = AsAdmitted(id)
      BY <2>7 DEF AsAdmitted, NameOf
    <3>3. Admitted' = Admitted \union {AsAdmitted(Id(j))}
      BY <3>1, <3>2 DEF Admitted
    <3> QED
      BY <2>2, <3>3 DEF Admitted, AsAdmitted, Row
  <2>10. Admissions!Admit(Row(Id(j)), k)
    BY <2>4, <2>5, <2>6, <2>8, <2>9 DEF Admissions!Admit
  <2> QED
    BY <2>1, <2>3, <2>10 DEF Admissions!Next
<1>12. ASSUME NEW j \in Joins, NoTokenLeft(j)
      PROVE  Admissions!Next \/ UNCHANGED Admissions!vars
  <2>1. UNCHANGED <<post, tokenName, stored>>
    BY <1>12 DEF NoTokenLeft, JoinGoes, rowVars, tokenVars, joinVars
  <2>2. UNCHANGED <<IssuedTo, UsedUp>>
    BY <2>1 DEF IssuedTo, UsedUp, Given
  <2>3. UNCHANGED <<rowVars, asked>>
    BY <1>12 DEF NoTokenLeft, JoinGoes, rowVars, tokenVars, joinVars
  <2>4. UNCHANGED <<Present, Admitted>>
    BY <2>3 DEF rowVars, Present, Admitted, AsAdmitted, Row, NameOf, CertOf, Known
  <2> QED
    BY <2>2, <2>4 DEF Admissions!vars
<1>13. ASSUME NEW j \in Joins, RollBack(j)
      PROVE  Admissions!Next \/ UNCHANGED Admissions!vars
  <2>1. UNCHANGED <<post, tokenName, stored>>
    BY <1>13 DEF RollBack, JoinGoes, rowVars, tokenVars, joinVars
  <2>2. UNCHANGED <<IssuedTo, UsedUp>>
    BY <2>1 DEF IssuedTo, UsedUp, Given
  <2>3. UNCHANGED <<rowVars, asked>>
    BY <1>13 DEF RollBack, JoinGoes, rowVars, tokenVars, joinVars
  <2>4. UNCHANGED <<Present, Admitted>>
    BY <2>3 DEF rowVars, Present, Admitted, AsAdmitted, Row, NameOf, CertOf, Known
  <2> QED
    BY <2>2, <2>4 DEF Admissions!vars
<1>14. ASSUME NEW j \in Joins, RollBackAndRetry(j)
      PROVE  Admissions!Next \/ UNCHANGED Admissions!vars
  <2>1. UNCHANGED <<post, tokenName, stored>>
    BY <1>14 DEF RollBackAndRetry, JoinGoes, rowVars, tokenVars, joinVars
  <2>2. UNCHANGED <<IssuedTo, UsedUp>>
    BY <2>1 DEF IssuedTo, UsedUp, Given
  <2>3. UNCHANGED <<rowVars, asked>>
    BY <1>14 DEF RollBackAndRetry, JoinGoes, rowVars, tokenVars, joinVars
  <2>4. UNCHANGED <<Present, Admitted>>
    BY <2>3 DEF rowVars, Present, Admitted, AsAdmitted, Row, NameOf, CertOf, Known
  <2> QED
    BY <2>2, <2>4 DEF Admissions!vars
<1>15. ASSUME NEW j \in Joins, Trust(j)
      PROVE  Admissions!Next \/ UNCHANGED Admissions!vars
  <2>1. UNCHANGED <<post, tokenName, stored>>
    BY <1>15 DEF Trust, JoinGoes, rowVars, tokenVars, joinVars
  <2>2. UNCHANGED <<IssuedTo, UsedUp>>
    BY <2>1 DEF IssuedTo, UsedUp, Given
  <2>3. UNCHANGED <<rowVars, asked>>
    BY <1>15 DEF Trust, JoinGoes, rowVars, tokenVars, joinVars
  <2>4. UNCHANGED <<Present, Admitted>>
    BY <2>3 DEF rowVars, Present, Admitted, AsAdmitted, Row, NameOf, CertOf, Known
  <2> QED
    BY <2>2, <2>4 DEF Admissions!vars
<1>16. ASSUME NEW dead \in SUBSET Joins, Die(dead)
      PROVE  Admissions!Next \/ UNCHANGED Admissions!vars
  <2>1. UNCHANGED <<post, tokenName, stored>>
    BY <1>16 DEF Die, UnderWay, rowVars, tokenVars, joinVars
  <2>2. UNCHANGED <<IssuedTo, UsedUp>>
    BY <2>1 DEF IssuedTo, UsedUp, Given
  <2>3. UNCHANGED <<rowVars, asked>>
    BY <1>16 DEF Die, UnderWay, rowVars, tokenVars, joinVars
  <2>4. UNCHANGED <<Present, Admitted>>
    BY <2>3 DEF rowVars, Present, Admitted, AsAdmitted, Row, NameOf, CertOf, Known
  <2> QED
    BY <2>2, <2>4 DEF Admissions!vars
<1>17. ASSUME NEW n \in Names, DeleteCluster(n)
      PROVE  Admissions!Next \/ UNCHANGED Admissions!vars
  <2>1. UNCHANGED <<post, tokenName, stored>>
    BY <1>17 DEF DeleteCluster, DeleteNamed, RowsNamed, rowVars, tokenVars, joinVars
  <2>2. UNCHANGED <<IssuedTo, UsedUp>>
    BY <2>1 DEF IssuedTo, UsedUp, Given
  <2>3. /\ rows' = rows \ RowsNamed(n)
        /\ Admitted' = Admitted /\ UNCHANGED <<owner, asked>>
    BY <1>17 DEF DeleteCluster, DeleteNamed, RowsNamed, rowVars, tokenVars, joinVars, Known,
       Admitted, AsAdmitted, NameOf
  <2>4. CASE RowsNamed(n) = {}
    <3>1. UNCHANGED <<Present, Admitted>>
      BY <2>3, <2>4 DEF Present, Row, NameOf, CertOf
    <3> QED
      BY <2>2, <3>1 DEF Admissions!vars
  <2>5. ASSUME NEW r \in RowsNamed(n)
        PROVE  Admissions!Next
    <3>1. r \in rows /\ Row(r) \in Present /\ Row(r) \in Admissions!Clusters
      BY DEF RowsNamed, Present, Row, NameOf, CertOf, Known, Ids, Asks, Admissions!Clusters
    <3>2. RowsNamed(n) = {r}
      BY DEF RowsNamed
    <3>3. Present' = Present \ {Row(r)}
      BY <2>3, <3>1, <3>2 DEF Present, Row, NameOf, CertOf
    <3>4. Admissions!Remove(Row(r))
      BY <2>2, <2>3, <3>1, <3>3 DEF Admissions!Remove
    <3> QED
      BY <3>1, <3>4 DEF Admissions!Next
  <2> QED
    BY <2>4, <2>5
<1>18. ASSUME NEW id \in Ids, ReadLeaving(id)
      PROVE  Admissions!Next \/ UNCHANGED Admissions!vars
  <2>1. UNCHANGED <<post, tokenName, stored>>
    BY <1>18 DEF ReadLeaving, rowVars, tokenVars, joinVars
  <2>2. UNCHANGED <<IssuedTo, UsedUp>>
    BY <2>1 DEF IssuedTo, UsedUp, Given
  <2>3. UNCHANGED <<rowVars, asked>>
    BY <1>18 DEF ReadLeaving, rowVars, tokenVars, joinVars
  <2>4. UNCHANGED <<Present, Admitted>>
    BY <2>3 DEF rowVars, Present, Admitted, AsAdmitted, Row, NameOf, CertOf, Known
  <2> QED
    BY <2>2, <2>4 DEF Admissions!vars
<1>19. ASSUME NEW id \in Ids, DeleteLeaving(id)
      PROVE  Admissions!Next \/ UNCHANGED Admissions!vars
  <2>1. UNCHANGED <<post, tokenName, stored>>
    BY <1>19 DEF DeleteLeaving, DeleteNamed, RowsNamed, rowVars, tokenVars, joinVars
  <2>2. UNCHANGED <<IssuedTo, UsedUp>>
    BY <2>1 DEF IssuedTo, UsedUp, Given
  <2>3. /\ rows' = rows \ RowsNamed(NameOf(id))
        /\ Admitted' = Admitted /\ UNCHANGED <<owner, asked>>
    BY <1>19 DEF DeleteLeaving, DeleteNamed, RowsNamed, rowVars, tokenVars, joinVars, Known,
       Admitted, AsAdmitted, NameOf
  <2>4. CASE RowsNamed(NameOf(id)) = {}
    <3>1. UNCHANGED <<Present, Admitted>>
      BY <2>3, <2>4 DEF Present, Row, NameOf, CertOf
    <3> QED
      BY <2>2, <3>1 DEF Admissions!vars
  <2>5. ASSUME NEW r \in RowsNamed(NameOf(id))
        PROVE  Admissions!Next
    <3>1. r \in rows /\ Row(r) \in Present /\ Row(r) \in Admissions!Clusters
      BY DEF RowsNamed, Present, Row, NameOf, CertOf, Known, Ids, Asks, Admissions!Clusters
    <3>2. RowsNamed(NameOf(id)) = {r}
      BY DEF RowsNamed
    <3>3. Present' = Present \ {Row(r)}
      BY <2>3, <3>1, <3>2 DEF Present, Row, NameOf, CertOf
    <3>4. Admissions!Remove(Row(r))
      BY <2>2, <2>3, <3>1, <3>3 DEF Admissions!Remove
    <3> QED
      BY <3>1, <3>4 DEF Admissions!Next
  <2> QED
    BY <2>4, <2>5
<1>21. ASSUME NEW id \in Ids, NEW old \in Ids, UpdateRow(id, old)
       PROVE  Admissions!Next \/ UNCHANGED Admissions!vars
  <2>1. UNCHANGED <<post, tokenName, stored>>
    BY <1>21 DEF UpdateRow, tokenVars
  <2>2. UNCHANGED <<IssuedTo, UsedUp>>
    BY <2>1 DEF IssuedTo, UsedUp, Given
  <2>3. UNCHANGED <<rows, removed, asked>> /\ owner' = [owner EXCEPT ![id] = old]
    BY <1>21 DEF UpdateRow, joinVars
  <2>4. Admitted' = Admitted
    BY <2>3 DEF Admitted, AsAdmitted, NameOf, Known
  <2>5. id \in rows /\ old \in Known /\ NameOf(old) = NameOf(id)
    BY <1>21 DEF UpdateRow, Known
  <2>6. \A x \in rows : asked[x[1]] \in Asks /\ asked[owner[x][1]] \in Asks
    BY DEF Known
  <2>7. /\ Row(id) \in Present /\ Row(id) \in Admissions!Clusters
        /\ AsAdmitted(old) \in Admitted /\ AsAdmitted(old) \in Admissions!Clusters
    BY <2>5, <2>6 DEF Present, Admitted, Row, AsAdmitted, NameOf, CertOf, Known, Ids, Asks,
       Admissions!Clusters
  <2>8. \A r \in Present \ {Row(id)} : r.cert # AsAdmitted(old).cert
    BY <1>21 DEF UpdateRow, Present, Row, AsAdmitted
  <2>9. Present' = (Present \ {Row(id)}) \union {[Row(id) EXCEPT !.cert = AsAdmitted(old).cert]}
    <3>1. Row(id)' = [Row(id) EXCEPT !.cert = AsAdmitted(old).cert]
      BY <2>3, <2>5 DEF Row, AsAdmitted, NameOf, CertOf
    <3>2. \A x \in rows \ {id} : Row(x)' = Row(x) /\ Row(x) # Row(id)
      BY <2>3 DEF Row, NameOf, CertOf
    <3> QED
      BY <2>3, <2>5, <3>1, <3>2 DEF Present
  <2>10. Admissions!Restore(Row(id), AsAdmitted(old))
    BY <2>2, <2>4, <2>5, <2>7, <2>8, <2>9 DEF Admissions!Restore, Row, AsAdmitted
  <2> QED
    BY <2>7, <2>10 DEF Admissions!Next
<1>20. CASE UNCHANGED vars
  <2>1. UNCHANGED <<post, tokenName, stored>>
    BY <1>20 DEF vars, rowVars, tokenVars, joinVars
  <2>2. UNCHANGED <<IssuedTo, UsedUp>>
    BY <2>1 DEF IssuedTo, UsedUp, Given
  <2>3. UNCHANGED <<rowVars, asked>>
    BY <1>20 DEF vars, rowVars, tokenVars, joinVars
  <2>4. UNCHANGED <<Present, Admitted>>
    BY <2>3 DEF rowVars, Present, Admitted, AsAdmitted, Row, NameOf, CertOf, Known
  <2> QED
    BY <2>2, <2>4 DEF Admissions!vars
<1> QED
  BY <1>1, <1>2, <1>3, <1>4, <1>5, <1>6, <1>7, <1>8, <1>9, <1>10, <1>11,
     <1>12, <1>13, <1>14, <1>15, <1>16, <1>17, <1>18, <1>19, <1>20, <1>21 DEF Next,
     TokenNext, JoinNext, JoinProceeds,
     JoinTransacts, DeleteNext, UpdateNext

\* Enrollment implements Admission: a token admits at most one cluster, no
\* cluster is admitted without one, and clusters differ in name and certificate.
THEOREM Refinement == Spec => OneClusterPerToken
<1>1. Init => Admissions!Init
  BY DEF Init, Admissions!Init, IssuedTo, UsedUp, Given, Present, Admitted, Known
<1>2. IInv /\ [Next]_vars => [Admissions!Next]_(Admissions!vars)
  BY RefinementStep DEF IInv
<1> QED
  BY <1>1, <1>2, Invariance, PTL DEF OneClusterPerToken, Admissions!Spec, Spec

==============================================================================
