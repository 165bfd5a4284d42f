---------------------------- MODULE SessionProofs ----------------------------
(***************************************************************************)
(* Proofs about Session, for every set of users and of requests and every  *)
(* number of retries.  IInv is inductive; each of its conjuncts has a      *)
(* lemma, with one step per action.  RefinementStep maps every step to a   *)
(* step of SingleSession or to none.                                       *)
(***************************************************************************)
EXTENDS Session, TLAPS

LEMMA InitIInv == Init => IInv
BY NoIdentityAssumption, NoRequestAssumption, MaxRetriesAssumption
   DEF Init, IInv, TypeOK, Kinds, Starting, Ends, States, Writing, LockInv, DoomedInv,
       Exists, RowInv, UserInv, GivenInv, OutInv, NeverConflicts

\* Every step keeps the state in its type.
LEMMA TypeStep ==
  ASSUME TypeOK, UserInv, GivenInv, [Next]_vars
  PROVE  TypeOK'
<1> USE NoIdentityAssumption, NoRequestAssumption, MaxRetriesAssumption DEF
   TypeOK, UserInv, GivenInv, SessionsOf, Kinds, Starting, Ends, States
<1>1. ASSUME NEW q \in Requests, NEW i \in Identities, Callback(q, i)
      PROVE  TypeOK'
  BY <1>1 DEF Callback, Begin, Goes, tableVars, cookieVars, lockVars
<1>2. ASSUME NEW q \in Requests, NEW s \in Requests, Use(q, s)
      PROVE  TypeOK'
  BY <1>2 DEF Use, Begin, Present, Goes, tableVars, cookieVars, lockVars
<1>3. ASSUME NEW q \in Requests, NEW s \in Requests, Logout(q, s)
      PROVE  TypeOK'
  BY <1>3 DEF Logout, Begin, Present, Goes, tableVars, cookieVars, lockVars
<1>4. ASSUME NEW q \in Requests, Expire(q)
      PROVE  TypeOK'
  BY <1>4 DEF Expire, tableVars, cookieVars, lockVars
<1>5. ASSUME NEW q \in Requests, ComeBack(q)
      PROVE  TypeOK'
  BY <1>5 DEF ComeBack, Goes, tableVars, cookieVars, lockVars
<1>6. ASSUME NEW q \in Requests, Read(q)
      PROVE  TypeOK'
  BY <1>6 DEF Read, Proceed, Goes, tableVars, cookieVars, lockVars
<1>7. ASSUME NEW q \in Requests, ReadFails(q)
      PROVE  TypeOK'
  BY <1>7 DEF ReadFails, Fail, Goes, tableVars, cookieVars, lockVars
<1>8. ASSUME NEW q \in Requests, Refresh(q)
      PROVE  TypeOK'
  BY <1>8 DEF Refresh, Goes, tableVars, cookieVars, lockVars
<1>9. ASSUME NEW q \in Requests, Store(q)
      PROVE  TypeOK'
  BY <1>9 DEF Store, Proceed, Goes, tableVars, cookieVars, lockVars
<1>10. ASSUME NEW q \in Requests, Clean(q)
      PROVE  TypeOK'
  BY <1>10 DEF Clean, DeleteRow, Locked, Goes, tableVars, cookieVars, lockVars
<1>11. ASSUME NEW q \in Requests, Leave(q)
      PROVE  TypeOK'
  BY <1>11 DEF Leave, DeleteRow, Locked, Goes, tableVars, cookieVars, lockVars
<1>12. ASSUME NEW q \in Requests, LeaveFails(q)
      PROVE  TypeOK'
  BY <1>12 DEF LeaveFails, Goes, tableVars, cookieVars, lockVars
<1>13. ASSUME NEW q \in Requests, FindIdentity(q)
      PROVE  TypeOK'
  BY <1>13 DEF FindIdentity, Goes, tableVars, cookieVars, lockVars
<1>14. ASSUME NEW q \in Requests, UpdateIdentity(q)
      PROVE  TypeOK'
  BY <1>14 DEF UpdateIdentity, Lock, Goes, tableVars, cookieVars, lockVars
<1>15. ASSUME NEW q \in Requests, CreateIdentity(q)
      PROVE  TypeOK'
  BY <1>15 DEF CreateIdentity, Lock, Goes, tableVars, cookieVars, lockVars
<1>16. ASSUME NEW q \in Requests, ClearSessions(q)
      PROVE  TypeOK'
  BY <1>16 DEF ClearSessions, Goes, tableVars, cookieVars, lockVars
<1>17. ASSUME NEW q \in Requests, InsertSession(q)
      PROVE  TypeOK'
  BY <1>17 DEF InsertSession, Goes, tableVars, cookieVars, lockVars
<1>18. ASSUME NEW q \in Requests, Commit(q)
      PROVE  TypeOK'
  BY <1>18 DEF Commit, Write, Release, Goes, tableVars, cookieVars, lockVars
<1>19. ASSUME NEW q \in Requests, CommitUnknown(q)
      PROVE  TypeOK'
  BY <1>19 DEF CommitUnknown, Write, Release, Retry, GiveUp, Fail, Goes,
     tableVars, cookieVars, lockVars
<1>20. ASSUME NEW q \in Requests, RollBack(q)
      PROVE  TypeOK'
  BY <1>20 DEF RollBack, Release, Retry, GiveUp, Fail, Goes, tableVars,
     cookieVars, lockVars
<1>21. ASSUME NEW q \in Requests, SendCookies(q)
      PROVE  TypeOK'
  BY <1>21 DEF SendCookies, Goes, tableVars, cookieVars, lockVars
<1>22. ASSUME NEW q \in Requests, Die(q)
      PROVE  TypeOK'
  BY <1>22 DEF Die, Release, Goes, tableVars, cookieVars, lockVars
<1>23. CASE UNCHANGED vars
  BY <1>23 DEF vars, tableVars, cookieVars, lockVars
<1> QED
  BY <1>1, <1>2, <1>3, <1>4, <1>5, <1>6, <1>7, <1>8, <1>9, <1>10, <1>11,
     <1>12, <1>13, <1>14, <1>15, <1>16, <1>17, <1>18, <1>19, <1>20, <1>21,
     <1>22, <1>23 DEF Next, RequestProceeds

\* Who writes the sessions of a user holds the row of the identity.
LEMMA LockStep ==
  ASSUME TypeOK, LockInv, UserInv, [Next]_vars
  PROVE  LockInv'
<1> USE NoRequestAssumption DEF TypeOK, LockInv, UserInv, Writing, Kinds,
   Starting, Ends, States
<1>1. ASSUME NEW q \in Requests, NEW i \in Identities, Callback(q, i)
      PROVE  LockInv'
  BY <1>1 DEF Callback, Begin, Goes, tableVars, cookieVars, lockVars
<1>2. ASSUME NEW q \in Requests, NEW s \in Requests, Use(q, s)
      PROVE  LockInv'
  BY <1>2 DEF Use, Begin, Present, Goes, tableVars, cookieVars, lockVars
<1>3. ASSUME NEW q \in Requests, NEW s \in Requests, Logout(q, s)
      PROVE  LockInv'
  BY <1>3 DEF Logout, Begin, Present, Goes, tableVars, cookieVars, lockVars
<1>4. ASSUME NEW q \in Requests, Expire(q)
      PROVE  LockInv'
  BY <1>4 DEF Expire, tableVars, cookieVars, lockVars
<1>5. ASSUME NEW q \in Requests, ComeBack(q)
      PROVE  LockInv'
  BY <1>5 DEF ComeBack, Goes, tableVars, cookieVars, lockVars
<1>6. ASSUME NEW q \in Requests, Read(q)
      PROVE  LockInv'
  BY <1>6 DEF Read, Proceed, Goes, tableVars, cookieVars, lockVars
<1>7. ASSUME NEW q \in Requests, ReadFails(q)
      PROVE  LockInv'
  BY <1>7 DEF ReadFails, Fail, Goes, tableVars, cookieVars, lockVars
<1>8. ASSUME NEW q \in Requests, Refresh(q)
      PROVE  LockInv'
  BY <1>8 DEF Refresh, Goes, tableVars, cookieVars, lockVars
<1>9. ASSUME NEW q \in Requests, Store(q)
      PROVE  LockInv'
  BY <1>9 DEF Store, Proceed, Goes, tableVars, cookieVars, lockVars
<1>10. ASSUME NEW q \in Requests, Clean(q)
      PROVE  LockInv'
  BY <1>10 DEF Clean, DeleteRow, Locked, Goes, tableVars, cookieVars, lockVars
<1>11. ASSUME NEW q \in Requests, Leave(q)
      PROVE  LockInv'
  BY <1>11 DEF Leave, DeleteRow, Locked, Goes, tableVars, cookieVars, lockVars
<1>12. ASSUME NEW q \in Requests, LeaveFails(q)
      PROVE  LockInv'
  BY <1>12 DEF LeaveFails, Goes, tableVars, cookieVars, lockVars
<1>13. ASSUME NEW q \in Requests, FindIdentity(q)
      PROVE  LockInv'
  BY <1>13 DEF FindIdentity, Goes, tableVars, cookieVars, lockVars
<1>14. ASSUME NEW q \in Requests, UpdateIdentity(q)
      PROVE  LockInv'
  BY <1>14 DEF UpdateIdentity, Lock, Goes, tableVars, cookieVars, lockVars
<1>15. ASSUME NEW q \in Requests, CreateIdentity(q)
      PROVE  LockInv'
  BY <1>15 DEF CreateIdentity, Lock, Goes, tableVars, cookieVars, lockVars
<1>16. ASSUME NEW q \in Requests, ClearSessions(q)
      PROVE  LockInv'
  BY <1>16 DEF ClearSessions, Goes, tableVars, cookieVars, lockVars
<1>17. ASSUME NEW q \in Requests, InsertSession(q)
      PROVE  LockInv'
  BY <1>17 DEF InsertSession, Goes, tableVars, cookieVars, lockVars
<1>18. ASSUME NEW q \in Requests, Commit(q)
      PROVE  LockInv'
  BY <1>18 DEF Commit, Write, Release, Goes, tableVars, cookieVars, lockVars
<1>19. ASSUME NEW q \in Requests, CommitUnknown(q)
      PROVE  LockInv'
  BY <1>19 DEF CommitUnknown, Write, Release, Retry, GiveUp, Fail, Goes,
     tableVars, cookieVars, lockVars
<1>20. ASSUME NEW q \in Requests, RollBack(q)
      PROVE  LockInv'
  BY <1>20 DEF RollBack, Release, Retry, GiveUp, Fail, Goes, tableVars,
     cookieVars, lockVars
<1>21. ASSUME NEW q \in Requests, SendCookies(q)
      PROVE  LockInv'
  BY <1>21 DEF SendCookies, Goes, tableVars, cookieVars, lockVars
<1>22. ASSUME NEW q \in Requests, Die(q)
      PROVE  LockInv'
  BY <1>22 DEF Die, Release, Goes, tableVars, cookieVars, lockVars
<1>23. CASE UNCHANGED vars
  BY <1>23 DEF vars, tableVars, cookieVars, lockVars
<1> QED
  BY <1>1, <1>2, <1>3, <1>4, <1>5, <1>6, <1>7, <1>8, <1>9, <1>10, <1>11,
     <1>12, <1>13, <1>14, <1>15, <1>16, <1>17, <1>18, <1>19, <1>20, <1>21,
     <1>22, <1>23 DEF Next, RequestProceeds

\* A transaction has deleted all the sessions of its user.
LEMMA DoomedStep ==
  ASSUME TypeOK, LockInv, DoomedInv, RowInv, UserInv, [Next]_vars
  PROVE  DoomedInv'
<1> USE NoIdentityAssumption, NoRequestAssumption DEF TypeOK, LockInv,
   DoomedInv, RowInv, UserInv, Writing, Exists, SessionsOf, Kinds, Starting,
   Ends, States
<1>1. ASSUME NEW q \in Requests, NEW i \in Identities, Callback(q, i)
      PROVE  DoomedInv'
  BY <1>1 DEF Callback, Begin, Goes, tableVars, cookieVars, lockVars
<1>2. ASSUME NEW q \in Requests, NEW s \in Requests, Use(q, s)
      PROVE  DoomedInv'
  BY <1>2 DEF Use, Begin, Present, Goes, tableVars, cookieVars, lockVars
<1>3. ASSUME NEW q \in Requests, NEW s \in Requests, Logout(q, s)
      PROVE  DoomedInv'
  BY <1>3 DEF Logout, Begin, Present, Goes, tableVars, cookieVars, lockVars
<1>4. ASSUME NEW q \in Requests, Expire(q)
      PROVE  DoomedInv'
  BY <1>4 DEF Expire, tableVars, cookieVars, lockVars
<1>5. ASSUME NEW q \in Requests, ComeBack(q)
      PROVE  DoomedInv'
  BY <1>5 DEF ComeBack, Goes, tableVars, cookieVars, lockVars
<1>6. ASSUME NEW q \in Requests, Read(q)
      PROVE  DoomedInv'
  BY <1>6 DEF Read, Proceed, Goes, tableVars, cookieVars, lockVars
<1>7. ASSUME NEW q \in Requests, ReadFails(q)
      PROVE  DoomedInv'
  BY <1>7 DEF ReadFails, Fail, Goes, tableVars, cookieVars, lockVars
<1>8. ASSUME NEW q \in Requests, Refresh(q)
      PROVE  DoomedInv'
  BY <1>8 DEF Refresh, Goes, tableVars, cookieVars, lockVars
<1>9. ASSUME NEW q \in Requests, Store(q)
      PROVE  DoomedInv'
  BY <1>9 DEF Store, Proceed, Goes, tableVars, cookieVars, lockVars
<1>10. ASSUME NEW q \in Requests, Clean(q)
      PROVE  DoomedInv'
  BY <1>10 DEF Clean, DeleteRow, Locked, Goes, tableVars, cookieVars, lockVars
<1>11. ASSUME NEW q \in Requests, Leave(q)
      PROVE  DoomedInv'
  BY <1>11 DEF Leave, DeleteRow, Locked, Goes, tableVars, cookieVars, lockVars
<1>12. ASSUME NEW q \in Requests, LeaveFails(q)
      PROVE  DoomedInv'
  BY <1>12 DEF LeaveFails, Goes, tableVars, cookieVars, lockVars
<1>13. ASSUME NEW q \in Requests, FindIdentity(q)
      PROVE  DoomedInv'
  BY <1>13 DEF FindIdentity, Goes, tableVars, cookieVars, lockVars
<1>14. ASSUME NEW q \in Requests, UpdateIdentity(q)
      PROVE  DoomedInv'
  BY <1>14 DEF UpdateIdentity, Lock, Goes, tableVars, cookieVars, lockVars
<1>15. ASSUME NEW q \in Requests, CreateIdentity(q)
      PROVE  DoomedInv'
  BY <1>15 DEF CreateIdentity, Lock, Goes, tableVars, cookieVars, lockVars
<1>16. ASSUME NEW q \in Requests, ClearSessions(q)
      PROVE  DoomedInv'
  BY <1>16 DEF ClearSessions, Goes, tableVars, cookieVars, lockVars
<1>17. ASSUME NEW q \in Requests, InsertSession(q)
      PROVE  DoomedInv'
  BY <1>17 DEF InsertSession, Goes, tableVars, cookieVars, lockVars
<1>18. ASSUME NEW q \in Requests, Commit(q)
      PROVE  DoomedInv'
  BY <1>18 DEF Commit, Write, Release, Goes, tableVars, cookieVars, lockVars
<1>19. ASSUME NEW q \in Requests, CommitUnknown(q)
      PROVE  DoomedInv'
  BY <1>19 DEF CommitUnknown, Write, Release, Retry, GiveUp, Fail, Goes,
     tableVars, cookieVars, lockVars
<1>20. ASSUME NEW q \in Requests, RollBack(q)
      PROVE  DoomedInv'
  BY <1>20 DEF RollBack, Release, Retry, GiveUp, Fail, Goes, tableVars,
     cookieVars, lockVars
<1>21. ASSUME NEW q \in Requests, SendCookies(q)
      PROVE  DoomedInv'
  BY <1>21 DEF SendCookies, Goes, tableVars, cookieVars, lockVars
<1>22. ASSUME NEW q \in Requests, Die(q)
      PROVE  DoomedInv'
  BY <1>22 DEF Die, Release, Goes, tableVars, cookieVars, lockVars
<1>23. CASE UNCHANGED vars
  BY <1>23 DEF vars, tableVars, cookieVars, lockVars
<1> QED
  BY <1>1, <1>2, <1>3, <1>4, <1>5, <1>6, <1>7, <1>8, <1>9, <1>10, <1>11,
     <1>12, <1>13, <1>14, <1>15, <1>16, <1>17, <1>18, <1>19, <1>20, <1>21,
     <1>22, <1>23 DEF Next, RequestProceeds

\* A user has one session, and it is the one that was started for that user.
LEMMA RowStep ==
  ASSUME TypeOK, DoomedInv, RowInv, UserInv, GivenInv, [Next]_vars
  PROVE  RowInv'
<1> USE NoIdentityAssumption, NoRequestAssumption DEF TypeOK, DoomedInv,
   RowInv, UserInv, GivenInv, Exists, SessionsOf, Kinds, Starting, Ends,
   States
<1>1. ASSUME NEW q \in Requests, NEW i \in Identities, Callback(q, i)
      PROVE  RowInv'
  BY <1>1 DEF Callback, Begin, Goes, tableVars, cookieVars, lockVars
<1>2. ASSUME NEW q \in Requests, NEW s \in Requests, Use(q, s)
      PROVE  RowInv'
  BY <1>2 DEF Use, Begin, Present, Goes, tableVars, cookieVars, lockVars
<1>3. ASSUME NEW q \in Requests, NEW s \in Requests, Logout(q, s)
      PROVE  RowInv'
  BY <1>3 DEF Logout, Begin, Present, Goes, tableVars, cookieVars, lockVars
<1>4. ASSUME NEW q \in Requests, Expire(q)
      PROVE  RowInv'
  BY <1>4 DEF Expire, tableVars, cookieVars, lockVars
<1>5. ASSUME NEW q \in Requests, ComeBack(q)
      PROVE  RowInv'
  BY <1>5 DEF ComeBack, Goes, tableVars, cookieVars, lockVars
<1>6. ASSUME NEW q \in Requests, Read(q)
      PROVE  RowInv'
  BY <1>6 DEF Read, Proceed, Goes, tableVars, cookieVars, lockVars
<1>7. ASSUME NEW q \in Requests, ReadFails(q)
      PROVE  RowInv'
  BY <1>7 DEF ReadFails, Fail, Goes, tableVars, cookieVars, lockVars
<1>8. ASSUME NEW q \in Requests, Refresh(q)
      PROVE  RowInv'
  BY <1>8 DEF Refresh, Goes, tableVars, cookieVars, lockVars
<1>9. ASSUME NEW q \in Requests, Store(q)
      PROVE  RowInv'
  BY <1>9 DEF Store, Proceed, Goes, tableVars, cookieVars, lockVars
<1>10. ASSUME NEW q \in Requests, Clean(q)
      PROVE  RowInv'
  BY <1>10 DEF Clean, DeleteRow, Locked, Goes, tableVars, cookieVars, lockVars
<1>11. ASSUME NEW q \in Requests, Leave(q)
      PROVE  RowInv'
  BY <1>11 DEF Leave, DeleteRow, Locked, Goes, tableVars, cookieVars, lockVars
<1>12. ASSUME NEW q \in Requests, LeaveFails(q)
      PROVE  RowInv'
  BY <1>12 DEF LeaveFails, Goes, tableVars, cookieVars, lockVars
<1>13. ASSUME NEW q \in Requests, FindIdentity(q)
      PROVE  RowInv'
  BY <1>13 DEF FindIdentity, Goes, tableVars, cookieVars, lockVars
<1>14. ASSUME NEW q \in Requests, UpdateIdentity(q)
      PROVE  RowInv'
  BY <1>14 DEF UpdateIdentity, Lock, Goes, tableVars, cookieVars, lockVars
<1>15. ASSUME NEW q \in Requests, CreateIdentity(q)
      PROVE  RowInv'
  BY <1>15 DEF CreateIdentity, Lock, Goes, tableVars, cookieVars, lockVars
<1>16. ASSUME NEW q \in Requests, ClearSessions(q)
      PROVE  RowInv'
  BY <1>16 DEF ClearSessions, Goes, tableVars, cookieVars, lockVars
<1>17. ASSUME NEW q \in Requests, InsertSession(q)
      PROVE  RowInv'
  BY <1>17 DEF InsertSession, Goes, tableVars, cookieVars, lockVars
<1>18. ASSUME NEW q \in Requests, Commit(q)
      PROVE  RowInv'
  BY <1>18 DEF Commit, Write, Release, Goes, tableVars, cookieVars, lockVars
<1>19. ASSUME NEW q \in Requests, CommitUnknown(q)
      PROVE  RowInv'
  BY <1>19 DEF CommitUnknown, Write, Release, Retry, GiveUp, Fail, Goes,
     tableVars, cookieVars, lockVars
<1>20. ASSUME NEW q \in Requests, RollBack(q)
      PROVE  RowInv'
  BY <1>20 DEF RollBack, Release, Retry, GiveUp, Fail, Goes, tableVars,
     cookieVars, lockVars
<1>21. ASSUME NEW q \in Requests, SendCookies(q)
      PROVE  RowInv'
  BY <1>21 DEF SendCookies, Goes, tableVars, cookieVars, lockVars
<1>22. ASSUME NEW q \in Requests, Die(q)
      PROVE  RowInv'
  BY <1>22 DEF Die, Release, Goes, tableVars, cookieVars, lockVars
<1>23. CASE UNCHANGED vars
  BY <1>23 DEF vars, tableVars, cookieVars, lockVars
<1> QED
  BY <1>1, <1>2, <1>3, <1>4, <1>5, <1>6, <1>7, <1>8, <1>9, <1>10, <1>11,
     <1>12, <1>13, <1>14, <1>15, <1>16, <1>17, <1>18, <1>19, <1>20, <1>21,
     <1>22, <1>23 DEF Next, RequestProceeds

\* A request that starts a session knows for whom.
LEMMA UserStep ==
  ASSUME TypeOK, UserInv, GivenInv, [Next]_vars
  PROVE  UserInv'
<1> USE DEF TypeOK, UserInv, GivenInv, Exists, Kinds, Starting, Ends, States
<1>1. ASSUME NEW q \in Requests, NEW i \in Identities, Callback(q, i)
      PROVE  UserInv'
  BY <1>1 DEF Callback, Begin, Goes, tableVars, cookieVars, lockVars
<1>2. ASSUME NEW q \in Requests, NEW s \in Requests, Use(q, s)
      PROVE  UserInv'
  BY <1>2 DEF Use, Begin, Present, Goes, tableVars, cookieVars, lockVars
<1>3. ASSUME NEW q \in Requests, NEW s \in Requests, Logout(q, s)
      PROVE  UserInv'
  BY <1>3 DEF Logout, Begin, Present, Goes, tableVars, cookieVars, lockVars
<1>4. ASSUME NEW q \in Requests, Expire(q)
      PROVE  UserInv'
  BY <1>4 DEF Expire, tableVars, cookieVars, lockVars
<1>5. ASSUME NEW q \in Requests, ComeBack(q)
      PROVE  UserInv'
  BY <1>5 DEF ComeBack, Goes, tableVars, cookieVars, lockVars
<1>6. ASSUME NEW q \in Requests, Read(q)
      PROVE  UserInv'
  BY <1>6 DEF Read, Proceed, Goes, tableVars, cookieVars, lockVars
<1>7. ASSUME NEW q \in Requests, ReadFails(q)
      PROVE  UserInv'
  BY <1>7 DEF ReadFails, Fail, Goes, tableVars, cookieVars, lockVars
<1>8. ASSUME NEW q \in Requests, Refresh(q)
      PROVE  UserInv'
  BY <1>8 DEF Refresh, Goes, tableVars, cookieVars, lockVars
<1>9. ASSUME NEW q \in Requests, Store(q)
      PROVE  UserInv'
  BY <1>9 DEF Store, Proceed, Goes, tableVars, cookieVars, lockVars
<1>10. ASSUME NEW q \in Requests, Clean(q)
      PROVE  UserInv'
  BY <1>10 DEF Clean, DeleteRow, Locked, Goes, tableVars, cookieVars, lockVars
<1>11. ASSUME NEW q \in Requests, Leave(q)
      PROVE  UserInv'
  BY <1>11 DEF Leave, DeleteRow, Locked, Goes, tableVars, cookieVars, lockVars
<1>12. ASSUME NEW q \in Requests, LeaveFails(q)
      PROVE  UserInv'
  BY <1>12 DEF LeaveFails, Goes, tableVars, cookieVars, lockVars
<1>13. ASSUME NEW q \in Requests, FindIdentity(q)
      PROVE  UserInv'
  BY <1>13 DEF FindIdentity, Goes, tableVars, cookieVars, lockVars
<1>14. ASSUME NEW q \in Requests, UpdateIdentity(q)
      PROVE  UserInv'
  BY <1>14 DEF UpdateIdentity, Lock, Goes, tableVars, cookieVars, lockVars
<1>15. ASSUME NEW q \in Requests, CreateIdentity(q)
      PROVE  UserInv'
  BY <1>15 DEF CreateIdentity, Lock, Goes, tableVars, cookieVars, lockVars
<1>16. ASSUME NEW q \in Requests, ClearSessions(q)
      PROVE  UserInv'
  BY <1>16 DEF ClearSessions, Goes, tableVars, cookieVars, lockVars
<1>17. ASSUME NEW q \in Requests, InsertSession(q)
      PROVE  UserInv'
  BY <1>17 DEF InsertSession, Goes, tableVars, cookieVars, lockVars
<1>18. ASSUME NEW q \in Requests, Commit(q)
      PROVE  UserInv'
  BY <1>18 DEF Commit, Write, Release, Goes, tableVars, cookieVars, lockVars
<1>19. ASSUME NEW q \in Requests, CommitUnknown(q)
      PROVE  UserInv'
  BY <1>19 DEF CommitUnknown, Write, Release, Retry, GiveUp, Fail, Goes,
     tableVars, cookieVars, lockVars
<1>20. ASSUME NEW q \in Requests, RollBack(q)
      PROVE  UserInv'
  BY <1>20 DEF RollBack, Release, Retry, GiveUp, Fail, Goes, tableVars,
     cookieVars, lockVars
<1>21. ASSUME NEW q \in Requests, SendCookies(q)
      PROVE  UserInv'
  BY <1>21 DEF SendCookies, Goes, tableVars, cookieVars, lockVars
<1>22. ASSUME NEW q \in Requests, Die(q)
      PROVE  UserInv'
  BY <1>22 DEF Die, Release, Goes, tableVars, cookieVars, lockVars
<1>23. CASE UNCHANGED vars
  BY <1>23 DEF vars, tableVars, cookieVars, lockVars
<1> QED
  BY <1>1, <1>2, <1>3, <1>4, <1>5, <1>6, <1>7, <1>8, <1>9, <1>10, <1>11,
     <1>12, <1>13, <1>14, <1>15, <1>16, <1>17, <1>18, <1>19, <1>20, <1>21,
     <1>22, <1>23 DEF Next, RequestProceeds

\* Only sessions whose request has ended are presented.
LEMMA GivenStep ==
  ASSUME TypeOK, GivenInv, [Next]_vars
  PROVE  GivenInv'
<1> USE DEF TypeOK, GivenInv, Kinds, Starting, Ends, States
<1>1. ASSUME NEW q \in Requests, NEW i \in Identities, Callback(q, i)
      PROVE  GivenInv'
  BY <1>1 DEF Callback, Begin, Goes, tableVars, cookieVars, lockVars
<1>2. ASSUME NEW q \in Requests, NEW s \in Requests, Use(q, s)
      PROVE  GivenInv'
  BY <1>2 DEF Use, Begin, Present, Goes, tableVars, cookieVars, lockVars
<1>3. ASSUME NEW q \in Requests, NEW s \in Requests, Logout(q, s)
      PROVE  GivenInv'
  BY <1>3 DEF Logout, Begin, Present, Goes, tableVars, cookieVars, lockVars
<1>4. ASSUME NEW q \in Requests, Expire(q)
      PROVE  GivenInv'
  BY <1>4 DEF Expire, tableVars, cookieVars, lockVars
<1>5. ASSUME NEW q \in Requests, ComeBack(q)
      PROVE  GivenInv'
  BY <1>5 DEF ComeBack, Goes, tableVars, cookieVars, lockVars
<1>6. ASSUME NEW q \in Requests, Read(q)
      PROVE  GivenInv'
  BY <1>6 DEF Read, Proceed, Goes, tableVars, cookieVars, lockVars
<1>7. ASSUME NEW q \in Requests, ReadFails(q)
      PROVE  GivenInv'
  BY <1>7 DEF ReadFails, Fail, Goes, tableVars, cookieVars, lockVars
<1>8. ASSUME NEW q \in Requests, Refresh(q)
      PROVE  GivenInv'
  BY <1>8 DEF Refresh, Goes, tableVars, cookieVars, lockVars
<1>9. ASSUME NEW q \in Requests, Store(q)
      PROVE  GivenInv'
  BY <1>9 DEF Store, Proceed, Goes, tableVars, cookieVars, lockVars
<1>10. ASSUME NEW q \in Requests, Clean(q)
      PROVE  GivenInv'
  BY <1>10 DEF Clean, DeleteRow, Locked, Goes, tableVars, cookieVars, lockVars
<1>11. ASSUME NEW q \in Requests, Leave(q)
      PROVE  GivenInv'
  BY <1>11 DEF Leave, DeleteRow, Locked, Goes, tableVars, cookieVars, lockVars
<1>12. ASSUME NEW q \in Requests, LeaveFails(q)
      PROVE  GivenInv'
  BY <1>12 DEF LeaveFails, Goes, tableVars, cookieVars, lockVars
<1>13. ASSUME NEW q \in Requests, FindIdentity(q)
      PROVE  GivenInv'
  BY <1>13 DEF FindIdentity, Goes, tableVars, cookieVars, lockVars
<1>14. ASSUME NEW q \in Requests, UpdateIdentity(q)
      PROVE  GivenInv'
  BY <1>14 DEF UpdateIdentity, Lock, Goes, tableVars, cookieVars, lockVars
<1>15. ASSUME NEW q \in Requests, CreateIdentity(q)
      PROVE  GivenInv'
  BY <1>15 DEF CreateIdentity, Lock, Goes, tableVars, cookieVars, lockVars
<1>16. ASSUME NEW q \in Requests, ClearSessions(q)
      PROVE  GivenInv'
  BY <1>16 DEF ClearSessions, Goes, tableVars, cookieVars, lockVars
<1>17. ASSUME NEW q \in Requests, InsertSession(q)
      PROVE  GivenInv'
  BY <1>17 DEF InsertSession, Goes, tableVars, cookieVars, lockVars
<1>18. ASSUME NEW q \in Requests, Commit(q)
      PROVE  GivenInv'
  BY <1>18 DEF Commit, Write, Release, Goes, tableVars, cookieVars, lockVars
<1>19. ASSUME NEW q \in Requests, CommitUnknown(q)
      PROVE  GivenInv'
  BY <1>19 DEF CommitUnknown, Write, Release, Retry, GiveUp, Fail, Goes,
     tableVars, cookieVars, lockVars
<1>20. ASSUME NEW q \in Requests, RollBack(q)
      PROVE  GivenInv'
  BY <1>20 DEF RollBack, Release, Retry, GiveUp, Fail, Goes, tableVars,
     cookieVars, lockVars
<1>21. ASSUME NEW q \in Requests, SendCookies(q)
      PROVE  GivenInv'
  BY <1>21 DEF SendCookies, Goes, tableVars, cookieVars, lockVars
<1>22. ASSUME NEW q \in Requests, Die(q)
      PROVE  GivenInv'
  BY <1>22 DEF Die, Release, Goes, tableVars, cookieVars, lockVars
<1>23. CASE UNCHANGED vars
  BY <1>23 DEF vars, tableVars, cookieVars, lockVars
<1> QED
  BY <1>1, <1>2, <1>3, <1>4, <1>5, <1>6, <1>7, <1>8, <1>9, <1>10, <1>11,
     <1>12, <1>13, <1>14, <1>15, <1>16, <1>17, <1>18, <1>19, <1>20, <1>21,
     <1>22, <1>23 DEF Next, RequestProceeds

\* A session that was logged out is over.
LEMMA OutStep ==
  ASSUME TypeOK, RowInv, GivenInv, OutInv, [Next]_vars
  PROVE  OutInv'
<1> USE DEF TypeOK, RowInv, GivenInv, OutInv, Exists, Kinds, Starting, Ends,
   States
<1>1. ASSUME NEW q \in Requests, NEW i \in Identities, Callback(q, i)
      PROVE  OutInv'
  BY <1>1 DEF Callback, Begin, Goes, tableVars, cookieVars, lockVars
<1>2. ASSUME NEW q \in Requests, NEW s \in Requests, Use(q, s)
      PROVE  OutInv'
  BY <1>2 DEF Use, Begin, Present, Goes, tableVars, cookieVars, lockVars
<1>3. ASSUME NEW q \in Requests, NEW s \in Requests, Logout(q, s)
      PROVE  OutInv'
  BY <1>3 DEF Logout, Begin, Present, Goes, tableVars, cookieVars, lockVars
<1>4. ASSUME NEW q \in Requests, Expire(q)
      PROVE  OutInv'
  BY <1>4 DEF Expire, tableVars, cookieVars, lockVars
<1>5. ASSUME NEW q \in Requests, ComeBack(q)
      PROVE  OutInv'
  BY <1>5 DEF ComeBack, Goes, tableVars, cookieVars, lockVars
<1>6. ASSUME NEW q \in Requests, Read(q)
      PROVE  OutInv'
  BY <1>6 DEF Read, Proceed, Goes, tableVars, cookieVars, lockVars
<1>7. ASSUME NEW q \in Requests, ReadFails(q)
      PROVE  OutInv'
  BY <1>7 DEF ReadFails, Fail, Goes, tableVars, cookieVars, lockVars
<1>8. ASSUME NEW q \in Requests, Refresh(q)
      PROVE  OutInv'
  BY <1>8 DEF Refresh, Goes, tableVars, cookieVars, lockVars
<1>9. ASSUME NEW q \in Requests, Store(q)
      PROVE  OutInv'
  BY <1>9 DEF Store, Proceed, Goes, tableVars, cookieVars, lockVars
<1>10. ASSUME NEW q \in Requests, Clean(q)
      PROVE  OutInv'
  BY <1>10 DEF Clean, DeleteRow, Locked, Goes, tableVars, cookieVars, lockVars
<1>11. ASSUME NEW q \in Requests, Leave(q)
      PROVE  OutInv'
  BY <1>11 DEF Leave, DeleteRow, Locked, Goes, tableVars, cookieVars, lockVars
<1>12. ASSUME NEW q \in Requests, LeaveFails(q)
      PROVE  OutInv'
  BY <1>12 DEF LeaveFails, Goes, tableVars, cookieVars, lockVars
<1>13. ASSUME NEW q \in Requests, FindIdentity(q)
      PROVE  OutInv'
  BY <1>13 DEF FindIdentity, Goes, tableVars, cookieVars, lockVars
<1>14. ASSUME NEW q \in Requests, UpdateIdentity(q)
      PROVE  OutInv'
  BY <1>14 DEF UpdateIdentity, Lock, Goes, tableVars, cookieVars, lockVars
<1>15. ASSUME NEW q \in Requests, CreateIdentity(q)
      PROVE  OutInv'
  BY <1>15 DEF CreateIdentity, Lock, Goes, tableVars, cookieVars, lockVars
<1>16. ASSUME NEW q \in Requests, ClearSessions(q)
      PROVE  OutInv'
  BY <1>16 DEF ClearSessions, Goes, tableVars, cookieVars, lockVars
<1>17. ASSUME NEW q \in Requests, InsertSession(q)
      PROVE  OutInv'
  BY <1>17 DEF InsertSession, Goes, tableVars, cookieVars, lockVars
<1>18. ASSUME NEW q \in Requests, Commit(q)
      PROVE  OutInv'
  BY <1>18 DEF Commit, Write, Release, Goes, tableVars, cookieVars, lockVars
<1>19. ASSUME NEW q \in Requests, CommitUnknown(q)
      PROVE  OutInv'
  BY <1>19 DEF CommitUnknown, Write, Release, Retry, GiveUp, Fail, Goes,
     tableVars, cookieVars, lockVars
<1>20. ASSUME NEW q \in Requests, RollBack(q)
      PROVE  OutInv'
  BY <1>20 DEF RollBack, Release, Retry, GiveUp, Fail, Goes, tableVars,
     cookieVars, lockVars
<1>21. ASSUME NEW q \in Requests, SendCookies(q)
      PROVE  OutInv'
  BY <1>21 DEF SendCookies, Goes, tableVars, cookieVars, lockVars
<1>22. ASSUME NEW q \in Requests, Die(q)
      PROVE  OutInv'
  BY <1>22 DEF Die, Release, Goes, tableVars, cookieVars, lockVars
<1>23. CASE UNCHANGED vars
  BY <1>23 DEF vars, tableVars, cookieVars, lockVars
<1> QED
  BY <1>1, <1>2, <1>3, <1>4, <1>5, <1>6, <1>7, <1>8, <1>9, <1>10, <1>11,
     <1>12, <1>13, <1>14, <1>15, <1>16, <1>17, <1>18, <1>19, <1>20, <1>21,
     <1>22, <1>23 DEF Next, RequestProceeds

\* No session is in the way of the one that is inserted.
LEMMA ConflictStep ==
  ASSUME TypeOK, DoomedInv, RowInv, NeverConflicts, [Next]_vars
  PROVE  NeverConflicts'
<1> USE DEF TypeOK, DoomedInv, RowInv, NeverConflicts, Exists, SessionsOf,
   Kinds, Starting, Ends, States
<1>1. ASSUME NEW q \in Requests, NEW i \in Identities, Callback(q, i)
      PROVE  NeverConflicts'
  BY <1>1 DEF Callback, Begin, Goes, tableVars, cookieVars, lockVars
<1>2. ASSUME NEW q \in Requests, NEW s \in Requests, Use(q, s)
      PROVE  NeverConflicts'
  BY <1>2 DEF Use, Begin, Present, Goes, tableVars, cookieVars, lockVars
<1>3. ASSUME NEW q \in Requests, NEW s \in Requests, Logout(q, s)
      PROVE  NeverConflicts'
  BY <1>3 DEF Logout, Begin, Present, Goes, tableVars, cookieVars, lockVars
<1>4. ASSUME NEW q \in Requests, Expire(q)
      PROVE  NeverConflicts'
  BY <1>4 DEF Expire, tableVars, cookieVars, lockVars
<1>5. ASSUME NEW q \in Requests, ComeBack(q)
      PROVE  NeverConflicts'
  BY <1>5 DEF ComeBack, Goes, tableVars, cookieVars, lockVars
<1>6. ASSUME NEW q \in Requests, Read(q)
      PROVE  NeverConflicts'
  BY <1>6 DEF Read, Proceed, Goes, tableVars, cookieVars, lockVars
<1>7. ASSUME NEW q \in Requests, ReadFails(q)
      PROVE  NeverConflicts'
  BY <1>7 DEF ReadFails, Fail, Goes, tableVars, cookieVars, lockVars
<1>8. ASSUME NEW q \in Requests, Refresh(q)
      PROVE  NeverConflicts'
  BY <1>8 DEF Refresh, Goes, tableVars, cookieVars, lockVars
<1>9. ASSUME NEW q \in Requests, Store(q)
      PROVE  NeverConflicts'
  BY <1>9 DEF Store, Proceed, Goes, tableVars, cookieVars, lockVars
<1>10. ASSUME NEW q \in Requests, Clean(q)
      PROVE  NeverConflicts'
  BY <1>10 DEF Clean, DeleteRow, Locked, Goes, tableVars, cookieVars, lockVars
<1>11. ASSUME NEW q \in Requests, Leave(q)
      PROVE  NeverConflicts'
  BY <1>11 DEF Leave, DeleteRow, Locked, Goes, tableVars, cookieVars, lockVars
<1>12. ASSUME NEW q \in Requests, LeaveFails(q)
      PROVE  NeverConflicts'
  BY <1>12 DEF LeaveFails, Goes, tableVars, cookieVars, lockVars
<1>13. ASSUME NEW q \in Requests, FindIdentity(q)
      PROVE  NeverConflicts'
  BY <1>13 DEF FindIdentity, Goes, tableVars, cookieVars, lockVars
<1>14. ASSUME NEW q \in Requests, UpdateIdentity(q)
      PROVE  NeverConflicts'
  BY <1>14 DEF UpdateIdentity, Lock, Goes, tableVars, cookieVars, lockVars
<1>15. ASSUME NEW q \in Requests, CreateIdentity(q)
      PROVE  NeverConflicts'
  BY <1>15 DEF CreateIdentity, Lock, Goes, tableVars, cookieVars, lockVars
<1>16. ASSUME NEW q \in Requests, ClearSessions(q)
      PROVE  NeverConflicts'
  BY <1>16 DEF ClearSessions, Goes, tableVars, cookieVars, lockVars
<1>17. ASSUME NEW q \in Requests, InsertSession(q)
      PROVE  NeverConflicts'
  BY <1>17 DEF InsertSession, Goes, tableVars, cookieVars, lockVars
<1>18. ASSUME NEW q \in Requests, Commit(q)
      PROVE  NeverConflicts'
  BY <1>18 DEF Commit, Write, Release, Goes, tableVars, cookieVars, lockVars
<1>19. ASSUME NEW q \in Requests, CommitUnknown(q)
      PROVE  NeverConflicts'
  BY <1>19 DEF CommitUnknown, Write, Release, Retry, GiveUp, Fail, Goes,
     tableVars, cookieVars, lockVars
<1>20. ASSUME NEW q \in Requests, RollBack(q)
      PROVE  NeverConflicts'
  BY <1>20 DEF RollBack, Release, Retry, GiveUp, Fail, Goes, tableVars,
     cookieVars, lockVars
<1>21. ASSUME NEW q \in Requests, SendCookies(q)
      PROVE  NeverConflicts'
  BY <1>21 DEF SendCookies, Goes, tableVars, cookieVars, lockVars
<1>22. ASSUME NEW q \in Requests, Die(q)
      PROVE  NeverConflicts'
  BY <1>22 DEF Die, Release, Goes, tableVars, cookieVars, lockVars
<1>23. CASE UNCHANGED vars
  BY <1>23 DEF vars, tableVars, cookieVars, lockVars
<1> QED
  BY <1>1, <1>2, <1>3, <1>4, <1>5, <1>6, <1>7, <1>8, <1>9, <1>10, <1>11,
     <1>12, <1>13, <1>14, <1>15, <1>16, <1>17, <1>18, <1>19, <1>20, <1>21,
     <1>22, <1>23 DEF Next, RequestProceeds

LEMMA Induction == IInv /\ [Next]_vars => IInv'
BY TypeStep, LockStep, DoomedStep, RowStep, UserStep, GivenStep, OutStep, ConflictStep
   DEF IInv

\* The inductive invariant holds in every reachable state.
THEOREM Invariance == Spec => []IInv
BY InitIInv, Induction, PTL DEF Spec

\* The state keeps its type.
THEOREM Typing == Spec => []TypeOK
BY Invariance, PTL DEF IInv

\* However many requests of a user start sessions at the same time, and are
\* tried again, none of them is refused because of another's session.
THEOREM NoConflict == Spec => []NeverConflicts
BY Invariance, PTL DEF IInv

\* A logout is final for the requests that come after it.
THEOREM NoEntryAfterLogout == Spec => []NoLateEntry
<1>1. IInv => NoLateEntry
  BY DEF IInv, OutInv, NoLateEntry
<1> QED
  BY <1>1, Invariance, PTL

\* Every step is a step of SingleSession or changes nothing there.
LEMMA RefinementStep ==
  ASSUME IInv, IInv', [Next]_vars
  PROVE  Single!Next \/ UNCHANGED Single!vars
<1> USE DEF IInv, TypeOK
<1>a. ASSUME sessions' = sessions
      PROVE  Current' = Current
  BY <1>a DEF Current, SessionOf, AnyOf, SessionsOf
<1>c. ASSUME UNCHANGED <<sessions, given>>
      PROVE  UNCHANGED Single!vars
  BY <1>a, <1>c DEF Single!vars
<1>d. ASSUME NEW q \in Requests, Write(q)
      PROVE  user[q] \in Identities /\ Single!Begin(user[q], q)
  <2>0. PICK i \in Identities : i = user[q]
    BY <1>d DEF Write, UserInv, Starting
  <2>1. i = user[q] /\ at[q] = "committing" /\ q \notin given /\ given' = given
    BY <2>0, <1>d DEF Write, cookieVars, GivenInv, Starting
  <2>2. /\ sessions'[q] = i
        /\ \A s \in Requests \ {q} :
              sessions'[s] = IF s \in doomed[q] THEN NoIdentity ELSE sessions[s]
    BY <2>0, <1>d DEF Write
  <2>3. \A s \in doomed[q] : sessions[s] = i
    BY <2>1 DEF DoomedInv
  <2>4. \A j \in Identities \ {i} : SessionsOf(j)' = SessionsOf(j)
    <3>1. sessions[q] \in {i, NoIdentity}
      BY <2>0 DEF RowInv, Exists
    <3> QED
      BY <2>1, <2>2, <2>3, <3>1, NoIdentityAssumption DEF SessionsOf
  <2>5. SessionOf(i)' = q
    <3>1. SessionsOf(i)' = {q}
      BY <2>2, NoIdentityAssumption DEF RowInv, Exists, SessionsOf
    <3> QED
      BY <3>1 DEF SessionOf, AnyOf
  <2>6. Current' = [Current EXCEPT ![i] = q]
    <3>1. \A j \in Identities \ {i} : SessionOf(j)' = SessionOf(j)
      BY <2>4 DEF SessionOf
    <3> QED
      BY <2>5, <3>1 DEF Current
  <2>7. \A j \in Identities \ {i} : Current[j] # q
    <3>1. \A j \in Identities \ {i} : q \notin SessionsOf(j)
      BY <2>0, NoIdentityAssumption DEF RowInv, Exists, SessionsOf
    <3>2. \A j \in Identities : SessionsOf(j) # {} => SessionOf(j) \in SessionsOf(j)
      BY DEF SessionOf, AnyOf
    <3> QED
      BY <3>1, <3>2, NoRequestAssumption DEF Current, SessionOf, AnyOf
  <2> QED
    BY <2>1, <2>6, <2>7 DEF Single!Begin
<1>1. ASSUME NEW q \in Requests, NEW i \in Identities, Callback(q, i)
      PROVE  Single!Next \/ UNCHANGED Single!vars
  <2>1. UNCHANGED <<sessions, given>>
    BY <1>1 DEF Callback, Begin, Goes, tableVars, cookieVars, lockVars
  <2> QED
    BY <2>1, <1>c
<1>2. ASSUME NEW q \in Requests, NEW s \in Requests, Use(q, s)
      PROVE  Single!Next \/ UNCHANGED Single!vars
  <2>1. UNCHANGED <<sessions, given>>
    BY <1>2 DEF Use, Begin, Present, Goes, tableVars, cookieVars, lockVars
  <2> QED
    BY <2>1, <1>c
<1>3. ASSUME NEW q \in Requests, NEW s \in Requests, Logout(q, s)
      PROVE  Single!Next \/ UNCHANGED Single!vars
  <2>1. UNCHANGED <<sessions, given>>
    BY <1>3 DEF Logout, Begin, Present, Goes, tableVars, cookieVars, lockVars
  <2> QED
    BY <2>1, <1>c
<1>4. ASSUME NEW q \in Requests, Expire(q)
      PROVE  Single!Next \/ UNCHANGED Single!vars
  <2>1. UNCHANGED <<sessions, given>>
    BY <1>4 DEF Expire, tableVars, cookieVars, lockVars
  <2> QED
    BY <2>1, <1>c
<1>5. ASSUME NEW q \in Requests, ComeBack(q)
      PROVE  Single!Next \/ UNCHANGED Single!vars
  <2>1. UNCHANGED <<sessions, given>>
    BY <1>5 DEF ComeBack, Goes, tableVars, cookieVars, lockVars
  <2> QED
    BY <2>1, <1>c
<1>6. ASSUME NEW q \in Requests, Read(q)
      PROVE  Single!Next \/ UNCHANGED Single!vars
  <2>1. UNCHANGED <<sessions, given>>
    BY <1>6 DEF Read, Proceed, Goes, tableVars, cookieVars, lockVars
  <2> QED
    BY <2>1, <1>c
<1>7. ASSUME NEW q \in Requests, ReadFails(q)
      PROVE  Single!Next \/ UNCHANGED Single!vars
  <2>1. UNCHANGED <<sessions, given>>
    BY <1>7 DEF ReadFails, Fail, Goes, tableVars, cookieVars, lockVars
  <2> QED
    BY <2>1, <1>c
<1>8. ASSUME NEW q \in Requests, Refresh(q)
      PROVE  Single!Next \/ UNCHANGED Single!vars
  <2>1. UNCHANGED <<sessions, given>>
    BY <1>8 DEF Refresh, Goes, tableVars, cookieVars, lockVars
  <2> QED
    BY <2>1, <1>c
<1>9. ASSUME NEW q \in Requests, Store(q)
      PROVE  Single!Next \/ UNCHANGED Single!vars
  <2>1. UNCHANGED <<sessions, given>>
    BY <1>9 DEF Store, Proceed, Goes, tableVars, cookieVars, lockVars
  <2> QED
    BY <2>1, <1>c
<1>10. ASSUME NEW q \in Requests, Clean(q)
      PROVE  Single!Next \/ UNCHANGED Single!vars
  <2> DEFINE s == session[q]
  <2>1. s \in Requests /\ given' = given
    BY <1>10 DEF Clean, DeleteRow, Locked, Goes, tableVars, cookieVars, lockVars, GivenInv
  <2>2. CASE UNCHANGED sessions
    BY <2>1, <2>2, <1>c
  <2>3. CASE DeleteRow(s) /\ ~Exists(s)
    <3>1. sessions' = sessions
      BY <2>1, <2>3 DEF DeleteRow, Exists
    <3> QED
      BY <3>1, <2>1, <1>c
  <2>4. CASE DeleteRow(s) /\ Exists(s)
    <3>0. PICK i \in Identities : i = sessions[s]
      BY <2>1, <2>4 DEF Exists
    <3>1. /\ i = sessions[s]
          /\ sessions'[s] = NoIdentity
          /\ \A t \in Requests \ {s} : sessions'[t] = sessions[t]
      BY <3>0, <2>1, <2>4 DEF DeleteRow, Exists
    <3>2. SessionsOf(i)' = {}
      BY <3>1, <2>1, <2>4, NoIdentityAssumption DEF SessionsOf, RowInv, Exists
    <3>3. \A j \in Identities \ {i} : SessionsOf(j)' = SessionsOf(j)
      BY <3>1, NoIdentityAssumption DEF SessionsOf
    <3>4. Current' = [Current EXCEPT ![i] = NoRequest]
      <4>1. \A j \in Identities \ {i} : SessionOf(j)' = SessionOf(j)
        BY <3>3 DEF SessionOf
      <4>2. SessionOf(i)' = NoRequest
        BY <3>2 DEF SessionOf, AnyOf
      <4> QED
        BY <4>1, <4>2 DEF Current
    <3>5. Single!End(i)
      BY <3>4, <2>1 DEF Single!End
    <3> QED
      BY <3>1, <3>5 DEF Single!Next
  <2> QED
    BY <1>10, <2>2, <2>3, <2>4 DEF Clean, DeleteRow, Locked, Goes, tableVars, cookieVars, lockVars
<1>11. ASSUME NEW q \in Requests, Leave(q)
      PROVE  Single!Next \/ UNCHANGED Single!vars
  <2> DEFINE s == session[q]
  <2>1. s \in Requests /\ given' = given
    BY <1>11 DEF Leave, DeleteRow, Locked, Goes, tableVars, cookieVars, lockVars, GivenInv
  <2>2. CASE UNCHANGED sessions
    BY <2>1, <2>2, <1>c
  <2>3. CASE DeleteRow(s) /\ ~Exists(s)
    <3>1. sessions' = sessions
      BY <2>1, <2>3 DEF DeleteRow, Exists
    <3> QED
      BY <3>1, <2>1, <1>c
  <2>4. CASE DeleteRow(s) /\ Exists(s)
    <3>0. PICK i \in Identities : i = sessions[s]
      BY <2>1, <2>4 DEF Exists
    <3>1. /\ i = sessions[s]
          /\ sessions'[s] = NoIdentity
          /\ \A t \in Requests \ {s} : sessions'[t] = sessions[t]
      BY <3>0, <2>1, <2>4 DEF DeleteRow, Exists
    <3>2. SessionsOf(i)' = {}
      BY <3>1, <2>1, <2>4, NoIdentityAssumption DEF SessionsOf, RowInv, Exists
    <3>3. \A j \in Identities \ {i} : SessionsOf(j)' = SessionsOf(j)
      BY <3>1, NoIdentityAssumption DEF SessionsOf
    <3>4. Current' = [Current EXCEPT ![i] = NoRequest]
      <4>1. \A j \in Identities \ {i} : SessionOf(j)' = SessionOf(j)
        BY <3>3 DEF SessionOf
      <4>2. SessionOf(i)' = NoRequest
        BY <3>2 DEF SessionOf, AnyOf
      <4> QED
        BY <4>1, <4>2 DEF Current
    <3>5. Single!End(i)
      BY <3>4, <2>1 DEF Single!End
    <3> QED
      BY <3>1, <3>5 DEF Single!Next
  <2> QED
    BY <1>11, <2>2, <2>3, <2>4 DEF Leave, DeleteRow, Locked, Goes, tableVars, cookieVars, lockVars
<1>12. ASSUME NEW q \in Requests, LeaveFails(q)
      PROVE  Single!Next \/ UNCHANGED Single!vars
  <2>1. UNCHANGED <<sessions, given>>
    BY <1>12 DEF LeaveFails, Goes, tableVars, cookieVars, lockVars
  <2> QED
    BY <2>1, <1>c
<1>13. ASSUME NEW q \in Requests, FindIdentity(q)
      PROVE  Single!Next \/ UNCHANGED Single!vars
  <2>1. UNCHANGED <<sessions, given>>
    BY <1>13 DEF FindIdentity, Goes, tableVars, cookieVars, lockVars
  <2> QED
    BY <2>1, <1>c
<1>14. ASSUME NEW q \in Requests, UpdateIdentity(q)
      PROVE  Single!Next \/ UNCHANGED Single!vars
  <2>1. UNCHANGED <<sessions, given>>
    BY <1>14 DEF UpdateIdentity, Lock, Goes, tableVars, cookieVars, lockVars
  <2> QED
    BY <2>1, <1>c
<1>15. ASSUME NEW q \in Requests, CreateIdentity(q)
      PROVE  Single!Next \/ UNCHANGED Single!vars
  <2>1. UNCHANGED <<sessions, given>>
    BY <1>15 DEF CreateIdentity, Lock, Goes, tableVars, cookieVars, lockVars
  <2> QED
    BY <2>1, <1>c
<1>16. ASSUME NEW q \in Requests, ClearSessions(q)
      PROVE  Single!Next \/ UNCHANGED Single!vars
  <2>1. UNCHANGED <<sessions, given>>
    BY <1>16 DEF ClearSessions, Goes, tableVars, cookieVars, lockVars
  <2> QED
    BY <2>1, <1>c
<1>17. ASSUME NEW q \in Requests, InsertSession(q)
      PROVE  Single!Next \/ UNCHANGED Single!vars
  <2>1. UNCHANGED <<sessions, given>>
    BY <1>17 DEF InsertSession, Goes, tableVars, cookieVars, lockVars
  <2> QED
    BY <2>1, <1>c
<1>18. ASSUME NEW q \in Requests, Commit(q)
      PROVE  Single!Next \/ UNCHANGED Single!vars
  <2>1. Write(q)
    BY <1>18 DEF Commit, Write, Release, Goes, tableVars, cookieVars, lockVars
  <2> QED
    BY <2>1, <1>d DEF Single!Next
<1>19. ASSUME NEW q \in Requests, CommitUnknown(q)
      PROVE  Single!Next \/ UNCHANGED Single!vars
  <2>1. Write(q)
    BY <1>19 DEF CommitUnknown, Write, Release, Retry, GiveUp, Fail, Goes, tableVars, cookieVars, lockVars
  <2> QED
    BY <2>1, <1>d DEF Single!Next
<1>20. ASSUME NEW q \in Requests, RollBack(q)
      PROVE  Single!Next \/ UNCHANGED Single!vars
  <2>1. UNCHANGED <<sessions, given>>
    BY <1>20 DEF RollBack, Release, Retry, GiveUp, Fail, Goes, tableVars, cookieVars, lockVars
  <2> QED
    BY <2>1, <1>c
<1>21. ASSUME NEW q \in Requests, SendCookies(q)
      PROVE  Single!Next \/ UNCHANGED Single!vars
  <2>1. sessions' = sessions /\ given' = given \union {q}
    BY <1>21 DEF SendCookies, Goes, tableVars, cookieVars, lockVars
  <2>2. Current' = Current
    BY <2>1, <1>a
  <2>3. Single!Give(q)
    BY <2>1, <2>2 DEF Single!Give
  <2> QED
    BY <2>3 DEF Single!Next
<1>22. ASSUME NEW q \in Requests, Die(q)
      PROVE  Single!Next \/ UNCHANGED Single!vars
  <2>1. UNCHANGED <<sessions, given>>
    BY <1>22 DEF Die, Release, Goes, tableVars, cookieVars, lockVars
  <2> QED
    BY <2>1, <1>c
<1>23. CASE UNCHANGED vars
  <2>1. UNCHANGED <<sessions, given>>
    BY <1>23 DEF vars, tableVars, cookieVars, lockVars
  <2> QED
    BY <2>1, <1>c
<1> QED
  BY <1>1, <1>2, <1>3, <1>4, <1>5, <1>6, <1>7, <1>8, <1>9, <1>10, <1>11,
     <1>12, <1>13, <1>14, <1>15, <1>16, <1>17, <1>18, <1>19, <1>20, <1>21,
     <1>22, <1>23 DEF Next, RequestProceeds

\* What users are promised: one session each, that nobody shares and that does
\* not come back.
THEOREM Refinement == Spec => OneSession
<1>1. Init => Single!Init
  BY NoIdentityAssumption DEF Init, Single!Init, Current, SessionOf, AnyOf, SessionsOf
<1>2. IInv /\ IInv' /\ [Next]_vars => [Single!Next]_(Single!vars)
  BY RefinementStep
<1> QED
  BY <1>1, <1>2, Invariance, PTL DEF Spec, OneSession, Single!Spec

==============================================================================
