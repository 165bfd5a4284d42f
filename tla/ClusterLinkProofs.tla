--------------------------- MODULE ClusterLinkProofs ---------------------------
(***************************************************************************)
(* Proofs about ClusterLink, for every set of clusters, of names and of    *)
(* sagas.  IInv is inductive; each of its conjuncts has a lemma, with one  *)
(* step per action.                                                        *)
(***************************************************************************)
EXTENDS ClusterLink, TLAPS

\* The requests of a saga are three.
LEMMA RequestType ==
  /\ \A q \in Requests : q = <<q[1], q[2]>> /\ q[1] \in Sagas /\ q[2] \in Steps
  /\ \A s \in Sagas, step \in Steps : <<s, step>> \in Requests
  /\ Steps = {"first", "second", "cleanup"}
BY DEF Requests, Steps

LEMMA ThingType ==
  ASSUME NEW s \in Sagas, link[s] \in Links
  PROVE  Pending(s) \in Things /\ Activated(s) \in Things
BY DEF Pending, Activated, Links, Types, Things

\* What the requests are about is given when the saga begins.
LEMMA SameLink ==
  ASSUME NEW s \in Sagas, link'[s] = link[s]
  PROVE  Pending(s)' = Pending(s) /\ Activated(s)' = Activated(s)
BY DEF Pending, Activated

\* What is called is about a link.
LEMMA LinkType ==
  ASSUME TypeOK, RequestInv, PhaseInv, NEW s \in Sagas, NEW step \in Steps,
         status[<<s, step>>] # "new"
  PROVE  link[s] \in Links
<1>1. <<s, "first">> \in Requests
  BY RequestType
<1>2. status[<<s, "first">>] # "new"
  <2>1. <<s, "first">> \in granted => <<s, "first">> \in executed
    BY DEF TypeOK
  <2> QED
    BY <1>1, <2>1, RequestType DEF PhaseInv, RequestInv, New
<1>3. <<s, "first">>[1] = s /\ <<s, "first">>[2] = "first"
  OBVIOUS
<1> QED
  BY <1>1, <1>2, <1>3 DEF RequestInv

LEMMA GrantedType ==
  ASSUME TypeOK, RequestInv, PhaseInv, NEW s \in Sagas, NEW step \in Steps,
         <<s, step>> \in granted
  PROVE  Pending(s) \in Things /\ Activated(s) \in Things
<1>1. status[<<s, step>>] # "new"
  BY RequestType DEF TypeOK, RequestInv
<1> QED
  BY <1>1, LinkType, ThingType

LEMMA InitIInv == Init => IInv
BY NoSagaAssumption, RequestType
   DEF Init, IInv, TypeOK, RPC!Init, RequestInv, PhaseInv, OwnerInv, CleanedInv,
       PendingInv, ActiveInv, New

\* Every step keeps the state in its type.
LEMMA TypeStep ==
  ASSUME TypeOK, RequestInv, PhaseInv, [Next]_vars
  PROVE  TypeOK'
<1> USE NoSagaAssumption, RequestType DEF TypeOK, Ends
<1>1. ASSUME NEW s \in Sagas, NEW l \in Links, Begin(s, l)
      PROVE  TypeOK'
  BY <1>1 DEF Begin, Ask, sagaVars, rpcVars, clusterVars, RPC!Call, RPC!Send,
     RPC!Execute, RPC!Answer, RPC!Abort
<1>2. ASSUME NEW s \in Sagas, Refuse(s)
      PROVE  TypeOK'
  BY <1>2 DEF Refuse, Return, sagaVars, rpcVars, clusterVars, RPC!Call,
     RPC!Send, RPC!Execute, RPC!Answer, RPC!Abort
<1>3. ASSUME NEW s \in Sagas, FirstGranted(s)
      PROVE  TypeOK'
  BY <1>3 DEF FirstGranted, Granted, Answered, Ask, sagaVars, rpcVars,
     clusterVars, RPC!Call, RPC!Send, RPC!Execute, RPC!Answer, RPC!Abort
<1>4. ASSUME NEW s \in Sagas, FirstUnusable(s)
      PROVE  TypeOK'
  BY <1>4 DEF FirstUnusable, Granted, Answered, Ask, sagaVars, rpcVars,
     clusterVars, RPC!Call, RPC!Send, RPC!Execute, RPC!Answer, RPC!Abort
<1>5. ASSUME NEW s \in Sagas, FirstFails(s)
      PROVE  TypeOK'
  BY <1>5 DEF FirstFails, Failed, Answered, Return, sagaVars, rpcVars,
     clusterVars, RPC!Call, RPC!Send, RPC!Execute, RPC!Answer, RPC!Abort
<1>6. ASSUME NEW s \in Sagas, SecondGranted(s)
      PROVE  TypeOK'
  BY <1>6 DEF SecondGranted, Granted, Answered, Return, sagaVars, rpcVars,
     clusterVars, RPC!Call, RPC!Send, RPC!Execute, RPC!Answer, RPC!Abort
<1>7. ASSUME NEW s \in Sagas, SecondFails(s)
      PROVE  TypeOK'
  BY <1>7 DEF SecondFails, Failed, Answered, Ask, sagaVars, rpcVars,
     clusterVars, RPC!Call, RPC!Send, RPC!Execute, RPC!Answer, RPC!Abort
<1>8. ASSUME NEW s \in Sagas, CleanupEnds(s)
      PROVE  TypeOK'
  BY <1>8 DEF CleanupEnds, Failed, Answered, Return, sagaVars, rpcVars,
     clusterVars, RPC!Call, RPC!Send, RPC!Execute, RPC!Answer, RPC!Abort
<1>9. ASSUME NEW s \in Sagas, Die(s)
      PROVE  TypeOK'
  BY <1>9 DEF Die, sagaVars, rpcVars, clusterVars, RPC!Call, RPC!Send,
     RPC!Execute, RPC!Answer, RPC!Abort
<1>10. ASSUME NEW s \in Sagas, ExecuteFirst(s)
      PROVE  TypeOK'
  BY <1>10 DEF ExecuteFirst, Grant, Free, sagaVars, rpcVars, clusterVars,
     RPC!Call, RPC!Send, RPC!Execute, RPC!Answer, RPC!Abort
<1>11. ASSUME NEW s \in Sagas, ExecuteSecond(s)
      PROVE  TypeOK'
  <2>1. status[<<s, "second">>] # "new"
    BY <1>11 DEF ExecuteSecond, Grant, Free, sagaVars, rpcVars, clusterVars,
       RPC!Call, RPC!Send, RPC!Execute, RPC!Answer, RPC!Abort
  <2>2. Pending(s) \in Things /\ Activated(s) \in Things
    BY <2>1, RequestType, LinkType, ThingType
  <2>3. /\ link' \in [Sagas -> Links \union {NoLink}]
        /\ at' \in [Sagas -> Steps \union Ends \union {"idle"}]
        /\ status' \in [Requests -> {"new", "called", "sent", "answered", "refused", "failed"}]
        /\ removed' \subseteq Sagas
    BY <1>11 DEF ExecuteSecond, Grant, Free, sagaVars, rpcVars, clusterVars,
       RPC!Call, RPC!Send, RPC!Execute, RPC!Answer, RPC!Abort, TypeOK
  <2>4. executed' \subseteq Requests /\ granted' \subseteq executed'
    <3>1. <<s, "second">> \in Requests
      BY RequestType
    <3>2. executed' = executed \union {<<s, "second">>} /\ granted' = granted \union {<<s, "second">>}
      BY <1>11 DEF ExecuteSecond, Grant, Free, sagaVars, rpcVars, clusterVars,
         RPC!Call, RPC!Send, RPC!Execute, RPC!Answer, RPC!Abort
    <3> QED
      BY <3>1, <3>2 DEF TypeOK
  <2>5. owner' \in [Things -> Sagas \union {NoSaga}] /\ active' \subseteq Things
    BY <1>11, <2>2 DEF ExecuteSecond, Grant, Free, sagaVars, rpcVars,
       clusterVars, RPC!Call, RPC!Send, RPC!Execute, RPC!Answer, RPC!Abort,
       TypeOK
  <2> QED
    BY <2>3, <2>4, <2>5 DEF TypeOK
<1>12. ASSUME NEW s \in Sagas, ExecuteCleanup(s)
      PROVE  TypeOK'
  <2>1. /\ link' \in [Sagas -> Links \union {NoLink}]
        /\ at' \in [Sagas -> Steps \union Ends \union {"idle"}]
        /\ status' \in [Requests -> {"new", "called", "sent", "answered", "refused", "failed"}]
        /\ removed' \subseteq Sagas
    BY <1>12 DEF ExecuteCleanup, Grant, Remove, Free, sagaVars, rpcVars,
       clusterVars, RPC!Call, RPC!Send, RPC!Execute, RPC!Answer, RPC!Abort,
       TypeOK
  <2>2. executed' \subseteq Requests /\ granted' \subseteq executed'
    <3>1. <<s, "cleanup">> \in Requests
      BY RequestType
    <3>2. executed' = executed \union {<<s, "cleanup">>} /\ granted' = granted \union {<<s, "cleanup">>}
      BY <1>12 DEF ExecuteCleanup, Grant, Remove, Free, sagaVars, rpcVars,
         clusterVars, RPC!Call, RPC!Send, RPC!Execute, RPC!Answer, RPC!Abort
    <3> QED
      BY <3>1, <3>2 DEF TypeOK
  <2>3. owner' \in [Things -> Sagas \union {NoSaga}] /\ active' \subseteq Things
    BY <1>12 DEF ExecuteCleanup, Grant, Remove, Free, sagaVars, rpcVars,
       clusterVars, RPC!Call, RPC!Send, RPC!Execute, RPC!Answer, RPC!Abort,
       TypeOK
  <2> QED
    BY <2>1, <2>2, <2>3 DEF TypeOK
<1>13. ASSUME NEW q \in Requests, Tunnels(q)
      PROVE  TypeOK'
  BY <1>13 DEF Tunnels, Fails, sagaVars, rpcVars, clusterVars, RPC!Call,
     RPC!Send, RPC!Execute, RPC!Answer, RPC!Abort
<1>14. ASSUME NEW q \in Requests, Reject(q)
      PROVE  TypeOK'
  BY <1>14 DEF Reject, sagaVars, rpcVars, clusterVars, RPC!Call, RPC!Send,
     RPC!Execute, RPC!Answer, RPC!Abort
<1>15. ASSUME NEW x \in Things, UserRemoves(x)
      PROVE  TypeOK'
  BY <1>15 DEF UserRemoves, Remove, Free, sagaVars, rpcVars, clusterVars,
     RPC!Call, RPC!Send, RPC!Execute, RPC!Answer, RPC!Abort
<1>16. CASE UNCHANGED vars
  BY <1>16 DEF vars, sagaVars, rpcVars, clusterVars, RPC!Call, RPC!Send,
     RPC!Execute, RPC!Answer, RPC!Abort
<1> QED
  BY <1>1, <1>2, <1>3, <1>4, <1>5, <1>6, <1>7, <1>8, <1>9, <1>10, <1>11,
     <1>12, <1>13, <1>14, <1>15, <1>16 DEF Next, HandlerProceeds

\* Only what was called is executed, once.
LEMMA RequestStep ==
  ASSUME TypeOK, RequestInv, PhaseInv, [Next]_vars
  PROVE  RequestInv'
<1> USE RequestType DEF TypeOK, Ends, RequestInv, PhaseInv, New
<1>1. ASSUME NEW s \in Sagas, NEW l \in Links, Begin(s, l)
      PROVE  RequestInv'
  BY <1>1 DEF Begin, Ask, sagaVars, rpcVars, clusterVars, RPC!Call, RPC!Send,
     RPC!Execute, RPC!Answer, RPC!Abort
<1>2. ASSUME NEW s \in Sagas, Refuse(s)
      PROVE  RequestInv'
  BY <1>2 DEF Refuse, Return, sagaVars, rpcVars, clusterVars, RPC!Call,
     RPC!Send, RPC!Execute, RPC!Answer, RPC!Abort
<1>3. ASSUME NEW s \in Sagas, FirstGranted(s)
      PROVE  RequestInv'
  BY <1>3 DEF FirstGranted, Granted, Answered, Ask, sagaVars, rpcVars,
     clusterVars, RPC!Call, RPC!Send, RPC!Execute, RPC!Answer, RPC!Abort
<1>4. ASSUME NEW s \in Sagas, FirstUnusable(s)
      PROVE  RequestInv'
  BY <1>4 DEF FirstUnusable, Granted, Answered, Ask, sagaVars, rpcVars,
     clusterVars, RPC!Call, RPC!Send, RPC!Execute, RPC!Answer, RPC!Abort
<1>5. ASSUME NEW s \in Sagas, FirstFails(s)
      PROVE  RequestInv'
  BY <1>5 DEF FirstFails, Failed, Answered, Return, sagaVars, rpcVars,
     clusterVars, RPC!Call, RPC!Send, RPC!Execute, RPC!Answer, RPC!Abort
<1>6. ASSUME NEW s \in Sagas, SecondGranted(s)
      PROVE  RequestInv'
  BY <1>6 DEF SecondGranted, Granted, Answered, Return, sagaVars, rpcVars,
     clusterVars, RPC!Call, RPC!Send, RPC!Execute, RPC!Answer, RPC!Abort
<1>7. ASSUME NEW s \in Sagas, SecondFails(s)
      PROVE  RequestInv'
  BY <1>7 DEF SecondFails, Failed, Answered, Ask, sagaVars, rpcVars,
     clusterVars, RPC!Call, RPC!Send, RPC!Execute, RPC!Answer, RPC!Abort
<1>8. ASSUME NEW s \in Sagas, CleanupEnds(s)
      PROVE  RequestInv'
  BY <1>8 DEF CleanupEnds, Failed, Answered, Return, sagaVars, rpcVars,
     clusterVars, RPC!Call, RPC!Send, RPC!Execute, RPC!Answer, RPC!Abort
<1>9. ASSUME NEW s \in Sagas, Die(s)
      PROVE  RequestInv'
  BY <1>9 DEF Die, sagaVars, rpcVars, clusterVars, RPC!Call, RPC!Send,
     RPC!Execute, RPC!Answer, RPC!Abort
<1>10. ASSUME NEW s \in Sagas, ExecuteFirst(s)
      PROVE  RequestInv'
  BY <1>10 DEF ExecuteFirst, Grant, Free, sagaVars, rpcVars, clusterVars,
     RPC!Call, RPC!Send, RPC!Execute, RPC!Answer, RPC!Abort
<1>11. ASSUME NEW s \in Sagas, ExecuteSecond(s)
      PROVE  RequestInv'
  BY <1>11 DEF ExecuteSecond, Grant, Free, sagaVars, rpcVars, clusterVars,
     RPC!Call, RPC!Send, RPC!Execute, RPC!Answer, RPC!Abort
<1>12. ASSUME NEW s \in Sagas, ExecuteCleanup(s)
      PROVE  RequestInv'
  BY <1>12 DEF ExecuteCleanup, Grant, Remove, Free, sagaVars, rpcVars,
     clusterVars, RPC!Call, RPC!Send, RPC!Execute, RPC!Answer, RPC!Abort
<1>13. ASSUME NEW q \in Requests, Tunnels(q)
      PROVE  RequestInv'
  BY <1>13 DEF Tunnels, Fails, sagaVars, rpcVars, clusterVars, RPC!Call,
     RPC!Send, RPC!Execute, RPC!Answer, RPC!Abort
<1>14. ASSUME NEW q \in Requests, Reject(q)
      PROVE  RequestInv'
  BY <1>14 DEF Reject, sagaVars, rpcVars, clusterVars, RPC!Call, RPC!Send,
     RPC!Execute, RPC!Answer, RPC!Abort
<1>15. ASSUME NEW x \in Things, UserRemoves(x)
      PROVE  RequestInv'
  BY <1>15 DEF UserRemoves, Remove, Free, sagaVars, rpcVars, clusterVars,
     RPC!Call, RPC!Send, RPC!Execute, RPC!Answer, RPC!Abort
<1>16. CASE UNCHANGED vars
  BY <1>16 DEF vars, sagaVars, rpcVars, clusterVars, RPC!Call, RPC!Send,
     RPC!Execute, RPC!Answer, RPC!Abort
<1> QED
  BY <1>1, <1>2, <1>3, <1>4, <1>5, <1>6, <1>7, <1>8, <1>9, <1>10, <1>11,
     <1>12, <1>13, <1>14, <1>15, <1>16 DEF Next, HandlerProceeds

\* The handler goes on from success to success.
LEMMA PhaseStep ==
  ASSUME TypeOK, RequestInv, PhaseInv, [Next]_vars
  PROVE  PhaseInv'
<1> USE RequestType DEF TypeOK, Ends, RequestInv, PhaseInv, New, Unsuccessful
<1>1. ASSUME NEW s \in Sagas, NEW l \in Links, Begin(s, l)
      PROVE  PhaseInv'
  BY <1>1 DEF Begin, Ask, sagaVars, rpcVars, clusterVars, RPC!Call, RPC!Send,
     RPC!Execute, RPC!Answer, RPC!Abort
<1>2. ASSUME NEW s \in Sagas, Refuse(s)
      PROVE  PhaseInv'
  BY <1>2 DEF Refuse, Return, sagaVars, rpcVars, clusterVars, RPC!Call,
     RPC!Send, RPC!Execute, RPC!Answer, RPC!Abort
<1>3. ASSUME NEW s \in Sagas, FirstGranted(s)
      PROVE  PhaseInv'
  BY <1>3 DEF FirstGranted, Granted, Answered, Ask, sagaVars, rpcVars,
     clusterVars, RPC!Call, RPC!Send, RPC!Execute, RPC!Answer, RPC!Abort
<1>4. ASSUME NEW s \in Sagas, FirstUnusable(s)
      PROVE  PhaseInv'
  BY <1>4 DEF FirstUnusable, Granted, Answered, Ask, sagaVars, rpcVars,
     clusterVars, RPC!Call, RPC!Send, RPC!Execute, RPC!Answer, RPC!Abort
<1>5. ASSUME NEW s \in Sagas, FirstFails(s)
      PROVE  PhaseInv'
  BY <1>5 DEF FirstFails, Failed, Answered, Return, sagaVars, rpcVars,
     clusterVars, RPC!Call, RPC!Send, RPC!Execute, RPC!Answer, RPC!Abort
<1>6. ASSUME NEW s \in Sagas, SecondGranted(s)
      PROVE  PhaseInv'
  BY <1>6 DEF SecondGranted, Granted, Answered, Return, sagaVars, rpcVars,
     clusterVars, RPC!Call, RPC!Send, RPC!Execute, RPC!Answer, RPC!Abort
<1>7. ASSUME NEW s \in Sagas, SecondFails(s)
      PROVE  PhaseInv'
  BY <1>7 DEF SecondFails, Failed, Answered, Ask, sagaVars, rpcVars,
     clusterVars, RPC!Call, RPC!Send, RPC!Execute, RPC!Answer, RPC!Abort
<1>8. ASSUME NEW s \in Sagas, CleanupEnds(s)
      PROVE  PhaseInv'
  BY <1>8 DEF CleanupEnds, Failed, Answered, Return, sagaVars, rpcVars,
     clusterVars, RPC!Call, RPC!Send, RPC!Execute, RPC!Answer, RPC!Abort
<1>9. ASSUME NEW s \in Sagas, Die(s)
      PROVE  PhaseInv'
  BY <1>9 DEF Die, sagaVars, rpcVars, clusterVars, RPC!Call, RPC!Send,
     RPC!Execute, RPC!Answer, RPC!Abort
<1>10. ASSUME NEW s \in Sagas, ExecuteFirst(s)
      PROVE  PhaseInv'
  BY <1>10 DEF ExecuteFirst, Grant, Free, sagaVars, rpcVars, clusterVars,
     RPC!Call, RPC!Send, RPC!Execute, RPC!Answer, RPC!Abort
<1>11. ASSUME NEW s \in Sagas, ExecuteSecond(s)
      PROVE  PhaseInv'
  BY <1>11 DEF ExecuteSecond, Grant, Free, sagaVars, rpcVars, clusterVars,
     RPC!Call, RPC!Send, RPC!Execute, RPC!Answer, RPC!Abort
<1>12. ASSUME NEW s \in Sagas, ExecuteCleanup(s)
      PROVE  PhaseInv'
  BY <1>12 DEF ExecuteCleanup, Grant, Remove, Free, sagaVars, rpcVars,
     clusterVars, RPC!Call, RPC!Send, RPC!Execute, RPC!Answer, RPC!Abort
<1>13. ASSUME NEW q \in Requests, Tunnels(q)
      PROVE  PhaseInv'
  <2>1. at' = at /\ granted' = granted
    BY <1>13 DEF Tunnels, Fails, sagaVars, rpcVars, clusterVars, RPC!Call,
       RPC!Send, RPC!Execute, RPC!Answer, RPC!Abort
  <2>2. \A r \in Requests :
          /\ (status'[r] = "new") = (status[r] = "new")
          /\ status[r] = "answered" => status'[r] = "answered"
          /\ status[r] \in {"refused", "failed"} => status'[r] = status[r]
    BY <1>13 DEF Tunnels, Fails, sagaVars, rpcVars, clusterVars, RPC!Call,
       RPC!Send, RPC!Execute, RPC!Answer, RPC!Abort, TypeOK
  <2>3. \A u \in Sagas, step \in Steps :
          /\ New(u, step)' = New(u, step)
          /\ status[<<u, step>>] = "answered" => status'[<<u, step>>] = "answered"
    BY <2>2, RequestType DEF New
  <2>4. \A u \in Sagas, step \in Steps :
          Unsuccessful(u, step) => Unsuccessful(u, step)'
    BY <2>1, <2>2, RequestType DEF Unsuccessful
  <2>5. ASSUME NEW u \in Sagas
        PROVE  /\ at'[u] = "idle" => New(u, "first")'
               /\ at'[u] = "first" => New(u, "second")' /\ New(u, "cleanup")'
               /\ at'[u] = "second" => New(u, "cleanup")'
               /\ at'[u] = "linked" => New(u, "cleanup")' /\ <<u, "second">> \in granted'
    BY <2>1, <2>3, RequestType DEF PhaseInv
  <2>6. ASSUME NEW u \in Sagas, at'[u] = "failed", New(u, "cleanup")'
        PROVE  New(u, "second")' /\ Unsuccessful(u, "first")'
    BY <2>1, <2>3, <2>4, <2>6, RequestType DEF PhaseInv
  <2>7. ASSUME NEW u \in Sagas, ~New(u, "second")' \/ ~New(u, "cleanup")'
        PROVE  <<u, "first">> \in granted' /\ status'[<<u, "first">>] = "answered"
    BY <2>1, <2>3, <2>7, RequestType DEF PhaseInv
  <2>8. ASSUME NEW u \in Sagas, ~New(u, "cleanup")'
        PROVE  Unsuccessful(u, "second")'
    BY <2>3, <2>4, <2>8, RequestType DEF PhaseInv
  <2> QED
    BY <2>5, <2>6, <2>7, <2>8 DEF PhaseInv
<1>14. ASSUME NEW q \in Requests, Reject(q)
      PROVE  PhaseInv'
  BY <1>14 DEF Reject, sagaVars, rpcVars, clusterVars, RPC!Call, RPC!Send,
     RPC!Execute, RPC!Answer, RPC!Abort
<1>15. ASSUME NEW x \in Things, UserRemoves(x)
      PROVE  PhaseInv'
  BY <1>15 DEF UserRemoves, Remove, Free, sagaVars, rpcVars, clusterVars,
     RPC!Call, RPC!Send, RPC!Execute, RPC!Answer, RPC!Abort
<1>16. CASE UNCHANGED vars
  BY <1>16 DEF vars, sagaVars, rpcVars, clusterVars, RPC!Call, RPC!Send,
     RPC!Execute, RPC!Answer, RPC!Abort
<1> QED
  BY <1>1, <1>2, <1>3, <1>4, <1>5, <1>6, <1>7, <1>8, <1>9, <1>10, <1>11,
     <1>12, <1>13, <1>14, <1>15, <1>16 DEF Next, HandlerProceeds

-------------------------------------------------------------------------------
(***************************************************************************)
(* What the remote clusters keep.                                          *)
(***************************************************************************)

\* Steps that leave the remote clusters alone.
LEMMA ClusterFrame ==
  ASSUME OwnerInv, CleanedInv, PendingInv, ActiveInv,
         UNCHANGED <<granted, owner, active, removed>>,
         \A s \in Sagas : link'[s] = link[s] \/ \A step \in Steps : <<s, step>> \notin granted,
         \A q \in Requests : status'[q] = "new" => status[q] = "new"
  PROVE  OwnerInv' /\ CleanedInv' /\ PendingInv' /\ ActiveInv'
<1> USE RequestType, SameLink
<1>1. OwnerInv'
  BY DEF OwnerInv
<1>2. CleanedInv'
  BY DEF CleanedInv
<1>3. PendingInv'
  BY DEF PendingInv
<1>4. ActiveInv'
  <2>1. SUFFICES ASSUME removed = {}, NEW s \in Sagas, <<s, "second">> \in granted, New(s, "cleanup")'
                 PROVE  \A x \in {Pending(s)', Activated(s)'} : owner[x] = s /\ x \in active
    BY DEF ActiveInv
  <2>2. New(s, "cleanup")
    BY <2>1 DEF New
  <2>3. Pending(s)' = Pending(s) /\ Activated(s)' = Activated(s)
    BY <2>1
  <2> QED
    BY <2>1, <2>2, <2>3 DEF ActiveInv
<1> QED
  BY <1>1, <1>2, <1>3, <1>4

\* A saga that has not begun has nothing.
LEMMA NothingGranted ==
  ASSUME TypeOK, RequestInv, PhaseInv, NEW s \in Sagas, at[s] = "idle"
  PROVE  \A step \in Steps : status[<<s, step>>] = "new" /\ <<s, step>> \notin granted
BY RequestType DEF TypeOK, RequestInv, PhaseInv, New

\* What is made is its saga's, until the cleanup of that saga or a user takes it
\* away.
LEMMA ClusterStep ==
  ASSUME TypeOK, RequestInv, PhaseInv, OwnerInv, CleanedInv, PendingInv, ActiveInv, [Next]_vars
  PROVE  OwnerInv' /\ CleanedInv' /\ PendingInv' /\ ActiveInv'
<1>1. ASSUME NEW s \in Sagas, NEW l \in Links, Begin(s, l)
      PROVE  OwnerInv' /\ CleanedInv' /\ PendingInv' /\ ActiveInv'
  <2>1. UNCHANGED <<granted, owner, active, removed>> /\ at[s] = "idle"
    BY <1>1 DEF Begin, Ask, sagaVars, rpcVars, clusterVars, RPC!Call, RPC!Send,
       RPC!Execute, RPC!Answer, RPC!Abort
  <2>2. \A u \in Sagas : link'[u] = link[u] \/ \A step \in Steps : <<u, step>> \notin granted
    BY <1>1, <2>1, NothingGranted DEF Begin, TypeOK
  <2>3. \A r \in Requests : status'[r] = "new" => status[r] = "new"
    BY <1>1, RequestType DEF Begin, Ask, sagaVars, rpcVars, clusterVars,
       RPC!Call, RPC!Send, RPC!Execute, RPC!Answer, RPC!Abort, TypeOK
  <2> QED
    BY <2>1, <2>2, <2>3, ClusterFrame
<1>2. ASSUME NEW s \in Sagas, Refuse(s)
      PROVE  OwnerInv' /\ CleanedInv' /\ PendingInv' /\ ActiveInv'
  <2>1. UNCHANGED <<granted, owner, active, removed, link>>
    BY <1>2 DEF Refuse, Return, sagaVars, rpcVars, clusterVars, RPC!Call,
       RPC!Send, RPC!Execute, RPC!Answer, RPC!Abort
  <2>2. \A r \in Requests : status'[r] = "new" => status[r] = "new"
    BY <1>2, RequestType DEF Refuse, Return, sagaVars, rpcVars, clusterVars,
       RPC!Call, RPC!Send, RPC!Execute, RPC!Answer, RPC!Abort, TypeOK
  <2> QED
    BY <2>1, <2>2, ClusterFrame
<1>3. ASSUME NEW s \in Sagas, FirstGranted(s)
      PROVE  OwnerInv' /\ CleanedInv' /\ PendingInv' /\ ActiveInv'
  <2>1. UNCHANGED <<granted, owner, active, removed, link>>
    BY <1>3 DEF FirstGranted, Granted, Answered, Ask, sagaVars, rpcVars,
       clusterVars, RPC!Call, RPC!Send, RPC!Execute, RPC!Answer, RPC!Abort
  <2>2. \A r \in Requests : status'[r] = "new" => status[r] = "new"
    BY <1>3, RequestType DEF FirstGranted, Granted, Answered, Ask, sagaVars,
       rpcVars, clusterVars, RPC!Call, RPC!Send, RPC!Execute, RPC!Answer,
       RPC!Abort, TypeOK
  <2> QED
    BY <2>1, <2>2, ClusterFrame
<1>4. ASSUME NEW s \in Sagas, FirstUnusable(s)
      PROVE  OwnerInv' /\ CleanedInv' /\ PendingInv' /\ ActiveInv'
  <2>1. UNCHANGED <<granted, owner, active, removed, link>>
    BY <1>4 DEF FirstUnusable, Granted, Answered, Ask, sagaVars, rpcVars,
       clusterVars, RPC!Call, RPC!Send, RPC!Execute, RPC!Answer, RPC!Abort
  <2>2. \A r \in Requests : status'[r] = "new" => status[r] = "new"
    BY <1>4, RequestType DEF FirstUnusable, Granted, Answered, Ask, sagaVars,
       rpcVars, clusterVars, RPC!Call, RPC!Send, RPC!Execute, RPC!Answer,
       RPC!Abort, TypeOK
  <2> QED
    BY <2>1, <2>2, ClusterFrame
<1>5. ASSUME NEW s \in Sagas, FirstFails(s)
      PROVE  OwnerInv' /\ CleanedInv' /\ PendingInv' /\ ActiveInv'
  <2>1. UNCHANGED <<granted, owner, active, removed, link>>
    BY <1>5 DEF FirstFails, Failed, Answered, Return, sagaVars, rpcVars,
       clusterVars, RPC!Call, RPC!Send, RPC!Execute, RPC!Answer, RPC!Abort
  <2>2. \A r \in Requests : status'[r] = "new" => status[r] = "new"
    BY <1>5, RequestType DEF FirstFails, Failed, Answered, Return, sagaVars,
       rpcVars, clusterVars, RPC!Call, RPC!Send, RPC!Execute, RPC!Answer,
       RPC!Abort, TypeOK
  <2> QED
    BY <2>1, <2>2, ClusterFrame
<1>6. ASSUME NEW s \in Sagas, SecondGranted(s)
      PROVE  OwnerInv' /\ CleanedInv' /\ PendingInv' /\ ActiveInv'
  <2>1. UNCHANGED <<granted, owner, active, removed, link>>
    BY <1>6 DEF SecondGranted, Granted, Answered, Return, sagaVars, rpcVars,
       clusterVars, RPC!Call, RPC!Send, RPC!Execute, RPC!Answer, RPC!Abort
  <2>2. \A r \in Requests : status'[r] = "new" => status[r] = "new"
    BY <1>6, RequestType DEF SecondGranted, Granted, Answered, Return, sagaVars,
       rpcVars, clusterVars, RPC!Call, RPC!Send, RPC!Execute, RPC!Answer,
       RPC!Abort, TypeOK
  <2> QED
    BY <2>1, <2>2, ClusterFrame
<1>7. ASSUME NEW s \in Sagas, SecondFails(s)
      PROVE  OwnerInv' /\ CleanedInv' /\ PendingInv' /\ ActiveInv'
  <2>1. UNCHANGED <<granted, owner, active, removed, link>>
    BY <1>7 DEF SecondFails, Failed, Answered, Ask, sagaVars, rpcVars,
       clusterVars, RPC!Call, RPC!Send, RPC!Execute, RPC!Answer, RPC!Abort
  <2>2. \A r \in Requests : status'[r] = "new" => status[r] = "new"
    BY <1>7, RequestType DEF SecondFails, Failed, Answered, Ask, sagaVars,
       rpcVars, clusterVars, RPC!Call, RPC!Send, RPC!Execute, RPC!Answer,
       RPC!Abort, TypeOK
  <2> QED
    BY <2>1, <2>2, ClusterFrame
<1>8. ASSUME NEW s \in Sagas, CleanupEnds(s)
      PROVE  OwnerInv' /\ CleanedInv' /\ PendingInv' /\ ActiveInv'
  <2>1. UNCHANGED <<granted, owner, active, removed, link>>
    BY <1>8 DEF CleanupEnds, Failed, Answered, Return, sagaVars, rpcVars,
       clusterVars, RPC!Call, RPC!Send, RPC!Execute, RPC!Answer, RPC!Abort
  <2>2. \A r \in Requests : status'[r] = "new" => status[r] = "new"
    BY <1>8, RequestType DEF CleanupEnds, Failed, Answered, Return, sagaVars,
       rpcVars, clusterVars, RPC!Call, RPC!Send, RPC!Execute, RPC!Answer,
       RPC!Abort, TypeOK
  <2> QED
    BY <2>1, <2>2, ClusterFrame
<1>9. ASSUME NEW s \in Sagas, Die(s)
      PROVE  OwnerInv' /\ CleanedInv' /\ PendingInv' /\ ActiveInv'
  <2>1. UNCHANGED <<granted, owner, active, removed, link>>
    BY <1>9 DEF Die, sagaVars, rpcVars, clusterVars, RPC!Call, RPC!Send,
       RPC!Execute, RPC!Answer, RPC!Abort
  <2>2. \A r \in Requests : status'[r] = "new" => status[r] = "new"
    BY <1>9, RequestType DEF Die, sagaVars, rpcVars, clusterVars, RPC!Call,
       RPC!Send, RPC!Execute, RPC!Answer, RPC!Abort, TypeOK
  <2> QED
    BY <2>1, <2>2, ClusterFrame
<1>10. ASSUME NEW s \in Sagas, ExecuteFirst(s)
      PROVE  OwnerInv' /\ CleanedInv' /\ PendingInv' /\ ActiveInv'
  <2>1. /\ UNCHANGED <<link, removed, status, active>>
        /\ granted' = granted \union {<<s, "first">>} /\ <<s, "first">> \notin granted
        /\ owner[Pending(s)] = NoSaga /\ owner' = [owner EXCEPT ![Pending(s)] = s]
    BY <1>10 DEF ExecuteFirst, Grant, Free, sagaVars, rpcVars, clusterVars,
       RPC!Call, RPC!Send, RPC!Execute, RPC!Answer, RPC!Abort, TypeOK
  <2>2. link[s] \in Links
    <3>1. status[<<s, "first">>] # "new"
      BY <1>10 DEF ExecuteFirst, Grant, Free, sagaVars, rpcVars, clusterVars,
         RPC!Call, RPC!Send, RPC!Execute, RPC!Answer, RPC!Abort
    <3> QED
      BY <3>1, RequestType, LinkType
  <2>3. Pending(s) \in Things /\ Activated(s) \in Things
    BY <2>2, ThingType
  <2>4. <<s, "second">> \notin granted /\ <<s, "cleanup">> \notin granted
    BY <2>1, RequestType DEF TypeOK, PhaseInv, RequestInv, New
  <2>5. \A u \in Sagas : Pending(u)' = Pending(u) /\ Activated(u)' = Activated(u)
    BY <2>1, SameLink
  <2>6. OwnerInv'
    BY <2>1, <2>3, <2>5 DEF OwnerInv, TypeOK
  <2>7. CleanedInv'
    BY <2>1, <2>3, <2>4, <2>5 DEF CleanedInv, TypeOK
  <2>8. PendingInv'
    BY <2>1, <2>3, <2>5, NoSagaAssumption DEF PendingInv, TypeOK
  <2>9. ActiveInv'
    BY <2>1, <2>3, <2>4, <2>5, NoSagaAssumption DEF ActiveInv, New, TypeOK
  <2> QED
    BY <2>6, <2>7, <2>8, <2>9
<1>11. ASSUME NEW s \in Sagas, ExecuteSecond(s)
      PROVE  OwnerInv' /\ CleanedInv' /\ PendingInv' /\ ActiveInv'
  <2>1. /\ UNCHANGED <<link, removed, status>>
        /\ granted' = granted \union {<<s, "second">>}
        /\ active' = active \union {Pending(s), Activated(s)}
        /\ status[<<s, "second">>] # "new"
    BY <1>11 DEF ExecuteSecond, Grant, Free, sagaVars, rpcVars, clusterVars,
       RPC!Call, RPC!Send, RPC!Execute, RPC!Answer, RPC!Abort
  <2>2. \/ Activated(s) = Pending(s) /\ owner' = owner
        \/ /\ owner[Pending(s)] = s /\ owner[Activated(s)] = NoSaga
           /\ owner' = [owner EXCEPT ![Activated(s)] = s]
    BY <1>11 DEF ExecuteSecond, Grant, Free, sagaVars, rpcVars, clusterVars,
       RPC!Call, RPC!Send, RPC!Execute, RPC!Answer, RPC!Abort, Activated
  <2>3. <<s, "first">> \in granted /\ link[s] \in Links
    BY <2>1, RequestType, LinkType DEF PhaseInv, New
  <2>4. Pending(s) \in Things /\ Activated(s) \in Things
    BY <2>3, ThingType
  <2>5. \A u \in Sagas : Pending(u)' = Pending(u) /\ Activated(u)' = Activated(u)
    BY <2>1, SameLink
  <2>6. OwnerInv'
    BY <2>1, <2>2, <2>4, <2>5 DEF OwnerInv, TypeOK
  <2>10. \A x \in Things : owner'[x] = owner[x] \/ (owner[x] = NoSaga /\ owner'[x] = s)
    <3>1. ASSUME owner[Activated(s)] = NoSaga, owner' = [owner EXCEPT ![Activated(s)] = s], NEW x \in Things
          PROVE  owner'[x] = owner[x] \/ (owner[x] = NoSaga /\ owner'[x] = s)
      <4>1. owner \in [Things -> Sagas \union {NoSaga}]
        BY DEF TypeOK
      <4>2. PICK y \in Things : y = Activated(s)
        BY <2>4
      <4>3. owner' = [owner EXCEPT ![y] = s] /\ owner[y] = NoSaga
        BY <3>1, <4>2
      <4> QED
        BY <4>1, <4>3
    <3>2. CASE owner' = owner
      BY <3>2
    <3> QED
      BY <2>2, <3>1, <3>2
  <2>11. \A u \in Sagas, step \in Steps : <<u, step>> \in granted => Pending(u) \in Things
    BY GrantedType
  <2>7. CleanedInv'
    <3>1. ASSUME NEW u \in Sagas, <<u, "cleanup">> \in granted'
          PROVE  owner'[Pending(u)] # u
      <4>1. <<u, "cleanup">> \in granted
        BY <2>1, <3>1
      <4>2. owner[Pending(u)] # u /\ Pending(u) \in Things
        BY <4>1, <2>11, RequestType DEF CleanedInv
      <4>3. CASE u = s
        BY <2>2, <2>4, <4>2, <4>3 DEF TypeOK
      <4>4. CASE u # s
        BY <2>10, <4>2, <4>4
      <4> QED
        BY <4>3, <4>4
    <3> QED
      BY <2>5, <3>1 DEF CleanedInv
  <2>8. PendingInv'
    <3>1. ASSUME removed = {}, NEW u \in Sagas, <<u, "first">> \in granted', <<u, "cleanup">> \notin granted'
          PROVE  owner'[Pending(u)] = u
      <4>1. <<u, "first">> \in granted /\ <<u, "cleanup">> \notin granted
        BY <2>1, <3>1
      <4>2. owner[Pending(u)] = u /\ Pending(u) \in Things
        BY <3>1, <4>1, <2>11, RequestType DEF PendingInv
      <4> QED
        BY <2>10, <4>2, NoSagaAssumption
    <3> QED
      BY <2>1, <2>5, <3>1 DEF PendingInv
  <2>9. ActiveInv'
    <3>1. ASSUME removed = {}, New(s, "cleanup")
          PROVE  \A x \in {Pending(s), Activated(s)} : owner'[x] = s /\ x \in active'
      <4>1. <<s, "cleanup">> \notin granted
        BY <3>1, RequestType DEF TypeOK, RequestInv, New
      <4>2. owner[Pending(s)] = s
        BY <2>3, <3>1, <4>1 DEF PendingInv
      <4> QED
        BY <2>1, <2>2, <2>4, <4>2 DEF TypeOK
    <3>2. ASSUME removed = {}, NEW u \in Sagas \ {s}, New(u, "cleanup"), <<u, "second">> \in granted
          PROVE  \A x \in {Pending(u), Activated(u)} : owner'[x] = u /\ x \in active'
      BY <2>1, <2>2, <2>4, <3>2, NoSagaAssumption DEF ActiveInv, TypeOK
    <3> QED
      BY <2>1, <2>5, <3>1, <3>2 DEF ActiveInv, New
  <2> QED
    BY <2>6, <2>7, <2>8, <2>9
<1>12. ASSUME NEW s \in Sagas, ExecuteCleanup(s)
      PROVE  OwnerInv' /\ CleanedInv' /\ PendingInv' /\ ActiveInv'
  <2>1. /\ UNCHANGED <<link, removed, status>>
        /\ granted' = granted \union {<<s, "cleanup">>} /\ <<s, "cleanup">> \notin granted
        /\ owner' = [owner EXCEPT ![Pending(s)] = NoSaga]
        /\ active' = active \ {Pending(s)}
        /\ status[<<s, "cleanup">>] # "new"
    BY <1>12 DEF ExecuteCleanup, Grant, Remove, Free, sagaVars, rpcVars,
       clusterVars, RPC!Call, RPC!Send, RPC!Execute, RPC!Answer, RPC!Abort,
       TypeOK
  <2>2. <<s, "first">> \in granted
    BY <2>1, RequestType DEF PhaseInv, New
  <2>3. removed = {} => owner[Pending(s)] = s
    BY <2>1, <2>2 DEF PendingInv
  <2>4. \A u \in Sagas : Pending(u)' = Pending(u) /\ Activated(u)' = Activated(u)
    BY <2>1, SameLink
  <2>5. OwnerInv'
    BY <2>1, <2>4, NoSagaAssumption DEF OwnerInv, TypeOK
  <2>6. CleanedInv'
    <3>1. ASSUME NEW u \in Sagas, <<u, "cleanup">> \in granted'
          PROVE  owner'[Pending(u)] # u
      <4>1. Pending(s) \in Things
        BY <2>2, RequestType, GrantedType
      <4>2. CASE u = s
        BY <2>1, <4>1, <4>2, NoSagaAssumption DEF TypeOK
      <4>3. CASE u # s
        <5>1. <<u, "cleanup">> \in granted
          BY <2>1, <3>1, <4>3
        <5>2. owner[Pending(u)] # u /\ Pending(u) \in Things
          BY <5>1, RequestType, GrantedType DEF CleanedInv
        <5> QED
          BY <2>1, <5>2, NoSagaAssumption DEF TypeOK
      <4> QED
        BY <4>2, <4>3
    <3> QED
      BY <2>4, <3>1 DEF CleanedInv
  <2>7. PendingInv'
    BY <2>1, <2>3, <2>4 DEF PendingInv, TypeOK
  <2>8. ActiveInv'
    BY <2>1, <2>3, <2>4 DEF ActiveInv, New, TypeOK
  <2> QED
    BY <2>5, <2>6, <2>7, <2>8
<1>13. ASSUME NEW q \in Requests, Tunnels(q)
      PROVE  OwnerInv' /\ CleanedInv' /\ PendingInv' /\ ActiveInv'
  <2>1. UNCHANGED <<granted, owner, active, removed, link>>
    BY <1>13 DEF Tunnels, Fails, sagaVars, rpcVars, clusterVars, RPC!Call,
       RPC!Send, RPC!Execute, RPC!Answer, RPC!Abort
  <2>2. \A r \in Requests : status'[r] = "new" => status[r] = "new"
    BY <1>13, RequestType DEF Tunnels, Fails, sagaVars, rpcVars, clusterVars,
       RPC!Call, RPC!Send, RPC!Execute, RPC!Answer, RPC!Abort, TypeOK
  <2> QED
    BY <2>1, <2>2, ClusterFrame
<1>14. ASSUME NEW q \in Requests, Reject(q)
      PROVE  OwnerInv' /\ CleanedInv' /\ PendingInv' /\ ActiveInv'
  <2>1. UNCHANGED <<granted, owner, active, removed, link>>
    BY <1>14 DEF Reject, sagaVars, rpcVars, clusterVars, RPC!Call, RPC!Send,
       RPC!Execute, RPC!Answer, RPC!Abort
  <2>2. \A r \in Requests : status'[r] = "new" => status[r] = "new"
    BY <1>14, RequestType DEF Reject, sagaVars, rpcVars, clusterVars, RPC!Call,
       RPC!Send, RPC!Execute, RPC!Answer, RPC!Abort, TypeOK
  <2> QED
    BY <2>1, <2>2, ClusterFrame
<1>15. ASSUME NEW x \in Things, UserRemoves(x)
      PROVE  OwnerInv' /\ CleanedInv' /\ PendingInv' /\ ActiveInv'
  <2>1. /\ UNCHANGED <<link, status, granted>>
        /\ owner' = [owner EXCEPT ![x] = NoSaga]
        /\ removed' = removed \union {owner[x]}
    BY <1>15 DEF UserRemoves, Remove, Free, sagaVars, rpcVars, clusterVars,
       RPC!Call, RPC!Send, RPC!Execute, RPC!Answer, RPC!Abort
  <2>2. \A u \in Sagas : Pending(u)' = Pending(u) /\ Activated(u)' = Activated(u)
    BY <2>1, SameLink
  <2>3. OwnerInv'
    BY <2>1, <2>2, NoSagaAssumption DEF OwnerInv, TypeOK
  <2>4. CleanedInv'
    BY <2>1, <2>2, NoSagaAssumption DEF CleanedInv, TypeOK
  <2>5. removed' # {}
    BY <2>1
  <2> QED
    BY <2>3, <2>4, <2>5 DEF PendingInv, ActiveInv
<1>16. CASE UNCHANGED vars
  <2>1. UNCHANGED <<granted, owner, active, removed, link>>
    BY <1>16 DEF vars, sagaVars, rpcVars, clusterVars, RPC!Call, RPC!Send,
       RPC!Execute, RPC!Answer, RPC!Abort
  <2>2. \A r \in Requests : status'[r] = "new" => status[r] = "new"
    BY <1>16, RequestType DEF vars, sagaVars, rpcVars, clusterVars, RPC!Call,
       RPC!Send, RPC!Execute, RPC!Answer, RPC!Abort, TypeOK
  <2> QED
    BY <2>1, <2>2, ClusterFrame
<1> QED
  BY <1>1, <1>2, <1>3, <1>4, <1>5, <1>6, <1>7, <1>8, <1>9, <1>10, <1>11,
     <1>12, <1>13, <1>14, <1>15, <1>16 DEF Next, HandlerProceeds

LEMMA Induction == IInv /\ [Next]_vars => IInv'
BY TypeStep, RequestStep, PhaseStep, ClusterStep DEF IInv

THEOREM Invariance == Spec => []IInv
BY InitIInv, Induction, PTL DEF Spec

\* The state keeps its type: links have the names they were given.
THEOREM Typing == Spec => []TypeOK
<1>1. IInv => TypeOK
  BY DEF IInv
<1> QED
  BY <1>1, Invariance, PTL

-------------------------------------------------------------------------------
\* Who was told that it failed, undisturbed, has left nothing.
LEMMA NothingLeft ==
  ASSUME IInv, NEW s \in Sagas, at[s] = "failed", Undisturbed(s), NEW x \in Things
  PROVE  owner[x] # s
<1> USE RequestType DEF IInv, TypeOK
<1>1. CASE New(s, "cleanup")
  <2>1. <<s, "first">> \notin granted /\ <<s, "second">> \notin granted
    BY <1>1 DEF PhaseInv, RequestInv, Undisturbed, Unsuccessful, New
  <2> QED
    BY <2>1 DEF OwnerInv
<1>2. CASE ~New(s, "cleanup")
  <2>1. <<s, "cleanup">> \in granted
    BY <1>2 DEF Undisturbed, New
  <2>2. <<s, "second">> \notin granted
    BY <1>2 DEF PhaseInv, RequestInv, Undisturbed, Unsuccessful
  <2> QED
    BY <2>1, <2>2 DEF OwnerInv, CleanedInv
<1> QED
  BY <1>1, <1>2

\* Both ends of a link or neither, as the caller was told, whatever becomes of
\* other sagas.
THEOREM Agreement == Spec => []EndsAgree
<1>1. IInv => EndsAgree
  <2> SUFFICES ASSUME IInv, removed = {}, NEW s \in Sagas
               PROVE  /\ at[s] = "linked" =>
                          \A x \in {Pending(s), Activated(s)} : owner[x] = s /\ x \in active
                      /\ (at[s] = "failed" /\ Undisturbed(s)) => \A x \in Things : owner[x] # s
    BY DEF EndsAgree
  <2>1. ASSUME at[s] = "linked"
        PROVE  \A x \in {Pending(s), Activated(s)} : owner[x] = s /\ x \in active
    BY <2>1 DEF IInv, PhaseInv, ActiveInv
  <2> QED
    BY <2>1, NothingLeft
<1> QED
  BY <1>1, Invariance, PTL

\* What is granted has been called.
LEMMA GrantedWasCalled ==
  ASSUME TypeOK, [Next]_vars
  PROVE  \A r \in granted' \ granted : status[r] # "new"
<1> USE RequestType DEF TypeOK
<1>1. ASSUME NEW s \in Sagas, NEW l \in Links, Begin(s, l)
      PROVE  \A r \in granted' \ granted : status[r] # "new"
  BY <1>1 DEF Begin, Ask, sagaVars, rpcVars, clusterVars, RPC!Call, RPC!Send,
     RPC!Execute, RPC!Answer, RPC!Abort
<1>2. ASSUME NEW s \in Sagas, Refuse(s)
      PROVE  \A r \in granted' \ granted : status[r] # "new"
  BY <1>2 DEF Refuse, Return, sagaVars, rpcVars, clusterVars, RPC!Call,
     RPC!Send, RPC!Execute, RPC!Answer, RPC!Abort
<1>3. ASSUME NEW s \in Sagas, FirstGranted(s)
      PROVE  \A r \in granted' \ granted : status[r] # "new"
  BY <1>3 DEF FirstGranted, Granted, Answered, Ask, sagaVars, rpcVars,
     clusterVars, RPC!Call, RPC!Send, RPC!Execute, RPC!Answer, RPC!Abort
<1>4. ASSUME NEW s \in Sagas, FirstUnusable(s)
      PROVE  \A r \in granted' \ granted : status[r] # "new"
  BY <1>4 DEF FirstUnusable, Granted, Answered, Ask, sagaVars, rpcVars,
     clusterVars, RPC!Call, RPC!Send, RPC!Execute, RPC!Answer, RPC!Abort
<1>5. ASSUME NEW s \in Sagas, FirstFails(s)
      PROVE  \A r \in granted' \ granted : status[r] # "new"
  BY <1>5 DEF FirstFails, Failed, Answered, Return, sagaVars, rpcVars,
     clusterVars, RPC!Call, RPC!Send, RPC!Execute, RPC!Answer, RPC!Abort
<1>6. ASSUME NEW s \in Sagas, SecondGranted(s)
      PROVE  \A r \in granted' \ granted : status[r] # "new"
  BY <1>6 DEF SecondGranted, Granted, Answered, Return, sagaVars, rpcVars,
     clusterVars, RPC!Call, RPC!Send, RPC!Execute, RPC!Answer, RPC!Abort
<1>7. ASSUME NEW s \in Sagas, SecondFails(s)
      PROVE  \A r \in granted' \ granted : status[r] # "new"
  BY <1>7 DEF SecondFails, Failed, Answered, Ask, sagaVars, rpcVars,
     clusterVars, RPC!Call, RPC!Send, RPC!Execute, RPC!Answer, RPC!Abort
<1>8. ASSUME NEW s \in Sagas, CleanupEnds(s)
      PROVE  \A r \in granted' \ granted : status[r] # "new"
  BY <1>8 DEF CleanupEnds, Failed, Answered, Return, sagaVars, rpcVars,
     clusterVars, RPC!Call, RPC!Send, RPC!Execute, RPC!Answer, RPC!Abort
<1>9. ASSUME NEW s \in Sagas, Die(s)
      PROVE  \A r \in granted' \ granted : status[r] # "new"
  BY <1>9 DEF Die, sagaVars, rpcVars, clusterVars, RPC!Call, RPC!Send,
     RPC!Execute, RPC!Answer, RPC!Abort
<1>10. ASSUME NEW s \in Sagas, ExecuteFirst(s)
      PROVE  \A r \in granted' \ granted : status[r] # "new"
  BY <1>10 DEF ExecuteFirst, Grant, Free, sagaVars, rpcVars, clusterVars,
     RPC!Call, RPC!Send, RPC!Execute, RPC!Answer, RPC!Abort
<1>11. ASSUME NEW s \in Sagas, ExecuteSecond(s)
      PROVE  \A r \in granted' \ granted : status[r] # "new"
  BY <1>11 DEF ExecuteSecond, Grant, Free, sagaVars, rpcVars, clusterVars,
     RPC!Call, RPC!Send, RPC!Execute, RPC!Answer, RPC!Abort
<1>12. ASSUME NEW s \in Sagas, ExecuteCleanup(s)
      PROVE  \A r \in granted' \ granted : status[r] # "new"
  BY <1>12 DEF ExecuteCleanup, Grant, Remove, Free, sagaVars, rpcVars,
     clusterVars, RPC!Call, RPC!Send, RPC!Execute, RPC!Answer, RPC!Abort
<1>13. ASSUME NEW q \in Requests, Tunnels(q)
      PROVE  \A r \in granted' \ granted : status[r] # "new"
  BY <1>13 DEF Tunnels, Fails, sagaVars, rpcVars, clusterVars, RPC!Call,
     RPC!Send, RPC!Execute, RPC!Answer, RPC!Abort
<1>14. ASSUME NEW q \in Requests, Reject(q)
      PROVE  \A r \in granted' \ granted : status[r] # "new"
  BY <1>14 DEF Reject, sagaVars, rpcVars, clusterVars, RPC!Call, RPC!Send,
     RPC!Execute, RPC!Answer, RPC!Abort
<1>15. ASSUME NEW x \in Things, UserRemoves(x)
      PROVE  \A r \in granted' \ granted : status[r] # "new"
  BY <1>15 DEF UserRemoves, Remove, Free, sagaVars, rpcVars, clusterVars,
     RPC!Call, RPC!Send, RPC!Execute, RPC!Answer, RPC!Abort
<1>16. CASE UNCHANGED vars
  BY <1>16 DEF vars, sagaVars, rpcVars, clusterVars, RPC!Call, RPC!Send,
     RPC!Execute, RPC!Answer, RPC!Abort
<1> QED
  BY <1>1, <1>2, <1>3, <1>4, <1>5, <1>6, <1>7, <1>8, <1>9, <1>10, <1>11,
     <1>12, <1>13, <1>14, <1>15, <1>16 DEF Next, HandlerProceeds

\* A cleanup takes away what its own saga made.
THEOREM OwnCleanup == Spec => CleanupIsOwn
<1>1. ASSUME IInv, [Next]_vars
      PROVE  [\A s \in Sagas : <<s, "cleanup">> \in granted' \ granted =>
                 owner[Pending(s)] = s \/ removed # {}]_vars
  <2>1. ASSUME NEW s \in Sagas, <<s, "cleanup">> \in granted' \ granted, removed = {}
        PROVE  owner[Pending(s)] = s
    <3>1. status[<<s, "cleanup">>] # "new"
      BY <2>1, <1>1, GrantedWasCalled DEF IInv
    <3>2. <<s, "first">> \in granted
      BY <1>1, <3>1 DEF IInv, PhaseInv, New
    <3> QED
      BY <1>1, <2>1, <3>2 DEF IInv, PendingInv
  <2> QED
    BY <2>1
<1> QED
  BY <1>1, Invariance, PTL DEF Spec, CleanupIsOwn

===============================================================================
