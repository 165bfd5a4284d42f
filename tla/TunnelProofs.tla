---------------------------- MODULE TunnelProofs -----------------------------
(***************************************************************************)
(* Proofs about Tunnel, for every set of members, connections and          *)
(* requests.  IInv is inductive; TypeStep, PlacedStep, ServedStep,         *)
(* WaitersStep, WriterStep and WireStep prove one group of its conjuncts   *)
(* each, with one step per action.  RefinementStep maps every step to a    *)
(* step of TunnelRPC or to none.                                           *)
(***************************************************************************)
EXTENDS Tunnel, TLAPS

LEMMA InitIInv == Init => IInv
BY NoMemberAssumption, NoConnAssumption
   DEF Init, IInv, TypeOK, URLs, HandlerStates, CallerStates, PlacedInv, HandlerInv,
       OutcomeInv, TunnelServed, WaitersServed, WriterInv, WireInv

\* Every step keeps the state in its type.
LEMMA TypeStep ==
  TypeOK /\ [Next]_vars => TypeOK'
<1> SUFFICES ASSUME TypeOK, [Next]_vars
             PROVE  TypeOK'
  OBVIOUS
<1> USE NoMemberAssumption, NoConnAssumption
    DEF TypeOK, HandlerStates, CallerStates, URLs
<1>1. ASSUME NEW c \in Conns, NEW m \in Members, Connect(c, m)
      PROVE  TypeOK'
  BY <1>1 DEF Connect, HandlerGoes, dbVars, tunnelVars, connVars, callVars
<1>2. ASSUME NEW c \in Conns, ClosePrevious(c)
      PROVE  TypeOK'
  BY <1>2 DEF ClosePrevious, EnsureClosed, HandlerGoes, dbVars, tunnelVars,
     connVars, callVars
<1>3. ASSUME NEW c \in Conns, Adopt(c)
      PROVE  TypeOK'
  BY <1>3 DEF Adopt, HandlerGoes, dbVars, tunnelVars, connVars, callVars
<1>4. ASSUME NEW c \in Conns, StoreMember(c)
      PROVE  TypeOK'
  BY <1>4 DEF StoreMember, HandlerGoes, dbVars, tunnelVars, connVars, callVars
<1>5. ASSUME NEW c \in Conns, StoreMemberFails(c)
      PROVE  TypeOK'
  BY <1>5 DEF StoreMemberFails, HandlerGoes, dbVars, tunnelVars, connVars,
     callVars
<1>6. ASSUME NEW c \in Conns, NEW q \in Requests, ReadResponse(c, q)
      PROVE  TypeOK'
  BY <1>6 DEF ReadResponse, dbVars, tunnelVars, connVars, callVars
<1>7. ASSUME NEW c \in Conns, ReadFails(c)
      PROVE  TypeOK'
  BY <1>7 DEF ReadFails, HandlerGoes, dbVars, tunnelVars, connVars, callVars
<1>8. ASSUME NEW c \in Conns, LeaveReplaced(c)
      PROVE  TypeOK'
  BY <1>8 DEF LeaveReplaced, HandlerGoes, dbVars, tunnelVars, connVars,
     callVars
<1>9. ASSUME NEW c \in Conns, LeaveCurrent(c)
      PROVE  TypeOK'
  BY <1>9 DEF LeaveCurrent, EnsureClosed, HandlerGoes, dbVars, tunnelVars,
     connVars, callVars
<1>10. ASSUME NEW c \in Conns, ReadRegistration(c)
       PROVE  TypeOK'
  BY <1>10 DEF ReadRegistration, HandlerGoes, dbVars, tunnelVars, connVars,
     callVars
<1>11. ASSUME NEW c \in Conns, ClearRegistration(c)
       PROVE  TypeOK'
  BY <1>11 DEF ClearRegistration, HandlerGoes, dbVars, tunnelVars, connVars,
     callVars
<1>12. ASSUME NEW c \in Conns, ClearFails(c)
       PROVE  TypeOK'
  BY <1>12 DEF ClearFails, HandlerGoes, dbVars, tunnelVars, connVars, callVars
<1>13. ASSUME NEW c \in Conns, Drop(c)
       PROVE  TypeOK'
  BY <1>13 DEF Drop, dbVars, tunnelVars, connVars, callVars
<1>14. ASSUME NEW c \in Conns, NEW q \in Requests, PeerExecutes(c, q)
       PROVE  TypeOK'
  BY <1>14 DEF PeerExecutes, dbVars, tunnelVars, connVars, callVars
<1>15. ASSUME NEW q \in Requests, Forward(q)
       PROVE  TypeOK'
  BY <1>15 DEF Forward, CallerGoes, dbVars, tunnelVars, connVars, callVars
<1>16. ASSUME NEW q \in Requests, ForwardRefused(q)
       PROVE  TypeOK'
  BY <1>16 DEF ForwardRefused, Return, CallerGoes, dbVars, tunnelVars,
     connVars, callVars
<1>17. ASSUME NEW q \in Requests, NEW m \in Members, SendAsLinkTarget(q, m)
       PROVE  TypeOK'
  BY <1>17 DEF SendAsLinkTarget, CallerGoes, dbVars, tunnelVars, connVars,
     callVars
<1>18. ASSUME NEW q \in Requests, FindTunnel(q)
       PROVE  TypeOK'
  BY <1>18 DEF FindTunnel, CallerGoes, dbVars, tunnelVars, connVars, callVars
<1>19. ASSUME NEW q \in Requests, FindTunnelFails(q)
       PROVE  TypeOK'
  BY <1>19 DEF FindTunnelFails, Return, CallerGoes, dbVars, tunnelVars,
     connVars, callVars
<1>20. ASSUME NEW q \in Requests, RegisterPending(q)
       PROVE  TypeOK'
  BY <1>20 DEF RegisterPending, CallerGoes, dbVars, tunnelVars, connVars,
     callVars
<1>21. ASSUME NEW q \in Requests, NotConnected(q)
       PROVE  TypeOK'
  BY <1>21 DEF NotConnected, Return, CallerGoes, dbVars, tunnelVars, connVars,
     callVars
<1>33. ASSUME NEW q \in Requests, BeginWrite(q)
       PROVE  TypeOK'
  BY <1>33 DEF BeginWrite, CallerGoes, dbVars, tunnelVars, connVars, callVars
<1>22. ASSUME NEW q \in Requests, Write(q)
       PROVE  TypeOK'
  BY <1>22 DEF Write, CallerGoes, dbVars, tunnelVars, connVars, callVars
<1>23. ASSUME NEW q \in Requests, WriteFails(q)
       PROVE  TypeOK'
  BY <1>23 DEF WriteFails, CallerGoes, dbVars, tunnelVars, connVars, callVars
<1>24. ASSUME NEW q \in Requests, CloseAfterFailure(q)
       PROVE  TypeOK'
  BY <1>24 DEF CloseAfterFailure, EnsureClosed, Return, CallerGoes, dbVars,
     tunnelVars, connVars, callVars
<1>25. ASSUME NEW q \in Requests, Receive(q)
       PROVE  TypeOK'
  BY <1>25 DEF Receive, Return, CallerGoes, dbVars, tunnelVars, connVars,
     callVars
<1>26. ASSUME NEW q \in Requests, GiveUp(q)
       PROVE  TypeOK'
  BY <1>26 DEF GiveUp, Return, CallerGoes, dbVars, tunnelVars, connVars,
     callVars
<1>27. ASSUME NEW q \in Requests, Unregister(q)
       PROVE  TypeOK'
  BY <1>27 DEF Unregister, CallerGoes, dbVars, tunnelVars, connVars, callVars
<1>28. ASSUME ReadDetail
       PROVE  TypeOK'
  BY <1>28 DEF ReadDetail, dbVars, tunnelVars, connVars, callVars
<1>29. ASSUME NEW u \in URLs, WriteDetail(u)
       PROVE  TypeOK'
  BY <1>29 DEF WriteDetail, dbVars, tunnelVars, connVars, callVars
<1>30. ASSUME Delete
       PROVE  TypeOK'
  BY <1>30 DEF Delete, dbVars, tunnelVars, connVars, callVars
<1>31. ASSUME NEW m \in Members, Restart(m)
       PROVE  TypeOK'
  BY <1>31 DEF Restart, Sent, dbVars, tunnelVars, connVars, callVars
<1>32. CASE UNCHANGED vars
  BY <1>32 DEF vars, dbVars, tunnelVars, connVars, callVars
<1> QED
    BY <1>1, <1>2, <1>3, <1>4, <1>5, <1>6, <1>7, <1>8, <1>9, <1>10, <1>11,
     <1>12, <1>13, <1>14, <1>15, <1>16, <1>17, <1>18, <1>19, <1>20, <1>21,
     <1>22, <1>23, <1>24, <1>25, <1>26, <1>27, <1>28, <1>29, <1>30, <1>31,
     <1>32, <1>33 DEF Next, HandlerProceeds, CallerProceeds

\* A goroutine that is under way keeps its replica.
LEMMA PlacedStep ==
  TypeOK /\ PlacedInv /\ [Next]_vars => PlacedInv'
<1> SUFFICES ASSUME TypeOK, PlacedInv, [Next]_vars
             PROVE  PlacedInv'
  OBVIOUS
<1> USE NoMemberAssumption, NoConnAssumption DEF TypeOK, PlacedInv
<1>1. ASSUME NEW c \in Conns, NEW m \in Members, Connect(c, m)
      PROVE  PlacedInv'
  BY <1>1 DEF Connect, HandlerGoes, dbVars, tunnelVars, connVars, callVars
<1>2. ASSUME NEW c \in Conns, ClosePrevious(c)
      PROVE  PlacedInv'
  BY <1>2 DEF ClosePrevious, HandlerGoes, callVars
<1>3. ASSUME NEW c \in Conns, Adopt(c)
      PROVE  PlacedInv'
  BY <1>3 DEF Adopt, HandlerGoes, dbVars, tunnelVars, connVars, callVars
<1>4. ASSUME NEW c \in Conns, StoreMember(c)
      PROVE  PlacedInv'
  BY <1>4 DEF StoreMember, HandlerGoes, dbVars, tunnelVars, connVars, callVars
<1>5. ASSUME NEW c \in Conns, StoreMemberFails(c)
      PROVE  PlacedInv'
  BY <1>5 DEF StoreMemberFails, HandlerGoes, dbVars, tunnelVars, connVars,
     callVars
<1>6. ASSUME NEW c \in Conns, NEW q \in Requests, ReadResponse(c, q)
      PROVE  PlacedInv'
  BY <1>6 DEF ReadResponse, dbVars, tunnelVars, connVars, callVars
<1>7. ASSUME NEW c \in Conns, ReadFails(c)
      PROVE  PlacedInv'
  BY <1>7 DEF ReadFails, HandlerGoes, dbVars, tunnelVars, connVars, callVars
<1>8. ASSUME NEW c \in Conns, LeaveReplaced(c)
      PROVE  PlacedInv'
  BY <1>8 DEF LeaveReplaced, HandlerGoes, dbVars, tunnelVars, connVars,
     callVars
<1>9. ASSUME NEW c \in Conns, LeaveCurrent(c)
      PROVE  PlacedInv'
  BY <1>9 DEF LeaveCurrent, HandlerGoes, callVars
<1>10. ASSUME NEW c \in Conns, ReadRegistration(c)
       PROVE  PlacedInv'
  BY <1>10 DEF ReadRegistration, HandlerGoes, dbVars, tunnelVars, connVars,
     callVars
<1>11. ASSUME NEW c \in Conns, ClearRegistration(c)
       PROVE  PlacedInv'
  BY <1>11 DEF ClearRegistration, HandlerGoes, dbVars, tunnelVars, connVars,
     callVars
<1>12. ASSUME NEW c \in Conns, ClearFails(c)
       PROVE  PlacedInv'
  BY <1>12 DEF ClearFails, HandlerGoes, dbVars, tunnelVars, connVars, callVars
<1>13. ASSUME NEW c \in Conns, Drop(c)
       PROVE  PlacedInv'
  BY <1>13 DEF Drop, dbVars, tunnelVars, connVars, callVars
<1>14. ASSUME NEW c \in Conns, NEW q \in Requests, PeerExecutes(c, q)
       PROVE  PlacedInv'
  BY <1>14 DEF PeerExecutes, dbVars, tunnelVars, connVars, callVars
<1>15. ASSUME NEW q \in Requests, Forward(q)
       PROVE  PlacedInv'
  BY <1>15 DEF Forward, CallerGoes, dbVars, tunnelVars, connVars, callVars
<1>16. ASSUME NEW q \in Requests, ForwardRefused(q)
       PROVE  PlacedInv'
  BY <1>16 DEF ForwardRefused, Return, CallerGoes, dbVars, tunnelVars,
     connVars, callVars
<1>17. ASSUME NEW q \in Requests, NEW m \in Members, SendAsLinkTarget(q, m)
       PROVE  PlacedInv'
  BY <1>17 DEF SendAsLinkTarget, CallerGoes, dbVars, tunnelVars, connVars,
     callVars
<1>18. ASSUME NEW q \in Requests, FindTunnel(q)
       PROVE  PlacedInv'
  BY <1>18 DEF FindTunnel, CallerGoes, dbVars, tunnelVars, connVars, callVars
<1>19. ASSUME NEW q \in Requests, FindTunnelFails(q)
       PROVE  PlacedInv'
  BY <1>19 DEF FindTunnelFails, Return, CallerGoes, dbVars, tunnelVars,
     connVars, callVars
<1>20. ASSUME NEW q \in Requests, RegisterPending(q)
       PROVE  PlacedInv'
  BY <1>20 DEF RegisterPending, CallerGoes, dbVars, tunnelVars, connVars,
     callVars
<1>21. ASSUME NEW q \in Requests, NotConnected(q)
       PROVE  PlacedInv'
  BY <1>21 DEF NotConnected, Return, CallerGoes, dbVars, tunnelVars, connVars,
     callVars
<1>33. ASSUME NEW q \in Requests, BeginWrite(q)
       PROVE  PlacedInv'
  BY <1>33 DEF BeginWrite, CallerGoes, dbVars, tunnelVars, connVars, callVars
<1>22. ASSUME NEW q \in Requests, Write(q)
       PROVE  PlacedInv'
  BY <1>22 DEF Write, CallerGoes, dbVars, tunnelVars, connVars, callVars
<1>23. ASSUME NEW q \in Requests, WriteFails(q)
       PROVE  PlacedInv'
  BY <1>23 DEF WriteFails, CallerGoes, dbVars, tunnelVars, connVars, callVars
<1>24. ASSUME NEW q \in Requests, CloseAfterFailure(q)
       PROVE  PlacedInv'
  BY <1>24 DEF CloseAfterFailure, Return, CallerGoes, connVars
<1>25. ASSUME NEW q \in Requests, Receive(q)
       PROVE  PlacedInv'
  BY <1>25 DEF Receive, Return, CallerGoes, dbVars, tunnelVars, connVars,
     callVars
<1>26. ASSUME NEW q \in Requests, GiveUp(q)
       PROVE  PlacedInv'
  BY <1>26 DEF GiveUp, Return, CallerGoes, dbVars, tunnelVars, connVars,
     callVars
<1>27. ASSUME NEW q \in Requests, Unregister(q)
       PROVE  PlacedInv'
  BY <1>27 DEF Unregister, CallerGoes, dbVars, tunnelVars, connVars, callVars
<1>28. ASSUME ReadDetail
       PROVE  PlacedInv'
  BY <1>28 DEF ReadDetail, dbVars, tunnelVars, connVars, callVars
<1>29. ASSUME NEW u \in URLs, WriteDetail(u)
       PROVE  PlacedInv'
  BY <1>29 DEF WriteDetail, dbVars, tunnelVars, connVars, callVars
<1>30. ASSUME Delete
       PROVE  PlacedInv'
  BY <1>30 DEF Delete, dbVars, tunnelVars, connVars, callVars
<1>31. ASSUME NEW m \in Members, Restart(m)
       PROVE  PlacedInv'
  BY <1>31 DEF Restart, Sent, dbVars, tunnelVars, connVars, callVars
<1>32. CASE UNCHANGED vars
  BY <1>32 DEF vars, dbVars, tunnelVars, connVars, callVars
<1> QED
    BY <1>1, <1>2, <1>3, <1>4, <1>5, <1>6, <1>7, <1>8, <1>9, <1>10, <1>11,
     <1>12, <1>13, <1>14, <1>15, <1>16, <1>17, <1>18, <1>19, <1>20, <1>21,
     <1>22, <1>23, <1>24, <1>25, <1>26, <1>27, <1>28, <1>29, <1>30, <1>31,
     <1>32, <1>33 DEF Next, HandlerProceeds, CallerProceeds

\* ensureClosed is the delicate step: the connection it closes is the current
\* one of this replica, hence of no other, and its handler has adopted it.
LEMMA ServedStep ==
  TypeOK /\ PlacedInv /\ HandlerInv /\ TunnelServed /\ [Next]_vars =>
      HandlerInv' /\ TunnelServed'
<1> SUFFICES ASSUME TypeOK, PlacedInv, HandlerInv, TunnelServed, [Next]_vars
             PROVE  HandlerInv' /\ TunnelServed'
  OBVIOUS
<1> USE NoConnAssumption DEF TypeOK, PlacedInv, HandlerInv, TunnelServed
<1>1. ASSUME NEW c \in Conns, NEW m \in Members, Connect(c, m)
      PROVE  HandlerInv' /\ TunnelServed'
  BY <1>1 DEF Connect, HandlerGoes, dbVars, tunnelVars, connVars, callVars
<1>2. ASSUME NEW c \in Conns, ClosePrevious(c)
      PROVE  HandlerInv' /\ TunnelServed'
  <2>1. CASE wsConn[memberOf[c]] = NoConn
    BY <1>2, <2>1 DEF ClosePrevious, EnsureClosed, HandlerGoes
  <2>2. CASE wsConn[memberOf[c]] # NoConn
    <3> DEFINE old == wsConn[memberOf[c]]
    <3>1. /\ old \in Conns
          /\ wsConn' = [wsConn EXCEPT ![memberOf[c]] = NoConn]
          /\ socket' = [socket EXCEPT ![old] = "closed"]
          /\ memberOf' = memberOf
          /\ handler' = [handler EXCEPT ![c] = "cleared"]
      BY <1>2, <2>2 DEF ClosePrevious, EnsureClosed, HandlerGoes
    <3>2. HandlerInv'
      BY <2>2, <3>1, <1>2 DEF ClosePrevious
    <3>3. TunnelServed'
      BY <2>2, <3>1, <1>2 DEF ClosePrevious
    <3> QED
      BY <3>2, <3>3
  <2> QED
    BY <2>1, <2>2
<1>3. ASSUME NEW c \in Conns, Adopt(c)
      PROVE  HandlerInv' /\ TunnelServed'
  BY <1>3 DEF Adopt, HandlerGoes, dbVars, tunnelVars, connVars, callVars
<1>4. ASSUME NEW c \in Conns, StoreMember(c)
      PROVE  HandlerInv' /\ TunnelServed'
  BY <1>4 DEF StoreMember, HandlerGoes, dbVars, tunnelVars, connVars, callVars
<1>5. ASSUME NEW c \in Conns, StoreMemberFails(c)
      PROVE  HandlerInv' /\ TunnelServed'
  BY <1>5 DEF StoreMemberFails, HandlerGoes, dbVars, tunnelVars, connVars,
     callVars
<1>6. ASSUME NEW c \in Conns, NEW q \in Requests, ReadResponse(c, q)
      PROVE  HandlerInv' /\ TunnelServed'
  BY <1>6 DEF ReadResponse, dbVars, tunnelVars, connVars, callVars
<1>7. ASSUME NEW c \in Conns, ReadFails(c)
      PROVE  HandlerInv' /\ TunnelServed'
  BY <1>7 DEF ReadFails, HandlerGoes, dbVars, tunnelVars, connVars, callVars
<1>8. ASSUME NEW c \in Conns, LeaveReplaced(c)
      PROVE  HandlerInv' /\ TunnelServed'
  BY <1>8 DEF LeaveReplaced, HandlerGoes, dbVars, tunnelVars, connVars,
     callVars
<1>9. ASSUME NEW c \in Conns, LeaveCurrent(c)
      PROVE  HandlerInv' /\ TunnelServed'
  BY <1>9 DEF LeaveCurrent, EnsureClosed, HandlerGoes, dbVars, tunnelVars,
     connVars, callVars
<1>10. ASSUME NEW c \in Conns, ReadRegistration(c)
       PROVE  HandlerInv' /\ TunnelServed'
  BY <1>10 DEF ReadRegistration, HandlerGoes, dbVars, tunnelVars, connVars,
     callVars
<1>11. ASSUME NEW c \in Conns, ClearRegistration(c)
       PROVE  HandlerInv' /\ TunnelServed'
  BY <1>11 DEF ClearRegistration, HandlerGoes, dbVars, tunnelVars, connVars,
     callVars
<1>12. ASSUME NEW c \in Conns, ClearFails(c)
       PROVE  HandlerInv' /\ TunnelServed'
  BY <1>12 DEF ClearFails, HandlerGoes, dbVars, tunnelVars, connVars, callVars
<1>13. ASSUME NEW c \in Conns, Drop(c)
       PROVE  HandlerInv' /\ TunnelServed'
  BY <1>13 DEF Drop, dbVars, tunnelVars, connVars, callVars
<1>14. ASSUME NEW c \in Conns, NEW q \in Requests, PeerExecutes(c, q)
       PROVE  HandlerInv' /\ TunnelServed'
  BY <1>14 DEF PeerExecutes, dbVars, tunnelVars, connVars, callVars
<1>15. ASSUME NEW q \in Requests, Forward(q)
       PROVE  HandlerInv' /\ TunnelServed'
  BY <1>15 DEF Forward, CallerGoes, dbVars, tunnelVars, connVars, callVars
<1>16. ASSUME NEW q \in Requests, ForwardRefused(q)
       PROVE  HandlerInv' /\ TunnelServed'
  BY <1>16 DEF ForwardRefused, Return, CallerGoes, dbVars, tunnelVars,
     connVars, callVars
<1>17. ASSUME NEW q \in Requests, NEW m \in Members, SendAsLinkTarget(q, m)
       PROVE  HandlerInv' /\ TunnelServed'
  BY <1>17 DEF SendAsLinkTarget, CallerGoes, dbVars, tunnelVars, connVars,
     callVars
<1>18. ASSUME NEW q \in Requests, FindTunnel(q)
       PROVE  HandlerInv' /\ TunnelServed'
  BY <1>18 DEF FindTunnel, CallerGoes, dbVars, tunnelVars, connVars, callVars
<1>19. ASSUME NEW q \in Requests, FindTunnelFails(q)
       PROVE  HandlerInv' /\ TunnelServed'
  BY <1>19 DEF FindTunnelFails, Return, CallerGoes, dbVars, tunnelVars,
     connVars, callVars
<1>20. ASSUME NEW q \in Requests, RegisterPending(q)
       PROVE  HandlerInv' /\ TunnelServed'
  BY <1>20 DEF RegisterPending, CallerGoes, dbVars, tunnelVars, connVars,
     callVars
<1>21. ASSUME NEW q \in Requests, NotConnected(q)
       PROVE  HandlerInv' /\ TunnelServed'
  BY <1>21 DEF NotConnected, Return, CallerGoes, dbVars, tunnelVars, connVars,
     callVars
<1>33. ASSUME NEW q \in Requests, BeginWrite(q)
       PROVE  HandlerInv' /\ TunnelServed'
  BY <1>33 DEF BeginWrite, CallerGoes, dbVars, tunnelVars, connVars, callVars
<1>22. ASSUME NEW q \in Requests, Write(q)
       PROVE  HandlerInv' /\ TunnelServed'
  BY <1>22 DEF Write, CallerGoes, dbVars, tunnelVars, connVars, callVars
<1>23. ASSUME NEW q \in Requests, WriteFails(q)
       PROVE  HandlerInv' /\ TunnelServed'
  BY <1>23 DEF WriteFails, CallerGoes, dbVars, tunnelVars, connVars, callVars
<1>24. ASSUME NEW q \in Requests, CloseAfterFailure(q)
       PROVE  HandlerInv' /\ TunnelServed'
  <2>1. CASE wsConn[target[q]] = NoConn
    BY <1>24, <2>1 DEF CloseAfterFailure, EnsureClosed, connVars
  <2>2. CASE wsConn[target[q]] # NoConn
    <3> DEFINE old == wsConn[target[q]]
    <3>1. /\ old \in Conns
          /\ wsConn' = [wsConn EXCEPT ![target[q]] = NoConn]
          /\ socket' = [socket EXCEPT ![old] = "closed"]
          /\ memberOf' = memberOf
          /\ handler' = handler
      BY <1>24, <2>2 DEF CloseAfterFailure, EnsureClosed, connVars
    <3>2. HandlerInv'
      BY <2>2, <3>1, <1>24 DEF CloseAfterFailure
    <3>3. TunnelServed'
      BY <2>2, <3>1, <1>24 DEF CloseAfterFailure
    <3> QED
      BY <3>2, <3>3
  <2> QED
    BY <2>1, <2>2
<1>25. ASSUME NEW q \in Requests, Receive(q)
       PROVE  HandlerInv' /\ TunnelServed'
  BY <1>25 DEF Receive, Return, CallerGoes, dbVars, tunnelVars, connVars,
     callVars
<1>26. ASSUME NEW q \in Requests, GiveUp(q)
       PROVE  HandlerInv' /\ TunnelServed'
  BY <1>26 DEF GiveUp, Return, CallerGoes, dbVars, tunnelVars, connVars,
     callVars
<1>27. ASSUME NEW q \in Requests, Unregister(q)
       PROVE  HandlerInv' /\ TunnelServed'
  BY <1>27 DEF Unregister, CallerGoes, dbVars, tunnelVars, connVars, callVars
<1>28. ASSUME ReadDetail
       PROVE  HandlerInv' /\ TunnelServed'
  BY <1>28 DEF ReadDetail, dbVars, tunnelVars, connVars, callVars
<1>29. ASSUME NEW u \in URLs, WriteDetail(u)
       PROVE  HandlerInv' /\ TunnelServed'
  BY <1>29 DEF WriteDetail, dbVars, tunnelVars, connVars, callVars
<1>30. ASSUME Delete
       PROVE  HandlerInv' /\ TunnelServed'
  BY <1>30 DEF Delete, dbVars, tunnelVars, connVars, callVars
<1>31. ASSUME NEW m \in Members, Restart(m)
       PROVE  HandlerInv' /\ TunnelServed'
  BY <1>31 DEF Restart, Sent, dbVars, tunnelVars, connVars, callVars
<1>32. CASE UNCHANGED vars
  BY <1>32 DEF vars, dbVars, tunnelVars, connVars, callVars
<1> QED
    BY <1>1, <1>2, <1>3, <1>4, <1>5, <1>6, <1>7, <1>8, <1>9, <1>10, <1>11,
     <1>12, <1>13, <1>14, <1>15, <1>16, <1>17, <1>18, <1>19, <1>20, <1>21,
     <1>22, <1>23, <1>24, <1>25, <1>26, <1>27, <1>28, <1>29, <1>30, <1>31,
     <1>32, <1>33 DEF Next, HandlerProceeds, CallerProceeds

\* An entry of PendingResponses goes at the latest with its request.
LEMMA WaitersStep ==
  TypeOK /\ WaitersServed /\ [Next]_vars => WaitersServed'
<1> SUFFICES ASSUME TypeOK, WaitersServed, [Next]_vars
             PROVE  WaitersServed'
  OBVIOUS
<1> USE NoConnAssumption DEF TypeOK, WaitersServed
<1>1. ASSUME NEW c \in Conns, NEW m \in Members, Connect(c, m)
      PROVE  WaitersServed'
  BY <1>1 DEF Connect, HandlerGoes, dbVars, tunnelVars, connVars, callVars
<1>2. ASSUME NEW c \in Conns, ClosePrevious(c)
      PROVE  WaitersServed'
  BY <1>2 DEF ClosePrevious, EnsureClosed, HandlerGoes, dbVars, tunnelVars,
     connVars, callVars
<1>3. ASSUME NEW c \in Conns, Adopt(c)
      PROVE  WaitersServed'
  BY <1>3 DEF Adopt, HandlerGoes, dbVars, tunnelVars, connVars, callVars
<1>4. ASSUME NEW c \in Conns, StoreMember(c)
      PROVE  WaitersServed'
  BY <1>4 DEF StoreMember, HandlerGoes, dbVars, tunnelVars, connVars, callVars
<1>5. ASSUME NEW c \in Conns, StoreMemberFails(c)
      PROVE  WaitersServed'
  BY <1>5 DEF StoreMemberFails, HandlerGoes, dbVars, tunnelVars, connVars,
     callVars
<1>6. ASSUME NEW c \in Conns, NEW q \in Requests, ReadResponse(c, q)
      PROVE  WaitersServed'
  BY <1>6 DEF ReadResponse, dbVars, tunnelVars, connVars, callVars
<1>7. ASSUME NEW c \in Conns, ReadFails(c)
      PROVE  WaitersServed'
  BY <1>7 DEF ReadFails, HandlerGoes, dbVars, tunnelVars, connVars, callVars
<1>8. ASSUME NEW c \in Conns, LeaveReplaced(c)
      PROVE  WaitersServed'
  BY <1>8 DEF LeaveReplaced, HandlerGoes, dbVars, tunnelVars, connVars,
     callVars
<1>9. ASSUME NEW c \in Conns, LeaveCurrent(c)
      PROVE  WaitersServed'
  BY <1>9 DEF LeaveCurrent, EnsureClosed, HandlerGoes, dbVars, tunnelVars,
     connVars, callVars
<1>10. ASSUME NEW c \in Conns, ReadRegistration(c)
       PROVE  WaitersServed'
  BY <1>10 DEF ReadRegistration, HandlerGoes, dbVars, tunnelVars, connVars,
     callVars
<1>11. ASSUME NEW c \in Conns, ClearRegistration(c)
       PROVE  WaitersServed'
  BY <1>11 DEF ClearRegistration, HandlerGoes, dbVars, tunnelVars, connVars,
     callVars
<1>12. ASSUME NEW c \in Conns, ClearFails(c)
       PROVE  WaitersServed'
  BY <1>12 DEF ClearFails, HandlerGoes, dbVars, tunnelVars, connVars, callVars
<1>13. ASSUME NEW c \in Conns, Drop(c)
       PROVE  WaitersServed'
  BY <1>13 DEF Drop, dbVars, tunnelVars, connVars, callVars
<1>14. ASSUME NEW c \in Conns, NEW q \in Requests, PeerExecutes(c, q)
       PROVE  WaitersServed'
  BY <1>14 DEF PeerExecutes, dbVars, tunnelVars, connVars, callVars
<1>15. ASSUME NEW q \in Requests, Forward(q)
       PROVE  WaitersServed'
  BY <1>15 DEF Forward, CallerGoes, dbVars, tunnelVars, connVars, callVars
<1>16. ASSUME NEW q \in Requests, ForwardRefused(q)
       PROVE  WaitersServed'
  BY <1>16 DEF ForwardRefused, Return, CallerGoes, dbVars, tunnelVars,
     connVars, callVars
<1>17. ASSUME NEW q \in Requests, NEW m \in Members, SendAsLinkTarget(q, m)
       PROVE  WaitersServed'
  BY <1>17 DEF SendAsLinkTarget, CallerGoes, dbVars, tunnelVars, connVars,
     callVars
<1>18. ASSUME NEW q \in Requests, FindTunnel(q)
       PROVE  WaitersServed'
  BY <1>18 DEF FindTunnel, CallerGoes, dbVars, tunnelVars, connVars, callVars
<1>19. ASSUME NEW q \in Requests, FindTunnelFails(q)
       PROVE  WaitersServed'
  BY <1>19 DEF FindTunnelFails, Return, CallerGoes, dbVars, tunnelVars,
     connVars, callVars
<1>20. ASSUME NEW q \in Requests, RegisterPending(q)
       PROVE  WaitersServed'
  BY <1>20 DEF RegisterPending, CallerGoes, dbVars, tunnelVars, connVars,
     callVars
<1>21. ASSUME NEW q \in Requests, NotConnected(q)
       PROVE  WaitersServed'
  BY <1>21 DEF NotConnected, Return, CallerGoes, dbVars, tunnelVars, connVars,
     callVars
<1>33. ASSUME NEW q \in Requests, BeginWrite(q)
       PROVE  WaitersServed'
  BY <1>33 DEF BeginWrite, CallerGoes, dbVars, tunnelVars, connVars, callVars
<1>22. ASSUME NEW q \in Requests, Write(q)
       PROVE  WaitersServed'
  BY <1>22 DEF Write, CallerGoes, dbVars, tunnelVars, connVars, callVars
<1>23. ASSUME NEW q \in Requests, WriteFails(q)
       PROVE  WaitersServed'
  BY <1>23 DEF WriteFails, CallerGoes, dbVars, tunnelVars, connVars, callVars
<1>24. ASSUME NEW q \in Requests, CloseAfterFailure(q)
       PROVE  WaitersServed'
  BY <1>24 DEF CloseAfterFailure, EnsureClosed, Return, CallerGoes, dbVars,
     tunnelVars, connVars, callVars
<1>25. ASSUME NEW q \in Requests, Receive(q)
       PROVE  WaitersServed'
  BY <1>25 DEF Receive, Return, CallerGoes, dbVars, tunnelVars, connVars,
     callVars
<1>26. ASSUME NEW q \in Requests, GiveUp(q)
       PROVE  WaitersServed'
  BY <1>26 DEF GiveUp, Return, CallerGoes, dbVars, tunnelVars, connVars,
     callVars
<1>27. ASSUME NEW q \in Requests, Unregister(q)
       PROVE  WaitersServed'
  BY <1>27 DEF Unregister, CallerGoes, dbVars, tunnelVars, connVars, callVars
<1>28. ASSUME ReadDetail
       PROVE  WaitersServed'
  BY <1>28 DEF ReadDetail, dbVars, tunnelVars, connVars, callVars
<1>29. ASSUME NEW u \in URLs, WriteDetail(u)
       PROVE  WaitersServed'
  BY <1>29 DEF WriteDetail, dbVars, tunnelVars, connVars, callVars
<1>30. ASSUME Delete
       PROVE  WaitersServed'
  BY <1>30 DEF Delete, dbVars, tunnelVars, connVars, callVars
<1>31. ASSUME NEW m \in Members, Restart(m)
       PROVE  WaitersServed'
  BY <1>31 DEF Restart, Sent, dbVars, tunnelVars, connVars, callVars
<1>32. CASE UNCHANGED vars
  BY <1>32 DEF vars, dbVars, tunnelVars, connVars, callVars
<1> QED
    BY <1>1, <1>2, <1>3, <1>4, <1>5, <1>6, <1>7, <1>8, <1>9, <1>10, <1>11,
     <1>12, <1>13, <1>14, <1>15, <1>16, <1>17, <1>18, <1>19, <1>20, <1>21,
     <1>22, <1>23, <1>24, <1>25, <1>26, <1>27, <1>28, <1>29, <1>30, <1>31,
     <1>32, <1>33 DEF Next, HandlerProceeds, CallerProceeds

\* Who wants to change WsConn, or to write, waits until nobody writes.
LEMMA WriterStep ==
  TypeOK /\ PlacedInv /\ WriterInv /\ [Next]_vars => WriterInv'
<1> SUFFICES ASSUME TypeOK, PlacedInv, WriterInv, [Next]_vars
             PROVE  WriterInv'
  OBVIOUS
<1> USE NoConnAssumption DEF TypeOK, PlacedInv, WriterInv, Free, CallerStates
<1>1. ASSUME NEW c \in Conns, NEW m \in Members, Connect(c, m)
      PROVE  WriterInv'
  BY <1>1 DEF Connect, HandlerGoes, dbVars, tunnelVars, connVars, callVars
<1>2. ASSUME NEW c \in Conns, ClosePrevious(c)
      PROVE  WriterInv'
  BY <1>2 DEF ClosePrevious, EnsureClosed, HandlerGoes, dbVars, tunnelVars,
     connVars, callVars
<1>3. ASSUME NEW c \in Conns, Adopt(c)
      PROVE  WriterInv'
  BY <1>3 DEF Adopt, HandlerGoes, dbVars, tunnelVars, connVars, callVars
<1>4. ASSUME NEW c \in Conns, StoreMember(c)
      PROVE  WriterInv'
  BY <1>4 DEF StoreMember, HandlerGoes, dbVars, tunnelVars, connVars, callVars
<1>5. ASSUME NEW c \in Conns, StoreMemberFails(c)
      PROVE  WriterInv'
  BY <1>5 DEF StoreMemberFails, HandlerGoes, dbVars, tunnelVars, connVars,
     callVars
<1>6. ASSUME NEW c \in Conns, NEW q \in Requests, ReadResponse(c, q)
      PROVE  WriterInv'
  BY <1>6 DEF ReadResponse, dbVars, tunnelVars, connVars, callVars
<1>7. ASSUME NEW c \in Conns, ReadFails(c)
      PROVE  WriterInv'
  BY <1>7 DEF ReadFails, HandlerGoes, dbVars, tunnelVars, connVars, callVars
<1>8. ASSUME NEW c \in Conns, LeaveReplaced(c)
      PROVE  WriterInv'
  BY <1>8 DEF LeaveReplaced, HandlerGoes, dbVars, tunnelVars, connVars,
     callVars
<1>9. ASSUME NEW c \in Conns, LeaveCurrent(c)
      PROVE  WriterInv'
  BY <1>9 DEF LeaveCurrent, EnsureClosed, HandlerGoes, dbVars, tunnelVars,
     connVars, callVars
<1>10. ASSUME NEW c \in Conns, ReadRegistration(c)
       PROVE  WriterInv'
  BY <1>10 DEF ReadRegistration, HandlerGoes, dbVars, tunnelVars, connVars,
     callVars
<1>11. ASSUME NEW c \in Conns, ClearRegistration(c)
       PROVE  WriterInv'
  BY <1>11 DEF ClearRegistration, HandlerGoes, dbVars, tunnelVars, connVars,
     callVars
<1>12. ASSUME NEW c \in Conns, ClearFails(c)
       PROVE  WriterInv'
  BY <1>12 DEF ClearFails, HandlerGoes, dbVars, tunnelVars, connVars, callVars
<1>13. ASSUME NEW c \in Conns, Drop(c)
       PROVE  WriterInv'
  BY <1>13 DEF Drop, dbVars, tunnelVars, connVars, callVars
<1>14. ASSUME NEW c \in Conns, NEW q \in Requests, PeerExecutes(c, q)
       PROVE  WriterInv'
  BY <1>14 DEF PeerExecutes, dbVars, tunnelVars, connVars, callVars
<1>15. ASSUME NEW q \in Requests, Forward(q)
       PROVE  WriterInv'
  BY <1>15 DEF Forward, CallerGoes, dbVars, tunnelVars, connVars, callVars
<1>16. ASSUME NEW q \in Requests, ForwardRefused(q)
       PROVE  WriterInv'
  BY <1>16 DEF ForwardRefused, Return, CallerGoes, dbVars, tunnelVars,
     connVars, callVars
<1>17. ASSUME NEW q \in Requests, NEW m \in Members, SendAsLinkTarget(q, m)
       PROVE  WriterInv'
  BY <1>17 DEF SendAsLinkTarget, CallerGoes, dbVars, tunnelVars, connVars,
     callVars
<1>18. ASSUME NEW q \in Requests, FindTunnel(q)
       PROVE  WriterInv'
  BY <1>18 DEF FindTunnel, CallerGoes, dbVars, tunnelVars, connVars, callVars
<1>19. ASSUME NEW q \in Requests, FindTunnelFails(q)
       PROVE  WriterInv'
  BY <1>19 DEF FindTunnelFails, Return, CallerGoes, dbVars, tunnelVars,
     connVars, callVars
<1>20. ASSUME NEW q \in Requests, RegisterPending(q)
       PROVE  WriterInv'
  BY <1>20 DEF RegisterPending, CallerGoes, dbVars, tunnelVars, connVars,
     callVars
<1>21. ASSUME NEW q \in Requests, NotConnected(q)
       PROVE  WriterInv'
  BY <1>21 DEF NotConnected, Return, CallerGoes, dbVars, tunnelVars, connVars,
     callVars
<1>33. ASSUME NEW q \in Requests, BeginWrite(q)
       PROVE  WriterInv'
  BY <1>33 DEF BeginWrite, CallerGoes, dbVars, tunnelVars, connVars, callVars
<1>22. ASSUME NEW q \in Requests, Write(q)
       PROVE  WriterInv'
  BY <1>22 DEF Write, CallerGoes, dbVars, tunnelVars, connVars, callVars
<1>23. ASSUME NEW q \in Requests, WriteFails(q)
       PROVE  WriterInv'
  BY <1>23 DEF WriteFails, CallerGoes, dbVars, tunnelVars, connVars, callVars
<1>24. ASSUME NEW q \in Requests, CloseAfterFailure(q)
       PROVE  WriterInv'
  BY <1>24 DEF CloseAfterFailure, EnsureClosed, Return, CallerGoes, dbVars,
     tunnelVars, connVars, callVars
<1>25. ASSUME NEW q \in Requests, Receive(q)
       PROVE  WriterInv'
  BY <1>25 DEF Receive, Return, CallerGoes, dbVars, tunnelVars, connVars,
     callVars
<1>26. ASSUME NEW q \in Requests, GiveUp(q)
       PROVE  WriterInv'
  BY <1>26 DEF GiveUp, Return, CallerGoes, dbVars, tunnelVars, connVars,
     callVars
<1>27. ASSUME NEW q \in Requests, Unregister(q)
       PROVE  WriterInv'
  BY <1>27 DEF Unregister, CallerGoes, dbVars, tunnelVars, connVars, callVars
<1>28. ASSUME ReadDetail
       PROVE  WriterInv'
  BY <1>28 DEF ReadDetail, dbVars, tunnelVars, connVars, callVars
<1>29. ASSUME NEW u \in URLs, WriteDetail(u)
       PROVE  WriterInv'
  BY <1>29 DEF WriteDetail, dbVars, tunnelVars, connVars, callVars
<1>30. ASSUME Delete
       PROVE  WriterInv'
  BY <1>30 DEF Delete, dbVars, tunnelVars, connVars, callVars
<1>31. ASSUME NEW m \in Members, Restart(m)
       PROVE  WriterInv'
  BY <1>31 DEF Restart, Sent, dbVars, tunnelVars, connVars, callVars
<1>32. CASE UNCHANGED vars
  BY <1>32 DEF vars, dbVars, tunnelVars, connVars, callVars
<1> QED
    BY <1>1, <1>2, <1>3, <1>4, <1>5, <1>6, <1>7, <1>8, <1>9, <1>10, <1>11,
     <1>12, <1>13, <1>14, <1>15, <1>16, <1>17, <1>18, <1>19, <1>20, <1>21,
     <1>22, <1>23, <1>24, <1>25, <1>26, <1>27, <1>28, <1>29, <1>30, <1>31,
     <1>32, <1>33 DEF Next, HandlerProceeds, CallerProceeds

\* What is on the wire was written once and is not executed yet.
LEMMA WireStep ==
  TypeOK /\ OutcomeInv /\ WireInv /\ [Next]_vars => OutcomeInv' /\ WireInv'
<1> SUFFICES ASSUME TypeOK, OutcomeInv, WireInv, [Next]_vars
             PROVE  OutcomeInv' /\ WireInv'
  OBVIOUS
<1> USE NoConnAssumption DEF TypeOK, OutcomeInv, WireInv, Sent, CallerStates
<1>1. ASSUME NEW c \in Conns, NEW m \in Members, Connect(c, m)
      PROVE  OutcomeInv' /\ WireInv'
  BY <1>1 DEF Connect, HandlerGoes, dbVars, tunnelVars, connVars, callVars
<1>2. ASSUME NEW c \in Conns, ClosePrevious(c)
      PROVE  OutcomeInv' /\ WireInv'
  BY <1>2 DEF ClosePrevious, EnsureClosed, HandlerGoes, dbVars, tunnelVars,
     connVars, callVars
<1>3. ASSUME NEW c \in Conns, Adopt(c)
      PROVE  OutcomeInv' /\ WireInv'
  BY <1>3 DEF Adopt, HandlerGoes, dbVars, tunnelVars, connVars, callVars
<1>4. ASSUME NEW c \in Conns, StoreMember(c)
      PROVE  OutcomeInv' /\ WireInv'
  BY <1>4 DEF StoreMember, HandlerGoes, dbVars, tunnelVars, connVars, callVars
<1>5. ASSUME NEW c \in Conns, StoreMemberFails(c)
      PROVE  OutcomeInv' /\ WireInv'
  BY <1>5 DEF StoreMemberFails, HandlerGoes, dbVars, tunnelVars, connVars,
     callVars
<1>6. ASSUME NEW c \in Conns, NEW q \in Requests, ReadResponse(c, q)
      PROVE  OutcomeInv' /\ WireInv'
  BY <1>6 DEF ReadResponse, dbVars, tunnelVars, connVars, callVars
<1>7. ASSUME NEW c \in Conns, ReadFails(c)
      PROVE  OutcomeInv' /\ WireInv'
  BY <1>7 DEF ReadFails, HandlerGoes, dbVars, tunnelVars, connVars, callVars
<1>8. ASSUME NEW c \in Conns, LeaveReplaced(c)
      PROVE  OutcomeInv' /\ WireInv'
  BY <1>8 DEF LeaveReplaced, HandlerGoes, dbVars, tunnelVars, connVars,
     callVars
<1>9. ASSUME NEW c \in Conns, LeaveCurrent(c)
      PROVE  OutcomeInv' /\ WireInv'
  BY <1>9 DEF LeaveCurrent, EnsureClosed, HandlerGoes, dbVars, tunnelVars,
     connVars, callVars
<1>10. ASSUME NEW c \in Conns, ReadRegistration(c)
       PROVE  OutcomeInv' /\ WireInv'
  BY <1>10 DEF ReadRegistration, HandlerGoes, dbVars, tunnelVars, connVars,
     callVars
<1>11. ASSUME NEW c \in Conns, ClearRegistration(c)
       PROVE  OutcomeInv' /\ WireInv'
  BY <1>11 DEF ClearRegistration, HandlerGoes, dbVars, tunnelVars, connVars,
     callVars
<1>12. ASSUME NEW c \in Conns, ClearFails(c)
       PROVE  OutcomeInv' /\ WireInv'
  BY <1>12 DEF ClearFails, HandlerGoes, dbVars, tunnelVars, connVars, callVars
<1>13. ASSUME NEW c \in Conns, Drop(c)
       PROVE  OutcomeInv' /\ WireInv'
  BY <1>13 DEF Drop, dbVars, tunnelVars, connVars, callVars
<1>14. ASSUME NEW c \in Conns, NEW q \in Requests, PeerExecutes(c, q)
       PROVE  OutcomeInv' /\ WireInv'
  BY <1>14 DEF PeerExecutes, dbVars, tunnelVars, connVars, callVars
<1>15. ASSUME NEW q \in Requests, Forward(q)
       PROVE  OutcomeInv' /\ WireInv'
  BY <1>15 DEF Forward, CallerGoes, dbVars, tunnelVars, connVars, callVars
<1>16. ASSUME NEW q \in Requests, ForwardRefused(q)
       PROVE  OutcomeInv' /\ WireInv'
  BY <1>16 DEF ForwardRefused, Return, CallerGoes, dbVars, tunnelVars,
     connVars, callVars
<1>17. ASSUME NEW q \in Requests, NEW m \in Members, SendAsLinkTarget(q, m)
       PROVE  OutcomeInv' /\ WireInv'
  BY <1>17 DEF SendAsLinkTarget, CallerGoes, dbVars, tunnelVars, connVars,
     callVars
<1>18. ASSUME NEW q \in Requests, FindTunnel(q)
       PROVE  OutcomeInv' /\ WireInv'
  BY <1>18 DEF FindTunnel, CallerGoes, dbVars, tunnelVars, connVars, callVars
<1>19. ASSUME NEW q \in Requests, FindTunnelFails(q)
       PROVE  OutcomeInv' /\ WireInv'
  BY <1>19 DEF FindTunnelFails, Return, CallerGoes, dbVars, tunnelVars,
     connVars, callVars
<1>20. ASSUME NEW q \in Requests, RegisterPending(q)
       PROVE  OutcomeInv' /\ WireInv'
  BY <1>20 DEF RegisterPending, CallerGoes, dbVars, tunnelVars, connVars,
     callVars
<1>21. ASSUME NEW q \in Requests, NotConnected(q)
       PROVE  OutcomeInv' /\ WireInv'
  BY <1>21 DEF NotConnected, Return, CallerGoes, dbVars, tunnelVars, connVars,
     callVars
<1>33. ASSUME NEW q \in Requests, BeginWrite(q)
       PROVE  OutcomeInv' /\ WireInv'
  BY <1>33 DEF BeginWrite, CallerGoes, dbVars, tunnelVars, connVars, callVars
<1>22. ASSUME NEW q \in Requests, Write(q)
       PROVE  OutcomeInv' /\ WireInv'
  BY <1>22 DEF Write, CallerGoes, dbVars, tunnelVars, connVars, callVars
<1>23. ASSUME NEW q \in Requests, WriteFails(q)
       PROVE  OutcomeInv' /\ WireInv'
  BY <1>23 DEF WriteFails, CallerGoes, dbVars, tunnelVars, connVars, callVars
<1>24. ASSUME NEW q \in Requests, CloseAfterFailure(q)
       PROVE  OutcomeInv' /\ WireInv'
  BY <1>24 DEF CloseAfterFailure, EnsureClosed, Return, CallerGoes, dbVars,
     tunnelVars, connVars, callVars
<1>25. ASSUME NEW q \in Requests, Receive(q)
       PROVE  OutcomeInv' /\ WireInv'
  BY <1>25 DEF Receive, Return, CallerGoes, dbVars, tunnelVars, connVars,
     callVars
<1>26. ASSUME NEW q \in Requests, GiveUp(q)
       PROVE  OutcomeInv' /\ WireInv'
  BY <1>26 DEF GiveUp, Return, CallerGoes, dbVars, tunnelVars, connVars,
     callVars
<1>27. ASSUME NEW q \in Requests, Unregister(q)
       PROVE  OutcomeInv' /\ WireInv'
  BY <1>27 DEF Unregister, CallerGoes, dbVars, tunnelVars, connVars, callVars
<1>28. ASSUME ReadDetail
       PROVE  OutcomeInv' /\ WireInv'
  BY <1>28 DEF ReadDetail, dbVars, tunnelVars, connVars, callVars
<1>29. ASSUME NEW u \in URLs, WriteDetail(u)
       PROVE  OutcomeInv' /\ WireInv'
  BY <1>29 DEF WriteDetail, dbVars, tunnelVars, connVars, callVars
<1>30. ASSUME Delete
       PROVE  OutcomeInv' /\ WireInv'
  BY <1>30 DEF Delete, dbVars, tunnelVars, connVars, callVars
<1>31. ASSUME NEW m \in Members, Restart(m)
       PROVE  OutcomeInv' /\ WireInv'
  BY <1>31 DEF Restart, Sent, dbVars, tunnelVars, connVars, callVars
<1>32. CASE UNCHANGED vars
  BY <1>32 DEF vars, dbVars, tunnelVars, connVars, callVars
<1> QED
    BY <1>1, <1>2, <1>3, <1>4, <1>5, <1>6, <1>7, <1>8, <1>9, <1>10, <1>11,
     <1>12, <1>13, <1>14, <1>15, <1>16, <1>17, <1>18, <1>19, <1>20, <1>21,
     <1>22, <1>23, <1>24, <1>25, <1>26, <1>27, <1>28, <1>29, <1>30, <1>31,
     <1>32, <1>33 DEF Next, HandlerProceeds, CallerProceeds

\* The conjunction of the six lemmas: IInv is inductive.
LEMMA IInvStep == IInv /\ [Next]_vars => IInv'
BY TypeStep, PlacedStep, ServedStep, WaitersStep, WriterStep, WireStep
   DEF IInv

\* The inductive invariant holds in every reachable state.
THEOREM Invariance == Spec => []IInv
<1>1. Init => IInv
  BY InitIInv
<1>2. IInv /\ [Next]_vars => IInv'
  BY IInvStep
<1> QED
  BY <1>1, <1>2, PTL DEF Spec

\* Every variable keeps its type.
THEOREM Typing == Spec => []TypeOK
<1>1. IInv => TypeOK
  BY DEF IInv
<1> QED
  BY <1>1, Invariance, PTL

\* No replica ever holds a connection as its tunnel that was closed or that no
\* handler will take down.
THEOREM TunnelAlwaysServed == Spec => []TunnelServed
<1>1. IInv => TunnelServed
  BY DEF IInv
<1> QED
  BY <1>1, Invariance, PTL

\* PendingResponses holds entries of requests in progress only.
THEOREM NoWaiterLeaks == Spec => []WaitersServed
<1>1. IInv => WaitersServed
  BY DEF IInv
<1> QED
  BY <1>1, Invariance, PTL

\* Only LeaveCurrent, ClosePrevious, Adopt, CloseAfterFailure and Restart
\* change WsConn.
LEMMA TakenDownStep ==
  TypeOK /\ PlacedInv /\ TunnelServed /\ [Next]_vars => TakenDown
<1> SUFFICES ASSUME TypeOK, PlacedInv, TunnelServed, [Next]_vars
             PROVE  TakenDown
  OBVIOUS
<1> USE NoConnAssumption DEF TypeOK, PlacedInv, TunnelServed, TakenDown
<1>1. ASSUME NEW c \in Conns, NEW m \in Members, Connect(c, m)
      PROVE  TakenDown
  BY <1>1 DEF Connect, HandlerGoes, dbVars, tunnelVars, connVars, callVars
<1>2. ASSUME NEW c \in Conns, ClosePrevious(c)
      PROVE  TakenDown
  BY <1>2 DEF ClosePrevious, EnsureClosed, HandlerGoes
<1>3. ASSUME NEW c \in Conns, Adopt(c)
      PROVE  TakenDown
  BY <1>3 DEF Adopt, HandlerGoes, dbVars, tunnelVars, connVars, callVars
<1>4. ASSUME NEW c \in Conns, StoreMember(c)
      PROVE  TakenDown
  BY <1>4 DEF StoreMember, HandlerGoes, dbVars, tunnelVars, connVars, callVars
<1>5. ASSUME NEW c \in Conns, StoreMemberFails(c)
      PROVE  TakenDown
  BY <1>5 DEF StoreMemberFails, HandlerGoes, dbVars, tunnelVars, connVars,
     callVars
<1>6. ASSUME NEW c \in Conns, NEW q \in Requests, ReadResponse(c, q)
      PROVE  TakenDown
  BY <1>6 DEF ReadResponse, dbVars, tunnelVars, connVars, callVars
<1>7. ASSUME NEW c \in Conns, ReadFails(c)
      PROVE  TakenDown
  BY <1>7 DEF ReadFails, HandlerGoes, dbVars, tunnelVars, connVars, callVars
<1>8. ASSUME NEW c \in Conns, LeaveReplaced(c)
      PROVE  TakenDown
  BY <1>8 DEF LeaveReplaced, HandlerGoes, dbVars, tunnelVars, connVars,
     callVars
<1>9. ASSUME NEW c \in Conns, LeaveCurrent(c)
      PROVE  TakenDown
  BY <1>9 DEF LeaveCurrent, EnsureClosed, HandlerGoes
<1>10. ASSUME NEW c \in Conns, ReadRegistration(c)
       PROVE  TakenDown
  BY <1>10 DEF ReadRegistration, HandlerGoes, dbVars, tunnelVars, connVars,
     callVars
<1>11. ASSUME NEW c \in Conns, ClearRegistration(c)
       PROVE  TakenDown
  BY <1>11 DEF ClearRegistration, HandlerGoes, dbVars, tunnelVars, connVars,
     callVars
<1>12. ASSUME NEW c \in Conns, ClearFails(c)
       PROVE  TakenDown
  BY <1>12 DEF ClearFails, HandlerGoes, dbVars, tunnelVars, connVars, callVars
<1>13. ASSUME NEW c \in Conns, Drop(c)
       PROVE  TakenDown
  BY <1>13 DEF Drop, dbVars, tunnelVars, connVars, callVars
<1>14. ASSUME NEW c \in Conns, NEW q \in Requests, PeerExecutes(c, q)
       PROVE  TakenDown
  BY <1>14 DEF PeerExecutes, dbVars, tunnelVars, connVars, callVars
<1>15. ASSUME NEW q \in Requests, Forward(q)
       PROVE  TakenDown
  BY <1>15 DEF Forward, CallerGoes, dbVars, tunnelVars, connVars, callVars
<1>16. ASSUME NEW q \in Requests, ForwardRefused(q)
       PROVE  TakenDown
  BY <1>16 DEF ForwardRefused, Return, CallerGoes, dbVars, tunnelVars,
     connVars, callVars
<1>17. ASSUME NEW q \in Requests, NEW m \in Members, SendAsLinkTarget(q, m)
       PROVE  TakenDown
  BY <1>17 DEF SendAsLinkTarget, CallerGoes, dbVars, tunnelVars, connVars,
     callVars
<1>18. ASSUME NEW q \in Requests, FindTunnel(q)
       PROVE  TakenDown
  BY <1>18 DEF FindTunnel, CallerGoes, dbVars, tunnelVars, connVars, callVars
<1>19. ASSUME NEW q \in Requests, FindTunnelFails(q)
       PROVE  TakenDown
  BY <1>19 DEF FindTunnelFails, Return, CallerGoes, dbVars, tunnelVars,
     connVars, callVars
<1>20. ASSUME NEW q \in Requests, RegisterPending(q)
       PROVE  TakenDown
  BY <1>20 DEF RegisterPending, CallerGoes, dbVars, tunnelVars, connVars,
     callVars
<1>21. ASSUME NEW q \in Requests, NotConnected(q)
       PROVE  TakenDown
  BY <1>21 DEF NotConnected, Return, CallerGoes, dbVars, tunnelVars, connVars,
     callVars
<1>33. ASSUME NEW q \in Requests, BeginWrite(q)
       PROVE  TakenDown
  BY <1>33 DEF BeginWrite, CallerGoes, dbVars, tunnelVars, connVars, callVars
<1>22. ASSUME NEW q \in Requests, Write(q)
       PROVE  TakenDown
  BY <1>22 DEF Write, CallerGoes, dbVars, tunnelVars, connVars, callVars
<1>23. ASSUME NEW q \in Requests, WriteFails(q)
       PROVE  TakenDown
  BY <1>23 DEF WriteFails, CallerGoes, dbVars, tunnelVars, connVars, callVars
<1>24. ASSUME NEW q \in Requests, CloseAfterFailure(q)
       PROVE  TakenDown
  BY <1>24 DEF CloseAfterFailure, EnsureClosed
<1>25. ASSUME NEW q \in Requests, Receive(q)
       PROVE  TakenDown
  BY <1>25 DEF Receive, Return, CallerGoes, dbVars, tunnelVars, connVars,
     callVars
<1>26. ASSUME NEW q \in Requests, GiveUp(q)
       PROVE  TakenDown
  BY <1>26 DEF GiveUp, Return, CallerGoes, dbVars, tunnelVars, connVars,
     callVars
<1>27. ASSUME NEW q \in Requests, Unregister(q)
       PROVE  TakenDown
  BY <1>27 DEF Unregister, CallerGoes, dbVars, tunnelVars, connVars, callVars
<1>28. ASSUME ReadDetail
       PROVE  TakenDown
  BY <1>28 DEF ReadDetail, dbVars, tunnelVars, connVars, callVars
<1>29. ASSUME NEW u \in URLs, WriteDetail(u)
       PROVE  TakenDown
  BY <1>29 DEF WriteDetail, dbVars, tunnelVars, connVars, callVars
<1>30. ASSUME Delete
       PROVE  TakenDown
  BY <1>30 DEF Delete, dbVars, tunnelVars, connVars, callVars
<1>31. ASSUME NEW m \in Members, Restart(m)
       PROVE  TakenDown
  BY <1>31 DEF Restart, Sent, dbVars, tunnelVars, connVars, callVars
<1>32. CASE UNCHANGED vars
  BY <1>32 DEF vars, dbVars, tunnelVars, connVars, callVars
<1> QED
    BY <1>1, <1>2, <1>3, <1>4, <1>5, <1>6, <1>7, <1>8, <1>9, <1>10, <1>11,
     <1>12, <1>13, <1>14, <1>15, <1>16, <1>17, <1>18, <1>19, <1>20, <1>21,
     <1>22, <1>23, <1>24, <1>25, <1>26, <1>27, <1>28, <1>29, <1>30, <1>31,
     <1>32, <1>33 DEF Next, HandlerProceeds, CallerProceeds

\* A tunnel is taken down only by those who may.
THEOREM OnlyItsOwnTakeDown == Spec => TakenDownByItsOwn
<1>1. IInv /\ [Next]_vars => [TakenDown]_vars
  BY TakenDownStep DEF IInv
<1> QED
  BY <1>1, Invariance, PTL DEF TakenDownByItsOwn, Spec

\* Every step of Tunnel is a step of TunnelRPC, or none.
LEMMA RefinementStep ==
  TypeOK /\ OutcomeInv /\ WireInv /\ [Next]_vars => RPC!Next \/ UNCHANGED
      RPC!vars
<1> SUFFICES ASSUME TypeOK, OutcomeInv, WireInv, [Next]_vars
             PROVE  RPC!Next \/ UNCHANGED RPC!vars
  OBVIOUS
<1> USE DEF TypeOK, OutcomeInv, WireInv, CallerStates, RPC!vars
<1>1. ASSUME NEW c \in Conns, NEW m \in Members, Connect(c, m)
      PROVE  RPC!Next \/ UNCHANGED RPC!vars
  <2>1. UNCHANGED <<caller, outcome, executed>>
    BY <1>1 DEF Connect, HandlerGoes, callVars
  <2> QED
    BY <2>1 DEF Status
<1>2. ASSUME NEW c \in Conns, ClosePrevious(c)
      PROVE  RPC!Next \/ UNCHANGED RPC!vars
  <2>1. UNCHANGED <<caller, outcome, executed>>
    BY <1>2 DEF ClosePrevious, HandlerGoes, callVars
  <2> QED
    BY <2>1 DEF Status
<1>3. ASSUME NEW c \in Conns, Adopt(c)
      PROVE  RPC!Next \/ UNCHANGED RPC!vars
  <2>1. UNCHANGED <<caller, outcome, executed>>
    BY <1>3 DEF Adopt, HandlerGoes, callVars
  <2> QED
    BY <2>1 DEF Status
<1>4. ASSUME NEW c \in Conns, StoreMember(c)
      PROVE  RPC!Next \/ UNCHANGED RPC!vars
  <2>1. UNCHANGED <<caller, outcome, executed>>
    BY <1>4 DEF StoreMember, HandlerGoes, callVars
  <2> QED
    BY <2>1 DEF Status
<1>5. ASSUME NEW c \in Conns, StoreMemberFails(c)
      PROVE  RPC!Next \/ UNCHANGED RPC!vars
  <2>1. UNCHANGED <<caller, outcome, executed>>
    BY <1>5 DEF StoreMemberFails, HandlerGoes, callVars
  <2> QED
    BY <2>1 DEF Status
<1>6. ASSUME NEW c \in Conns, NEW q \in Requests, ReadResponse(c, q)
      PROVE  RPC!Next \/ UNCHANGED RPC!vars
  <2>1. UNCHANGED <<caller, outcome, executed>>
    BY <1>6 DEF ReadResponse
  <2> QED
    BY <2>1 DEF Status
<1>7. ASSUME NEW c \in Conns, ReadFails(c)
      PROVE  RPC!Next \/ UNCHANGED RPC!vars
  <2>1. UNCHANGED <<caller, outcome, executed>>
    BY <1>7 DEF ReadFails, HandlerGoes, callVars
  <2> QED
    BY <2>1 DEF Status
<1>8. ASSUME NEW c \in Conns, LeaveReplaced(c)
      PROVE  RPC!Next \/ UNCHANGED RPC!vars
  <2>1. UNCHANGED <<caller, outcome, executed>>
    BY <1>8 DEF LeaveReplaced, HandlerGoes, callVars
  <2> QED
    BY <2>1 DEF Status
<1>9. ASSUME NEW c \in Conns, LeaveCurrent(c)
      PROVE  RPC!Next \/ UNCHANGED RPC!vars
  <2>1. UNCHANGED <<caller, outcome, executed>>
    BY <1>9 DEF LeaveCurrent, HandlerGoes, callVars
  <2> QED
    BY <2>1 DEF Status
<1>10. ASSUME NEW c \in Conns, ReadRegistration(c)
       PROVE  RPC!Next \/ UNCHANGED RPC!vars
  <2>1. UNCHANGED <<caller, outcome, executed>>
    BY <1>10 DEF ReadRegistration, HandlerGoes, callVars
  <2> QED
    BY <2>1 DEF Status
<1>11. ASSUME NEW c \in Conns, ClearRegistration(c)
       PROVE  RPC!Next \/ UNCHANGED RPC!vars
  <2>1. UNCHANGED <<caller, outcome, executed>>
    BY <1>11 DEF ClearRegistration, HandlerGoes, callVars
  <2> QED
    BY <2>1 DEF Status
<1>12. ASSUME NEW c \in Conns, ClearFails(c)
       PROVE  RPC!Next \/ UNCHANGED RPC!vars
  <2>1. UNCHANGED <<caller, outcome, executed>>
    BY <1>12 DEF ClearFails, HandlerGoes, callVars
  <2> QED
    BY <2>1 DEF Status
<1>13. ASSUME NEW c \in Conns, Drop(c)
       PROVE  RPC!Next \/ UNCHANGED RPC!vars
  <2>1. UNCHANGED <<caller, outcome, executed>>
    BY <1>13 DEF Drop, callVars
  <2> QED
    BY <2>1 DEF Status
<1>14. ASSUME NEW c \in Conns, NEW q \in Requests, PeerExecutes(c, q)
       PROVE  RPC!Next \/ UNCHANGED RPC!vars
  <2>1. Sent(q) /\ q \notin executed
    BY <1>14 DEF PeerExecutes
  <2>2. Status(q) \in {"sent", "failed"}
    BY <2>1 DEF Status, Sent
  <2>3. \A p \in Requests : Status(p)' = Status(p)
    BY <1>14 DEF PeerExecutes, callVars, Status
  <2>4. executed' = executed \union {q}
    BY <1>14 DEF PeerExecutes
  <2>5. RPC!Execute(q)
    BY <2>1, <2>2, <2>3, <2>4 DEF RPC!Execute
  <2> QED
    BY <2>5 DEF RPC!Next
<1>15. ASSUME NEW q \in Requests, Forward(q)
       PROVE  RPC!Next \/ UNCHANGED RPC!vars
  <2>1. Status(q) = "new"
    BY <1>15 DEF Forward, Status
  <2>2. \A p \in Requests : Status(p)' = IF p = q THEN "called" ELSE Status(p)
    BY <1>15 DEF Forward, CallerGoes, Status
  <2>3. UNCHANGED executed
    BY <1>15 DEF Forward
  <2>4. RPC!Call(q)
    BY <2>1, <2>2, <2>3 DEF RPC!Call
  <2> QED
    BY <2>4 DEF RPC!Next
<1>16. ASSUME NEW q \in Requests, ForwardRefused(q)
       PROVE  RPC!Next \/ UNCHANGED RPC!vars
  <2>1. Status(q) = "new"
    BY <1>16 DEF ForwardRefused, Status
  <2>2. \A p \in Requests : Status(p)' = IF p = q THEN "refused" ELSE Status(p)
    BY <1>16 DEF ForwardRefused, Return, CallerGoes, Status
  <2>3. UNCHANGED executed
    BY <1>16 DEF ForwardRefused
  <2>4. RPC!Abort({q})
    BY <2>1, <2>2, <2>3 DEF RPC!Abort
  <2> QED
    BY <2>4 DEF RPC!Next
<1>17. ASSUME NEW q \in Requests, NEW m \in Members, SendAsLinkTarget(q, m)
       PROVE  RPC!Next \/ UNCHANGED RPC!vars
  <2>1. Status(q) = "new"
    BY <1>17 DEF SendAsLinkTarget, Status
  <2>2. \A p \in Requests : Status(p)' = IF p = q THEN "called" ELSE Status(p)
    BY <1>17 DEF SendAsLinkTarget, CallerGoes, Status
  <2>3. UNCHANGED executed
    BY <1>17 DEF SendAsLinkTarget
  <2>4. RPC!Call(q)
    BY <2>1, <2>2, <2>3 DEF RPC!Call
  <2> QED
    BY <2>4 DEF RPC!Next
<1>18. ASSUME NEW q \in Requests, FindTunnel(q)
       PROVE  RPC!Next \/ UNCHANGED RPC!vars
  <2>1. \A p \in Requests : Status(p)' = Status(p)
    BY <1>18 DEF FindTunnel, CallerGoes, Status
  <2>2. UNCHANGED executed
    BY <1>18 DEF FindTunnel
  <2> QED
    BY <2>1, <2>2
<1>19. ASSUME NEW q \in Requests, FindTunnelFails(q)
       PROVE  RPC!Next \/ UNCHANGED RPC!vars
  <2>1. Status(q) = "called"
    BY <1>19 DEF FindTunnelFails, Status
  <2>2. \A p \in Requests : Status(p)' = IF p = q THEN "refused" ELSE Status(p)
    BY <1>19 DEF FindTunnelFails, Return, CallerGoes, Status
  <2>3. UNCHANGED executed
    BY <1>19 DEF FindTunnelFails
  <2>4. RPC!Abort({q})
    BY <2>1, <2>2, <2>3 DEF RPC!Abort
  <2> QED
    BY <2>4 DEF RPC!Next
<1>20. ASSUME NEW q \in Requests, RegisterPending(q)
       PROVE  RPC!Next \/ UNCHANGED RPC!vars
  <2>1. \A p \in Requests : Status(p)' = Status(p)
    BY <1>20 DEF RegisterPending, CallerGoes, Status
  <2>2. UNCHANGED executed
    BY <1>20 DEF RegisterPending
  <2> QED
    BY <2>1, <2>2
<1>21. ASSUME NEW q \in Requests, NotConnected(q)
       PROVE  RPC!Next \/ UNCHANGED RPC!vars
  <2>1. Status(q) = "called"
    BY <1>21 DEF NotConnected, Status
  <2>2. \A p \in Requests : Status(p)' = IF p = q THEN "refused" ELSE Status(p)
    BY <1>21 DEF NotConnected, Return, CallerGoes, Status
  <2>3. UNCHANGED executed
    BY <1>21 DEF NotConnected
  <2>4. RPC!Abort({q})
    BY <2>1, <2>2, <2>3 DEF RPC!Abort
  <2> QED
    BY <2>4 DEF RPC!Next
<1>33. ASSUME NEW q \in Requests, BeginWrite(q)
       PROVE  RPC!Next \/ UNCHANGED RPC!vars
  <2>1. \A p \in Requests : Status(p)' = Status(p)
    BY <1>33 DEF BeginWrite, CallerGoes, Status
  <2>2. UNCHANGED executed
    BY <1>33 DEF BeginWrite
  <2> QED
    BY <2>1, <2>2
<1>22. ASSUME NEW q \in Requests, Write(q)
       PROVE  RPC!Next \/ UNCHANGED RPC!vars
  <2>1. Status(q) = "called"
    BY <1>22 DEF Write, Status
  <2>2. \A p \in Requests : Status(p)' = IF p = q THEN "sent" ELSE Status(p)
    BY <1>22 DEF Write, CallerGoes, Status
  <2>3. UNCHANGED executed
    BY <1>22 DEF Write
  <2>4. RPC!Send(q)
    BY <2>1, <2>2, <2>3 DEF RPC!Send
  <2> QED
    BY <2>4 DEF RPC!Next
<1>23. ASSUME NEW q \in Requests, WriteFails(q)
       PROVE  RPC!Next \/ UNCHANGED RPC!vars
  <2>1. \A p \in Requests : Status(p)' = Status(p)
    BY <1>23 DEF WriteFails, CallerGoes, Status
  <2>2. UNCHANGED executed
    BY <1>23 DEF WriteFails
  <2> QED
    BY <2>1, <2>2
<1>24. ASSUME NEW q \in Requests, CloseAfterFailure(q)
       PROVE  RPC!Next \/ UNCHANGED RPC!vars
  <2>1. Status(q) = "called"
    BY <1>24 DEF CloseAfterFailure, Status
  <2>2. \A p \in Requests : Status(p)' = IF p = q THEN "refused" ELSE Status(p)
    BY <1>24 DEF CloseAfterFailure, Return, CallerGoes, Status
  <2>3. UNCHANGED executed
    BY <1>24 DEF CloseAfterFailure
  <2>4. RPC!Abort({q})
    BY <2>1, <2>2, <2>3 DEF RPC!Abort
  <2> QED
    BY <2>4 DEF RPC!Next
<1>25. ASSUME NEW q \in Requests, Receive(q)
       PROVE  RPC!Next \/ UNCHANGED RPC!vars
  <2>1. \A p \in Requests : Status(p)' = Status(p)
    BY <1>25 DEF Receive, Return, CallerGoes, Status
  <2>2. UNCHANGED executed
    BY <1>25 DEF Receive
  <2> QED
    BY <2>1, <2>2
<1>26. ASSUME NEW q \in Requests, GiveUp(q)
       PROVE  RPC!Next \/ UNCHANGED RPC!vars
  <2>1. \A p \in Requests : Status(p)' = Status(p)
    BY <1>26 DEF GiveUp, Return, CallerGoes, Status
  <2>2. UNCHANGED executed
    BY <1>26 DEF GiveUp
  <2> QED
    BY <2>1, <2>2
<1>27. ASSUME NEW q \in Requests, Unregister(q)
       PROVE  RPC!Next \/ UNCHANGED RPC!vars
  <2>1. \A p \in Requests : Status(p)' = IF p = q THEN outcome[q] ELSE Status(p)
    BY <1>27 DEF Unregister, CallerGoes, Status
  <2>2. UNCHANGED executed
    BY <1>27 DEF Unregister
  <2>3. CASE outcome[q] = "refused"
    <3>1. Status(q) = "refused"
      BY <2>3 DEF Status
    <3> QED
      BY <2>1, <2>2, <2>3, <3>1
  <2>4. CASE outcome[q] = "answered"
    <3>1. Status(q) = "sent" /\ q \in executed
      BY <1>27, <2>4 DEF Unregister, Status
    <3>2. RPC!Answer(q)
      BY <2>1, <2>2, <2>4, <3>1 DEF RPC!Answer
    <3> QED
      BY <3>2 DEF RPC!Next
  <2>5. CASE outcome[q] = "failed"
    <3>1. Status(q) = "sent"
      BY <1>27, <2>5 DEF Unregister, Status
    <3>2. RPC!Abort({q})
      BY <2>1, <2>2, <2>5, <3>1 DEF RPC!Abort
    <3> QED
      BY <3>2 DEF RPC!Next
  <2> QED
    BY <1>27, <2>3, <2>4, <2>5 DEF Unregister
<1>28. ASSUME ReadDetail
       PROVE  RPC!Next \/ UNCHANGED RPC!vars
  <2>1. UNCHANGED <<caller, outcome, executed>>
    BY <1>28 DEF ReadDetail, callVars
  <2> QED
    BY <2>1 DEF Status
<1>29. ASSUME NEW u \in URLs, WriteDetail(u)
       PROVE  RPC!Next \/ UNCHANGED RPC!vars
  <2>1. UNCHANGED <<caller, outcome, executed>>
    BY <1>29 DEF WriteDetail, callVars
  <2> QED
    BY <2>1 DEF Status
<1>30. ASSUME Delete
       PROVE  RPC!Next \/ UNCHANGED RPC!vars
  <2>1. UNCHANGED <<caller, outcome, executed>>
    BY <1>30 DEF Delete, callVars
  <2> QED
    BY <2>1 DEF Status
<1>31. ASSUME NEW m \in Members, Restart(m)
       PROVE  RPC!Next \/ UNCHANGED RPC!vars
  <2> DEFINE S == {q \in Requests : /\ target[q] = m
                                    /\ caller[q] # "done"
                                    /\ outcome[q] # "refused"}
  <2>1. \A q \in S : Status(q) \in {"new", "called", "sent"}
    BY DEF Status
  <2>2. \A q \in Requests \ S : Status(q)' = Status(q)
    BY <1>31 DEF Restart, Sent, Status
  <2>3. \A q \in S : Status(q)' = IF Status(q) = "sent" THEN "failed" ELSE "refused"
    BY <1>31 DEF Restart, Sent, Status
  <2>4. UNCHANGED executed
    BY <1>31 DEF Restart
  <2>5. RPC!Abort(S)
    BY <2>1, <2>2, <2>3, <2>4 DEF RPC!Abort
  <2> QED
    BY <2>5 DEF RPC!Next
<1>32. CASE UNCHANGED vars
  <2>1. UNCHANGED <<caller, outcome, executed>>
    BY <1>32 DEF vars, callVars
  <2> QED
    BY <2>1 DEF Status
<1> QED
    BY <1>1, <1>2, <1>3, <1>4, <1>5, <1>6, <1>7, <1>8, <1>9, <1>10, <1>11,
     <1>12, <1>13, <1>14, <1>15, <1>16, <1>17, <1>18, <1>19, <1>20, <1>21,
     <1>22, <1>23, <1>24, <1>25, <1>26, <1>27, <1>28, <1>29, <1>30, <1>31,
     <1>32, <1>33 DEF Next, HandlerProceeds, CallerProceeds

\* The tunnel implements TunnelRPC: at most once, and answered only if executed.
THEOREM Refinement == Spec => AtMostOnce
<1>1. Init => RPC!Init
  BY DEF Init, RPC!Init, Status
<1>2. IInv /\ [Next]_vars => [RPC!Next]_(RPC!vars)
  BY RefinementStep DEF IInv
<1> QED
  BY <1>1, <1>2, Invariance, PTL DEF AtMostOnce, RPC!Spec, Spec

==============================================================================
