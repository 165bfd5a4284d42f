--------------------------- MODULE RateLimiterProofs ---------------------------
(***************************************************************************)
(* Proofs about RateLimiter, for every set of clients and of requests, and *)
(* all times that meet RefilledAssumption.  IInv is inductive.  A client   *)
(* is only removed when its bucket is full (FillsInv), and not while a     *)
(* request has its limiter (UsingInv): this is what RefinementStep takes.  *)
(***************************************************************************)
EXTENDS RateLimiter, TLAPS

LEMMA InitIInv == Init => IInv
BY NoClientAssumption, NoLimiterAssumption, TimesAssumption
   DEF Init, IInv, TypeOK, States, Known, OwnLimiterInv, UsingInv,
       PassedInv, FillsInv

\* Every step keeps the state in its type.
LEMMA TypeStep ==
  ASSUME TypeOK, UsingInv, [Next]_vars
  PROVE  TypeOK'
<1> USE NoClientAssumption, NoLimiterAssumption, TimesAssumption,
   RefilledAssumption DEF TypeOK, States, Known, UsingInv
<1>1. ASSUME Tick
      PROVE  TypeOK'
  BY <1>1 DEF Tick, Least, mapVars, requestVars
<1>2. ASSUME NEW gone \in SUBSET Clients, Cleanup(gone)
      PROVE  TypeOK'
  BY <1>2 DEF Cleanup, Removed, MayBeInactive, mapVars, requestVars
<1>3. ASSUME NEW q \in Requests, Allow(q)
      PROVE  TypeOK'
  BY <1>3 DEF Allow, Answer, mapVars, requestVars
<1>4. ASSUME NEW q \in Requests, Limit(q)
      PROVE  TypeOK'
  BY <1>4 DEF Limit, Answer, mapVars, requestVars
<1>5. ASSUME NEW q \in Requests, End(q)
      PROVE  TypeOK'
  BY <1>5 DEF End, mapVars, requestVars
<1>6. ASSUME NEW q \in Requests, NEW c \in Clients, Fetch(q, c)
      PROVE  TypeOK'
  BY <1>6 DEF Fetch, Uses, mapVars, requestVars
<1>7. ASSUME NEW q \in Requests, NEW c \in Clients, Refuse(q, c)
      PROVE  TypeOK'
  BY <1>7 DEF Refuse, mapVars, requestVars
<1>8. ASSUME NEW q \in Requests, NEW c \in Clients, NEW l \in Limiters, Create(q, c, l)
      PROVE  TypeOK'
  BY <1>8 DEF Create, Uses, mapVars, requestVars
<1>9. CASE UNCHANGED vars
  BY <1>9 DEF vars, mapVars, requestVars
<1> QED
  BY <1>1, <1>2, <1>3, <1>4, <1>5, <1>6, <1>7, <1>8, <1>9 DEF Next

\* A limiter that is handed out is nobody else's.
LEMMA OwnLimiterStep ==
  ASSUME TypeOK, OwnLimiterInv, [Next]_vars
  PROVE  OwnLimiterInv'
<1> USE NoClientAssumption, NoLimiterAssumption, TimesAssumption,
   RefilledAssumption DEF TypeOK, OwnLimiterInv, Known, Unused
<1>1. ASSUME Tick
      PROVE  OwnLimiterInv'
  BY <1>1 DEF Tick, Least, mapVars, requestVars
<1>2. ASSUME NEW gone \in SUBSET Clients, Cleanup(gone)
      PROVE  OwnLimiterInv'
  BY <1>2 DEF Cleanup, Removed, MayBeInactive, mapVars, requestVars
<1>3. ASSUME NEW q \in Requests, Allow(q)
      PROVE  OwnLimiterInv'
  BY <1>3 DEF Allow, Answer, mapVars, requestVars
<1>4. ASSUME NEW q \in Requests, Limit(q)
      PROVE  OwnLimiterInv'
  BY <1>4 DEF Limit, Answer, mapVars, requestVars
<1>5. ASSUME NEW q \in Requests, End(q)
      PROVE  OwnLimiterInv'
  BY <1>5 DEF End, mapVars, requestVars
<1>6. ASSUME NEW q \in Requests, NEW c \in Clients, Fetch(q, c)
      PROVE  OwnLimiterInv'
  BY <1>6 DEF Fetch, Uses, mapVars, requestVars
<1>7. ASSUME NEW q \in Requests, NEW c \in Clients, Refuse(q, c)
      PROVE  OwnLimiterInv'
  BY <1>7 DEF Refuse, mapVars, requestVars
<1>8. ASSUME NEW q \in Requests, NEW c \in Clients, NEW l \in Limiters, Create(q, c, l)
      PROVE  OwnLimiterInv'
  BY <1>8 DEF Create, Uses, mapVars, requestVars
<1>9. CASE UNCHANGED vars
  BY <1>9 DEF vars, mapVars, requestVars
<1> QED
  BY <1>1, <1>2, <1>3, <1>4, <1>5, <1>6, <1>7, <1>8, <1>9 DEF Next

\* A client whose limiter is in use was seen too recently to be inactive.
LEMMA UsingStep ==
  ASSUME TypeOK, OwnLimiterInv, UsingInv, [Next]_vars
  PROVE  UsingInv'
<1> USE NoClientAssumption, NoLimiterAssumption, TimesAssumption,
   RefilledAssumption DEF TypeOK, States, UsingInv, Known, Unused
<1>1. ASSUME Tick
      PROVE  UsingInv'
  BY <1>1 DEF Tick, Least, mapVars, requestVars
<1>2. ASSUME NEW gone \in SUBSET Clients, Cleanup(gone)
      PROVE  UsingInv'
  BY <1>2 DEF Cleanup, Removed, MayBeInactive, mapVars, requestVars
<1>3. ASSUME NEW q \in Requests, Allow(q)
      PROVE  UsingInv'
  BY <1>3 DEF Allow, Answer, mapVars, requestVars
<1>4. ASSUME NEW q \in Requests, Limit(q)
      PROVE  UsingInv'
  BY <1>4 DEF Limit, Answer, mapVars, requestVars
<1>5. ASSUME NEW q \in Requests, End(q)
      PROVE  UsingInv'
  BY <1>5 DEF End, mapVars, requestVars
<1>6. ASSUME NEW q \in Requests, NEW c \in Clients, Fetch(q, c)
      PROVE  UsingInv'
  BY <1>6 DEF Fetch, Uses, mapVars, requestVars
<1>7. ASSUME NEW q \in Requests, NEW c \in Clients, Refuse(q, c)
      PROVE  UsingInv'
  BY <1>7 DEF Refuse, mapVars, requestVars
<1>8. ASSUME NEW q \in Requests, NEW c \in Clients, NEW l \in Limiters, Create(q, c, l)
      PROVE  UsingInv'
  BY <1>8 DEF Create, Uses, mapVars, requestVars
<1>9. CASE UNCHANGED vars
  BY <1>9 DEF vars, mapVars, requestVars
<1> QED
  BY <1>1, <1>2, <1>3, <1>4, <1>5, <1>6, <1>7, <1>8, <1>9 DEF Next

\* A request that is let through was one of a client.
LEMMA PassedStep ==
  ASSUME TypeOK, UsingInv, PassedInv, [Next]_vars
  PROVE  PassedInv'
<1> USE NoClientAssumption, NoLimiterAssumption, TimesAssumption,
   RefilledAssumption DEF TypeOK, States, UsingInv, PassedInv, Known
<1>1. ASSUME Tick
      PROVE  PassedInv'
  BY <1>1 DEF Tick, Least, mapVars, requestVars
<1>2. ASSUME NEW gone \in SUBSET Clients, Cleanup(gone)
      PROVE  PassedInv'
  BY <1>2 DEF Cleanup, Removed, MayBeInactive, mapVars, requestVars
<1>3. ASSUME NEW q \in Requests, Allow(q)
      PROVE  PassedInv'
  BY <1>3 DEF Allow, Answer, mapVars, requestVars
<1>4. ASSUME NEW q \in Requests, Limit(q)
      PROVE  PassedInv'
  BY <1>4 DEF Limit, Answer, mapVars, requestVars
<1>5. ASSUME NEW q \in Requests, End(q)
      PROVE  PassedInv'
  BY <1>5 DEF End, mapVars, requestVars
<1>6. ASSUME NEW q \in Requests, NEW c \in Clients, Fetch(q, c)
      PROVE  PassedInv'
  BY <1>6 DEF Fetch, Uses, mapVars, requestVars
<1>7. ASSUME NEW q \in Requests, NEW c \in Clients, Refuse(q, c)
      PROVE  PassedInv'
  BY <1>7 DEF Refuse, mapVars, requestVars
<1>8. ASSUME NEW q \in Requests, NEW c \in Clients, NEW l \in Limiters, Create(q, c, l)
      PROVE  PassedInv'
  BY <1>8 DEF Create, Uses, mapVars, requestVars
<1>9. CASE UNCHANGED vars
  BY <1>9 DEF vars, mapVars, requestVars
<1> QED
  BY <1>1, <1>2, <1>3, <1>4, <1>5, <1>6, <1>7, <1>8, <1>9 DEF Next

\* A token is only taken for a client that was seen in the last MaxStall.
LEMMA FillsStep ==
  ASSUME TypeOK, OwnLimiterInv, UsingInv, FillsInv, [Next]_vars
  PROVE  FillsInv'
<1> USE NoClientAssumption, NoLimiterAssumption, TimesAssumption,
   RefilledAssumption DEF TypeOK, OwnLimiterInv, UsingInv, FillsInv, Known,
   Unused
<1>1. ASSUME Tick
      PROVE  FillsInv'
  BY <1>1 DEF Tick, Least, mapVars, requestVars
<1>2. ASSUME NEW gone \in SUBSET Clients, Cleanup(gone)
      PROVE  FillsInv'
  BY <1>2 DEF Cleanup, Removed, MayBeInactive, mapVars, requestVars
<1>3. ASSUME NEW q \in Requests, Allow(q)
      PROVE  FillsInv'
  BY <1>3 DEF Allow, Answer, mapVars, requestVars
<1>4. ASSUME NEW q \in Requests, Limit(q)
      PROVE  FillsInv'
  BY <1>4 DEF Limit, Answer, mapVars, requestVars
<1>5. ASSUME NEW q \in Requests, End(q)
      PROVE  FillsInv'
  BY <1>5 DEF End, mapVars, requestVars
<1>6. ASSUME NEW q \in Requests, NEW c \in Clients, Fetch(q, c)
      PROVE  FillsInv'
  BY <1>6 DEF Fetch, Uses, mapVars, requestVars
<1>7. ASSUME NEW q \in Requests, NEW c \in Clients, Refuse(q, c)
      PROVE  FillsInv'
  BY <1>7 DEF Refuse, mapVars, requestVars
<1>8. ASSUME NEW q \in Requests, NEW c \in Clients, NEW l \in Limiters, Create(q, c, l)
      PROVE  FillsInv'
  BY <1>8 DEF Create, Uses, mapVars, requestVars
<1>9. CASE UNCHANGED vars
  BY <1>9 DEF vars, mapVars, requestVars
<1> QED
  BY <1>1, <1>2, <1>3, <1>4, <1>5, <1>6, <1>7, <1>8, <1>9 DEF Next

LEMMA Induction == IInv /\ [Next]_vars => IInv'
BY TypeStep, OwnLimiterStep, UsingStep, PassedStep, FillsStep DEF IInv

THEOREM Invariance == Spec => []IInv
BY InitIInv, Induction, PTL DEF Spec

\* The state keeps its type; the tokens of a limiter are never negative.
THEOREM Typing == Spec => []TypeOK
<1>1. IInv => TypeOK
  BY DEF IInv
<1> QED
  BY <1>1, Invariance, PTL

\* A request uses the limiter that the map has for its client.
THEOREM OneLimiter == Spec => []UsesTheOneInTheMap
<1>1. IInv => UsesTheOneInTheMap
  BY DEF IInv, UsingInv, UsesTheOneInTheMap
<1> QED
  BY <1>1, Invariance, PTL

-------------------------------------------------------------------------------
\* A client that is removed from the map has a full bucket.
LEMMA InactiveIsFull ==
  ASSUME IInv, NEW c \in Clients, MayBeInactive(c)
  PROVE  tokens[limiter[c]] = BucketSize
<1>1. idle[c] >= ActiveInterval /\ idle[c] \in Nat /\ tokens[limiter[c]] \in 0..BucketSize
  BY TimesAssumption DEF IInv, TypeOK, MayBeInactive, Known
<1>2. tokens[limiter[c]] = BucketSize \/ idle[c] <= tokens[limiter[c]] + MaxStall
  BY DEF IInv, FillsInv, MayBeInactive
<1> QED
  BY <1>1, <1>2, TimesAssumption, RefilledAssumption

LEMMA StutterStep ==
  ASSUME \A c \in Clients : Bucket(c)' = Bucket(c), Passed' = Passed
  PROVE  UNCHANGED Buckets!vars
BY DEF Buckets!vars

\* Every step is a step of the buckets, or none.
LEMMA RefinementStep ==
  ASSUME IInv, IInv', [Next]_vars
  PROVE  Buckets!Next \/ UNCHANGED Buckets!vars
<1> USE NoClientAssumption, NoLimiterAssumption, TimesAssumption DEF IInv, TypeOK, Known,
   Bucket
<1>1. ASSUME Tick
      PROVE  Buckets!Next
  <2>1. Passed' = Passed
    BY <1>1 DEF Tick, Passed
  <2>2. \A c \in Clients : Bucket(c)' = Buckets!Least(Bucket(c) + 1, BucketSize)
    BY <1>1 DEF Tick, Least, Buckets!Least
  <2>3. Buckets!Refill
    BY <2>1, <2>2 DEF Buckets!Refill
  <2> QED
    BY <2>3 DEF Buckets!Next
<1>2. ASSUME NEW gone \in SUBSET Clients, Cleanup(gone)
      PROVE  UNCHANGED Buckets!vars
  <2>1. Passed' = Passed
    BY <1>2 DEF Cleanup, Removed, Passed, requestVars
  <2>2. ASSUME NEW c \in Clients
        PROVE  Bucket(c)' = Bucket(c)
    <3>1. CASE c \in gone
      BY <1>2, <3>1, InactiveIsFull DEF Cleanup, Removed
    <3>2. CASE c \notin gone
      BY <1>2, <3>2 DEF Cleanup, Removed
    <3> QED
      BY <3>1, <3>2
  <2> QED
    BY <2>1, <2>2, StutterStep
<1>3. ASSUME NEW q \in Requests, Allow(q)
      PROVE  Buckets!Next
  <2>1. PICK d \in Clients : d = client[q] /\ d \in Known /\ using[q] = limiter[d]
    BY <1>3 DEF Allow, UsingInv
  <2>2. /\ Bucket(d) >= TokenTime
        /\ \A c \in Clients : Bucket(c)' = IF c = d THEN Bucket(c) - TokenTime ELSE Bucket(c)
    BY <1>3, <2>1 DEF Allow, Answer, mapVars, OwnLimiterInv
  <2>3. at[q] # "passed" /\ \A p \in Passed : p[1] # q
    BY <1>3 DEF Allow, Passed
  <2>4. Passed' = Passed \union {<<q, d>>}
    BY <1>3, <2>1, <2>3 DEF Allow, Answer, Passed
  <2>5. [c \in Clients |-> Bucket(c)]' = [[c \in Clients |-> Bucket(c)] EXCEPT ![d] = @ - TokenTime]
    BY <2>2
  <2>6. Buckets!Pass(q, d)
    BY <2>2, <2>3, <2>4, <2>5 DEF Buckets!Pass
  <2> QED
    BY <2>6 DEF Buckets!Next
<1>4. ASSUME NEW q \in Requests, Limit(q)
      PROVE  UNCHANGED Buckets!vars
  <2>1. Passed' = Passed
    BY <1>4 DEF Limit, Answer, Passed
  <2>2. \A c \in Clients : Bucket(c)' = Bucket(c)
    BY <1>4 DEF Limit, Answer, mapVars
  <2> QED
    BY <2>1, <2>2, StutterStep
<1>5. ASSUME NEW q \in Requests, End(q)
      PROVE  Buckets!Next \/ UNCHANGED Buckets!vars
  <2>1. \A c \in Clients : Bucket(c)' = Bucket(c)
    BY <1>5 DEF End, mapVars
  <2>2. CASE at[q] = "passed" /\ client[q] \in Clients
    <3>1. <<q, client[q]>> \in Passed
      BY <2>2 DEF Passed
    <3>2. Passed' = Passed \ {<<q, client[q]>>}
      BY <1>5, <2>2 DEF End, Passed
    <3>3. Buckets!Serve(q, client[q])
      BY <2>1, <3>1, <3>2 DEF Buckets!Serve
    <3> QED
      BY <2>2, <3>3 DEF Buckets!Next
  <2>3. CASE at[q] # "passed"
    <3>1. Passed' = Passed
      BY <1>5, <2>3 DEF End, Passed
    <3> QED
      BY <2>1, <3>1, StutterStep
  <2> QED
    BY <2>2, <2>3 DEF PassedInv
<1>6. ASSUME NEW q \in Requests, NEW c \in Clients, Fetch(q, c)
      PROVE  UNCHANGED Buckets!vars
  <2>1. Passed' = Passed
    BY <1>6 DEF Fetch, Uses, Passed
  <2>2. \A d \in Clients : Bucket(d)' = Bucket(d)
    BY <1>6 DEF Fetch
  <2> QED
    BY <2>1, <2>2, StutterStep
<1>7. ASSUME NEW q \in Requests, NEW c \in Clients, Refuse(q, c)
      PROVE  UNCHANGED Buckets!vars
  <2>1. Passed' = Passed
    BY <1>7 DEF Refuse, Passed
  <2>2. \A d \in Clients : Bucket(d)' = Bucket(d)
    BY <1>7 DEF Refuse, mapVars
  <2> QED
    BY <2>1, <2>2, StutterStep
<1>8. ASSUME NEW q \in Requests, NEW c \in Clients, NEW l \in Limiters, Create(q, c, l)
      PROVE  UNCHANGED Buckets!vars
  <2>1. Passed' = Passed
    BY <1>8 DEF Create, Uses, Passed
  <2>2. \A d \in Clients : Bucket(d)' = Bucket(d)
    BY <1>8 DEF Create, Unused
  <2> QED
    BY <2>1, <2>2, StutterStep
<1>9. CASE UNCHANGED vars
  BY <1>9, StutterStep DEF vars, mapVars, requestVars, Passed
<1> QED
  BY <1>1, <1>2, <1>3, <1>4, <1>5, <1>6, <1>7, <1>8, <1>9 DEF Next

\* That inactive clients are removed gives nobody a token more.
THEOREM Refinement == Spec => NeverForgets
<1>1. Init => Buckets!Init
  BY DEF Init, Buckets!Init, Bucket, Known, Passed
<1>2. IInv /\ IInv' /\ [Next]_vars => [Buckets!Next]_(Buckets!vars)
  BY RefinementStep
<1> QED
  BY <1>1, <1>2, Invariance, PTL DEF Spec, NeverForgets, Buckets!Spec

===============================================================================
