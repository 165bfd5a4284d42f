----------------------------- MODULE RateLimiter ------------------------------
(***************************************************************************)
(* The rate limiter of the cluster connector, which every request passes   *)
(* before it is authenticated.                                             *)
(*                                                                         *)
(* Clients have a token bucket each, in a map that is guarded by a mutex.  *)
(* To save memory the map is limited, and a client that was not seen for   *)
(* some time is removed from it.  A request looks its client's limiter up  *)
(* under the mutex, and takes a token from it afterwards, without it: the  *)
(* limiter may no longer be in the map then.                               *)
(*                                                                         *)
(* The limiter itself is golang.org/x/time/rate's, which also holds parts  *)
(* of tokens.  Time passes in ticks, of any length, and what a limiter     *)
(* holds is counted in ticks too: by the time that it takes to refill it.  *)
(* What was seen t ticks ago was seen between t - 1 and t + 1 ticks ago.   *)
(***************************************************************************)

EXTENDS Naturals, FiniteSets

CONSTANTS
    Clients,         \* clients, by what extractClientIP takes for their address
    Requests,        \* requests, each of which may come again and again
    Limiters,        \* limiters in memory; one that nobody refers to is used again
    NoClient,        \* a request that is not under way
    NoLimiter,       \* no entry in the map, no limiter looked up
    TokenTime,       \* the ticks that a token takes: 1 / refillRate
    BucketSize,      \* those that a full limiter takes: bucketSize / refillRate
    ActiveInterval,  \* clientActiveInterval: after this, a client is inactive
    MaxClients,      \* how many clients the map holds
    MaxStall         \* bound: time from the look-up of a limiter to its use

ASSUME NoClientAssumption == NoClient \notin Clients
ASSUME NoLimiterAssumption == NoLimiter \notin Limiters
ASSUME TimesAssumption ==
    /\ {TokenTime, BucketSize, ActiveInterval, MaxStall} \subseteq Nat
    /\ 0 < TokenTime /\ TokenTime <= BucketSize

\* A bucket is full again before its client becomes inactive.  This is a
\* condition on the configuration that the code does not check.  (With the
\* values of scripts/setup-env.sh, 1000 tokens of 1 ms each and an interval of
\* 60 s, a stall may take 59 s.)
ASSUME RefilledAssumption == MaxStall + BucketSize <= ActiveInterval

VARIABLES
    limiter,         \* limiter[c]: that of client c, if it is in the map
    idle,            \* idle[c]: the time since c was seen
    tokens,          \* tokens[l]: what limiter l holds
    at,              \* at[q]: where request q is
    client,          \* client[q]: whose request it is
    using,           \* using[q]: the limiter it has looked up
    stall            \* stall[q]: the time since then

mapVars == <<limiter, idle>>
requestVars == <<at, client, using, stall>>
vars == <<mapVars, tokens, requestVars>>

States == {"new", "fetched", "passed", "limited", "refused"}

\* The type of the state.
TypeOK ==
    /\ limiter \in [Clients -> Limiters \union {NoLimiter}]
    /\ idle \in [Clients -> 0..(ActiveInterval + 1)]
    /\ tokens \in [Limiters -> 0..BucketSize]
    /\ at \in [Requests -> States]
    /\ client \in [Requests -> Clients \union {NoClient}]
    /\ using \in [Requests -> Limiters \union {NoLimiter}]
    /\ stall \in [Requests -> 0..MaxStall]

Init ==
    /\ limiter = [c \in Clients |-> NoLimiter]
    /\ idle = [c \in Clients |-> 0]
    /\ tokens = [l \in Limiters |-> BucketSize]
    /\ at = [q \in Requests |-> "new"]
    /\ client = [q \in Requests |-> NoClient]
    /\ using = [q \in Requests |-> NoLimiter]
    /\ stall = [q \in Requests |-> 0]

-------------------------------------------------------------------------------
(***************************************************************************)
(* A request q: RateLimitMiddleware and CheckLimit.                        *)
(***************************************************************************)

Known == {c \in Clients : limiter[c] # NoLimiter}

Unused(l) ==
    /\ \A c \in Clients : limiter[c] # l
    /\ \A q \in Requests : using[q] # l

Uses(q, c, l) ==
    /\ at' = [at EXCEPT ![q] = "fetched"]
    /\ client' = [client EXCEPT ![q] = c]
    /\ using' = [using EXCEPT ![q] = l]
    /\ UNCHANGED stall

\* Fault: a client that is known is not noted as seen again.
FetchUnseen(q, c) ==
    /\ at[q] = "new"
    /\ c \in Known
    /\ Uses(q, c, limiter[c])
    /\ UNCHANGED <<mapVars, tokens>>

\* Its client is known: it is seen now.
Fetch(q, c) ==
    /\ at[q] = "new"
    /\ c \in Known
    /\ Uses(q, c, limiter[c])
    /\ idle' = [idle EXCEPT ![c] = 0]
    /\ UNCHANGED <<limiter, tokens>>

\* Fault: the limiter may be one that another client has.
CreateShared(q, c, l) ==
    /\ at[q] = "new"
    /\ c \notin Known
    /\ Cardinality(Known) < MaxClients
    /\ limiter' = [limiter EXCEPT ![c] = l]
    /\ idle' = [idle EXCEPT ![c] = 0]
    /\ tokens' = [tokens EXCEPT ![l] = BucketSize]
    /\ Uses(q, c, l)

\* It is not, and there is room for it: it gets a limiter, and a full bucket.
Create(q, c, l) ==
    /\ at[q] = "new"
    /\ c \notin Known
    /\ Cardinality(Known) < MaxClients
    /\ Unused(l)
    /\ limiter' = [limiter EXCEPT ![c] = l]
    /\ idle' = [idle EXCEPT ![c] = 0]
    /\ tokens' = [tokens EXCEPT ![l] = BucketSize]
    /\ Uses(q, c, l)

\* There is none: the request is answered with an internal server error.
Refuse(q, c) ==
    /\ at[q] = "new"
    /\ c \notin Known
    /\ Cardinality(Known) >= MaxClients
    /\ at' = [at EXCEPT ![q] = "refused"]
    /\ client' = [client EXCEPT ![q] = c]
    /\ UNCHANGED <<mapVars, tokens, using, stall>>

Answer(q, to) ==
    /\ at' = [at EXCEPT ![q] = to]
    /\ using' = [using EXCEPT ![q] = NoLimiter]
    /\ stall' = [stall EXCEPT ![q] = 0]
    /\ UNCHANGED <<mapVars, client>>

\* Fault: two requests find the same last token.
AllowUnchecked(q) ==
    /\ at[q] = "fetched"
    /\ tokens' = [tokens EXCEPT ![using[q]] = @ - TokenTime]
    /\ Answer(q, "passed")

\* Limiter.Allow takes a token, and the request goes on to its handler; ...
Allow(q) ==
    /\ at[q] = "fetched"
    /\ tokens[using[q]] >= TokenTime
    /\ tokens' = [tokens EXCEPT ![using[q]] = @ - TokenTime]
    /\ Answer(q, "passed")

\* ... or finds none, and it is told to retry later.
Limit(q) ==
    /\ at[q] = "fetched"
    /\ tokens[using[q]] < TokenTime
    /\ UNCHANGED tokens
    /\ Answer(q, "limited")

\* It has been served.
End(q) ==
    /\ at[q] \in {"passed", "limited", "refused"}
    /\ at' = [at EXCEPT ![q] = "new"]
    /\ client' = [client EXCEPT ![q] = NoClient]
    /\ UNCHANGED <<mapVars, tokens, using, stall>>

-------------------------------------------------------------------------------
(***************************************************************************)
(* Time, and the goroutine that removes inactive clients.                  *)
(***************************************************************************)

Least(a, b) == IF a <= b THEN a ELSE b

\* A tick: each limiter gets what it refills.  Nobody waits longer than
\* MaxStall between a look-up and the use of what it found.
Tick ==
    /\ \A q \in Requests : at[q] = "fetched" => stall[q] < MaxStall
    /\ tokens' = [l \in Limiters |-> Least(tokens[l] + 1, BucketSize)]
    /\ idle' = [c \in Clients |->
                    IF c \in Known THEN Least(idle[c] + 1, ActiveInterval + 1) ELSE 0]
    /\ stall' = [q \in Requests |-> IF at[q] = "fetched" THEN stall[q] + 1 ELSE 0]
    /\ UNCHANGED <<limiter, at, client, using>>

\* The clients seen longer ago than ActiveInterval, whatever the rest of a tick
\* comes to, and those that may have been: less than a tick is enough.
Inactive(c) == c \in Known /\ idle[c] > ActiveInterval
MayBeInactive(c) == c \in Known /\ idle[c] >= ActiveInterval

Removed(gone) ==
    /\ limiter' = [c \in Clients |-> IF c \in gone THEN NoLimiter ELSE limiter[c]]
    /\ idle' = [c \in Clients |-> IF c \in gone THEN 0 ELSE idle[c]]
    /\ UNCHANGED <<tokens, requestVars>>

\* Fault: clients are only removed when there is no room for another.
CleanupWhenFull(gone) ==
    /\ Cardinality(Known) >= MaxClients
    /\ gone # {}
    /\ \A c \in gone : MayBeInactive(c)
    /\ \A c \in Clients : Inactive(c) => c \in gone
    /\ Removed(gone)

\* All inactive clients are removed; one whose limiter a request has looked
\* up is not spared.
Cleanup(gone) ==
    /\ gone # {}
    /\ \A c \in gone : MayBeInactive(c)
    /\ \A c \in Clients : Inactive(c) => c \in gone
    /\ Removed(gone)

-------------------------------------------------------------------------------
Next ==
    \/ Tick
    \/ \E gone \in SUBSET Clients : Cleanup(gone)
    \/ \E q \in Requests :
        \/ Allow(q) \/ Limit(q) \/ End(q)
        \/ \E c \in Clients :
            \/ Fetch(q, c) \/ Refuse(q, c)
            \/ \E l \in Limiters : Create(q, c, l)

Spec == Init /\ [][Next]_vars

(***************************************************************************)
(* Fairness: the goroutine of cleanupLoop is woken again and again.        *)
(***************************************************************************)
FairSpec == Spec /\ WF_vars(\E gone \in SUBSET Clients : Cleanup(gone))

-------------------------------------------------------------------------------
(***************************************************************************)
(* Correctness.                                                            *)
(***************************************************************************)

\* A request takes its token from the limiter that is in the map for its
\* client, although it looked it up before, and the client may have been
\* removed and come back since.
UsesTheOneInTheMap ==
    \A q \in Requests : at[q] = "fetched" => using[q] = limiter[client[q]]

\* The refinement mapping: a client that is not in the map has a full bucket.
Bucket(c) == IF c \in Known THEN tokens[limiter[c]] ELSE BucketSize
Passed == {<<q, client[q]>> : q \in {p \in Requests : at[p] = "passed"}}

Buckets == INSTANCE TokenBuckets WITH
    bucket <- [c \in Clients |-> Bucket(c)], passed <- Passed

\* That clients are removed from the map and get a new limiter when they
\* come back gives nobody a token more: the limiter is as good as one that
\* keeps a bucket for every client for ever.
NeverForgets == Buckets!Spec

\* A client that stays inactive makes room for another.
InactiveLeave == \A c \in Clients : Inactive(c) ~> ~Inactive(c)

-------------------------------------------------------------------------------
(***************************************************************************)
(* The inductive invariant of the proofs.                                  *)
(***************************************************************************)

\* No two clients share a limiter.
OwnLimiterInv == \A c, d \in Known : limiter[c] = limiter[d] => c = d

\* A request that has looked a limiter up uses its client's, and the client
\* was not seen longer ago than that.
UsingInv ==
    \A q \in Requests : at[q] = "fetched" =>
        /\ client[q] \in Known
        /\ using[q] = limiter[client[q]]
        /\ idle[client[q]] <= stall[q]

\* A request that was let through has a client.
PassedInv == \A q \in Requests : at[q] = "passed" => client[q] \in Clients

\* A bucket fills up as long as its client is not seen.
FillsInv ==
    \A c \in Known :
        tokens[limiter[c]] = BucketSize \/ idle[c] <= tokens[limiter[c]] + MaxStall

IInv == TypeOK /\ OwnLimiterInv /\ UsingInv /\ PassedInv /\ FillsInv

===============================================================================
