---------------------------- MODULE TokenBuckets ------------------------------
(***************************************************************************)
(* What the rate limiter promises: every client has one bucket of tokens,  *)
(* for ever.  A request is let through for a token of its client's bucket, *)
(* and each bucket is refilled as time passes, up to its size.  Buckets    *)
(* and tokens are counted by the ticks that it takes to refill them.       *)
(*                                                                         *)
(* So in t ticks no client has more than (BucketSize + t) / TokenTime      *)
(* requests let through.                                                   *)
(***************************************************************************)

EXTENDS Naturals

CONSTANTS
    Clients,         \* clients, by their addresses
    Requests,        \* requests
    TokenTime,       \* what a token takes
    BucketSize       \* what a bucket holds

VARIABLES
    bucket,          \* bucket[c]: what there is in the bucket of c
    passed           \* the requests that are let through, with their clients

vars == <<bucket, passed>>

Least(a, b) == IF a <= b THEN a ELSE b

Init ==
    /\ bucket = [c \in Clients |-> BucketSize]
    /\ passed = {}

Pass(q, c) ==
    /\ \A p \in passed : p[1] # q
    /\ bucket[c] >= TokenTime
    /\ bucket' = [bucket EXCEPT ![c] = @ - TokenTime]
    /\ passed' = passed \union {<<q, c>>}

Serve(q, c) ==
    /\ <<q, c>> \in passed
    /\ passed' = passed \ {<<q, c>>}
    /\ UNCHANGED bucket

Refill ==
    /\ bucket' = [c \in Clients |-> Least(bucket[c] + 1, BucketSize)]
    /\ UNCHANGED passed

Next == Refill \/ \E q \in Requests, c \in Clients : Pass(q, c) \/ Serve(q, c)

Spec == Init /\ [][Next]_vars

===============================================================================
