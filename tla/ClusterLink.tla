----------------------------- MODULE ClusterLink ------------------------------
(***************************************************************************)
(* Creating cluster links: remoteClusterLinksPost.                         *)
(*                                                                         *)
(* A saga links a source cluster to a target cluster with two requests     *)
(* over the tunnels.  The first leaves something pending; the second makes *)
(* it active; when the second fails, a third is to remove what the first   *)
(* left:                                                                   *)
(*                                                                         *)
(*                    first                 second                         *)
(*   bidirectional    link on the source    link on the target             *)
(*   unidirectional   identity on target    link on the source             *)
(*   public           link on the source    the same link, confirmed       *)
(*                                                                         *)
(* The requests do what TunnelRPC promises of them and no more; Tunnel     *)
(* implements it.  What a remote cluster does with a request is external.  *)
(***************************************************************************)

EXTENDS Naturals

CONSTANTS
    Clusters,        \* remote clusters
    Names,           \* names that users give to links
    Sagas,           \* calls of remoteClusterLinksPost
    NoSaga,          \* a name that nothing has
    NoLink           \* a saga that has not begun

ASSUME NoSagaAssumption == NoSaga \notin Sagas

VARIABLES
    link,            \* link[s]: type, source, target and name of the link of s
    at,              \* at[s]: the request the handler of s waits for, or how it ended
    status,          \* of the requests, as in TunnelRPC
    executed,        \* the requests executed, as in TunnelRPC
    granted,         \* the requests executed with success
    owner,           \* owner[x]: the saga that made x on a remote cluster
    active,          \* those that are not pending any more
    removed          \* sagas of which a user has removed something

sagaVars == <<link, at>>
rpcVars == <<status, executed>>
clusterVars == <<granted, owner, active>>
vars == <<sagaVars, rpcVars, clusterVars, removed>>

Types == {"bidirectional", "unidirectional", "public"}
Links == [type : Types, source : Clusters, target : Clusters, name : Clusters \union Names]

Steps == {"first", "second", "cleanup"}
Ends == {"linked", "failed", "dead"}
Requests == Sagas \X Steps
RPC == INSTANCE TunnelRPC

\* What a cluster keeps under a name.
Things == Clusters \X {"link", "identity"} \X (Clusters \union Names)

\* What the first request of a saga leaves pending ...
Pending(s) ==
    IF link[s].type = "unidirectional"
    THEN <<link[s].target, "identity", link[s].source>>
    ELSE <<link[s].source, "link", link[s].name>>

\* ... and what the second makes of it.
Activated(s) ==
    CASE link[s].type = "bidirectional" -> <<link[s].target, "link", link[s].source>>
      [] link[s].type = "unidirectional" -> <<link[s].source, "link", link[s].name>>
      [] OTHER -> Pending(s)

\* The type of the state.
TypeOK ==
    /\ link \in [Sagas -> Links \union {NoLink}]
    /\ at \in [Sagas -> Steps \union Ends \union {"idle"}]
    /\ status \in [Requests -> {"new", "called", "sent", "answered", "refused", "failed"}]
    /\ executed \subseteq Requests
    /\ granted \subseteq executed
    /\ owner \in [Things -> Sagas \union {NoSaga}]
    /\ active \subseteq Things
    /\ removed \subseteq Sagas

Init ==
    /\ link = [s \in Sagas |-> NoLink]
    /\ at = [s \in Sagas |-> "idle"]
    /\ RPC!Init
    /\ granted = {}
    /\ owner = [x \in Things |-> NoSaga]
    /\ active = {}
    /\ removed = {}

-------------------------------------------------------------------------------
(***************************************************************************)
(* The handler of a saga s.                                                *)
(***************************************************************************)

\* The handler sends its next request, or returns.
Ask(s, step) ==
    /\ at' = [at EXCEPT ![s] = step]
    /\ RPC!Call(<<s, step>>)
    /\ UNCHANGED <<clusterVars, removed>>

Return(s, end) ==
    /\ at' = [at EXCEPT ![s] = end]
    /\ UNCHANGED <<link, rpcVars, clusterVars, removed>>

Answered(s, step) == at[s] = step /\ status[<<s, step>>] = "answered"
Granted(s, step) == Answered(s, step) /\ <<s, step>> \in granted

\* An error: of the tunnel, or of the remote cluster.
Failed(s, step) ==
    /\ at[s] = step
    /\ \/ status[<<s, step>>] \in {"refused", "failed"}
       \/ Answered(s, step) /\ <<s, step>> \notin granted

\* The request is well formed and the preflight of both clusters passes; a
\* link that is given no name is named after the target.
Begin(s, l) ==
    /\ at[s] = "idle"
    /\ l.source # l.target
    /\ l.name \in Names \union {l.target}
    /\ link' = [link EXCEPT ![s] = l]
    /\ Ask(s, "first")

\* The request is malformed, a cluster does not meet the requirements of the
\* type, or the address or the fingerprint of a public target is not known.
Refuse(s) == at[s] = "idle" /\ Return(s, "failed")

\* The trust token, or the fingerprint, is taken from the answer.
FirstGranted(s) == Granted(s, "first") /\ Ask(s, "second") /\ UNCHANGED link

\* There is none in it, or the fingerprint is not that of the target.
FirstUnusable(s) == Granted(s, "first") /\ Ask(s, "cleanup") /\ UNCHANGED link

\* Fault: the cleanup is deferred before the error is looked at.
FirstFailsCleaningUp(s) == Failed(s, "first") /\ Ask(s, "cleanup") /\ UNCHANGED link

\* Nothing is cleaned up, although a request that timed out may have left
\* something pending.
FirstFails(s) == Failed(s, "first") /\ Return(s, "failed")

\* Fault: the cleanup is not called off.
SecondGrantedCleaningUp(s) == Granted(s, "second") /\ Ask(s, "cleanup") /\ UNCHANGED link

SecondGranted(s) == Granted(s, "second") /\ Return(s, "linked")

\* Fault: no cleanup.
SecondFailsAndLeaves(s) == Failed(s, "second") /\ Return(s, "failed")

SecondFails(s) == Failed(s, "second") /\ Ask(s, "cleanup") /\ UNCHANGED link

\* Whatever became of it.
CleanupEnds(s) ==
    /\ Answered(s, "cleanup") \/ Failed(s, "cleanup")
    /\ Return(s, "failed")

\* The replica that runs the handler dies.
Die(s) ==
    /\ at[s] \in Steps
    /\ RPC!Abort({<<s, at[s]>>} \intersect {q \in Requests : status[q] \in {"called", "sent"}})
    /\ at' = [at EXCEPT ![s] = "dead"]
    /\ UNCHANGED <<link, clusterVars, removed>>

-------------------------------------------------------------------------------
(***************************************************************************)
(* The tunnels: TunnelRPC.                                                 *)
(***************************************************************************)

Fails(q) == status[q] \in {"called", "sent"} /\ RPC!Abort({q})

Tunnels(q) ==
    /\ RPC!Send(q) \/ RPC!Answer(q) \/ Fails(q)
    /\ UNCHANGED <<sagaVars, clusterVars, removed>>

-------------------------------------------------------------------------------
(***************************************************************************)
(* The remote clusters (external).                                         *)
(***************************************************************************)

Free(x) == owner[x] = NoSaga

\* A request is carried out: from now on owned are the saga's, act active.
Grant(q) == RPC!Execute(q) /\ granted' = granted \union {q} /\ UNCHANGED <<sagaVars, removed>>

ExecuteFirst(s) ==
    /\ Grant(<<s, "first">>)
    /\ Free(Pending(s))
    /\ owner' = [owner EXCEPT ![Pending(s)] = s]
    /\ UNCHANGED active

\* The trust token proves that what is pending is of this saga, the
\* fingerprint proves nothing of the kind.
ExecuteSecond(s) ==
    /\ Grant(<<s, "second">>)
    /\ Pending(s) \notin active
    /\ IF link[s].type = "public"
       THEN ~Free(Pending(s)) /\ UNCHANGED owner
       ELSE /\ owner[Pending(s)] = s /\ Free(Activated(s))
            /\ owner' = [owner EXCEPT ![Activated(s)] = s]
    /\ active' = active \union {Pending(s), Activated(s)}

Remove(x) ==
    /\ ~Free(x)
    /\ owner' = [owner EXCEPT ![x] = NoSaga]
    /\ active' = active \ {x}

\* By name, whatever has it now.
ExecuteCleanup(s) ==
    /\ Grant(<<s, "cleanup">>)
    /\ Remove(Pending(s))

\* A conflict, missing permissions, or any other error.
Reject(q) ==
    /\ RPC!Execute(q)
    /\ UNCHANGED <<sagaVars, clusterVars, removed>>

\* remoteClusterLinkDelete, or a user of the cluster itself.
UserRemoves(x) ==
    /\ Remove(x)
    /\ removed' = removed \union {owner[x]}
    /\ UNCHANGED <<sagaVars, rpcVars, granted>>

-------------------------------------------------------------------------------
HandlerProceeds(s) ==
    \/ FirstGranted(s) \/ FirstUnusable(s) \/ FirstFails(s)
    \/ SecondGranted(s) \/ SecondFails(s) \/ CleanupEnds(s)

Next ==
    \/ \E s \in Sagas :
        \/ \E l \in Links : Begin(s, l)
        \/ Refuse(s) \/ HandlerProceeds(s) \/ Die(s)
        \/ ExecuteFirst(s) \/ ExecuteSecond(s) \/ ExecuteCleanup(s)
    \/ \E q \in Requests : Tunnels(q) \/ Reject(q)
    \/ \E x \in Things : UserRemoves(x)

Spec == Init /\ [][Next]_vars

-------------------------------------------------------------------------------
(***************************************************************************)
(* Correctness.                                                            *)
(***************************************************************************)

\* The answers of all requests of s have arrived, and what it asked to be
\* cleaned up was.
Undisturbed(s) ==
    /\ \A step \in Steps : status[<<s, step>>] # "failed"
    /\ status[<<s, "cleanup">>] = "new" \/ <<s, "cleanup">> \in granted

\* Both ends or neither, as the caller was told, as long as no user removes
\* links: sagas in the opposite direction, or with the same name, do not
\* break it, whatever becomes of THEIR requests and replicas.
EndsAgree ==
    removed = {} => \A s \in Sagas :
        /\ at[s] = "linked" =>
            \A x \in {Pending(s), Activated(s)} : owner[x] = s /\ x \in active
        /\ (at[s] = "failed" /\ Undisturbed(s)) => \A x \in Things : owner[x] # s

\* A cleanup takes away what its own saga made, even when it comes late, as
\* long as no user removes links.
CleanupIsOwn ==
    [][\A s \in Sagas : <<s, "cleanup">> \in granted' \ granted =>
        owner[Pending(s)] = s \/ removed # {}]_vars

-------------------------------------------------------------------------------
(***************************************************************************)
(* The inductive invariant of the proofs.                                  *)
(***************************************************************************)

New(s, step) == status[<<s, step>>] = "new"

\* The handler has had no success of the request.
Unsuccessful(s, step) ==
    \/ status[<<s, step>>] \in {"new", "refused", "failed"}
    \/ status[<<s, step>>] = "answered" /\ <<s, step>> \notin granted

\* The requests do what was called, and what is answered was executed.
RequestInv == \A q \in Requests :
    /\ q \in executed => status[q] \in {"sent", "answered", "failed"}
    /\ status[q] = "answered" => q \in executed
    /\ q[2] = "first" /\ status[q] # "new" => link[q[1]] \in Links

\* The order of the requests of a saga.
PhaseInv == \A s \in Sagas :
    /\ at[s] = "idle" => New(s, "first")
    /\ at[s] = "first" => New(s, "second") /\ New(s, "cleanup")
    /\ at[s] = "second" => New(s, "cleanup")
    /\ at[s] = "linked" => New(s, "cleanup") /\ <<s, "second">> \in granted
    /\ at[s] = "failed" /\ New(s, "cleanup") => New(s, "second") /\ Unsuccessful(s, "first")
    /\ ~New(s, "second") \/ ~New(s, "cleanup") =>
          <<s, "first">> \in granted /\ status[<<s, "first">>] = "answered"
    /\ ~New(s, "cleanup") => Unsuccessful(s, "second")

\* What a saga owns is what its requests have made ...
OwnerInv == \A s \in Sagas, x \in Things : owner[x] = s =>
    \/ x = Pending(s) /\ <<s, "first">> \in granted
    \/ x = Activated(s) /\ <<s, "second">> \in granted

\* ... and not what its cleanup has removed; ...
CleanedInv == \A s \in Sagas : <<s, "cleanup">> \in granted => owner[Pending(s)] # s

\* ... as long as no user removes anything, it has the first of it until then, ...
PendingInv == removed = {} => \A s \in Sagas :
    <<s, "first">> \in granted /\ <<s, "cleanup">> \notin granted => owner[Pending(s)] = s

\* ... and both, if nothing is to be cleaned up.
ActiveInv == removed = {} => \A s \in Sagas :
    <<s, "second">> \in granted /\ New(s, "cleanup") =>
        \A x \in {Pending(s), Activated(s)} : owner[x] = s /\ x \in active

IInv ==
    /\ TypeOK /\ RequestInv /\ PhaseInv
    /\ OwnerInv /\ CleanedInv /\ PendingInv /\ ActiveInv

===============================================================================
