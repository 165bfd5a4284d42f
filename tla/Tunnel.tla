------------------------------- MODULE Tunnel --------------------------------
(***************************************************************************)
(* The reverse tunnel of one remote cluster, as all the replicas of the    *)
(* cluster connector serve it.                                             *)
(*                                                                         *)
(* The remote cluster dials a replica and keeps a WebSocket connection     *)
(* open; the replica's handler (remoteClusterWsGet, one goroutine per      *)
(* connection) adopts the connection as the tunnel of the cluster, stores  *)
(* the replica's URL in remote_cluster_details and routes what it reads.   *)
(* The management API reads that URL and forwards requests to it; there    *)
(* sendTunnelRequest (one goroutine per request) writes the request on the *)
(* tunnel and waits for the response.                                      *)
(*                                                                         *)
(* A step is what runs between two points where another goroutine, or      *)
(* another process, can get in: a section under Tunnel.Mu, one statement   *)
(* of a READ COMMITTED transaction, one message.  One section under        *)
(* Tunnel.Mu is longer: a request is written on the WebSocket with the     *)
(* lock held and without a deadline, so it begins with one step and ends   *)
(* with another, or never, and until then nobody else gets the lock.       *)
(***************************************************************************)

EXTENDS Naturals, FiniteSets

CONSTANTS
    Members,         \* replicas of the cluster connector, by their member URL
    Conns,           \* WebSocket connections: each is dialed once
    Requests,        \* requests: each is made once
    NoConn,          \* a nil WsConn
    NoMember,        \* the empty tunnel_manager_member_url
    NoRow,           \* the remote_cluster_details row is gone
    MaxHeartbeats    \* bound: distinct URLs that open heartbeats hold

ASSUME NoConnAssumption == NoConn \notin Conns
ASSUME NoMemberAssumption ==
    NoMember \notin Members /\ NoRow \notin Members /\ NoMember # NoRow
ASSUME MaxHeartbeatsAssumption == MaxHeartbeats \in Nat

VARIABLES
    memberURL,       \* column tunnel_manager_member_url of the cluster's row
    heartbeat,       \* the column as each open heartbeat transaction read it
    tunnelExists,    \* tunnelExists[m]: m's TunnelByCluster holds the tunnel
    wsConn,          \* wsConn[m]: Tunnel.WsConn on m
    pending,         \* pending[m]: keys of Tunnel.PendingResponses on m
    handler,         \* handler[c]: where the handler of connection c is
    memberOf,        \* memberOf[c]: the replica that accepted c
    socket,          \* socket[c]: c as its replica's end sees it
    toPeer,          \* toPeer[c]: requests written on c and not yet executed
    fromPeer,        \* fromPeer[c]: responses that reached c and are not yet read
    caller,          \* caller[q]: where the goroutine serving q is
    target,          \* target[q]: the replica that serves q
    channel,         \* channel[q]: the response is in q's one-slot channel
    outcome,         \* outcome[q]: what the caller of q is told
    executed         \* the requests that the remote cluster has executed

dbVars == <<memberURL, heartbeat>>
tunnelVars == <<tunnelExists, wsConn, pending>>
connVars == <<handler, memberOf, socket, toPeer, fromPeer>>
callVars == <<caller, target, channel, outcome>>
vars == <<dbVars, tunnelVars, connVars, callVars, executed>>

URLs == Members \union {NoMember}

HandlerStates == {"new", "upgraded", "cleared", "adopted", "reading",
                  "leaving", "clearing", "clear", "done"}
CallerStates == {"new", "routed", "found", "registered", "writing", "waiting",
                 "writeFailed", "leaving", "done"}

\* The type of the state.
TypeOK ==
    /\ memberURL \in URLs \union {NoRow}
    /\ heartbeat \in SUBSET URLs
    /\ tunnelExists \in [Members -> BOOLEAN]
    /\ wsConn \in [Members -> Conns \union {NoConn}]
    /\ pending \in [Members -> SUBSET Requests]
    /\ handler \in [Conns -> HandlerStates]
    /\ memberOf \in [Conns -> URLs]
    /\ socket \in [Conns -> {"open", "lost", "closed"}]
    /\ toPeer \in [Conns -> SUBSET Requests]
    /\ fromPeer \in [Conns -> SUBSET Requests]
    /\ caller \in [Requests -> CallerStates]
    /\ target \in [Requests -> URLs]
    /\ channel \in [Requests -> BOOLEAN]
    /\ outcome \in [Requests -> {"none", "answered", "refused", "failed"}]
    /\ executed \in SUBSET Requests

Init ==
    /\ memberURL = NoMember
    /\ heartbeat = {}
    /\ tunnelExists = [m \in Members |-> FALSE]
    /\ wsConn = [m \in Members |-> NoConn]
    /\ pending = [m \in Members |-> {}]
    /\ handler = [c \in Conns |-> "new"]
    /\ memberOf = [c \in Conns |-> NoMember]
    /\ socket = [c \in Conns |-> "open"]
    /\ toPeer = [c \in Conns |-> {}]
    /\ fromPeer = [c \in Conns |-> {}]
    /\ caller = [q \in Requests |-> "new"]
    /\ target = [q \in Requests |-> NoMember]
    /\ channel = [q \in Requests |-> FALSE]
    /\ outcome = [q \in Requests |-> "none"]
    /\ executed = {}

-----------------------------------------------------------------------------
(***************************************************************************)
(* The tunnel object of a replica.                                         *)
(***************************************************************************)

\* ensureClosed: under Tunnel.Mu the connection is forgotten and the pending
\* responses are replaced by an empty map.  conn.Close() follows the unlock;
\* it is part of the step because nothing that another goroutine does in
\* between depends on it.
EnsureClosed(m) ==
    IF wsConn[m] # NoConn
    THEN /\ wsConn' = [wsConn EXCEPT ![m] = NoConn]
         /\ pending' = [pending EXCEPT ![m] = {}]
         /\ socket' = [socket EXCEPT ![wsConn[m]] = "closed"]
    ELSE UNCHANGED <<wsConn, pending, socket>>

\* Tunnel.Mu on m can be had: no request is being written with the lock held.
Free(m) == \A q \in Requests : caller[q] = "writing" => target[q] # m

HandlerGoes(c, to) == handler' = [handler EXCEPT ![c] = to]

-----------------------------------------------------------------------------
(***************************************************************************)
(* remoteClusterWsGet, the handler of connection c.                        *)
(***************************************************************************)

\* The row of the cluster is found, the connection is upgraded, and the
\* tunnel of the cluster is fetched or created.
Connect(c, m) ==
    /\ handler[c] = "new"
    /\ memberURL # NoRow
    /\ HandlerGoes(c, "upgraded")
    /\ memberOf' = [memberOf EXCEPT ![c] = m]
    /\ tunnelExists' = [tunnelExists EXCEPT ![m] = TRUE]
    /\ UNCHANGED <<dbVars, wsConn, pending, socket, toPeer, fromPeer, callVars, executed>>

ClosePrevious(c) ==
    /\ handler[c] = "upgraded"
    /\ Free(memberOf[c])
    /\ EnsureClosed(memberOf[c])
    /\ HandlerGoes(c, "cleared")
    /\ UNCHANGED <<dbVars, tunnelExists, memberOf, toPeer, fromPeer, callVars, executed>>

\* The lock was released since ensureClosed: whatever WsConn holds by now is
\* overwritten.
Adopt(c) ==
    /\ handler[c] = "cleared"
    /\ Free(memberOf[c])
    /\ wsConn' = [wsConn EXCEPT ![memberOf[c]] = c]
    /\ HandlerGoes(c, "adopted")
    /\ UNCHANGED <<dbVars, tunnelExists, pending, memberOf, socket, toPeer, fromPeer,
                   callVars, executed>>

StoreMember(c) ==
    /\ handler[c] = "adopted"
    /\ memberURL # NoRow
    /\ memberURL' = memberOf[c]
    /\ HandlerGoes(c, "reading")
    /\ UNCHANGED <<heartbeat, tunnelVars, memberOf, socket, toPeer, fromPeer,
                   callVars, executed>>

\* Fault: the handler returns without its deferred cleanup.
StoreMemberFailsNoCleanup(c) ==
    /\ handler[c] = "adopted"
    /\ HandlerGoes(c, "done")
    /\ UNCHANGED <<dbVars, tunnelVars, memberOf, socket, toPeer, fromPeer, callVars, executed>>

\* The member URL cannot be determined, the transaction fails, or the row is
\* gone: the handler returns, which runs its deferred cleanup.
StoreMemberFails(c) ==
    /\ handler[c] = "adopted"
    /\ HandlerGoes(c, "leaving")
    /\ fromPeer' = [fromPeer EXCEPT ![c] = {}]
    /\ UNCHANGED <<dbVars, tunnelVars, memberOf, socket, toPeer, callVars, executed>>

\* One turn of the read loop.  The send on the channel does not block: a
\* second response for the same request is dropped, and so is a response
\* whose key is not in the map any more.
ReadResponse(c, q) ==
    /\ handler[c] = "reading"
    /\ q \in fromPeer[c]
    /\ Free(memberOf[c])
    /\ fromPeer' = [fromPeer EXCEPT ![c] = @ \ {q}]
    /\ channel' = [channel EXCEPT ![q] = @ \/ q \in pending[memberOf[c]]]
    /\ UNCHANGED <<dbVars, tunnelVars, handler, memberOf, socket, toPeer,
                   caller, target, outcome, executed>>

\* Fault: a read error does not end the loop.
ReadFailsAndGoesOn(c) ==
    /\ handler[c] = "reading"
    /\ fromPeer' = [fromPeer EXCEPT ![c] = {}]
    /\ UNCHANGED <<dbVars, tunnelVars, handler, memberOf, socket, toPeer, callVars, executed>>

\* ReadJSON fails: the connection was lost, another goroutine closed it, or
\* what the peer sent is no response.  What had arrived may or may not have
\* been read before.
ReadFails(c) ==
    /\ handler[c] = "reading"
    /\ HandlerGoes(c, "leaving")
    /\ fromPeer' = [fromPeer EXCEPT ![c] = {}]
    /\ UNCHANGED <<dbVars, tunnelVars, memberOf, socket, toPeer, callVars, executed>>

\* Fault: the cleanup does not check whose connection it takes down.
LeaveReplacedUnchecked(c) ==
    /\ handler[c] = "leaving"
    /\ Free(memberOf[c])
    /\ EnsureClosed(memberOf[c])
    /\ HandlerGoes(c, "clearing")
    /\ UNCHANGED <<dbVars, tunnelExists, memberOf, toPeer, fromPeer, callVars, executed>>

\* Deferred cleanup, someone else updated the tunnel already: nothing is done,
\* the row is left alone.
LeaveReplaced(c) ==
    /\ handler[c] = "leaving"
    /\ Free(memberOf[c])
    /\ wsConn[memberOf[c]] # c
    /\ HandlerGoes(c, "done")
    /\ UNCHANGED <<dbVars, tunnelVars, memberOf, socket, toPeer, fromPeer, callVars, executed>>

\* Deferred cleanup of the current connection: same reset as ensureClosed.
LeaveCurrent(c) ==
    /\ handler[c] = "leaving"
    /\ Free(memberOf[c])
    /\ wsConn[memberOf[c]] = c
    /\ EnsureClosed(memberOf[c])
    /\ HandlerGoes(c, "clearing")
    /\ UNCHANGED <<dbVars, tunnelExists, memberOf, toPeer, fromPeer, callVars, executed>>

\* First statement of the cleanup transaction: the row is read, and the
\* registration is kept when it names THIS replica.
ReadRegistration(c) ==
    /\ handler[c] = "clearing"
    /\ HandlerGoes(c, IF memberURL \in {memberOf[c], NoRow} THEN "done" ELSE "clear")
    /\ UNCHANGED <<dbVars, tunnelVars, memberOf, socket, toPeer, fromPeer, callVars, executed>>

\* Second statement: UpdateRemoteClusterTunnel with the empty URL; it fails
\* when the row was deleted since the read.
ClearRegistration(c) ==
    /\ handler[c] = "clear"
    /\ memberURL' = IF memberURL = NoRow THEN NoRow ELSE NoMember
    /\ HandlerGoes(c, "done")
    /\ UNCHANGED <<heartbeat, tunnelVars, memberOf, socket, toPeer, fromPeer,
                   callVars, executed>>

\* The cleanup transaction fails or runs into its 5 second limit; the failure
\* is only logged.
ClearFails(c) ==
    /\ handler[c] \in {"clearing", "clear"}
    /\ HandlerGoes(c, "done")
    /\ UNCHANGED <<dbVars, tunnelVars, memberOf, socket, toPeer, fromPeer, callVars, executed>>

-----------------------------------------------------------------------------
(***************************************************************************)
(* A request q: forwardToClusterConnector on the management API, then      *)
(* sendTunnelRequest on the replica it reaches.                            *)
(***************************************************************************)

CallerGoes(q, to) == caller' = [caller EXCEPT ![q] = to]

\* A return with outcome o.  A request with an entry in PendingResponses goes
\* to "leaving": its deferred delete is still to run.
Return(q, o, to) ==
    /\ CallerGoes(q, to)
    /\ outcome' = [outcome EXCEPT ![q] = o]

\* Fault: only an empty URL refuses the request, a missing row does not.
ForwardUnchecked(q) ==
    /\ caller[q] = "new"
    /\ memberURL # NoMember
    /\ CallerGoes(q, "routed")
    /\ target' = [target EXCEPT ![q] = memberURL]
    /\ UNCHANGED <<dbVars, tunnelVars, connVars, channel, outcome, executed>>

\* The URL is read in a transaction of its own; the request is sent to it
\* later, when the registration may have changed.
Forward(q) ==
    /\ caller[q] = "new"
    /\ memberURL \in Members
    /\ CallerGoes(q, "routed")
    /\ target' = [target EXCEPT ![q] = memberURL]
    /\ UNCHANGED <<dbVars, tunnelVars, connVars, channel, outcome, executed>>

\* Nothing is forwarded: no replica is registered, or the transaction or one
\* of the steps that prepare the request fails.
ForwardRefused(q) ==
    /\ caller[q] = "new"
    /\ Return(q, "refused", "done")
    /\ UNCHANGED <<dbVars, tunnelVars, connVars, target, channel, executed>>

\* A cluster link between two remote clusters is created by one replica: the
\* one the source cluster is registered with, whatever replica this cluster
\* is connected to.
SendAsLinkTarget(q, m) ==
    /\ caller[q] = "new"
    /\ CallerGoes(q, "routed")
    /\ target' = [target EXCEPT ![q] = m]
    /\ UNCHANGED <<dbVars, tunnelVars, connVars, channel, outcome, executed>>

\* The cluster is looked up by name, then its tunnel in the tunnel store.
FindTunnel(q) ==
    /\ caller[q] = "routed"
    /\ memberURL # NoRow
    /\ tunnelExists[target[q]]
    /\ CallerGoes(q, "found")
    /\ UNCHANGED <<dbVars, tunnelVars, connVars, target, channel, outcome, executed>>

\* A header is missing, the look-up fails for whatever reason, there is no
\* tunnel, or the user's LXD session, which is read from the tunnel under
\* Tunnel.Mu, cannot be decrypted.
FindTunnelFails(q) ==
    /\ caller[q] = "routed" \/ (caller[q] = "found" /\ Free(target[q]))
    /\ Return(q, "refused", "done")
    /\ UNCHANGED <<dbVars, tunnelVars, connVars, target, channel, executed>>

RegisterPending(q) ==
    /\ caller[q] = "found"
    /\ Free(target[q])
    /\ pending' = [pending EXCEPT ![target[q]] = @ \union {q}]
    /\ CallerGoes(q, "registered")
    /\ UNCHANGED <<dbVars, tunnelExists, wsConn, connVars, target, channel, outcome, executed>>

NotConnected(q) ==
    /\ caller[q] = "registered"
    /\ Free(target[q])
    /\ wsConn[target[q]] = NoConn
    /\ Return(q, "refused", "leaving")
    /\ UNCHANGED <<dbVars, tunnelVars, connVars, target, channel, executed>>

\* WriteJSON begins, under Tunnel.Mu, on the connection that is current by now.
BeginWrite(q) ==
    /\ caller[q] = "registered"
    /\ Free(target[q])
    /\ wsConn[target[q]] # NoConn
    /\ CallerGoes(q, "writing")
    /\ UNCHANGED <<dbVars, tunnelVars, connVars, target, channel, outcome, executed>>

\* The last byte is handed over, and the lock released.  Writing on a
\* connection the peer has lost may succeed, to no effect.
Write(q) ==
    /\ caller[q] = "writing"
    /\ LET c == wsConn[target[q]] IN
        toPeer' = [toPeer EXCEPT ![c] = IF socket[c] = "open" THEN @ \union {q} ELSE @]
    /\ CallerGoes(q, "waiting")
    /\ UNCHANGED <<dbVars, tunnelVars, handler, memberOf, socket, fromPeer,
                   target, channel, outcome, executed>>

WriteFails(q) ==
    /\ caller[q] = "writing"
    /\ socket[wsConn[target[q]]] # "open"
    /\ CallerGoes(q, "writeFailed")
    /\ UNCHANGED <<dbVars, tunnelVars, connVars, target, channel, outcome, executed>>

\* The lock was released since the write: ensureClosed closes whatever
\* connection is current by now.
CloseAfterFailure(q) ==
    /\ caller[q] = "writeFailed"
    /\ Free(target[q])
    /\ EnsureClosed(target[q])
    /\ Return(q, "refused", "leaving")
    /\ UNCHANGED <<dbVars, tunnelExists, handler, memberOf, toPeer, fromPeer,
                   target, channel, executed>>

\* Fault: a waiter takes the end of its tunnel for a response.
ReceiveUnchecked(q) ==
    /\ caller[q] = "waiting"
    /\ channel[q] \/ wsConn[target[q]] = NoConn
    /\ Return(q, "answered", "leaving")
    /\ UNCHANGED <<dbVars, tunnelVars, connVars, target, channel, executed>>

Receive(q) ==
    /\ caller[q] = "waiting"
    /\ channel[q]
    /\ Return(q, "answered", "leaving")
    /\ UNCHANGED <<dbVars, tunnelVars, connVars, target, channel, executed>>

\* Fault: a request that timed out is sent again.
GiveUpAndRetry(q) ==
    /\ caller[q] = "waiting"
    /\ CallerGoes(q, "found")
    /\ UNCHANGED <<dbVars, tunnelVars, connVars, target, channel, outcome, executed>>

\* Fault: a request waits as long as its tunnel is up.
GiveUpWhenDown(q) ==
    /\ caller[q] = "waiting"
    /\ wsConn[target[q]] = NoConn
    /\ Return(q, "failed", "leaving")
    /\ UNCHANGED <<dbVars, tunnelVars, connVars, target, channel, executed>>

\* The 15 second timer fires or the client is gone.  When the response is in
\* the channel as well, select picks either.
GiveUp(q) ==
    /\ caller[q] = "waiting"
    /\ Return(q, "failed", "leaving")
    /\ UNCHANGED <<dbVars, tunnelVars, connVars, target, channel, executed>>

\* Fault: the entry is deleted only when the response came.
UnregisterAnswered(q) ==
    /\ caller[q] = "leaving"
    /\ Free(target[q])
    /\ pending' = [pending EXCEPT ![target[q]] = IF outcome[q] = "answered" THEN @ \ {q} ELSE @]
    /\ CallerGoes(q, "done")
    /\ UNCHANGED <<dbVars, tunnelExists, wsConn, connVars, target, channel, outcome, executed>>

\* The deferred delete, on the map the tunnel holds by now; an answered request
\* has had the lock before, to keep the user's session.
Unregister(q) ==
    /\ caller[q] = "leaving"
    /\ Free(target[q])
    /\ pending' = [pending EXCEPT ![target[q]] = @ \ {q}]
    /\ CallerGoes(q, "done")
    /\ UNCHANGED <<dbVars, tunnelExists, wsConn, connVars, target, channel, outcome, executed>>

-----------------------------------------------------------------------------
(***************************************************************************)
(* The row: heartbeats and deletion, on any replica of either service.     *)
(***************************************************************************)

\* remoteClusterStatusPost reads the detail row ...
ReadDetail ==
    /\ memberURL # NoRow
    /\ Cardinality(heartbeat \union {memberURL}) <= MaxHeartbeats
    /\ heartbeat' = heartbeat \union {memberURL}
    /\ UNCHANGED <<memberURL, tunnelVars, connVars, callVars, executed>>

\* ... and UpdateRemoteClusterDetail writes every column of it back, the
\* member URL as it was read included.  Another transaction may have read u too.
WriteDetail(u) ==
    /\ u \in heartbeat
    /\ memberURL' = IF memberURL = NoRow THEN NoRow ELSE u
    /\ heartbeat' \in {heartbeat, heartbeat \ {u}}
    /\ UNCHANGED <<tunnelVars, connVars, callVars, executed>>

\* remoteClusterDelete: the row goes, the tunnels of the replicas stay.
Delete ==
    /\ memberURL # NoRow
    /\ memberURL' = NoRow
    /\ UNCHANGED <<heartbeat, tunnelVars, connVars, callVars, executed>>

-----------------------------------------------------------------------------
(***************************************************************************)
(* The environment: the remote cluster, the network, the orchestrator.     *)
(***************************************************************************)

\* The remote cluster executes a request; its response arrives unless the
\* connection is gone or its handler is no longer there to read it.
PeerExecutes(c, q) ==
    /\ q \in toPeer[c]
    /\ toPeer' = [toPeer EXCEPT ![c] = @ \ {q}]
    /\ executed' = executed \union {q}
    /\ fromPeer' = [fromPeer EXCEPT ![c] =
                      IF socket[c] = "open" /\ handler[c] \in {"adopted", "reading"} THEN @ \union {q} ELSE @]
    /\ UNCHANGED <<dbVars, tunnelVars, handler, memberOf, socket, callVars>>

Drop(c) ==
    /\ handler[c] # "new"
    /\ socket[c] = "open"
    /\ socket' = [socket EXCEPT ![c] = "lost"]
    /\ UNCHANGED <<dbVars, tunnelVars, handler, memberOf, toPeer, fromPeer, callVars, executed>>

\* q was written on a connection, as far as its caller knows.
Sent(q) == caller[q] \in {"waiting", "leaving", "done"} /\ outcome[q] # "refused"

\* A replica dies and is started again with an empty tunnel store: its
\* handlers and requests are gone, what it stored in the row is not.
Restart(m) ==
    LET conns == {c \in Conns : memberOf[c] = m}
        requests == {q \in Requests : target[q] = m /\ caller[q] # "done"} IN
    /\ tunnelExists' = [tunnelExists EXCEPT ![m] = FALSE]
    /\ wsConn' = [wsConn EXCEPT ![m] = NoConn]
    /\ pending' = [pending EXCEPT ![m] = {}]
    /\ handler' = [c \in Conns |-> IF c \in conns THEN "done" ELSE handler[c]]
    /\ socket' = [c \in Conns |-> IF c \in conns THEN "closed" ELSE socket[c]]
    /\ fromPeer' = [c \in Conns |-> IF c \in conns THEN {} ELSE fromPeer[c]]
    /\ caller' = [q \in Requests |-> IF q \in requests THEN "done" ELSE caller[q]]
    /\ outcome' = [q \in Requests |->
                     IF q \notin requests THEN outcome[q]
                     ELSE IF Sent(q) THEN "failed" ELSE "refused"]
    /\ UNCHANGED <<dbVars, memberOf, toPeer, target, channel, executed>>

-----------------------------------------------------------------------------
\* What the handler of c does of its own: a read returns when a response has
\* come, and it fails on a connection that is not open any more.
HandlerProceeds(c) ==
    \/ ClosePrevious(c) \/ Adopt(c) \/ StoreMember(c) \/ StoreMemberFails(c)
    \/ (\E q \in Requests : ReadResponse(c, q))
    \/ (socket[c] # "open" /\ ReadFails(c))
    \/ LeaveReplaced(c) \/ LeaveCurrent(c)
    \/ ReadRegistration(c) \/ ClearRegistration(c) \/ ClearFails(c)

\* What the goroutine of q does of its own: a write on a connection that is
\* not open any more returns, one way or the other.
CallerProceeds(q) ==
    \/ FindTunnel(q) \/ FindTunnelFails(q) \/ RegisterPending(q)
    \/ NotConnected(q) \/ BeginWrite(q)
    \/ (caller[q] = "writing" /\ socket[wsConn[target[q]]] # "open"
        /\ (Write(q) \/ WriteFails(q)))
    \/ CloseAfterFailure(q) \/ Receive(q) \/ GiveUp(q) \/ Unregister(q)

Next ==
    \/ \E c \in Conns :
        \/ \E m \in Members : Connect(c, m)
        \/ HandlerProceeds(c) \/ ReadFails(c)
        \/ Drop(c)
        \/ \E q \in Requests : PeerExecutes(c, q)
    \/ \E q \in Requests :
        \/ Forward(q) \/ ForwardRefused(q)
        \/ \E m \in Members : SendAsLinkTarget(q, m)
        \/ CallerProceeds(q) \/ Write(q)
    \/ ReadDetail \/ Delete
    \/ \E u \in URLs : WriteDetail(u)
    \/ \E m \in Members : Restart(m)

Spec == Init /\ [][Next]_vars

(***************************************************************************)
(* Fairness: a goroutine of a running replica is scheduled and gets        *)
(* Tunnel.Mu when the lock is free (Go's mutexes do not starve), the       *)
(* database answers or fails, and the 15 second timer fires.  A read or a  *)
(* write on a lost connection returns in the end: TCP gives up on data     *)
(* nobody acknowledges, and the listener enables keep-alives.  Nothing is  *)
(* assumed of the remote cluster, of the network, of the callers, or of    *)
(* restarts: a write on a connection whose peer is alive and does not      *)
(* read may never return.                                                  *)
(***************************************************************************)
FairSpec ==
    /\ Spec
    /\ \A c \in Conns : WF_vars(HandlerProceeds(c))
    /\ \A q \in Requests : WF_vars(CallerProceeds(q))

-----------------------------------------------------------------------------
(***************************************************************************)
(* Correctness.                                                            *)
(***************************************************************************)

\* The connection a replica holds as its tunnel was accepted by that replica,
\* nobody has closed it, and a handler is there that reads from it or is about
\* to take it down: no goroutine ever leaves a connection behind in WsConn
\* that would swallow requests, whatever the order in which connects, failed
\* writes and cleanups get hold of Tunnel.Mu.
TunnelServed ==
    \A m \in Members : wsConn[m] # NoConn =>
        /\ memberOf[wsConn[m]] = m
        /\ socket[wsConn[m]] # "closed"
        /\ handler[wsConn[m]] \in {"adopted", "reading", "leaving"}

\* PendingResponses does not leak: an entry belongs to a request that this
\* replica is still serving, although the map is replaced behind the back of
\* the requests that registered in it.
WaitersServed ==
    \A m \in Members : \A q \in pending[m] :
        /\ target[q] = m
        /\ caller[q] \in {"registered", "writing", "waiting", "writeFailed", "leaving"}

\* A tunnel is taken down by the handler of its own connection, by a later
\* connection to the same replica, by a request that could not write, or with
\* its replica: the cleanup of a connection that was replaced never takes down
\* the one that replaced it ("someone else updated the tunnel already, do not
\* close their connection", remote_cluster.go:494).
TakenDown ==
    \A m \in Members : (wsConn[m] # NoConn /\ wsConn'[m] # wsConn[m]) =>
        \/ handler[wsConn[m]] = "leaving"
        \/ handler'[wsConn[m]] = "done"
        \/ \E c \in Conns : /\ memberOf[c] = m
                            /\ handler[c] \in {"upgraded", "cleared"}
                            /\ handler'[c] # handler[c]
        \/ \E q \in Requests : target[q] = m /\ caller[q] = "writeFailed"
TakenDownByItsOwn == [][TakenDown]_vars

\* What the promise of TunnelRPC rests on: a request is on the wire only
\* once and before it is executed; only requests that were written are on the
\* wire or execute; a response, wherever it is on its way back, is the
\* response to a request that was executed.
WireInv ==
    /\ \A c \in Conns : \A q \in toPeer[c] :
        /\ Sent(q)
        /\ q \notin executed
        /\ \A d \in Conns : q \in toPeer[d] => d = c
    /\ \A q \in executed : Sent(q)
    /\ \A c \in Conns : fromPeer[c] \subseteq executed
    /\ \A q \in Requests : channel[q] \/ outcome[q] = "answered" => q \in executed

\* What holds of a goroutine by the point it has reached: it knows its
\* replica, nobody closes a connection before its handler has adopted it, and
\* an outcome is decided exactly when the request is on its way out.
PlacedInv ==
    /\ \A c \in Conns : handler[c] \notin {"new", "done"} => memberOf[c] \in Members
    /\ \A q \in Requests : caller[q] \notin {"new", "done"} => target[q] \in Members
HandlerInv ==
    \A c \in Conns : handler[c] \in {"new", "upgraded", "cleared"} => socket[c] # "closed"
OutcomeInv ==
    \A q \in Requests : outcome[q] = "none" <=> caller[q] \notin {"leaving", "done"}

\* Tunnel.Mu excludes: one request at a time is written on a replica, and its
\* connection stays the current one until the write returns.
WriterInv ==
    \A q \in Requests : caller[q] = "writing" =>
        /\ wsConn[target[q]] # NoConn
        /\ \A p \in Requests : caller[p] = "writing" /\ target[p] = target[q] => p = q

\* The inductive invariant: every step of every goroutine preserves it, from
\* any state in which it holds.
IInv ==
    /\ TypeOK
    /\ PlacedInv
    /\ HandlerInv
    /\ OutcomeInv
    /\ TunnelServed
    /\ WaitersServed
    /\ WriterInv
    /\ WireInv

\* The refinement mapping: a request is called when the management API has
\* chosen the replica, sent when it is written on the tunnel, and ends when its
\* goroutine returns, or earlier when it is refused.
Status(q) ==
    CASE outcome[q] = "refused" -> "refused"
      [] caller[q] = "new" -> "new"
      [] caller[q] \in {"waiting", "leaving"} /\ outcome[q] # "refused" -> "sent"
      [] caller[q] = "done" /\ outcome[q] # "refused" -> outcome[q]
      [] OTHER -> "called"

RPC == INSTANCE TunnelRPC WITH status <- [q \in Requests |-> Status(q)]

\* Every request ends at most once; it is answered only when it was executed,
\* never executed once it was refused, and executed at most once: no
\* interleaving of reconnects, failed writes, lost registrations and restarts
\* breaks what TunnelRPC promises.
AtMostOnce == RPC!Spec

\* A request is being written on a connection that is up: its peer is alive
\* and has not read it.  Nothing in the code ends this, and the lock is held.
Stalled(m) ==
    \E q \in Requests : /\ caller[q] = "writing" /\ target[q] = m
                        /\ socket[wsConn[m]] = "open"

\* A request that reached a replica ends: it does not wait forever on a tunnel
\* that is lost, that is replaced while it waits, whose remote cluster never
\* answers, or whose lock is held by a write on a dead connection.  The one
\* thing that can hold it for ever is a stalled write, its own or another's.
RequestsEnd ==
    \A q \in Requests :
        caller[q] = "routed" ~> (caller[q] = "done" \/ []Stalled(target[q]))

\* The handler of a connection that was lost or closed by another goroutine
\* returns, so neither its goroutine nor a dead WsConn stays behind, with the
\* same exception: a write that stalls on the connection that replaced it.
HandlersEnd ==
    \A c \in Conns :
        socket[c] # "open" ~> (handler[c] = "done" \/ []Stalled(memberOf[c]))

(***************************************************************************)
(* What the code says of itself and does not do.                           *)
(***************************************************************************)

\* remote_cluster.go:525, "we are still registered as tunnel endpoint, clear
\* it, because our tunnel was closed": the cleanup never sets out to clear
\* the registration of another replica.
ClearsOwnRegistration ==
    [][\A c \in Conns : (handler[c] = "clearing" /\ handler'[c] = "clear") =>
        memberURL \in {memberOf[c], NoMember}]_vars

\* remote_cluster.go:564, "Route the response to the waiting HTTP handler":
\* a response that arrives on the tunnel of a replica while its request waits
\* there reaches the request.
ResponsesReachWaiters ==
    [][\A c \in Conns : \A q \in fromPeer[c] :
        (/\ wsConn[memberOf[c]] = c
         /\ handler[c] = "reading" /\ handler'[c] = "reading"
         /\ caller[q] = "waiting"
         /\ fromPeer'[c] = fromPeer[c] \ {q}) => channel'[q]]_vars

==============================================================================
