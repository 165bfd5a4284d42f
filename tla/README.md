# TLA+ verification of MicroCloud Cluster Manager

Cluster Manager lets administrators watch and operate many MicroCloud clusters from one place. Two Go
services share one PostgreSQL database, and each may run as several replicas:

- the **management API** (`internal/app/management-api`, `cmd/management-api`) serves users, who log in
  through an OIDC provider;
- the **cluster connector** (`internal/app/cluster-connector`, `cmd/cluster-connector`) serves the remote
  clusters, which authenticate with mutual TLS, send heartbeats, and hold a WebSocket open to it: the
  *reverse tunnel*, over which requests of users travel to a cluster that cannot be dialed.

Nothing else is shared: no leader, no message bus, no locks across replicas. What goes wrong in such a
system goes wrong between two replicas and the database, or between the goroutines of one replica, in
orders that the tests (one goroutine, one replica, a mock peer) do not produce. That is what this
project models.

## Inventory

| Component | State it keeps | Operations | What makes it correct |
|---|---|---|---|
| Reverse tunnel (`remote_cluster.go:461-646, 1200-1357` of the connector, `types/rest.go`) | per replica and cluster: current WebSocket, pending responses, session cookies; in the database: `tunnel_manager_member_url` | connect, read loop, cleanup, forward, send, wait | a request executes at most once and its caller is told once; nothing leaks; the current connection has a reader; a replaced connection does not take down its successor |
| Enrollment (`remoteClustersPost`, `remote_cluster_join_token.go`, the command `enroll`) | `remote_clusters`, `remote_cluster_tokens` | create and delete a token, join, delete, leave | one cluster per token, names and certificates unique, a failed join leaves nothing |
| mTLS authentication (`core/auth/mtls.go`, `core/certificate/cache.go`) | per replica: fingerprint to cluster ID, TTL | authenticate, rebuild, add | a certificate authenticates its own cluster only; a deleted cluster loses access; a joined one gains it |
| Heartbeat and metrics (`remoteClusterStatusPost`) | `remote_clusters`, `remote_cluster_details` | read, write back, forward metrics | no cluster gets another's columns; what was reported is not undone; requests end |
| Cluster links (`remote_cluster.go:648-1198`) | nothing here, pending links on two remote clusters | preflight, create (three kinds), compensate, delete | both clusters have the link or neither |
| Sessions (`management-api/core/auth`) | `identities`, `sessions`, cookies, relying party | login, callback, authenticate, refresh, renew, logout | one session per identity, no login refused because of another, a logged-out session stays out |
| Rate limiter (`core/rate_limit`) | map of token buckets | check, cleanup | a client never exceeds its bucket, although it is forgotten; the inactive make room |
| Database access (`internal/pkg/database`) | none | transaction, retry, migrate | a function that runs again, also after a commit of unknown outcome, does no harm; deadlocks are resolved |
| Fleet administration (`management-api/api/v1/remote_cluster.go`) | `remote_clusters`, `remote_cluster_config` | list, patch, delete, forward | as for heartbeats |
| Configuration, ciphers, HTTP plumbing, UI, seeding | none worth a state machine | | not modelled |

Interaction: the management API reads the member URL of a cluster from the database and sends the user's
request to that replica of the connector (HTTPS), which writes it on the tunnel (WebSocket) and waits on a
channel for the read loop to route the response. Joins write the database and the certificate cache of the
replica that serves them; every other replica learns of a join or a deletion when its cache expires, after
60 s. Heartbeats and administrators write the same rows, and deletions lock them in the opposite order. Every request
to the connector, but for its status, passes the rate limiter first. All transactions run at READ COMMITTED
(`BeginTxx(ctx, nil)`), so a transaction that reads and then writes is two steps.

Hard behaviour: goroutines that release `Tunnel.Mu` between a test and the act it justifies; whole rows
written back after a read; a certificate cache that is filled while joins and deletions commit; compensation
of half-made links over a transport that loses requests; commits whose outcome is unknown and that are
tried again; crashes at any of these points. `PROJECT.json` lists each hazard at its line.

## The modules

| Module | What it is |
|---|---|
| `TunnelRPC` | abstract: what callers of `sendTunnelRequest` are promised |
| `Tunnel`, `MCTunnel`, `TunnelProofs` | the reverse tunnel of one cluster on all replicas of the connector; implements `TunnelRPC` |
| `Admission` | abstract: what enrollment promises |
| `Enrollment`, `MCEnrollment`, `EnrollmentProofs` | tokens, joins, deletions; implements `Admission` |
| `MtlsAuth`, `MCMtlsAuth`, `MtlsAuthProofs` | the certificate caches of all replicas, with the joins of `Enrollment` reduced to what a cache sees |
| `ClusterAccess`, `MCClusterAccess`, `ClusterAccessProofs` | `Enrollment` and `MtlsAuth` together, from the token to the request that is let through; implements both |
| `ClusterLink`, `MCClusterLink`, `ClusterLinkProofs` | the link sagas; its requests behave as an instance of `TunnelRPC`, and only so |
| `SingleSession` | abstract: what session handling promises |
| `Session`, `MCSession`, `SessionProofs` | login, use, refresh, renewal and logout; implements `SingleSession` |
| `ClusterRow`, `MCClusterRow`, `ClusterRowProofs` | heartbeats, patches and deletions on the rows of one cluster: columns, row locks, deadlocks |
| `TokenBuckets` | abstract: what the rate limiter promises |
| `RateLimiter`, `MCRateLimiter`, `RateLimiterProofs` | the limited map of limiters, its cleanup, and the requests that use it; implements `TokenBuckets` |

Conventions. A step is what runs between two points where somebody else can get in: a section under a
lock, one statement of a READ COMMITTED transaction (the last statement with its commit, when the rows it
wrote stay locked in between), one message. Program counters are functions from the goroutine to the
name of the point it has reached. Ways to fail that the code treats alike are one action
(`CheckTokenFails`, `ReadFails`), enabled wherever an error can occur. A definition whose comment begins
with *Fault* is not part of any specification: it is the neighbouring action with a plausible mistake,
kept to show that a property would notice it. Variables such as `executed`, `removed`, `given`,
`loggedOut`, `late` and `rewritten` are histories: the code does not keep them, properties need them.

### Tunnel

`wsConn[m]`, `pending[m]` and `tunnelExists[m]` are the `Tunnel` object of replica `m`; `memberURL` is the
database column. `handler[c]` follows `remoteClusterWsGet` of connection `c`:

    new -> upgraded -> cleared -> adopted -> reading -> leaving -> (clearing -> clear) -> done
      Connect  ClosePrevious  Adopt  StoreMember  ReadFails  LeaveCurrent / LeaveReplaced ...

`ClosePrevious` and `Adopt` are two steps because `ensureClosed` releases `Tunnel.Mu` before the handler
takes it again; so are `RegisterPending` and `BeginWrite`, and `WriteFails` and `CloseAfterFailure`, in
`sendTunnelRequest`. A write begins (`BeginWrite`) and ends (`Write`, `WriteFails`), and holds `Tunnel.Mu` meanwhile: whoever
needs the lock waits for `Free`. `caller[q]` follows a request from `Forward` (the management API reads the URL) to
`Unregister` (the deferred delete). `ReadDetail`/`WriteDetail` are the heartbeat that writes the whole row
back. `PeerExecutes`, `Drop` and `Restart` are the cluster, the network and the orchestrator. A write on a
connection the peer has lost may succeed to no effect; one on a connection whose peer is alive and does not read need
never end. One instance of the module is one remote cluster:
tunnels of different clusters share nothing.

Properties: the tunnel implements `TunnelRPC` (`AtMostOnce`); requests end, on tunnels that are lost or replaced too
(`RequestsEnd`);
`WsConn` is always served by a handler (`TunnelServed`); `PendingResponses` does not leak although the map
is replaced under the feet of those who registered in it (`WaitersServed`); the cleanup of a replaced
connection leaves its successor alone (`TakenDownByItsOwn`); handlers of dead connections return
(`HandlersEnd`). Both liveness properties name the one thing that stops the code for ever, `Stalled`: `WriteJSON`
(`remote_cluster.go:1276`) has no deadline, runs under `Tunnel.Mu`, and comes before the timer of 15 s, so a cluster that is alive
and stops reading holds up its caller, every other request on that replica, and the next connection.

Of two connections that arrive together both can pass `ensureClosed` before either is adopted; the one
that is overwritten stays open and is read from, and its responses are routed in the map of the other.
`TunnelServed` and `AtMostOnce` hold in spite of it.

### Enrollment

`stored[n]` is the token row of name `n`, `rows` the committed clusters, `join[j]` follows
`remoteClustersPost`: *checked* after the first transaction, *inserted* inside the second, *committed*,
*done* when the answer is sent. An ID is a join and an attempt, because each attempt draws a new one from the
sequence. `ConsumeTokenAndRetry` is the commit that takes effect and reports a transient error: `retry` runs
the function again, which then meets its own row. A unique index makes an insert wait for another,
uncommitted one; that is the last conjunct of `InsertCluster`. `CheckName` and `InsertToken` are two
statements of `tokenPost`; a transient retry of that transaction is taken as a `CheckName` that happened later.
`Die` takes any set of joins along, since a replica serves any. Names are compared as SQL compares them, exactly;
the code compares the *tokens* without regard to case (`strings.EqualFold`, line 154), here they are equal or not.

`UpdateRow` is what a heartbeat or a patch may do to a row here: it writes all columns back, the certificate as it was read
included, and finds the row by name both times (`UpdateRemoteCluster`, `store/remote_cluster.go:207-216`). `owner[id]` is the
cluster whose certificate is in row `id`: its own, or that of one that had the name before and was deleted. `Admission` has
the same step (`Restore`); which updates can do it is what `ClusterRow` shows.

Properties: `OneClusterPerToken` is the refinement of `Admission`; `HoldersJoin` says who is admitted;
`JoinsEnd` that joins end.

### MtlsAuth

`cache[r]`, `fresh[r]` are the certificate cache of a replica and its TTL, `builder[r]` the goroutine that
holds the lock for a rebuild, `snapshot[r]` what it has read. A join commits (`Commit`), then adds its
certificate (`AddCertificate`) when the lock is free; `Auth` reads the cache three times (expiry, trust,
entry) and takes the lock anew each time. Comparing fingerprints and chains is taken to be right, and a trusted certificate may
be outside its validity period at any time (`CheckTrusted` may refuse it). A certificate that cannot be parsed has no
fingerprint: the rebuild skips it, and so does `RowsWith`. `fingerprint[i]` is of the certificate that cluster `i` joined with,
`column[i]` of the one that is in its row by now: `Rewrite` is the update of `Enrollment`, and `rewritten` the rows it has
given another's certificate. A rebuild reads `column`, a join adds `fingerprint`.

Properties: `AuthenticatedAsItself` (with its own certificate, or the one an update has put in its row), `JoinedIsTrusted`
(the rebuild that was reading when the join committed does not forget it), `RevokedForGood` (once every replica has
forgotten a deleted cluster, nothing brings it back: the safety half of the next one), `RevokedInTheEnd` (from some point on
no request is *let through* as the deleted cluster: one that was let through before may be the WebSocket of the tunnel, which
a deletion does not close), `AuthsEnd`.

### ClusterAccess

`MtlsAuth` takes from joins and deletions only what a cache sees of them. `ClusterAccess` checks that this is what
they do. It extends `Enrollment`, has the caches and requests of `MtlsAuth` as its own variables, and adds `server[j]`, the
replica that serves a join. A step is one of `Enrollment` (`Database`, `CheckTokenAt`, `Leave`), one of `MtlsAuth`
(`Authenticate`), or one of both: `AddCertificate` is the `Trust` of the join and waits for the lock of the cache, and
`Restart` kills the joins, requests and cache of a replica in one step; `Update` is `UpdateRow` of the one and `Rewrite` of the
other. The variables of `MtlsAuth` about rows are
mapped: `RowJoin`, `RowServer`, `RowName`, `RowFingerprint` and `RowColumn` say what a cache sees of a row, with the ID as the key. Every
attempt at the transaction has a row ID of its own, so an attempt that is not committed shows nothing, and the row of a
commit that was run again is one whose join has failed: in the table, known to rebuilds, never added by a join.

Properties: `ImplementsMtlsAuth` (the mapped variables behave as `MtlsAuth` says) and `OnlyEnrolled`, from end to end:
who is let through as a cluster presents a certificate with the fingerprint of the one that cluster joined with, and
it joined with a token that was issued for its name. The exception is the code's: after a patch that set only the
description, the row of a cluster may hold the certificate of one that had the same name before and was deleted, and who has
that key is then let through as the successor. The property says that it can be nobody else's: that cluster, too, had joined
with a token issued for the very name. `FingerprintOf` need not be injective, as the unique constraint is
on the text of a certificate.

### ClusterLink

A saga is one call of `remoteClusterLinksPost`: `at[s]` is the request it waits for. `owner` and `active` are
the links and identities on the remote clusters; how a cluster answers a request is external, taken from how
this code reads the answers. An unidirectional link that LXD creates with a trust token activates the
identity in the same request. The preflight (permissions, requirements) is one outcome, `Begin` or `Refuse`.
The cleanup runs with a context of its own of 5 s, so it goes on after the caller has left.

Properties: `EndsAgree` and `CleanupIsOwn`. Both are stated with the exceptions the code has: a request
whose answer was lost may leave something behind, and a user may remove links by hand at any time. Once a
user has removed anything, a cleanup may take away a third saga's link, and not only that of the saga whose
link was removed: with two sagas the difference does not show, the proof needs it.

What the model shows and no property states: the cleanup "removes a pending cluster link created on the source
cluster" (`remote_cluster.go:988`) by its name, pending or not. When the answer to the second request is lost although it
was executed, what is removed is active, and the target keeps its half.

### Session

`sessions[s]` is the user of session `s` (a session is named after the request that starts it), `lock[i]` and
`doomed[q]` the row locks of open transactions. `kind[q]` is what a request does, `at[q]` where it is:

    login:   Callback -> finding ... committing -> started -> in
    use:     Use -> reading [-> refreshing -> storing] -> in
    renewal: Use (token expired) -> reading [...] -> finding ... committing -> cleaning -> started -> in
    logout:  Logout -> leaving -> out
    again:   a request that was let in, sent on and answered 401 or 403 refreshes its tokens once

*finding ... committing* is the transaction of `StartSession`: find the identity, update or create it, delete
the user's sessions, insert the new one, commit. It is safe at READ COMMITTED only because the first write of
every login is to the identity's row, which stays locked: this is `LockInv`, and the mutant that skips the
update of `last_seen` violates `NeverConflicts`. Cookies are the set `given`: a browser may present any session
it was ever given. The tokens of the provider are not modelled.

Properties: `NeverConflicts`, `NoLateEntry` (logout is final for requests that begin after it),
`OneSession` (the refinement of `SingleSession`), `RequestsEnd`.

What the model shows and no property states, since the code promises nothing else: a renewal that is under
way when the user logs out starts a new session; of two renewals side by side the browser may keep the
cookie of the session that the other has replaced, and is sent to the login page; a provider that is out of
reach during a renewal costs the session (`Clean` after `Fail`).

### ClusterRow

The rows in question are one in `remote_clusters`, one in `remote_cluster_details` and two in
`remote_cluster_config` (*disk*, *memory*), of the cluster that has the name at the time (`named`). `at[t]`
follows `DB.Transaction` of request `t`: *begun*, *writing* after it has read, *forwarding* while Prometheus is
waited for, *expired* when the time of the transaction ends meanwhile. `copy[t]` is the row it has read,
`held[t]` the rows it has locked; statements in program order are the ranks of `Rank`, so `Lock` is one statement.
`Plan` is what it will write: a heartbeat the details, then the row; a patch the thresholds it sets, then the
row; a deletion the row, then (by the foreign keys) everything. Writes become visible with `Commit`, which can
also take effect and report a failure, or a transient one (`CommitAndRetry`).

`UpdateRemoteCluster` writes *all* columns of the row that has the name, whatever was read. `OwnCertificate` says
how far this goes wrong. Whoever locked a row of the details or of the thresholds keeps deletions
out, so the name cannot change hands before the row is written. This depends on the order of the statements (the
mutant `RankRowFirst` turns it round) and on there being another statement: a patch of the description alone has
none, and writes one cluster's certificate into the row of its successor, if all of read, delete,
join fall into one transaction. `rewritten` is the set of clusters whose row such a patch has reached (`StorePatch`); every
other row has its own certificate. What follows for who is let in is in `OnlyEnrolled`, above.
`DeadlocksTakeADelete`: the order of locks is
the same in heartbeats and patches and opposite in deletions. `ThresholdsOfOnePatch`: two administrators that
set both thresholds do not mix. `RequestsEnd`: everybody but a heartbeat that waits for Prometheus is answered;
`http.DefaultClient` has no timeout, and the 10 s of the transaction free its locks but not its handler.

What the model shows and no property states: every heartbeat overwrites `joined_at` with the time
(`remote_cluster.go:282`), although the column is the "Timestamp when joined" (`store/remote_cluster.go:24`).

### RateLimiter

`limiter[c]` and `idle[c]` are the entry of client `c` (what `extractClientIP` returns) and the time since
`lastSeen`; `tokens[l]` is a `rate.Limiter`. A request looks the limiter up under the mutex (`Fetch`, `Create`, or
`Refuse` when the map is full) and takes the token without it (`Allow`, `Limit`); up to `MaxStall` ticks may
pass in between, and `Cleanup` may run. A limiter holds parts of tokens too: what it holds is counted in ticks, of which a
token takes `TokenTime` and a full bucket `BucketSize`. Of something that was seen `t` ticks ago the real time is between
`t - 1` and `t + 1` ticks, so `Cleanup` removes whoever *must* be inactive (`idle > ActiveInterval`, `Inactive`) and any of
those who *may* be (`idle >= ActiveInterval`, `MayBeInactive`).

`NeverForgets` is the refinement of `TokenBuckets`, where nobody is ever removed: it maps a client that is not in
the map to a full bucket. It holds because a bucket is full again before its client may count as inactive, which is
`RefilledAssumption`, `MaxStall + BucketSize <= ActiveInterval`: a condition on the configuration, and on how long a
goroutine may be stalled, that the code does not check. With the values of
`scripts/setup-env.sh` (1000 tokens at 1000 per second, inactive after 60 s) it holds for stalls up to 59 s. With an
interval of one tick less than the run's, TLC finds a client that is forgotten with a token missing.
`UsesTheOneInTheMap`: nobody spends tokens of a limiter that has been replaced. `InactiveLeave`: the inactive make room.

## Runs

| Run | Instance | States | Shows |
|---|---|---|---|
| `tunnel` | 2 replicas, 2 connections, 1 request, 1 heartbeat | 288 k | refinement of `TunnelRPC`, the tunnel's safety, requests and handlers end, `IInv` |
| `enrollment` | 2 names, tokens, joins; 1 certificate; 2 attempts | 266 k | refinement of `Admission`, `HoldersJoin`, joins end, `IInv` |
| `mtls_auth` | 1 replica, 1 name, 2 clusters, 1 fingerprint, 2 requests; 2 attempts | 36 k | identity, trust, revocation, requests end, `IInv` |
| `cluster_access` | 1 name, 2 tokens, joins and certificates, 2 attempts; 1 replica, 1 request | 276 k | refinement of `MtlsAuth`, `OnlyEnrolled` |
| `cluster_link` | 2 clusters, 2 sagas of every type and direction | 871 k | both ends agree, cleanups are their own, `IInv` |
| `session` | 1 user, 3 requests, 2 attempts | 133 k | all of `Session` |
| `cluster_row` | 2 clusters under one name, 2 requests of any kind, 2 attempts | 93 k | all of `ClusterRow`, `IInv` |
| `rate_limiter` | 3 clients, room for 2, 2 requests, 2 limiters; 2 tokens of 2 ticks, inactive after 6, stalls up to 2 | 284 k | refinement of `TokenBuckets`, `UsesTheOneInTheMap`, `InactiveLeave`, `IInv` |
| `tunnel_clears`, `tunnel_routes`, `enrollment_consumes`, `cluster_row_uuid` | as small as shows it | | the four disagreements below |

Why these bounds. Two of each actor are the least at which the races exist: a connection and its
successor, a replica and another, a join and its rival, a rebuild and a join, an update and a deletion. In
`session` three requests are needed: one that logs in, and two that use, renew or end what it was given. Two
attempts suffice to run a transaction again after a commit that took effect; the code makes three. Where one of
something is enough for a liveness property and two would only repeat what the proofs cover for any number, there
is one: requests in `tunnel` (they meet only in the map, and `WaitersServed` and `AtMostOnce` are proved),
certificates in `enrollment` (two clusters with one certificate clash, two certificates do not), replicas in
`mtls_auth` (caches share only the table), users in `session` (no statement touches the rows of two). `Names` is
empty in `cluster_link`: links are then named after their target, which makes names collide more, not less. In
`rate_limiter` the numbers are the smallest at which a bucket can be between two tokens, a client is removed while a request
uses another limiter, the map is full, and `RefilledAssumption` holds with equality; two limiters are as many as the map
holds; `MaxStall` bounds the stall, `MaxHeartbeats` the distinct
values that open heartbeats hold. Connections, requests (but those of the limiter), joins and tokens are used
once: this bounds the runs without a counter. `cluster_access` has one name, so that clusters follow each other under
it, and two certificates, so that they differ; `Bound` of `MCClusterAccess` leaves out what `enrollment` and `mtls_auth` have
and what makes no difference to the other part: requests for tokens that fail, tokens that lapse, tokens that are withdrawn before a join presents them, two clusters that
are leaving at a time, rebuilds that are begun again. Symmetry is used in `cluster_link` and `cluster_access`, whose properties are all safety.
The type invariant of `Enrollment`, `MtlsAuth` and `ClusterLink` is the first conjunct of the `IInv` their runs check.

`CHECK_DEADLOCK FALSE` is set in `enrollment*`, `cluster_link`, `cluster_row*` and `session`, where the finitely many
joins, sagas or requests come to an end and nothing is left to do. The tunnel, the caches and the limiter never
stop: replicas can always be restarted, and time goes on.

### Fairness

- `Tunnel`: weak fairness for the steps of a handler and of a caller, but for a write on a connection that is up.
  Goroutines are scheduled, the database answers or the transaction's time limit fails it, the 15 s timer of
  `sendTunnelRequest` fires, and a read from or a write to a dead connection returns, since the listener keeps TCP alive and
  TCP gives up on what nobody acknowledges. Nothing is assumed of the cluster, the network, or the callers, and restarts may
  go on for ever. A write whose peer is alive and does not read has no deadline and no fairness: hence `Stalled`.
- `Enrollment`, `Session`: weak fairness for a request that is served; each statement succeeds or fails within 10 s.
  In `Session` there is none while a request is at the provider (`AtProvider`): a refresh, and the check of an ID token,
  which may fetch the provider's keys, have no deadline of their own. `RequestsEnd` excepts whoever waits there for
  ever; no lock is held meanwhile, so it keeps nobody else.
- `ClusterRow`: weak fairness for a statement that waits for no lock, for the database's search for deadlocks, and
  for the 10 s of a transaction. Nothing is assumed of Prometheus, nor of errors.
- `RateLimiter`: weak fairness of `Cleanup`, which the ticker of `cleanupLoop` wakes for ever. Since an inactive client may
  be seen again, `InactiveLeave` says that it does not *stay* inactive in the map.
- `MtlsAuth`: time passes (`Expire`), and goroutines that wait for the cache's lock get it in the end, which is
  strong fairness: `sync.RWMutex` does not starve writers. None for `Finish`: a request that was let through may be the
  WebSocket of a tunnel, and last.

## Findings

1. `tunnel_clears`: the cleanup of a closed tunnel keeps the registration when it is its own and clears it
   when it is another replica's, the opposite of what the comments at `remote_cluster.go:522` and `525` say. A cluster that
   moves to another replica can end up connected and unreachable.
2. `tunnel_routes`: a request registered before the map of pending responses is replaced and written after it
   executes, is answered, and times out: its response finds no entry, although the comment at
   `remote_cluster.go:564` says that it is routed to the waiting handler.
3. `enrollment_consumes`: the token that was compared and the token that is deleted are looked up separately, by name. If an
   administrator replaces the token in between, the join passes on the old one and uses up the new one.
   `HoldersJoin` and `OneClusterPerToken` hold all the same.
4. `cluster_row_uuid`: a patch (or a heartbeat without a UUID) that read the row before a heartbeat stored the cluster's UUID
   writes the empty one back, although the UUID is to be "persisted" (`remote_cluster.go:251`). The next
   heartbeat repairs it; description and status can be lost in the same way, and nobody repairs them.

## Proofs

Checked by TLAPS for all values of the constants. They assume only the named `ASSUME`s of the modules: the null
values (`NoConn`, `NoToken`, ...) differ from the real ones, bounds are natural numbers, `MaxRetries` at least 1, and
(`RefilledAssumption`) a bucket refills, whatever the stall, before its client may be forgotten. Nothing in the code checks
that one; the theorem `Refinement` of `RateLimiterProofs` is about configurations and stalls for which it holds.
Each component's `IInv` is shown to hold initially (`InitIInv`) and to be preserved by every step (one lemma for each
of its conjuncts, with one step per action); the safety properties follow from it, the refinements from a lemma
`RefinementStep` that maps each action to an abstract step or to none.

- **TunnelProofs** (`Invariance`, `Typing`, `TunnelAlwaysServed`, `NoWaiterLeaks`, `OnlyItsOwnTakeDown`,
  `Refinement`). `TunnelServed` alone is not inductive: it needs that a connection is not closed by anybody
  before its handler adopts it (`HandlerInv`), that goroutines know their replica (`PlacedInv`); the
  refinement needs `WireInv`, which says where a request and its response can be, and `OutcomeInv`; that a write ends on the connection it began on is
  `WriterInv`: nobody replaces the connection while the lock is held.
- **EnrollmentProofs** (`Invariance`, `Typing`, `OnlyHoldersJoin`, `Refinement`). `TokenInv`: what is stored for a
  name was issued for it. `HolderInv`: whoever passed the check holds such a token. `IdInv`: an attempt draws an ID
  that no row had. `OwnerInv`: a row has another's certificate only if that cluster had the name and was deleted.
  `UniqueInv`: uncommitted rows count for uniqueness too, which carries it over commits.
- **MtlsAuthProofs** (`Invariance`, `Typing`, `NoMistakenIdentity`, `JoinedStaysTrusted`, `RevocationIsFinal`). `EntriesInv`: what is in a row,
  an entry or a snapshot is the certificate of that cluster, or one `Carried` into its row by an update. `LockInv` and `SnapshotInv`: the lock keeps joins out of a
  rebuild, so what it has read covers every join its replica has answered. `JoinInv`: an ID whose row was deleted has none
  again, so a forgotten cluster is in nothing that a rebuild reads or a join adds (`ForgottenStep`).
- **ClusterAccessProofs** (`KeepsEnrollment`, `Composition`, `EnrolledStaysTrusted`, `RevokedStaysOut`, `EndToEnd`). No
  invariant is proved anew for the composition but `ServedInv` (who serves a join, and that what is answered has a row).
  `EnrollmentStep`: a step is one of `Enrollment` or none, hence `Enrollment`'s `IInv` and refinement hold. With that
  `IInv` and `ServedInv`, `CachesStep`: a step is one of `MtlsAuth` or none, under the mapping. This needs `IdInv` (a commit
  is of a row nobody has seen, `CommitShows`), `UniqueInv` (a deletion by name takes one row, `DeletionShows`) and
  `OwnerInv` (what an update brings in was that of a deleted cluster of the name, `UpdateShows`).
  `MtlsAuthProofs` is then instantiated under the mapping and its theorems are carried over. `CachesAssumptions` shows that its
  assumptions hold of the instance, and `SameCaches` that `MtlsAuth` and its copy in that instance are the same
  specification. `EndToEnd` joins `Enrollment`'s `HolderInv` and `MtlsAuth`'s `AuthenticatedAsItself`, with the exception of
  `OnlyEnrolled`: both clusters, the one in whose row the certificate is and the one it comes from, held a token for the name.
- **SessionProofs** (`Invariance`, `Typing`, `NoConflict`, `NoEntryAfterLogout`, `Refinement`). `LockInv`: who
  writes a user's sessions holds the identity. `DoomedInv`: then what was deleted is all there was. `RowInv`: a row
  is its starter's user's, and there is one. `GivenInv`: no session is presented before it was given, none is
  given before it is committed. `OutInv`: what was logged out stays out.
- **ClusterLinkProofs** (`Invariance`, `Typing`, `Agreement`, `OwnCleanup`). `PhaseInv`: a second request follows a
  success of the first, a cleanup no success of the second. `OwnerInv`: what a saga owns is what its granted requests
  made. `PendingInv`, `ActiveInv`: it still has it, unless a user removed something or the cleanup was granted.
- **ClusterRowProofs** (`Invariance`, `Typing`, `Certificate`, `OnePatch`, `DeleteInDeadlock`). `PinInv`: a row that is locked is
  there. `OrderInv`: locks are taken in the order of their ranks; among updates the ranks are a total order, so a
  smallest set of transactions that wait for each other must contain a deletion. `OwnInv`, `CopyInv`: what an update
  has read is still the row's when it writes, unless the row is one that a patch without a threshold has reached: such a patch
  is the only step that brings in another's certificate (`StoreCertificate`), and `rewritten` has its cluster from then on
  (`RewrittenGrows`).
- **RateLimiterProofs** (`Invariance`, `Typing`, `OneLimiter`, `Refinement`). `FillsInv`: a bucket that is not full has a
  client seen at most `tokens + MaxStall` ago, so whoever may be inactive has a full one (`InactiveIsFull`). `UsingInv`: a limiter that was
  looked up is in the map, since its client was seen no longer ago than the stall.

Only model-checked: liveness (TLAPS has no backend for it here): `HandlersEnd`, `JoinsEnd`, `RevokedInTheEnd`, `AuthsEnd`, the
`RequestsEnd` of `Tunnel`, `Session` and `ClusterRow`, `InactiveLeave`. Every safety property of a passing run is proved.

## Not modelled

The tokens of the OIDC provider and the relying party (the plan below); cryptography, certificate parsing,
configuration, the parsing of metrics, routing, the arguments of the command line (its `enroll` runs the transaction of `tokenPost` and is in `Enrollment`), the UI and
seeding, which have no state worth a machine; connecting to the database and migrating it. The provider, PostgreSQL,
LXD, Prometheus and `golang.org/x/time/rate` are modelled by how this code uses them. Time is modelled by what it makes
happen: timers fire, TTLs and tokens expire, at any moment; only the rate limiter counts it.

## Plan

Done: the tunnel, enrollment, the certificate caches and the two together, cluster links, sessions, the rows of a
cluster and the rate limiter, each with its proof.

What remains, in this order:

1. `OidcConfig`: the relying party, host and expiry that all goroutines share without a lock. The comment at `oidc.go:610`
   says what it is meant to ensure ("to ensure the callback URL is set correctly"); with two hosts, requests side by
   side can get each other's.
2. Composition of `Enrollment` and `ClusterRow`, whose joins and deletions are reduced by hand as those of `MtlsAuth` were.
3. The refresh tokens of a session under rotation, once it is settled what the code should promise.
