----------------------------- MODULE Enrollment -------------------------------
(***************************************************************************)
(* Join tokens and the clusters that join with them.                       *)
(*                                                                         *)
(* An administrator has a token issued for a name (tokenPost of the        *)
(* management API, or the enroll command), and hands it to a cluster; the  *)
(* cluster joins with it (remoteClustersPost of the connector).  Clusters  *)
(* are deleted by an administrator or leave by themselves.  Patches and    *)
(* heartbeats (ClusterRow) are reduced to what they may do to the          *)
(* certificate of a row.                                                   *)
(*                                                                         *)
(* The shared state is in PostgreSQL.  A step is one statement of a READ   *)
(* COMMITTED transaction; a transaction's last statement and its commit    *)
(* are one step, because the row it deletes stays locked in between.  A    *)
(* transaction that meets a transient error is run again from its start,   *)
(* even when the error is that of a commit which took effect.              *)
(***************************************************************************)

EXTENDS Naturals

CONSTANTS
    Names,           \* names of clusters
    Certs,           \* certificates of clusters
    Tokens,          \* tokens: each request to create one makes a new one
    Joins,           \* requests to join
    NoName,          \* a token whose name is not chosen yet
    NoToken,         \* no row in remote_cluster_tokens
    NoAsk,           \* a join that has not passed its first checks
    MaxRetries       \* attempts at a transaction

ASSUME NoNameAssumption == NoName \notin Names
ASSUME NoTokenAssumption == NoToken \notin Tokens
ASSUME NoAskAssumption == NoAsk \notin [name : Names, cert : Certs, token : Tokens]
ASSUME MaxRetriesAssumption == MaxRetries \in Nat \ {0}

VARIABLES
    rows,            \* remote_clusters: IDs of the committed rows
    removed,         \* IDs of the rows that were deleted
    owner,           \* owner[id]: the cluster whose certificate is in row id
    stored,          \* remote_cluster_tokens: stored[n] is the token of name n
    lapsed,          \* tokens whose expiry has passed
    post,            \* post[k]: where the request that creates k is
    tokenName,       \* tokenName[k]: the name k is created for
    join,            \* join[j]: where the request to join is
    asked,           \* asked[j]: the name, certificate and token it presents
    attempt,         \* attempt[j]: how often its transaction was begun
    leaving          \* IDs whose cluster is leaving: its row has been read

rowVars == <<rows, removed, owner>>
tokenVars == <<stored, lapsed, post, tokenName>>
joinVars == <<join, asked, attempt>>
vars == <<rowVars, tokenVars, joinVars, leaving>>

\* Row IDs come from a sequence, which never returns: each attempt to insert
\* a row draws its own.
Ids == Joins \X (1..MaxRetries)
Id(j) == <<j, attempt[j]>>

Asks == [name : Names, cert : Certs, token : Tokens]
NameOf(id) == asked[id[1]].name
CertOf(id) == asked[owner[id][1]].cert

PostStates == {"new", "checked", "issued", "unanswered", "refused"}
JoinStates == {"new", "checked", "inserted", "committed", "done", "failed"}

\* The type of the state.
TypeOK ==
    /\ rows \subseteq Ids
    /\ removed \subseteq Ids
    /\ owner \in [Ids -> Ids]
    /\ stored \in [Names -> Tokens \union {NoToken}]
    /\ lapsed \subseteq Tokens
    /\ post \in [Tokens -> PostStates]
    /\ tokenName \in [Tokens -> Names \union {NoName}]
    /\ join \in [Joins -> JoinStates]
    /\ asked \in [Joins -> Asks \union {NoAsk}]
    /\ attempt \in [Joins -> 1..MaxRetries]
    /\ leaving \subseteq Ids

Init ==
    /\ rows = {}
    /\ removed = {}
    /\ owner = [id \in Ids |-> id]
    /\ stored = [n \in Names |-> NoToken]
    /\ lapsed = {}
    /\ post = [k \in Tokens |-> "new"]
    /\ tokenName = [k \in Tokens |-> NoName]
    /\ join = [j \in Joins |-> "new"]
    /\ asked = [j \in Joins |-> NoAsk]
    /\ attempt = [j \in Joins |-> 1]
    /\ leaving = {}

-------------------------------------------------------------------------------
(***************************************************************************)
(* Tokens: tokenPost, tokenDelete, and time.                               *)
(***************************************************************************)

PostGoes(k, to) == post' = [post EXCEPT ![k] = to]

RowsNamed(n) == {id \in rows : NameOf(id) = n}

\* The name is not that of a cluster that has joined; a row that is inserted
\* and not yet committed is not seen.
CheckName(k, n) ==
    /\ post[k] = "new"
    /\ RowsNamed(n) = {}
    /\ tokenName' = [tokenName EXCEPT ![k] = n]
    /\ PostGoes(k, "checked")
    /\ UNCHANGED <<rowVars, stored, lapsed, joinVars, leaving>>

\* The name is taken, or the transaction fails.  (One that fails for a
\* transient reason starts over, as if its name had been checked only then.)
PostFails(k) ==
    /\ post[k] \in {"new", "checked"}
    /\ PostGoes(k, "refused")
    /\ UNCHANGED <<rowVars, stored, lapsed, tokenName, joinVars, leaving>>

\* No token is stored for the name, and k is.  When the answer of the commit
\* is lost, the token is stored and nobody ever learns of it.
InsertToken(k, to) ==
    /\ post[k] = "checked"
    /\ stored[tokenName[k]] = NoToken
    /\ stored' = [stored EXCEPT ![tokenName[k]] = k]
    /\ PostGoes(k, to)
    /\ UNCHANGED <<rowVars, lapsed, tokenName, joinVars, leaving>>

DeleteToken(n) ==
    /\ stored[n] # NoToken
    /\ stored' = [stored EXCEPT ![n] = NoToken]
    /\ UNCHANGED <<rowVars, lapsed, post, tokenName, joinVars, leaving>>

\* The expiry of a stored token passes; of one that is not stored nobody reads it.
Lapse(k) ==
    /\ \E n \in Names : stored[n] = k
    /\ k \notin lapsed
    /\ lapsed' = lapsed \union {k}
    /\ UNCHANGED <<rowVars, stored, post, tokenName, joinVars, leaving>>

-------------------------------------------------------------------------------
(***************************************************************************)
(* A join j: remoteClustersPost.                                           *)
(***************************************************************************)

JoinGoes(j, to) == join' = [join EXCEPT ![j] = to]

\* Fault: any stored token will do, whatever name it was issued for.
CheckTokenOfAnyName(j, ask) ==
    /\ join[j] = "new"
    /\ post[ask.token] = "issued"
    /\ \E n \in Names : stored[n] = ask.token
    /\ asked' = [asked EXCEPT ![j] = ask]
    /\ JoinGoes(j, "checked")
    /\ UNCHANGED <<rowVars, tokenVars, attempt, leaving>>

\* A transaction of its own reads the token stored for the name; the cluster
\* presented that token, and its expiry has not passed.  (The code compares
\* the two without regard to case; tokens hold random secrets, and two that
\* differ in nothing else are taken not to exist.)
CheckToken(j, ask) ==
    /\ join[j] = "new"
    /\ post[ask.token] = "issued"
    /\ stored[ask.name] = ask.token
    /\ ask.token \notin lapsed
    /\ asked' = [asked EXCEPT ![j] = ask]
    /\ JoinGoes(j, "checked")
    /\ UNCHANGED <<rowVars, tokenVars, attempt, leaving>>

\* No token is stored for the name, another one is, it has expired, or the
\* transaction fails.
CheckTokenFails(j) ==
    /\ join[j] = "new"
    /\ JoinGoes(j, "failed")
    /\ UNCHANGED <<rowVars, tokenVars, asked, attempt, leaving>>

Clash(j, id) == NameOf(id) = asked[j].name \/ CertOf(id) = asked[j].cert

\* Fault: the row is found to be new by a query, and no constraint of the
\* table backs the answer.
InsertClusterUnconstrained(j) ==
    /\ join[j] = "checked"
    /\ \A id \in rows : ~Clash(j, id)
    /\ JoinGoes(j, "inserted")
    /\ UNCHANGED <<rowVars, tokenVars, asked, attempt, leaving>>

\* Second transaction: the row of the cluster, its details and thresholds.
\* While another join has inserted a row of the same name or certificate and
\* not ended its transaction, the unique index makes this one wait.
InsertCluster(j) ==
    /\ join[j] = "checked"
    /\ \A id \in rows : ~Clash(j, id)
    /\ \A i \in Joins : join[i] = "inserted" => ~Clash(j, Id(i))
    /\ JoinGoes(j, "inserted")
    /\ UNCHANGED <<rowVars, tokenVars, asked, attempt, leaving>>

\* The name exists, or the unique constraints refuse the row.
InsertRefused(j) ==
    /\ join[j] = "checked"
    /\ \E id \in rows : Clash(j, id)
    /\ JoinGoes(j, "failed")
    /\ UNCHANGED <<rowVars, tokenVars, asked, attempt, leaving>>

\* Fault: nobody looks how many rows the delete affected.
ConsumeTokenUnchecked(j, to) ==
    /\ join[j] = "inserted"
    /\ stored' = [stored EXCEPT ![asked[j].name] = NoToken]
    /\ rows' = rows \union {Id(j)}
    /\ JoinGoes(j, to)
    /\ UNCHANGED <<removed, owner, lapsed, post, tokenName, asked, attempt, leaving>>

\* The token is deleted by the name of the cluster, and the transaction
\* commits; to = "failed" when the answer of the commit is lost.
ConsumeToken(j, to) ==
    /\ join[j] = "inserted"
    /\ stored[asked[j].name] # NoToken
    /\ stored' = [stored EXCEPT ![asked[j].name] = NoToken]
    /\ rows' = rows \union {Id(j)}
    /\ JoinGoes(j, to)
    /\ UNCHANGED <<removed, owner, lapsed, post, tokenName, asked, attempt, leaving>>

\* The answer of the commit is a transient error: the whole function runs
\* again, although it took effect.
ConsumeTokenAndRetry(j) ==
    /\ join[j] = "inserted"
    /\ attempt[j] < MaxRetries
    /\ stored[asked[j].name] # NoToken
    /\ stored' = [stored EXCEPT ![asked[j].name] = NoToken]
    /\ rows' = rows \union {Id(j)}
    /\ JoinGoes(j, "checked")
    /\ attempt' = [attempt EXCEPT ![j] = @ + 1]
    /\ UNCHANGED <<removed, owner, lapsed, post, tokenName, asked, leaving>>

\* No token is stored for the name any more: the transaction is rolled back.
NoTokenLeft(j) ==
    /\ join[j] = "inserted"
    /\ stored[asked[j].name] = NoToken
    /\ JoinGoes(j, "failed")
    /\ UNCHANGED <<rowVars, tokenVars, asked, attempt, leaving>>

\* An error that is not transient, or the last one that is.
RollBack(j) ==
    /\ join[j] \in {"checked", "inserted"}
    /\ JoinGoes(j, "failed")
    /\ UNCHANGED <<rowVars, tokenVars, asked, attempt, leaving>>

\* Fault: transient errors are retried without a limit.
RollBackAndRetryForever(j) ==
    /\ join[j] \in {"checked", "inserted"}
    /\ JoinGoes(j, "checked")
    /\ UNCHANGED <<rowVars, tokenVars, asked, attempt, leaving>>

\* A deadlock or a timeout: the transaction is rolled back and run again.
RollBackAndRetry(j) ==
    /\ join[j] \in {"checked", "inserted"}
    /\ attempt[j] < MaxRetries
    /\ JoinGoes(j, "checked")
    /\ attempt' = [attempt EXCEPT ![j] = @ + 1]
    /\ UNCHANGED <<rowVars, tokenVars, asked, leaving>>

\* AddCertificate on the replica that serves the join, which then answers.
Trust(j) ==
    /\ join[j] = "committed"
    /\ JoinGoes(j, "done")
    /\ UNCHANGED <<rowVars, tokenVars, asked, attempt, leaving>>

UnderWay(j) == join[j] \in {"checked", "inserted", "committed"}

\* A replica dies, and the joins it serves with it: their open transactions
\* are rolled back.
Die(dead) ==
    /\ \A j \in dead : UnderWay(j)
    /\ join' = [j \in Joins |-> IF j \in dead THEN "failed" ELSE join[j]]
    /\ UNCHANGED <<rowVars, tokenVars, asked, attempt, leaving>>

-------------------------------------------------------------------------------
(***************************************************************************)
(* Deletion: remoteClusterDelete of the management API, and that of the    *)
(* connector, by which a cluster leaves.                                   *)
(***************************************************************************)

\* DELETE ... WHERE name = n.
DeleteNamed(n) ==
    /\ rows' = rows \ RowsNamed(n)
    /\ removed' = removed \union RowsNamed(n)

DeleteCluster(n) ==
    /\ RowsNamed(n) # {}
    /\ DeleteNamed(n)
    /\ UNCHANGED <<owner, tokenVars, joinVars, leaving>>

\* A cluster that leaves is known by its ID: its row is read ...
ReadLeaving(id) ==
    /\ id \in rows
    /\ leaving' = leaving \union {id}
    /\ UNCHANGED <<rowVars, tokenVars, joinVars>>

\* ... and deleted by the name that was read; a statement later that may be
\* another row, or none.
DeleteLeaving(id) ==
    /\ id \in leaving
    /\ leaving' = leaving \ {id}
    /\ DeleteNamed(NameOf(id))
    /\ UNCHANGED <<owner, tokenVars, joinVars>>

-------------------------------------------------------------------------------
(***************************************************************************)
(* Updates: remoteClusterPatch of the management API, and the heartbeat.   *)
(***************************************************************************)

\* UpdateRemoteCluster writes every column back, the certificate as it was
\* read included.  Both times the row is found by name, so the certificate may
\* be that of a cluster which had the name then and was deleted in between.
\* The constraints of the table hold of it as of a certificate that is new.
UpdateRow(id, old) ==
    /\ id \in rows
    /\ old \in removed \union {id}
    /\ NameOf(old) = NameOf(id)
    /\ \A other \in rows \ {id} : CertOf(other) # asked[old[1]].cert
    /\ \A j \in Joins : join[j] = "inserted" => asked[j].cert # asked[old[1]].cert
    /\ owner' = [owner EXCEPT ![id] = old]
    /\ UNCHANGED <<rows, removed, tokenVars, joinVars, leaving>>

-------------------------------------------------------------------------------
\* The statements of the second transaction.
JoinTransacts(j) ==
    \/ InsertCluster(j) \/ InsertRefused(j)
    \/ ConsumeToken(j, "committed") \/ ConsumeToken(j, "failed")
    \/ ConsumeTokenAndRetry(j) \/ NoTokenLeft(j)
    \/ RollBack(j) \/ RollBackAndRetry(j)

JoinProceeds(j) == JoinTransacts(j) \/ Trust(j)

TokenNext ==
    \/ \E k \in Tokens :
        \/ PostFails(k) \/ InsertToken(k, "issued") \/ InsertToken(k, "unanswered")
        \/ Lapse(k)
    \/ \E n \in Names : DeleteToken(n) \/ \E k \in Tokens : CheckName(k, n)

JoinNext ==
    \/ \E j \in Joins :
        \/ JoinProceeds(j) \/ CheckTokenFails(j)
        \/ \E ask \in Asks : CheckToken(j, ask)
    \/ \E dead \in SUBSET Joins : Die(dead)

DeleteNext ==
    \/ \E n \in Names : DeleteCluster(n)
    \/ \E id \in Ids : ReadLeaving(id) \/ DeleteLeaving(id)

UpdateNext == \E id, old \in Ids : UpdateRow(id, old)

Next == TokenNext \/ JoinNext \/ DeleteNext \/ UpdateNext

Spec == Init /\ [][Next]_vars

(***************************************************************************)
(* Fairness: a request to join that a replica serves goes on: the database *)
(* answers or the 10 second limit of the transaction fails it.             *)
(***************************************************************************)
FairSpec == Spec /\ \A j \in Joins : WF_vars(JoinProceeds(j))

-------------------------------------------------------------------------------
(***************************************************************************)
(* Correctness.                                                            *)
(***************************************************************************)

Known == rows \union removed

\* Every cluster that was ever admitted presented, when it was checked, a
\* token that an administrator was given for this very name: a race of
\* tokens, deletions and retries never admits a cluster under a name for
\* which it held no token.
HoldersJoin ==
    \A id \in Known :
        /\ post[asked[id[1]].token] = "issued"
        /\ tokenName[asked[id[1]].token] = NameOf(id)

\* The refinement mapping: a token is issued when it is stored, and used up
\* when it no longer is.
Given(k) == post[k] \in {"issued", "unanswered"}
IssuedTo == [k \in Tokens |-> IF Given(k) THEN tokenName[k] ELSE NoName]
UsedUp == {k \in Tokens : Given(k) /\ stored[tokenName[k]] # k}
Row(id) == [id |-> id, name |-> NameOf(id), cert |-> CertOf(id)]
AsAdmitted(id) == [id |-> id, name |-> NameOf(id), cert |-> asked[id[1]].cert]
Present == {Row(id) : id \in rows}
Admitted == {AsAdmitted(id) : id \in Known}

Admissions == INSTANCE Admission WITH
    issuedTo <- IssuedTo, usedUp <- UsedUp,
    clusters <- Present, admitted <- Admitted

\* Each admission uses up one live token of the cluster's name, and no two
\* clusters share a name or a certificate, although the check of the token
\* and its deletion are two transactions, joins with one token or one
\* certificate run side by side, and a commit that took effect is run again.
\* An update puts no other certificate in a row than one with which a cluster
\* of that name was admitted.
OneClusterPerToken == Admissions!Spec

\* A join whose token was accepted ends, whatever transient errors its
\* transaction meets and whichever other join it waits for.
JoinsEnd == \A j \in Joins : join[j] = "checked" ~> join[j] \in {"done", "failed"}

\* remote_cluster.go:160, "Create remote cluster entry and delete tokenFromDb
\* in a single db transaction", where tokenFromDb is the token that was read
\* and compared with the presented one: the token a join deletes is that one.
ConsumesCheckedToken ==
    [][\A j \in Joins : Id(j) \in rows' \ rows => stored[asked[j].name] = asked[j].token]_vars

-------------------------------------------------------------------------------
(***************************************************************************)
(* The inductive invariant of the proofs.                                  *)
(***************************************************************************)

\* A token that was issued has a name, and is what is stored for that name or
\* for none.
TokenInv ==
    /\ \A k \in Tokens : post[k] \in {"checked", "issued", "unanswered"} => tokenName[k] \in Names
    /\ \A n \in Names : stored[n] # NoToken =>
        tokenName[stored[n]] = n /\ post[stored[n]] \in {"issued", "unanswered"}

\* Whoever passed the check of its token presented one issued for its name;
\* a row is of such a join.
HolderInv ==
    /\ \A j \in Joins : join[j] \notin {"new", "failed"} => asked[j] \in Asks
    /\ \A j \in Joins : asked[j] # NoAsk =>
        post[asked[j].token] = "issued" /\ tokenName[asked[j].token] = asked[j].name
    /\ \A id \in Known : join[id[1]] # "new" /\ asked[id[1]] \in Asks

\* A transaction that is under way draws an ID that no row ever had.
IdInv ==
    /\ \A id \in Known : /\ id[2] <= attempt[id[1]]
                         /\ join[id[1]] \in {"checked", "inserted"} => id[2] < attempt[id[1]]
    /\ leaving \subseteq Known

\* Rows differ in name and certificate from each other and from those that
\* are inserted and not committed.
UniqueInv ==
    /\ \A id1, id2 \in rows :
        id1 # id2 => NameOf(id1) # NameOf(id2) /\ CertOf(id1) # CertOf(id2)
    /\ \A j \in Joins : join[j] = "inserted" => \A id \in rows : ~Clash(j, id)
    /\ \A i, j \in Joins :
        (i # j /\ join[i] = "inserted" /\ join[j] = "inserted") => ~Clash(j, Id(i))

\* A row has another's certificate only if that cluster had the name and was
\* deleted.
OwnerInv ==
    \A id \in Ids : owner[id] # id =>
        id \in Known /\ owner[id] \in removed /\ NameOf(owner[id]) = NameOf(id)

\* Inductive: the table constraints and the order of the statements of the two
\* transactions (remote_cluster.go:140, 162) are what keeps joins apart.
IInv == TypeOK /\ TokenInv /\ HolderInv /\ IdInv /\ OwnerInv /\ UniqueInv

===============================================================================
