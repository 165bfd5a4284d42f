------------------------------- MODULE Session --------------------------------
(***************************************************************************)
(* Sessions of users who log in through OIDC (management API).             *)
(*                                                                         *)
(* A session is a row of the table sessions, named by the cookie of its    *)
(* user.  A request brings a login from the provider (Callback), uses a    *)
(* session (Auth), which renews it when its signed token has expired       *)
(* (handleExpiredSession), or logs out.  Requests of one user run at the   *)
(* same time, on any replica of the management API: the replicas share     *)
(* nothing but the database, so they are not told apart.                   *)
(*                                                                         *)
(* A step is one statement of a READ COMMITTED transaction, or a whole     *)
(* transaction of one statement.  StartSession is the only one of several; *)
(* it holds the row of its user's identity from its first write on.        *)
(*                                                                         *)
(* The tokens of the provider, in the row and in the answers, are not      *)
(* modelled: no step of these depends on more than whether they are valid. *)
(***************************************************************************)

EXTENDS Naturals

CONSTANTS
    Identities,      \* users, by the subject of their ID tokens
    Requests,        \* HTTP requests; a session is named after the one that starts it
    NoIdentity,      \* a row that does not exist, a user not known yet
    NoRequest,       \* an identity that nobody holds locked, a request without cookie
    MaxRetries       \* attempts at a transaction

ASSUME NoIdentityAssumption == NoIdentity \notin Identities
ASSUME NoRequestAssumption == NoRequest \notin Requests
ASSUME MaxRetriesAssumption == MaxRetries \in Nat \ {0}

VARIABLES
    sessions,        \* sessions[s]: the user of session s, if there is a row
    identities,      \* the users that have a row in identities
    given,           \* sessions whose cookie was sent to its user
    expired,         \* sessions whose signed token has expired
    loggedOut,       \* sessions a logout has deleted
    kind,            \* kind[q]: what request q does
    at,              \* at[q]: where it is
    user,            \* user[q]: whose request it is
    session,         \* session[q]: the session it presents or was given
    attempt,         \* attempt[q]: attempts at StartSession's transaction
    lock,            \* lock[i]: the request that holds the row of identity i
    doomed,          \* doomed[q]: the rows its transaction has deleted
    late             \* the requests that began after their session was logged out

tableVars == <<sessions, identities>>
cookieVars == <<given, expired, loggedOut, late>>
lockVars == <<attempt, lock, doomed>>
vars == <<tableVars, cookieVars, kind, at, user, session, lockVars>>

Kinds == {"none", "login", "use", "again", "renew", "renewed", "logout"}
Starting == {"finding", "updating", "creating", "clearing", "inserting", "committing", "conflict"}
Ends == {"in", "refused", "out", "dead"}
States == {"new", "reading", "refreshing", "storing", "started", "cleaning", "leaving"}
          \union Starting \union Ends

\* The type of the state.
TypeOK ==
    /\ sessions \in [Requests -> Identities \union {NoIdentity}]
    /\ identities \subseteq Identities
    /\ given \subseteq Requests
    /\ expired \subseteq Requests
    /\ loggedOut \subseteq Requests
    /\ kind \in [Requests -> Kinds]
    /\ at \in [Requests -> States]
    /\ user \in [Requests -> Identities \union {NoIdentity}]
    /\ session \in [Requests -> Requests \union {NoRequest}]
    /\ attempt \in [Requests -> 1..MaxRetries]
    /\ lock \in [Identities -> Requests \union {NoRequest}]
    /\ doomed \in [Requests -> SUBSET Requests]
    /\ late \subseteq Requests

Init ==
    /\ sessions = [s \in Requests |-> NoIdentity]
    /\ identities = {}
    /\ given = {}
    /\ expired = {}
    /\ loggedOut = {}
    /\ kind = [q \in Requests |-> "none"]
    /\ at = [q \in Requests |-> "new"]
    /\ user = [q \in Requests |-> NoIdentity]
    /\ session = [q \in Requests |-> NoRequest]
    /\ attempt = [q \in Requests |-> 1]
    /\ lock = [i \in Identities |-> NoRequest]
    /\ doomed = [q \in Requests |-> {}]
    /\ late = {}

Goes(q, to) == at' = [at EXCEPT ![q] = to]

Exists(s) == sessions[s] # NoIdentity

\* A row that a transaction has deleted and not yet committed: others wait.
Locked(s) == \E q \in Requests : s \in doomed[q]

-------------------------------------------------------------------------------
(***************************************************************************)
(* Requests begin.                                                         *)
(***************************************************************************)

Begin(q, k, to) ==
    /\ at[q] = "new"
    /\ kind' = [kind EXCEPT ![q] = k]
    /\ Goes(q, to)
    /\ UNCHANGED <<tableVars, given, expired, loggedOut, lockVars>>

\* The provider sends user i back with a code; its ID token is verified.
Callback(q, i) ==
    /\ Begin(q, "login", "finding")
    /\ user' = [user EXCEPT ![q] = i]
    /\ UNCHANGED <<session, late>>

Present(q, s) ==
    /\ s \in given
    /\ session' = [session EXCEPT ![q] = s]
    /\ UNCHANGED user

\* Auth: the signature of the session token is good, and it has expired or
\* it has not.
Use(q, s) ==
    /\ Begin(q, IF s \in expired THEN "renew" ELSE "use", "reading")
    /\ Present(q, s)
    /\ late' = IF s \in loggedOut THEN late \union {q} ELSE late

Logout(q, s) ==
    /\ Begin(q, "logout", "leaving")
    /\ Present(q, s)
    /\ UNCHANGED late

\* After seven days.
Expire(s) ==
    /\ s \in given \ expired
    /\ expired' = expired \union {s}
    /\ UNCHANGED <<tableVars, given, loggedOut, late, kind, at, user, session, lockVars>>

-------------------------------------------------------------------------------
(***************************************************************************)
(* A request q that presents a session: authenticate, and                  *)
(* handleExpiredSession when it renews it.                                 *)
(***************************************************************************)

\* The session is fit for use, so the request is let in or starts another.
Proceed(q) == Goes(q, IF kind[q] = "renew" THEN "finding" ELSE "in")

\* A renewal that fails deletes the session all the same.
Fail(q) == Goes(q, IF kind[q] = "renew" THEN "cleaning" ELSE "refused")

\* Fault: the session is not looked up.
ReadUnchecked(q) ==
    /\ at[q] = "reading"
    /\ user' = [user EXCEPT ![q] = sessions[session[q]]]
    /\ (kind[q] # "again" /\ Proceed(q)) \/ Goes(q, "refreshing")
    /\ UNCHANGED <<tableVars, cookieVars, kind, session, lockVars>>

\* The row is there, and the ID token in it is valid still or it is not; a
\* request that comes back for a new access token does not ask.
Read(q) ==
    /\ at[q] = "reading"
    /\ Exists(session[q])
    /\ user' = [user EXCEPT ![q] = sessions[session[q]]]
    /\ (kind[q] # "again" /\ Proceed(q)) \/ Goes(q, "refreshing")
    /\ UNCHANGED <<tableVars, cookieVars, kind, session, lockVars>>

\* There is no such row, its tokens cannot be decrypted, the provider does
\* not refresh them, or a transaction fails.
ReadFails(q) ==
    /\ at[q] \in {"reading", "refreshing", "storing"}
    /\ Fail(q)
    /\ UNCHANGED <<tableVars, cookieVars, kind, user, session, lockVars>>

Refresh(q) ==
    /\ at[q] = "refreshing"
    /\ Goes(q, "storing")
    /\ UNCHANGED <<tableVars, cookieVars, kind, user, session, lockVars>>

\* Fault: a row that is not there is inserted.
StoreInserts(q) ==
    /\ at[q] = "storing"
    /\ ~Locked(session[q])
    /\ sessions' = [sessions EXCEPT ![session[q]] = user[q]]
    /\ Proceed(q)
    /\ UNCHANGED <<identities, cookieVars, kind, user, session, lockVars>>

\* UpdateSession writes the tokens of a row that is there.  The transaction
\* may take effect and report an error: that is ReadFails.
Store(q) ==
    /\ at[q] = "storing"
    /\ Exists(session[q]) /\ ~Locked(session[q])
    /\ Proceed(q)
    /\ UNCHANGED <<tableVars, cookieVars, kind, user, session, lockVars>>

\* The connector answers 401 or 403: RefreshSessionTokens, once.
ComeBack(q) ==
    /\ at[q] = "in"
    /\ kind[q] \in {"use", "renewed"}
    /\ kind' = [kind EXCEPT ![q] = "again"]
    /\ Goes(q, "reading")
    /\ UNCHANGED <<tableVars, cookieVars, user, session, lockVars>>

DeleteRow(s) == sessions' = [sessions EXCEPT ![s] = NoIdentity]

\* The deferred DeleteSession of handleExpiredSession.
Clean(q) ==
    /\ at[q] = "cleaning"
    /\ \/ ~Locked(session[q]) /\ DeleteRow(session[q])
       \/ UNCHANGED sessions
    /\ Goes(q, IF kind[q] = "renewed" THEN "started" ELSE "refused")
    /\ UNCHANGED <<identities, cookieVars, kind, user, session, lockVars>>

\* Logout deletes the row, or finds none.
Leave(q) ==
    /\ at[q] = "leaving"
    /\ ~Locked(session[q])
    /\ DeleteRow(session[q])
    /\ loggedOut' = loggedOut \union {session[q]}
    /\ Goes(q, "out")
    /\ UNCHANGED <<identities, given, expired, late, kind, user, session, lockVars>>

LeaveFails(q) ==
    /\ at[q] = "leaving"
    /\ Goes(q, "out")
    /\ UNCHANGED <<tableVars, cookieVars, kind, user, session, lockVars>>

-------------------------------------------------------------------------------
(***************************************************************************)
(* StartSession of a request q.                                            *)
(***************************************************************************)

\* GetIdentity.
FindIdentity(q) ==
    /\ at[q] = "finding"
    /\ Goes(q, IF user[q] \in identities THEN "updating" ELSE "creating")
    /\ UNCHANGED <<tableVars, cookieVars, kind, user, session, lockVars>>

\* Fault: a user who is known is not updated.
UpdateIdentityUnlocked(q) ==
    /\ at[q] = "updating"
    /\ Goes(q, "clearing")
    /\ UNCHANGED <<tableVars, cookieVars, kind, user, session, lockVars>>

Lock(q) ==
    /\ lock[user[q]] = NoRequest
    /\ lock' = [lock EXCEPT ![user[q]] = q]
    /\ Goes(q, "clearing")
    /\ UNCHANGED <<tableVars, cookieVars, kind, user, session, attempt, doomed>>

\* The last_seen of a user who is known is written in every login ...
UpdateIdentity(q) == at[q] = "updating" /\ Lock(q)

\* ... and the subject is unique: of two first logins of a user the second
\* waits for the first, then fails.
CreateIdentity(q) == at[q] = "creating" /\ user[q] \notin identities /\ Lock(q)

SessionsOf(i) == {s \in Requests : sessions[s] = i}

\* DeleteIdentitySessions: the rows there are when the statement begins.
ClearSessions(q) ==
    /\ at[q] = "clearing"
    /\ doomed' = [doomed EXCEPT ![q] = SessionsOf(user[q])]
    /\ Goes(q, "inserting")
    /\ UNCHANGED <<tableVars, cookieVars, kind, user, session, attempt, lock>>

\* CreateSession: a row of the same user, or of the same ID, is a conflict.
InsertSession(q) ==
    /\ at[q] = "inserting"
    /\ Goes(q, IF SessionsOf(user[q]) \union {s \in {q} : Exists(s)} \subseteq doomed[q]
               THEN "committing" ELSE "conflict")
    /\ UNCHANGED <<tableVars, cookieVars, kind, user, session, lockVars>>

\* The locks of q are released.
Release(q) ==
    /\ lock' = [i \in Identities |-> IF lock[i] = q THEN NoRequest ELSE lock[i]]
    /\ doomed' = [doomed EXCEPT ![q] = {}]

\* The transaction is begun again after an error that may be transient.
Retry(q) ==
    /\ attempt[q] < MaxRetries
    /\ attempt' = [attempt EXCEPT ![q] = @ + 1]
    /\ Goes(q, "finding")

GiveUp(q) == Fail(q) /\ UNCHANGED attempt

Write(q) ==
    /\ at[q] = "committing"
    /\ sessions' = [s \in Requests |->
            IF s = q THEN user[q] ELSE IF s \in doomed[q] THEN NoIdentity ELSE sessions[s]]
    /\ identities' = identities \union {user[q]}
    /\ Release(q)
    /\ UNCHANGED <<cookieVars, user, session>>

\* A renewal deletes the old session once more before it sends the cookies.
Commit(q) ==
    /\ Write(q)
    /\ kind' = [kind EXCEPT ![q] = IF @ = "renew" THEN "renewed" ELSE @]
    /\ Goes(q, IF kind[q] = "renew" THEN "cleaning" ELSE "started")
    /\ UNCHANGED attempt

\* The transaction takes effect, but its caller is told of an error.
CommitUnknown(q) ==
    /\ Write(q)
    /\ Retry(q) \/ GiveUp(q)
    /\ UNCHANGED kind

\* Fault: one attempt too many.
RollBackOnceMore(q) ==
    /\ at[q] \in Starting
    /\ Release(q)
    /\ \/ attempt' = [attempt EXCEPT ![q] = @ + 1] /\ Goes(q, "finding")
       \/ GiveUp(q)
    /\ UNCHANGED <<tableVars, cookieVars, kind, user, session>>

\* Fault: attempts are not counted.
RollBackForever(q) ==
    /\ at[q] \in Starting
    /\ Release(q)
    /\ UNCHANGED attempt
    /\ Goes(q, "finding") \/ Fail(q)
    /\ UNCHANGED <<tableVars, cookieVars, kind, user, session>>

\* Any statement may fail, and the error may be transient; a session that
\* exists already is not.
RollBack(q) ==
    /\ at[q] \in Starting
    /\ Release(q)
    /\ \/ Retry(q) /\ at[q] # "conflict"
       \/ GiveUp(q)
    /\ UNCHANGED <<tableVars, cookieVars, kind, user, session>>

\* Fault: the cookies are sent before the session is committed.
SendCookiesEarly(q) ==
    /\ at[q] = "committing"
    /\ given' = given \union {q}
    /\ UNCHANGED <<tableVars, expired, loggedOut, late, kind, at, user, session, lockVars>>

\* setCookies, and the answer.
SendCookies(q) ==
    /\ at[q] = "started"
    /\ given' = given \union {q}
    /\ session' = [session EXCEPT ![q] = q]
    /\ Goes(q, "in")
    /\ UNCHANGED <<tableVars, expired, loggedOut, late, kind, user, lockVars>>

\* The replica that serves q dies, or the answer is lost with its cookies.
Die(q) ==
    /\ at[q] \notin Ends \union {"new"}
    /\ Release(q)
    /\ Goes(q, "dead")
    /\ UNCHANGED <<tableVars, cookieVars, kind, user, session, attempt>>

-------------------------------------------------------------------------------
RequestProceeds(q) ==
    \/ Read(q) \/ ReadFails(q) \/ Refresh(q) \/ Store(q) \/ Clean(q)
    \/ Leave(q) \/ LeaveFails(q)
    \/ FindIdentity(q) \/ UpdateIdentity(q) \/ CreateIdentity(q) \/ ClearSessions(q)
    \/ InsertSession(q) \/ Commit(q) \/ CommitUnknown(q) \/ RollBack(q) \/ SendCookies(q)

Next == \E q \in Requests :
    \/ \E i \in Identities : Callback(q, i)
    \/ \E s \in Requests : Use(q, s) \/ Logout(q, s)
    \/ Expire(q) \/ ComeBack(q) \/ RequestProceeds(q) \/ Die(q)

Spec == Init /\ [][Next]_vars

\* The goroutine of every request is scheduled, and every statement of a
\* transaction succeeds or fails within ten seconds.  A call of the provider
\* has no deadline of its own, so a refresh may last, and so may the check of
\* an ID token, which fetches the provider's keys when it does not know them.
AtProvider(q) == at[q] \in {"reading", "refreshing"}
FairSpec == Spec /\ \A q \in Requests :
    WF_vars(~AtProvider(q) /\ RequestProceeds(q))

-------------------------------------------------------------------------------
(***************************************************************************)
(* Correctness.                                                            *)
(***************************************************************************)

\* The login or the renewal of a user is never refused because of a session
\* of theirs: not one that another request starts at the same time, nor
\* their own, when a commit that is tried again had taken effect.
NeverConflicts == \A q \in Requests : at[q] # "conflict"

\* A request that begins after its session was logged out is not let in,
\* whatever refreshes and renewals were under way then.
NoLateEntry == \A q \in late : at[q] # "in" /\ kind[q] # "again"

\* A user has one session at most, and one that was given to its user and is
\* over never comes back.
AnyOf(S) == IF S = {} THEN NoRequest ELSE CHOOSE s \in S : TRUE
SessionOf(i) == AnyOf(SessionsOf(i))
Current == [i \in Identities |-> SessionOf(i)]
Single == INSTANCE SingleSession WITH
    Sessions <- Requests, NoSession <- NoRequest, current <- Current
OneSession == Single!Spec

\* Every request ends, unless the provider lets it wait for ever; it keeps no
\* other request from ending then.
RequestsEnd == \A q \in Requests :
    at[q] # "new" ~> (at[q] \in Ends \/ []AtProvider(q))

-------------------------------------------------------------------------------
(***************************************************************************)
(* The inductive invariant behind them.                                    *)
(***************************************************************************)

\* A request that writes its user's sessions holds that user's identity.
Writing(q) == at[q] \in {"clearing", "inserting", "committing", "conflict"}
LockInv ==
    /\ \A i \in Identities, q \in Requests : lock[i] = q => Writing(q) /\ user[q] = i
    /\ \A q \in Requests : Writing(q) => lock[user[q]] = q

\* What it has deleted are all the sessions there are of that user.
DoomedInv == \A q \in Requests :
    IF at[q] \in {"inserting", "committing"}
    THEN SessionsOf(user[q]) \subseteq doomed[q] /\ \A s \in doomed[q] : sessions[s] = user[q]
    ELSE doomed[q] = {}

\* A row belongs to the user of the request that started it, who has no other.
RowInv ==
    /\ \A s \in Requests : Exists(s) =>
        /\ sessions[s] = user[s]
        /\ kind[s] \in {"login", "renew", "renewed", "again"}
        /\ at[s] \in {"in", "reading", "refreshing", "storing"} => session[s] = s
    /\ \A s, t \in Requests : Exists(s) /\ sessions[s] = sessions[t] => s = t

\* A request knows its user from when it has read its session.
UserInv == \A q \in Requests :
    at[q] \in Starting \union {"refreshing", "storing"} => user[q] \in Identities

\* What a request does says where it may be; the session it presents was
\* given to its user, and none is given before its request has sent cookies.
GivenInv ==
    /\ \A q \in Requests :
        /\ at[q] = "new" => kind[q] = "none" /\ q \notin late
        /\ at[q] \in Starting => kind[q] \in {"login", "renew"}
        /\ at[q] = "started" => kind[q] \in {"login", "renewed"}
        /\ at[q] \in {"reading", "refreshing", "storing", "cleaning", "leaving"}
                => kind[q] \notin {"none", "login"}
        /\ kind[q] \notin {"none", "login"} => session[q] \in given
    /\ \A q \in given : /\ kind[q] \in {"login", "renewed", "again"}
                        /\ at[q] \in {"in", "reading", "refreshing", "storing", "refused", "dead"}

\* A session that was logged out is over, and its late requests are refused.
OutInv ==
    /\ loggedOut \subseteq given
    /\ \A s \in loggedOut : ~Exists(s)
    /\ \A q \in late : session[q] \in loggedOut /\ kind[q] \in {"use", "renew"}
                       /\ at[q] \in {"reading", "cleaning", "refused", "dead"}

IInv == TypeOK /\ LockInv /\ DoomedInv /\ RowInv /\ UserInv /\ GivenInv /\ OutInv /\ NeverConflicts

===============================================================================
