----------------------------- MODULE Credentials -----------------------------
(***************************************************************************)
(* The credentials of one account: server/internal/modules/identity. Its   *)
(* password, its sessions with their rotating refresh tokens, its personal *)
(* access tokens, and the requests and administrator's commands that issue *)
(* and revoke them, interleaved.                                           *)
(*                                                                         *)
(* A worker is one request or command at a time. One action is what no     *)
(* other transaction sees half done: a statement outside a transaction, a  *)
(* read, the account-row lock with the checks made under it, or a          *)
(* transaction's writes with its commit (READ COMMITTED: each statement    *)
(* sees what is committed). The lock is held from the lock's step to the   *)
(* commit's; refresh, logout, the revocation of a token and the cleanup do *)
(* not take it, and come between.                                          *)
(*                                                                         *)
(* Abstractions. Accounts share no row, so there is one. A hash is its     *)
(* password and a salt; salts are numbered as they are drawn, so that a    *)
(* later hash has a greater one. The secret of a session's generation is   *)
(* unique, so a refresh token is its session, its generation, whether its  *)
(* secret is the one the server issued, and whether its tag verifies       *)
(* (issued before the signing key changed, it does not). Access tokens     *)
(* only name a session. Tokens have no expiry here. A hash is made or      *)
(* verified in the step that reads what it needs.                          *)
(***************************************************************************)
EXTENDS Integers, FiniteSets

CONSTANTS Workers,      \* the requests and commands in flight
          Passwords,
          TokenIds,     \* bound: the personal access tokens ever made
          SessionTTL,   \* auth.session_ttl
          Plans         \* bounds, each with the requests and commands that come:
                        \* the sessions, hashes and generations of a session ever
                        \* made, and the last instant

ASSUME BoundsAssumption ==
    /\ SessionTTL \in Nat \ {0} /\ TokenIds \subseteq Nat
    /\ \A p \in Plans :
          /\ p.sessions \subseteq Nat
          /\ {p.salts, p.generations, p.time} \subseteq Nat

VARIABLES plan,      \* the bounds of this behavior, one of Plans
          clock,     \* the clock every process reads
          salts,     \* how many salts were drawn
          hash,      \* users.password
          active,    \* users.is_active
          holder,    \* the worker that holds the account-row lock, or Nobody
          sessions,  \* auth_sessions, by id
          gone,      \* the ids of deleted sessions
          tokens,    \* api_tokens, by id
          pc,        \* where a worker is
          job,       \* what it works on
          cut,       \* history: the salt the last reset-password drew
          change     \* history: the last change of the password, and the
                     \* session it kept

vars == <<plan, clock, salts, hash, active, holder, sessions, gone, tokens, pc, job,
          cut, change>>
account == <<salts, hash, active>>
history == <<cut, change>>

Nobody == "nobody"
ASSUME WorkersAssumption == Nobody \notin Workers

NoSession == 0        \* the nil uuid
Hashes == [password : Passwords, salt : 1..plan.salts]

\* What an access token or a personal access token names.
Actors == [session : plan.sessions] \cup [token : TokenIds]

\* root and late are history: the salt of the hash the login verified, and for
\* a token that of the credential it was made with, and whether that one, or
\* the one it goes back to, had run out when the account row was locked.
Sessions == [generation : 0..plan.generations, revoked : BOOLEAN,
             expires : 0..plan.time + SessionTTL, root : 1..plan.salts]
Tokens == [revoked : BOOLEAN, root : 1..plan.salts, late : BOOLEAN]

RefreshTokens == [session : plan.sessions, generation : 0..plan.generations,
                  genuine : BOOLEAN, tag : BOOLEAN]

Live(s, now) == ~ sessions[s].revoked /\ sessions[s].expires > now

\* sessionInvalid and tokenInvalid: nil, for the account's actor a.
Valid(a, now) ==
    /\ active
    /\ IF "session" \in DOMAIN a
       THEN a.session \in DOMAIN sessions /\ Live(a.session, now)
       ELSE a.token \in DOMAIN tokens /\ ~ tokens[a.token].revoked

RootOf(a) == IF "session" \in DOMAIN a THEN sessions[a.session].root
                                       ELSE tokens[a.token].root

RanOut(a) == IF "session" \in DOMAIN a
             THEN a.session \notin DOMAIN sessions \/ sessions[a.session].expires <= clock
             ELSE tokens[a.token].late

Init ==
    /\ plan \in Plans
    /\ clock = 0
    /\ salts = 1
    /\ hash \in {h \in Hashes : h.salt = 1}
    /\ active = TRUE
    /\ holder = Nobody
    /\ sessions = [s \in {} |-> NoSession]
    /\ gone = {}
    /\ tokens = [t \in {} |-> NoSession]
    /\ pc = [w \in Workers |-> "idle"]
    /\ job = [w \in Workers |-> [kind |-> "none", answer |-> "none"]]
    /\ cut = 1
    /\ change = [salt |-> 1, keep |-> NoSession, password |-> hash.password]

Tick ==
    /\ clock < plan.time
    /\ clock' = clock + 1
    /\ UNCHANGED <<plan, account, holder, sessions, gone, tokens, pc, job, history>>

-----------------------------------------------------------------------------
(* The life of a request.                                                    *)

\* w takes up the request j and goes to its first step.
Begin(w, kind, j, step) ==
    /\ kind \in plan.kinds
    /\ pc[w] = "idle"
    /\ pc' = [pc EXCEPT ![w] = step]
    /\ job' = [job EXCEPT ![w] = j]

\* w's request ends with an answer. Only a refresh's, and the token it was
\* about, stays in view, until w takes up the next request.
Answer(w, answer) ==
    /\ pc' = [pc EXCEPT ![w] = "idle"]
    /\ job' = [job EXCEPT
          ![w] = IF @.kind = "refresh"
                 THEN [kind |-> "refresh", presented |-> @.presented, answer |-> answer]
                 ELSE [kind |-> "none", answer |-> "none"]]

Goto(w, step) == pc' = [pc EXCEPT ![w] = step]

\* Broken: the lock outlives the transaction.
CommitHolding(w) == holder = w /\ UNCHANGED holder /\ Answer(w, "done")

\* The transaction that holds the account row commits, and w answers.
Commit(w) == holder = w /\ holder' = Nobody /\ Answer(w, "done")

\* A statement of the transaction fails, or the process dies: nothing is
\* written, the lock is free, and the client learns nothing.
Fail(w) ==
    /\ pc[w] # "idle"
    /\ holder' = IF holder = w THEN Nobody ELSE holder
    /\ Answer(w, "error")
    /\ UNCHANGED <<plan, clock, account, sessions, gone, tokens, history>>

\* A salt is drawn for a new hash of password.
Rehash(password) ==
    /\ salts < plan.salts
    /\ salts' = salts + 1
    /\ hash' = [password |-> password, salt |-> salts + 1]

\* Broken: with no session to keep, none is revoked.
RevokeSessionsButKeepless(keep, now) ==
    sessions' = [s \in DOMAIN sessions |->
        [sessions[s] EXCEPT !.revoked =
            @ \/ (keep # NoSession /\ s # keep /\ Live(s, now))]]

\* RevokeSessions: every live session of the account but keep.
RevokeSessions(keep, now) ==
    sessions' = [s \in DOMAIN sessions |->
        [sessions[s] EXCEPT !.revoked = @ \/ (s # keep /\ Live(s, now))]]

-----------------------------------------------------------------------------
(* Login.                                                                    *)

\* The account is found and its password, the right one, verified against the
\* snapshot of the hash, outside the transaction. A wrong one changes nothing.
LoginVerify(w) ==
    /\ Begin(w, "login", [kind |-> "login", snapshot |-> hash,
                          retried |-> FALSE, now |-> clock], "login")
    /\ UNCHANGED <<plan, clock, account, holder, sessions, gone, tokens, history>>

\* The clock is read after the request began and before its transaction.
Instants(w) == job[w].now..clock
Locked(w, step, now) ==
    /\ holder' = w
    /\ Goto(w, step)
    /\ job' = [job EXCEPT ![w].now = now]

\* The hash is not the snapshot any more: once, the password is verified
\* again, against the new one.
LookAgain(w) ==
    IF job[w].retried \/ hash.password # job[w].snapshot.password
    THEN Answer(w, "refused")
    ELSE /\ job' = [job EXCEPT
               ![w] = [@ EXCEPT !.snapshot = hash, !.retried = TRUE, !.now = clock]]
         /\ UNCHANGED pc

\* Broken: whatever the hash is by now.
LoginLockTrusting(w) ==
    /\ pc[w] = "login"
    /\ holder = Nobody
    /\ \/ ~ active /\ Answer(w, "refused") /\ UNCHANGED holder
       \/ active /\ \E now \in Instants(w) : Locked(w, "loginLocked", now)
    /\ UNCHANGED <<plan, clock, account, sessions, gone, tokens, history>>

\* Broken: an account deactivated meanwhile may log in.
LoginLockInactive(w) ==
    /\ pc[w] = "login"
    /\ holder = Nobody
    /\ \/ /\ hash # job[w].snapshot
          /\ LookAgain(w)
          /\ UNCHANGED holder
       \/ /\ hash = job[w].snapshot
          /\ \E now \in Instants(w) : Locked(w, "loginLocked", now)
    /\ UNCHANGED <<plan, clock, account, sessions, gone, tokens, history>>

LoginLock(w) ==
    /\ pc[w] = "login"
    /\ holder = Nobody
    /\ \/ /\ hash # job[w].snapshot
          /\ LookAgain(w)
          /\ UNCHANGED holder
       \/ /\ hash = job[w].snapshot
          /\ ~ active
          /\ Answer(w, "refused")
          /\ UNCHANGED holder
       \/ /\ hash = job[w].snapshot
          /\ active
          /\ \E now \in Instants(w) : Locked(w, "loginLocked", now)
    /\ UNCHANGED <<plan, clock, account, sessions, gone, tokens, history>>

\* The session is inserted; when the hashing parameters changed, the password
\* was hashed again and that hash is written too.
LoginCommit(w) ==
    LET s == Cardinality(DOMAIN sessions \cup gone) + 1 IN
    /\ pc[w] = "loginLocked"
    /\ s \in plan.sessions
    /\ sessions' = [i \in DOMAIN sessions \cup {s} |->
          IF i # s THEN sessions[i]
          ELSE [generation |-> 0, revoked |-> FALSE,
                expires |-> job[w].now + SessionTTL,
                root |-> job[w].snapshot.salt]]
    /\ UNCHANGED <<salts, hash>> \/ Rehash(job[w].snapshot.password)
    /\ Commit(w)
    /\ UNCHANGED <<plan, clock, active, gone, tokens, history>>

-----------------------------------------------------------------------------
(* Refresh and logout.                                                       *)

\* The tokens a client may present: any the server issued, their tag lost
\* with a signing key or not, and one it did not issue.
Presentable(k) ==
    /\ k.session \in plan.sessions
    /\ k.genuine => /\ k.session \in DOMAIN sessions \cup gone
                    /\ k.session \in DOMAIN sessions
                          => k.generation <= sessions[k.session].generation
    /\ k.tag => k.genuine

\* Broken: an old generation is refused, and its session stays.
JudgeForgiving(k, now) ==
    CASE ~ Live(k.session, now) -> "reject"
      [] Live(k.session, now) /\ k.generation = sessions[k.session].generation /\ k.genuine -> "rotate"
      [] OTHER -> "reject"

\* JudgeRefresh, of the row just read.
Judge(k, now) ==
    LET s == sessions[k.session] IN
    CASE ~ Live(k.session, now) -> "reject"
      [] Live(k.session, now) /\ k.generation = s.generation /\ k.genuine -> "rotate"
      [] Live(k.session, now) /\ k.generation < s.generation /\ k.tag -> "reuse"
      [] OTHER -> "reject"

\* Broken: whatever the generation and hash are by now.
CurrentOfAnyGeneration(k, now) == k.session \in DOMAIN sessions /\ Live(k.session, now)

\* Broken: a session revoked meanwhile rotates.
CurrentThoughRevoked(k, now) ==
    /\ k.session \in DOMAIN sessions
    /\ sessions[k.session].expires > now
    /\ k.generation = sessions[k.session].generation /\ k.genuine

\* The WHERE of RotateSession and EndSession: the session is live and still at
\* the generation and hash of k.
Current(k, now) ==
    /\ k.session \in DOMAIN sessions
    /\ Live(k.session, now)
    /\ k.generation = sessions[k.session].generation /\ k.genuine

RefreshBegin(w) ==
    \E k \in RefreshTokens :
        /\ Presentable(k)
        /\ k.generation < plan.generations
        /\ Begin(w, "refresh", [kind |-> "refresh", presented |-> k,
                                retried |-> FALSE, now |-> clock], "refreshRead")
        /\ UNCHANGED <<plan, clock, account, holder, sessions, gone, tokens, history>>

\* The session is read and the token judged.
RefreshRead(w) ==
    LET k == job[w].presented
        verdict == IF k.session \in DOMAIN sessions THEN Judge(k, job[w].now) ELSE "reject"
    IN
    /\ pc[w] = "refreshRead"
    /\ \/ verdict = "reject" /\ Answer(w, "refused")
       \/ verdict = "reuse" /\ Goto(w, "refreshReuse") /\ UNCHANGED job
       \/ verdict = "rotate" /\ Goto(w, "refreshRotate") /\ UNCHANGED job
    /\ UNCHANGED <<plan, clock, account, holder, sessions, gone, tokens, history>>

\* RevokeForReuse commits before the refusal goes out.
RefreshReuse(w) ==
    /\ pc[w] = "refreshReuse"
    /\ sessions' = [s \in DOMAIN sessions |->
          [sessions[s] EXCEPT !.revoked = @ \/ s = job[w].presented.session]]
    /\ Answer(w, "refused")
    /\ UNCHANGED <<plan, clock, account, holder, gone, tokens, history>>

\* The conditional rotation hits; the answer to the commit may be lost.
RefreshRotate(w) ==
    LET k == job[w].presented IN
    /\ pc[w] = "refreshRotate"
    /\ Current(k, job[w].now)
    /\ sessions' = [sessions EXCEPT ![k.session].generation = @ + 1]
    /\ \E answer \in {"tokens", "error"} : Answer(w, answer)
    /\ UNCHANGED <<plan, clock, account, holder, gone, tokens, history>>

\* It misses: the row is read and judged once more. A second miss is
\* errRotatedTwice.
RefreshMiss(w) ==
    /\ pc[w] = "refreshRotate"
    /\ ~ Current(job[w].presented, job[w].now)
    /\ IF job[w].retried
       THEN Answer(w, "fault")
       ELSE job' = [job EXCEPT ![w].retried = TRUE] /\ Goto(w, "refreshRead")
    /\ UNCHANGED <<plan, clock, account, holder, sessions, gone, tokens, history>>

\* Logout is one statement, EndSession; any other token changes nothing.
Logout ==
    /\ "logout" \in plan.kinds
    /\ \E k \in RefreshTokens :
          /\ Presentable(k)
          /\ Current(k, clock)
          /\ sessions' = [sessions EXCEPT ![k.session].revoked = TRUE]
    /\ UNCHANGED <<plan, clock, account, holder, gone, tokens, pc, job, history>>

\* DeleteExpiredSessions: sessions that expired before the clock's now; a row
\* some transaction has locked is skipped.
CleanupSessions ==
    /\ "cleanup" \in plan.kinds
    /\ \E S \in SUBSET {s \in DOMAIN sessions : sessions[s].expires < clock} \ {{}} :
          /\ sessions' = [s \in DOMAIN sessions \ S |-> sessions[s]]
          /\ gone' = gone \cup S
    /\ UNCHANGED <<plan, clock, account, holder, tokens, pc, job, history>>

-----------------------------------------------------------------------------
(* What a signed-in caller asks for.                                         *)

\* Broken: the lock, without the second look at the credential.
CredentialLockOnly(w, now) == holder = Nobody /\ active

\* CredentialLock: the account row is free, and under its lock the account is
\* active and the caller's credential still valid.
CredentialLock(w, now) == holder = Nobody /\ Valid(job[w].actor, now)

CallerKinds == {"changePassword", "createToken", "deactivate"}

\* The credential does not hold any more.
CredentialRefused(w) ==
    /\ pc[w] \in CallerKinds
    /\ holder = Nobody
    /\ \E now \in Instants(w) : ~ CredentialLock(w, now)
    /\ Answer(w, "refused")
    /\ UNCHANGED <<plan, clock, account, holder, sessions, gone, tokens, history>>

\* The request is authenticated; change-password has verified the current
\* password against the snapshot of its hash.
CallerBegin(w) ==
    \E a \in Actors, kind \in CallerKinds :
        /\ Valid(a, clock)
        /\ Begin(w, kind, [kind |-> kind, actor |-> a, root |-> RootOf(a),
                           late |-> FALSE, snapshot |-> hash, retried |-> FALSE,
                           now |-> clock], kind)
        /\ UNCHANGED <<plan, clock, account, holder, sessions, gone, tokens, history>>

ChangeLock(w) ==
    /\ pc[w] = "changePassword"
    /\ \E now \in Instants(w) :
          /\ CredentialLock(w, now)
          /\ \/ /\ hash # job[w].snapshot
                /\ LookAgain(w)
                /\ UNCHANGED holder
             \/ /\ hash = job[w].snapshot
                /\ Locked(w, "changeLocked", now)
    /\ UNCHANGED <<plan, clock, account, sessions, gone, tokens, history>>

SessionOf(a) == IF "session" \in DOMAIN a THEN a.session ELSE NoSession

\* The new hash, and the other sessions revoked: all, for a token's caller.
ChangeCommit(w) ==
    LET keep == SessionOf(job[w].actor) IN
    /\ pc[w] = "changeLocked"
    /\ \E p \in Passwords :
          /\ Rehash(p)
          /\ change' = [salt |-> salts + 1, keep |-> keep, password |-> p]
    /\ RevokeSessions(keep, job[w].now)
    /\ Commit(w)
    /\ UNCHANGED <<plan, clock, active, gone, tokens, cut>>

CreateTokenLock(w) ==
    /\ pc[w] = "createToken"
    /\ \E now \in Instants(w) :
          /\ CredentialLock(w, now)
          /\ holder' = w
          /\ Goto(w, "createLocked")
          /\ job' = [job EXCEPT
                ![w] = [@ EXCEPT !.now = now, !.late = RanOut(job[w].actor)]]
    /\ UNCHANGED <<plan, clock, account, sessions, gone, tokens, history>>

CreateTokenCommit(w) ==
    LET t == Cardinality(DOMAIN tokens) + 1 IN
    /\ pc[w] = "createLocked"
    /\ t \in TokenIds
    /\ tokens' = [i \in DOMAIN tokens \cup {t} |->
          IF i = t THEN [revoked |-> FALSE, root |-> job[w].root, late |-> job[w].late]
          ELSE tokens[i]]
    /\ Commit(w)
    /\ UNCHANGED <<plan, clock, account, sessions, gone, history>>

DeactivateLock(w) ==
    /\ pc[w] = "deactivate"
    /\ \E now \in Instants(w) : CredentialLock(w, now) /\ Locked(w, "deactivateLocked", now)
    /\ UNCHANGED <<plan, clock, account, sessions, gone, tokens, history>>

\* RevokeAPIToken is one statement, without the lock.
RevokeToken ==
    /\ "revokeToken" \in plan.kinds
    /\ \E t \in DOMAIN tokens :
          /\ ~ tokens[t].revoked
          /\ \E a \in Actors : Valid(a, clock)
          /\ tokens' = [tokens EXCEPT ![t].revoked = TRUE]
    /\ UNCHANGED <<plan, clock, account, holder, sessions, gone, pc, job, history>>

-----------------------------------------------------------------------------
(* What the administrator's commands do, each under the account-row lock.    *)

Commands == {"resetPassword", "setEmail", "activate", "deactivateByEmail"}

CommandBegin(w) ==
    \E kind \in Commands :
        /\ Begin(w, kind, [kind |-> kind, now |-> clock], kind)
        /\ UNCHANGED <<plan, clock, account, holder, sessions, gone, tokens, history>>

CommandLock(w) ==
    /\ pc[w] \in Commands
    /\ holder = Nobody
    /\ Locked(w, "commandLocked", job[w].now)
    /\ UNCHANGED <<plan, clock, account, sessions, gone, tokens, history>>

\* reset-password: a new hash, every session and every token revoked.
ResetCommit(w) ==
    /\ pc[w] = "commandLocked"
    /\ job[w].kind = "resetPassword"
    /\ \E p \in Passwords :
          /\ Rehash(p)
          /\ change' = [salt |-> salts + 1, keep |-> NoSession, password |-> p]
    /\ cut' = salts + 1
    /\ RevokeSessions(NoSession, job[w].now)
    /\ tokens' = [t \in DOMAIN tokens |-> [tokens[t] EXCEPT !.revoked = TRUE]]
    /\ Commit(w)
    /\ UNCHANGED <<plan, clock, active, gone>>

\* set-email: every session revoked; the tokens stay.
SetEmailCommit(w) ==
    /\ pc[w] = "commandLocked"
    /\ job[w].kind = "setEmail"
    /\ RevokeSessions(NoSession, job[w].now)
    /\ Commit(w)
    /\ UNCHANGED <<plan, clock, account, gone, tokens, history>>

ActivateCommit(w) ==
    /\ pc[w] = "commandLocked"
    /\ job[w].kind = "activate"
    /\ active' = TRUE
    /\ Commit(w)
    /\ UNCHANGED <<plan, clock, salts, hash, sessions, gone, tokens, history>>

\* The account inactive and every session revoked, for its owner or for the
\* administrator; the tokens stay.
DeactivateCommit(w) ==
    /\ \/ pc[w] = "deactivateLocked"
       \/ pc[w] = "commandLocked" /\ job[w].kind = "deactivateByEmail"
    /\ active' = FALSE
    /\ RevokeSessions(NoSession, job[w].now)
    /\ Commit(w)
    /\ UNCHANGED <<plan, clock, salts, hash, gone, tokens, history>>

-----------------------------------------------------------------------------
Lock(w) ==
    \/ LoginLock(w) \/ ChangeLock(w) \/ CreateTokenLock(w) \/ DeactivateLock(w)
    \/ CommandLock(w) \/ CredentialRefused(w)

Step(w) ==
    \/ LoginCommit(w) \/ RefreshRead(w) \/ RefreshReuse(w) \/ RefreshRotate(w)
    \/ RefreshMiss(w) \/ ChangeCommit(w) \/ CreateTokenCommit(w)
    \/ ResetCommit(w) \/ SetEmailCommit(w) \/ ActivateCommit(w)
    \/ DeactivateCommit(w)

Next ==
    \/ Tick \/ Logout \/ CleanupSessions \/ RevokeToken
    \/ \E w \in Workers :
          \/ LoginVerify(w) \/ RefreshBegin(w) \/ CallerBegin(w) \/ CommandBegin(w)
          \/ Lock(w) \/ Step(w) \/ Fail(w)

Spec == Init /\ [][Next]_vars

-----------------------------------------------------------------------------
LockedSteps == {"loginLocked", "changeLocked", "createLocked",
                "deactivateLocked", "commandLocked"}

\* Types, and who holds the account row.
TypeOK ==
    /\ clock \in 0..plan.time
    /\ salts \in 1..plan.salts /\ hash \in Hashes /\ active \in BOOLEAN
    /\ DOMAIN sessions \subseteq plan.sessions
    /\ \A s \in DOMAIN sessions : sessions[s] \in Sessions
    /\ gone \subseteq plan.sessions \ DOMAIN sessions
    /\ DOMAIN tokens \subseteq TokenIds
    /\ \A t \in DOMAIN tokens : tokens[t] \in Tokens
    /\ holder \in Workers \cup {Nobody}
    /\ \A w \in Workers :
          /\ job[w].kind \in plan.kinds \cup {"none"}
          /\ pc[w] \in LockedSteps <=> holder = w

\* w's last request was a refresh, and this its answer.
Answered(w, answer) ==
    pc[w] = "idle" /\ job[w].kind = "refresh" /\ job[w].answer = answer

\* A refresh token is exchanged once: of two refreshes that presented the same
\* generation, at most one was answered with tokens, however they interleave
\* (sessions.sql:21-31).
ExchangedOnce ==
    \A v, w \in Workers :
        v # w /\ Answered(v, "tokens") /\ Answered(w, "tokens")
        => \/ job[v].presented.session # job[w].presented.session
           \/ job[v].presented.generation # job[w].presented.generation

\* A refusal of a token the server issued means that its session ended: the
\* token was used before, and its reuse revoked the session before the answer
\* (refresh.go:41-48), or the session was over anyway.
RefusedMeansEnded ==
    \A w \in Workers :
        Answered(w, "refused") /\ job[w].presented.genuine /\ job[w].presented.tag
        => LET s == job[w].presented.session IN
           s \notin DOMAIN sessions \/ ~ Live(s, clock)

\* A session someone revoked gives no more tokens, even to a refresh that had
\* judged it live (sessions.sql:22-24).
RevokedRotatesNot ==
    [][\A s \in DOMAIN sessions \cap DOMAIN sessions' :
          sessions'[s].generation # sessions[s].generation
          => ~ sessions[s].revoked]_vars

\* A deactivated account has no live session: no login that was under way
\* inserts one (login.go:106-108, deactivate.go:114).
InactiveIsOut == ~ active => \A s \in DOMAIN sessions : ~ Live(s, clock)

\* After reset-password no credential that goes back to an older password
\* works: no session, and no personal access token made with one while it
\* lasted, whoever was under way (reset_password.go:55-56,
\* create_api_token.go:41-44).
ResetIsFinal ==
    /\ \A s \in DOMAIN sessions : Live(s, clock) => sessions[s].root >= cut
    /\ \A t \in DOMAIN tokens :
          ~ tokens[t].revoked => tokens[t].root >= cut \/ tokens[t].late

\* No personal access token goes back to a password older than the last reset:
\* "a token creation that verified the old password holds or waits for the same
\* lock, and finds its credential revoked" (reset_password.go:55-56). It fails:
\* the reset revokes the sessions that have not expired at its instant
\* (sessions.sql:39-45), and the creation that waited judges its own at the
\* instant it read before (create_api_token.go:55).
ResetRevokesTokens ==
    \A t \in DOMAIN tokens : ~ tokens[t].revoked => tokens[t].root >= cut

\* After a change of the password, only the session that changed it and those
\* of later logins live (change_password.go:50-53).
OthersSignedOut ==
    \A s \in DOMAIN sessions :
        Live(s, clock) => s = change.keep \/ sessions[s].root >= change.salt

\* A login that hashes the password again never brings an older password back
\* (login.go:103-105).
PasswordKept == hash.password = change.password
=============================================================================
