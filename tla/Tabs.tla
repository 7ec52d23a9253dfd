--------------------------------- MODULE Tabs ---------------------------------
(***************************************************************************)
(* The session as the tabs of one browser share it                         *)
(* (web/apps/web/core/lib/auth).                                           *)
(*                                                                         *)
(* localStorage holds one record, a refresh token and the login it belongs *)
(* to. Every tab has a token manager, which follows the record, refreshes  *)
(* the session and ends it, each time in a task under the lock the tabs    *)
(* share, and a client that puts its access token on the requests. The     *)
(* server exchanges a refresh token once: it takes a second use for a      *)
(* theft and ends the session.                                             *)
(*                                                                         *)
(* An action is one JavaScript task of one tab, from one await to the      *)
(* next; the tabs run side by side. Storage events come late. Under the    *)
(* Web Locks lock a write reaches the other tabs a moment after its task,  *)
(* as the code found of Firefox (refresh-lock.ts:22-25); under the lease   *)
(* writes are seen at once, but the lease is read and written in two steps *)
(* and a tab that sleeps loses it. Requests and answers get lost, and tabs *)
(* are closed at any moment.                                               *)
(*                                                                         *)
(* Abstractions. A refresh token is its session's number and its place in  *)
(* the session's chain of tokens, an access token is named after the       *)
(* refresh token it came with. Times are left out: an access token may be  *)
(* too old whenever it is looked at, a wait passes at any moment. A tab    *)
(* makes one request at a time. A login is numbered at its sign-in.        *)
(***************************************************************************)
EXTENDS Naturals, Sequences, FiniteSets, SequencesExt, Functions

CONSTANTS Tabs,       \* the tabs
          Plans,      \* what a run may be: the lock of the page ("web" or
                      \* "lease"), and how many sign-ins, requests, closed
                      \* tabs and failures (requests without an answer,
                      \* tabs that sleep over their lease) it sees
          MaxLogins,  \* bound: the sessions
          MaxTokens   \* bound: the refresh tokens until a session expires

ASSUME TabsAssumption ==
    /\ {"none", "gone"} \cap Tabs = {}
    /\ Plans \subseteq [lock : {"web", "lease"}, signIns : Nat, requests : Nat,
                       closes : Nat, failures : Nat]
    /\ \A p \in Plans : p.signIns < MaxLogins
    /\ {MaxLogins, MaxTokens} \subseteq Nat \ {0}

Logins == 1..MaxLogins
None == 0     \* no login

\* A refresh token with its login: the record, when it is in localStorage.
Token == [login : 0..MaxLogins, n : 0..MaxTokens]
NoToken == [login |-> 0, n |-> 0]

VARIABLES
    session,   \* the server's sessions: their current token, alive or not
    logins,    \* how many there are
    record,    \* localStorage: nerve.auth
    before,    \* what it was before a write not yet seen everywhere
    behind,    \* the tabs that still see that
    news,      \* the tabs with a storage event on its way
    tab,       \* every tab's token manager
    line,      \* the tasks that wait for the lock or hold it, in order
    job,       \* what each tab's first task is doing
    handed,    \* settled tasks whose result has not reached their tab
    req,       \* every tab's request
    lease,     \* localStorage: nerve.auth.refresh_lease: its owner, if any,
               \* "gone" when that tab was closed
    left,      \* the lock of the page, and what is left to come
    \* history
    last,      \* the last login whose record was written by a sign-in
    over,      \* the logins signed out of, or that the server refused
    lost,      \* the logins a new token of which was lost
    lapsed,    \* the lease failed to keep others out
    reused     \* the logins of which a token was sent twice

stored == <<record, before, behind, news>>
server == <<session, logins>>
history == <<last, over, lost, lapsed, reused>>
vars == <<server, stored, tab, line, job, handed, req, lease, left,
          history>>

ClosedTab == [status |-> "closed", login |-> None, access |-> NoToken,
              backOff |-> FALSE, refreshing |-> None, first |-> None]
NoJob == [phase |-> "none", sent |-> NoToken, answer |-> "none", result |-> "none"]
NoRequest == [phase |-> "none", login |-> None, token |-> NoToken]

Open == {t \in Tabs : tab[t].status # "closed"}

Init ==
    /\ left \in Plans
    /\ logins \in 0..1
    /\ session = [l \in Logins |-> [n |-> 1, alive |-> l <= logins]]
    /\ record = IF logins = 0 THEN NoToken ELSE [login |-> 1, n |-> 1]
    /\ before = NoToken /\ behind = {} /\ news = {}
    /\ tab = [t \in Tabs |-> ClosedTab]
    /\ line = <<>> /\ handed = {} /\ lease = "none"
    /\ job = [t \in Tabs |-> NoJob]
    /\ req = [t \in Tabs |-> NoRequest]
    /\ last = logins
    /\ over = {} /\ lost = {} /\ reused = {} /\ lapsed = FALSE

Fail == left.failures > 0 /\ left' = [left EXCEPT !.failures = @ - 1]

-----------------------------------------------------------------------------
(* localStorage *)

\* The record as a tab reads it.
Seen(t) == IF t \in behind THEN before ELSE record

\* Writes the record, or removes it.
Write(t, r) ==
    /\ record' = r
    /\ before' = IF left.lock = "web" THEN record ELSE NoToken
    /\ behind' = IF left.lock = "web" THEN Tabs \ {t} ELSE {}
    /\ news' = IF left.lock = "web" THEN news ELSE news \cup (Open \ {t})

\* A write reaches another tab, and the storage event with it.
Reach(t) ==
    /\ t \in behind
    /\ behind' = behind \ {t}
    /\ before' = IF behind' = {} THEN NoToken ELSE before
    /\ news' = news \cup ({t} \cap Open)
    /\ UNCHANGED <<server, record, tab, line, job, handed, req,
                   lease, left, history>>

-----------------------------------------------------------------------------
(* The token manager's state *)

LeaveSession(s) == [s EXCEPT !.access = NoToken, !.backOff = FALSE]

SignedOutKeepingLogin(s) == [LeaveSession(s) EXCEPT !.status = "signed-out"]
SignedOut(s) == [LeaveSession(s) EXCEPT !.status = "signed-out", !.login = None]

\* Signed out with the record gone, else in the record's session.
SwitchTo(s, r) ==
    CASE r = NoToken -> SignedOut(s)
      [] r # NoToken /\ r.login = s.login -> s
      [] OTHER -> [LeaveSession(s) EXCEPT !.status = "signed-in", !.login = r.login]

\* Keeps new tokens.
Keep(s, token) == [s EXCEPT !.access = token, !.backOff = FALSE]

IsAnyRecord(r, login) == r # NoToken
IsRecordOf(r, login) == r # NoToken /\ r.login = login

\* A tab is in one JavaScript task at a time: under the lease a task's
\* result reaches those that wait for it before the tab does anything else.
Idle(t) == t \in Open /\ (left.lock = "lease" => \A h \in handed : h.tab # t)

Task(t, kind, login) == [tab |-> t, kind |-> kind, login |-> login]

\* A refresh that can be asked for: one that is under way is joined, a new
\* one waits in line. Within the back-off there is none.
Refresh(t, s) ==
    IF s.refreshing = s.login
    THEN /\ tab' = [tab EXCEPT ![t] = s]
         /\ UNCHANGED line
    ELSE /\ tab' = [tab EXCEPT ![t] = [s EXCEPT !.refreshing = s.login]]
         /\ line' = Append(line, Task(t, "refresh", s.login))
MayRefresh(s) == s.refreshing = s.login \/ ~s.backOff

\* The first refresh of a starting or unavailable session.
FirstRefresh(t, s) == Refresh(t, [s EXCEPT !.first = s.login])

\* The app loads in a tab. Without a record it asks nothing.
Start(t) ==
    /\ tab[t].status = "closed"
    /\ LET r == Seen(t) IN
       IF r = NoToken
       THEN /\ tab' = [tab EXCEPT ![t] = [ClosedTab EXCEPT !.status = "signed-out"]]
            /\ UNCHANGED line
       ELSE FirstRefresh(t, [ClosedTab EXCEPT !.status = "starting", !.login = r.login])
    /\ UNCHANGED <<server, stored, job, handed, req, lease, left, history>>

\* The retry timer fires, or the user tries again.
Retry(t) ==
    /\ Idle(t) /\ tab[t].status = "unavailable"
    /\ FirstRefresh(t, [tab[t] EXCEPT !.backOff = FALSE])
    /\ UNCHANGED <<server, stored, job, handed, req, lease, left, history>>

\* The back-off passes.
BackOffEnds(t) ==
    /\ tab[t].backOff
    /\ tab' = [tab EXCEPT ![t].backOff = FALSE]
    /\ UNCHANGED <<server, stored, line, job, handed, req, lease, left, history>>

\* What a tab makes of the record when it hears of a change.
HeardOnceStarted(s, r) ==
    IF s.status \in {"starting", "unavailable"} \/ (r = NoToken /\ s.status = "signed-out")
    THEN s ELSE SwitchTo(s, r)
Heard(s, r) ==
    IF r = NoToken /\ s.status = "signed-out" THEN s ELSE SwitchTo(s, r)

\* The storage event: the tab reads the record there now.
HandleStorageChange(t) ==
    /\ Idle(t) /\ t \in news
    /\ news' = news \ {t}
    /\ tab' = [tab EXCEPT ![t] = Heard(@, Seen(t))]
    /\ UNCHANGED <<server, record, before, behind, line, job, handed, req,
                   lease, left, history>>

\* The user signs in: the server's tokens are kept under the lock.
SignIn(t) ==
    /\ Idle(t) /\ tab[t].status = "signed-out"
    /\ left.signIns > 0
    /\ \A i \in DOMAIN line : line[i].tab = t => line[i].kind # "signIn"
    /\ left' = [left EXCEPT !.signIns = @ - 1]
    /\ logins' = logins + 1
    /\ session' = [session EXCEPT ![logins + 1].alive = TRUE]
    /\ line' = Append(line, Task(t, "signIn", logins + 1))
    /\ UNCHANGED <<stored, tab, job, handed, req, lease, history>>

\* The user signs out.
SignOut(t) ==
    /\ Idle(t) /\ tab[t].status \in {"signed-in", "unavailable"}
    /\ \A i \in DOMAIN line : line[i].tab = t => line[i].kind # "signOut"
    /\ line' = Append(line, Task(t, "signOut", tab[t].login))
    /\ over' = over \cup {tab[t].login}
    /\ UNCHANGED <<server, stored, tab, job, handed, req, lease, left,
                   last, lost, lapsed, reused>>

-----------------------------------------------------------------------------
(* The lock *)

\* A tab's tasks in a line, and the place of the first of them.
Has(q, t) == \E i \in DOMAIN q : q[i].tab = t
First(q, t) == CHOOSE i \in DOMAIN q : q[i].tab = t /\ \A j \in 1..(i - 1) : q[j].tab # t

HasTask(t) == Has(line, t)
FirstTask(t) == line[First(line, t)]

\* The line without the tab's first task.
Shorter(t) == RemoveAt(line, First(line, t))

\* The members of a set of places, in order.
InOrder(S) ==
    {f \in Bijection(1..Cardinality(S), S) : \A i, j \in DOMAIN f : i < j => f[i] < f[j]}

\* A task waits for the lease: it finds it free, or its tab's own,
ReadLease(t) ==
    /\ left.lock = "lease" /\ HasTask(t) /\ job[t].phase = "none"
    /\ lease \in {"none", t}
    /\ job' = [job EXCEPT ![t].phase = "taking"]
    /\ UNCHANGED <<server, stored, tab, line, handed, req, lease, left, history>>

\* writes it,
WriteLease(t) ==
    /\ job[t].phase = "taking"
    /\ lease' = t
    /\ job' = [job EXCEPT ![t].phase = "settling"]
    /\ UNCHANGED <<server, stored, tab, line, handed, req, left, history>>

\* and reads it back: another tab's by now, it waits for it again.
LeaseLost(t) ==
    /\ job[t].phase = "settling" /\ lease # t
    /\ job' = [job EXCEPT ![t].phase = "none"]
    /\ UNCHANGED <<server, stored, tab, line, handed, req, lease, left, history>>

\* The settling time is meant to be long enough for whoever read the lease
\* before this tab wrote it to have written its own.
Settled(t) == \A u \in Tabs \ {t} : job[u].phase # "taking"

\* The lease expires: its tab is gone, or sleeps over it.
LeaseEnds ==
    /\ lease # "none"
    /\ lease' = "none"
    /\ lapsed' = (lapsed \/ lease # "gone")
    /\ IF lease = "gone" THEN UNCHANGED left ELSE Fail
    /\ UNCHANGED <<server, stored, tab, line, job, handed, req,
                   last, over, lost, reused>>

\* The tab's first task has the lock.
Granted(t) ==
    /\ HasTask(t)
    /\ IF left.lock = "web" THEN Head(line).tab = t /\ job[t].phase = "none"
       ELSE job[t].phase = "settling" /\ lease = t

Hand(t, result) ==
    LET sent == job[t].sent IN
    handed' = handed \cup {[tab |-> t, task |-> FirstTask(t), result |-> result,
                            token |-> IF result = "tokens" THEN [sent EXCEPT !.n = @ + 1]
                                      ELSE NoToken]}

\* The task settles. The Web Locks lock is given back in a later task, the
\* lease at once, if it is the tab's still.
Settle(t, result) ==
    IF left.lock = "web"
    THEN /\ job' = [job EXCEPT ![t] = [@ EXCEPT !.phase = "settled", !.result = result,
                                              !.answer = "none"]]
         /\ UNCHANGED <<line, handed, lease>>
    ELSE /\ job' = [job EXCEPT ![t] = NoJob]
         /\ line' = Shorter(t)
         /\ Hand(t, result)
         /\ lease' = IF lease = t THEN "none" ELSE lease

\* By then the writes of the task have reached the other tabs.
MayReleaseAtOnce(t) == job[t].phase = "settled"
MayReleaseUnlessFailed(t) ==
    job[t].phase = "settled" /\ behind = {} /\ job[t].result # "unavailable"
MayRelease(t) == job[t].phase = "settled" /\ behind = {}

Release(t) ==
    /\ MayRelease(t)
    /\ line' = Shorter(t)
    /\ Hand(t, job[t].result)
    /\ job' = [job EXCEPT ![t] = NoJob]
    /\ UNCHANGED <<server, stored, tab, req, lease, left, history>>

-----------------------------------------------------------------------------
(* The tasks under the lock *)

\* The task sends the refresh token it read.
Call(t, r) ==
    /\ job' = [job EXCEPT ![t].phase = "calling", ![t].sent = r]
    /\ UNCHANGED <<line, handed, lease>>

\* Another session's record, or none, is followed.
Follow(t, r, result) ==
    /\ tab' = [tab EXCEPT ![t] = SwitchTo(@, r)]
    /\ Settle(t, result)
    /\ UNCHANGED <<stored, last>>

\* Ends the session of the record, or follows another's.
End(t, login) ==
    IF IsRecordOf(Seen(t), login)
    THEN /\ Write(t, NoToken)
         /\ tab' = [tab EXCEPT ![t] = SignedOut(@)]
         /\ Settle(t, "ended")
         /\ UNCHANGED last
    ELSE Follow(t, Seen(t), "changed")

\* A new session's record is written without a look at the old one.
KeepSignIn(t, login) ==
    LET r == [login |-> login, n |-> 1] IN
    /\ Write(t, r)
    /\ tab' = [tab EXCEPT ![t] = [Keep(@, r) EXCEPT !.status = "signed-in",
                                                    !.login = login]]
    /\ last' = login
    /\ Settle(t, "done")

\* A task takes the lock: what it does up to its request, or all of it.
Run(t) ==
    /\ Idle(t) /\ Granted(t)
    /\ LET task == FirstTask(t) IN
       CASE task.kind = "signIn" -> KeepSignIn(t, task.login)
         [] task.kind = "end" -> End(t, task.login)
         [] task.kind \in {"refresh", "signOut"} ->
              IF IsRecordOf(Seen(t), task.login)
              THEN Call(t, Seen(t)) /\ UNCHANGED <<stored, tab, last>>
              ELSE Follow(t, Seen(t), "changed")
    /\ lapsed' = (lapsed \/ (left.lock = "lease" /\ ~Settled(t)))
    /\ UNCHANGED <<server, req, left, over, lost, reused>>

Answer(t, a) == job' = [job EXCEPT ![t].phase = "answered", ![t].answer = a]

\* The server takes a refresh or a logout, and answers. A refresh with a token that
\* was exchanged already ends its session, and so does its age; a logout with one
\* changes nothing, and is answered as any other.
Serve(t) ==
    /\ job[t].phase = "calling"
    /\ LET login == job[t].sent.login
           n == job[t].sent.n
       IN
       \/ /\ FirstTask(t).kind = "signOut"
          /\ session' = [session EXCEPT ![login].alive = @ /\ n # session[login].n]
          /\ Answer(t, "done") /\ UNCHANGED <<over, reused>>
       \/ /\ FirstTask(t).kind = "refresh"
          /\ session[login].alive /\ n = session[login].n /\ n < MaxTokens
          /\ session' = [session EXCEPT ![login].n = n + 1]
          /\ Answer(t, "tokens") /\ UNCHANGED <<over, reused>>
       \/ /\ FirstTask(t).kind = "refresh"
          /\ ~session[login].alive \/ n < session[login].n \/ n = MaxTokens
          /\ session' = [session EXCEPT ![login].alive = FALSE]
          /\ over' = over \cup {login}
          /\ reused' = IF n < session[login].n THEN reused \cup {login} ELSE reused
          /\ Answer(t, "unauthorized")
    /\ UNCHANGED <<logins, stored, tab, line, handed, req, lease, left,
                   last, lost, lapsed>>

\* Whether the record is still that of the session a refresh was for.
StillThereUnread(t) == TRUE
StillThere(t) == Seen(t).login = job[t].sent.login

\* A refresh goes on with its outcome: the record is read again first.
Refreshed(t, outcome) ==
    LET sent == job[t].sent
        next == [sent EXCEPT !.n = @ + 1]
        s == tab[t]
    IN
    IF ~StillThere(t)
    THEN Follow(t, Seen(t), "changed")
    ELSE CASE outcome = "tokens" ->
                /\ Write(t, next)
                /\ tab' = [tab EXCEPT ![t] =
                       IF s.status = "signed-in" THEN Keep(s, next)
                       ELSE [Keep(s, next) EXCEPT !.status = "signed-in",
                                                  !.login = sent.login]]
                /\ Settle(t, "tokens")
                /\ UNCHANGED last
           [] outcome = "unauthorized" ->
                /\ Write(t, NoToken)
                /\ tab' = [tab EXCEPT ![t] = SignedOut(@)]
                /\ Settle(t, "ended")
                /\ UNCHANGED last
           [] outcome = "unavailable" ->
                /\ tab' = [tab EXCEPT ![t].backOff = TRUE]
                /\ Settle(t, "unavailable")
                /\ UNCHANGED <<stored, last>>

\* The task goes on with the outcome of its request; what a logout's was
\* does not matter.
GoOn(t, outcome) ==
    IF FirstTask(t).kind = "refresh" THEN Refreshed(t, outcome)
    ELSE End(t, FirstTask(t).login)

Answered(t) ==
    /\ job[t].phase = "answered"
    /\ GoOn(t, job[t].answer)
    /\ UNCHANGED <<server, req, left, over, lost, lapsed, reused>>

\* No answer: the network failed, or the time was over. The server may have
\* exchanged the token.
NoAnswer(t) ==
    /\ job[t].phase \in {"calling", "answered"} /\ Fail
    /\ GoOn(t, "unavailable")
    /\ lost' = IF job[t].answer = "tokens" THEN lost \cup {job[t].sent.login} ELSE lost
    /\ UNCHANGED <<server, req, over, lapsed, reused>>

\* The server is busy or fails: a 429 or a 5xx.
Unavailable(t) ==
    /\ job[t].phase = "calling" /\ Fail
    /\ Answer(t, "unavailable")
    /\ UNCHANGED <<server, stored, tab, line, handed, req, lease, history>>

-----------------------------------------------------------------------------
(* The requests of the stores *)

\* A request is made in the tab's session: the token in memory, when it is
\* young enough, else that of a refresh.
Request(t) ==
    LET s == tab[t] IN
    /\ Idle(t) /\ s.login # None /\ req[t].phase = "none"
    /\ left.requests > 0 /\ left' = [left EXCEPT !.requests = @ - 1]
    /\ \/ /\ s.access # NoToken
          /\ req' = [req EXCEPT ![t] = [phase |-> "sent", login |-> s.login,
                                        token |-> s.access]]
          /\ UNCHANGED <<tab, line>>
       \/ /\ MayRefresh(s) /\ Refresh(t, s)
          /\ req' = [req EXCEPT ![t] = [phase |-> "asking", login |-> s.login,
                                        token |-> NoToken]]
    /\ UNCHANGED <<server, stored, job, handed, lease, history>>

\* The server accepts it, or refuses it for another reason than its token;
\* or it fails. Either way it is over.
Accepted(t) ==
    /\ Idle(t) /\ req[t].phase \in {"sent", "again"}
    /\ req' = [req EXCEPT ![t] = NoRequest]
    /\ UNCHANGED <<server, stored, tab, line, job, handed, lease, left, history>>

\* A 401: the token is renewed once, in the request's session only.
Refused(t) ==
    LET s == tab[t]
        dropped == [s EXCEPT !.access = NoToken]
    IN
    /\ Idle(t) /\ req[t].phase = "sent"
    /\ \/ /\ s.login # req[t].login
          /\ req' = [req EXCEPT ![t] = NoRequest]
          /\ UNCHANGED <<tab, line>>
       \/ /\ s.login = req[t].login /\ s.access \notin {NoToken, req[t].token}
          /\ req' = [req EXCEPT ![t].phase = "again", ![t].token = s.access]
          /\ UNCHANGED <<tab, line>>
       \/ /\ s.login = req[t].login /\ MayRefresh(s)
          /\ IF s.access = req[t].token THEN Refresh(t, dropped) ELSE Refresh(t, s)
          /\ req' = [req EXCEPT ![t].phase = "renewing"]
       \/ /\ s.login = req[t].login /\ ~MayRefresh(s)
          /\ tab' = [tab EXCEPT ![t] = IF s.access = req[t].token THEN dropped ELSE s]
          /\ req' = [req EXCEPT ![t] = NoRequest]
          /\ UNCHANGED line
    /\ UNCHANGED <<server, stored, job, handed, lease, left, history>>

\* A 401 to the copy ends the request's session.
RefusedAgain(t) ==
    /\ Idle(t) /\ req[t].phase = "again"
    /\ req' = [req EXCEPT ![t].phase = "ending"]
    /\ line' = Append(line, Task(t, "end", req[t].login))
    /\ over' = over \cup {req[t].login}
    /\ UNCHANGED <<server, stored, tab, job, handed, lease, left,
                   last, lost, lapsed, reused>>

\* Whether a request waits for a task: its session's refresh, or its end.
WaitsFor(q, task) ==
    /\ q.login = task.login
    /\ q.phase \in CASE task.kind = "refresh" -> {"asking", "renewing"}
                     [] task.kind = "end" -> {"ending"}
                     [] OTHER -> {}

\* What became of a task reaches its tab: the request that waits for it, and
\* the first refresh, which reads the record again before it gives up.
Deliver(h) ==
    LET t == h.tab
        s == IF h.task.kind = "refresh" /\ tab[t].refreshing = h.task.login
             THEN [tab[t] EXCEPT !.refreshing = None] ELSE tab[t]
        isFirst == h.task.kind = "refresh" /\ s.first = h.task.login
        done == IF isFirst THEN [s EXCEPT !.first = None] ELSE s
        q == req[t]
    IN
    /\ handed' = handed \ {h}
    /\ tab' = [tab EXCEPT ![t] =
           CASE ~isFirst \/ h.result # "unavailable" -> done
             [] isFirst /\ h.result = "unavailable" /\ IsRecordOf(Seen(t), h.task.login) ->
                  [done EXCEPT !.status = "unavailable", !.login = h.task.login]
             [] OTHER -> SwitchTo(done, Seen(t))]
    /\ req' = [req EXCEPT ![t] =
           CASE WaitsFor(q, h.task) /\ h.result = "tokens" ->
                  [q EXCEPT !.phase = IF @ = "asking" THEN "sent" ELSE "again",
                            !.token = h.token]
             [] WaitsFor(q, h.task) /\ h.result # "tokens" -> NoRequest
             [] OTHER -> q]
    /\ UNCHANGED <<server, stored, line, job, lease, left, history>>

-----------------------------------------------------------------------------
(* A tab is closed, or loads the app anew *)

Close(t) ==
    /\ t \in Open /\ left.closes > 0
    /\ left' = [left EXCEPT !.closes = @ - 1]
    /\ tab' = [tab EXCEPT ![t] = ClosedTab]
    /\ job' = [job EXCEPT ![t] = NoJob]
    /\ req' = [req EXCEPT ![t] = NoRequest]
    /\ \E kept \in InOrder({i \in DOMAIN line : line[i].tab # t}) :
          line' = [i \in DOMAIN kept |-> line[kept[i]]]
    /\ handed' = {h \in handed : h.tab # t}
    /\ lease' = IF lease = t THEN "gone" ELSE lease
    /\ behind' = IF job[t].phase = "settled" THEN {} ELSE behind
    /\ before' = IF behind' = {} THEN NoToken ELSE before
    /\ news' = (news \cup ((behind \ behind') \cap Open)) \ {t}
    /\ lost' = IF job[t].answer = "tokens"
               THEN lost \cup {job[t].sent.login} ELSE lost
    /\ UNCHANGED <<server, record, last, over, lapsed, reused>>

-----------------------------------------------------------------------------

Step(t) ==
    \/ Start(t) \/ Retry(t) \/ BackOffEnds(t) \/ HandleStorageChange(t)
    \/ SignIn(t) \/ SignOut(t) \/ Close(t) \/ Reach(t)
    \/ ReadLease(t) \/ WriteLease(t) \/ LeaseLost(t) \/ Run(t) \/ Release(t)
    \/ Serve(t) \/ Unavailable(t) \/ Answered(t) \/ NoAnswer(t)
    \/ Request(t) \/ Accepted(t) \/ Refused(t) \/ RefusedAgain(t)

Next ==
    \/ \E t \in Tabs : Step(t)
    \/ \E h \in handed : Deliver(h)
    \/ LeaseEnds

Spec == Init /\ [][Next]_vars

-----------------------------------------------------------------------------
(* Properties *)

TypeOK ==
    /\ left \in [lock : {"web", "lease"}, signIns : Nat, requests : Nat, closes : Nat,
                failures : Nat]
    /\ logins \in 0..MaxLogins
    /\ session \in [Logins -> [n : 1..MaxTokens, alive : BOOLEAN]]
    /\ {record, before} \subseteq Token
    /\ {behind, news} \in SUBSET SUBSET Tabs /\ news \subseteq Open
    /\ tab \in [Tabs -> [status : {"closed", "starting", "signed-in", "signed-out",
                                   "unavailable"},
                         login : 0..MaxLogins, access : Token, backOff : BOOLEAN,
                         refreshing : 0..MaxLogins, first : 0..MaxLogins]]
    /\ \A t \in Open : tab[t].status = "signed-out" <=> tab[t].login = None
    /\ \A i \in DOMAIN line :
           line[i] \in [tab : Open, kind : {"refresh", "signIn", "signOut", "end"},
                        login : Logins]
    /\ job \in [Tabs -> [phase : {"none", "taking", "settling", "calling",
                                  "answered", "settled"},
                         sent : Token,
                         answer : {"none", "tokens", "done", "unauthorized",
                                   "unavailable"},
                         result : {"none", "tokens", "done", "ended", "changed",
                                   "unavailable"}]]
    /\ \A t \in Tabs : job[t].phase # "none" => HasTask(t)
    /\ \A h \in handed : h.tab \in Open
    /\ req \in [Tabs -> [phase : {"none", "asking", "sent", "renewing", "again",
                                  "ending"},
                         login : 0..MaxLogins, token : Token]]
    /\ lease \in Tabs \cup {"none", "gone"}

\* A tab keeps no access token but that of the session it is in, and a
\* request never leaves with a token of another session than its own,
\* whatever the tab moved on to while the token was fetched
\* (auth-middleware.ts:34-35, token-manager.ts:242-245).
TokensStayInSession ==
    /\ \A t \in Tabs : tab[t].access # NoToken => tab[t].access.login = tab[t].login
    /\ \A t \in Tabs : req[t].phase \in {"sent", "again"} =>
                           req[t].token.login = req[t].login

\* No tab sends a refresh token that was exchanged already, which would look
\* like a stolen one and end the session: unless the answer with the new one
\* never came, or the lease let two tabs in (refresh-lock.ts:6-8, 22-25).
SpentOnlyAfterLoss == lapsed \/ reused \subseteq lost

\* Whatever the tabs do side by side, and even with two of them under the
\* lease, the record only moves on: to the next token of its session, to a
\* new sign-in, or away once its session was signed out of or refused. No
\* refresh and no sign-out writes over a newer sign-in, and none brings an
\* ended session back (token-manager.ts:12-18, refresh-lock.ts:8).
RecordMovesOn ==
    [][record' # record =>
         \/ last' # last /\ record'.login = last'
         \/ record' # NoToken /\ record'.login = record.login /\ record'.n > record.n
         \/ record' = NoToken /\ record.login \in over]_vars

\* What is under way: everything but the deeds of the user and the timers
\* of a back-off.
Progress ==
    \/ \E t \in Tabs :
        \/ Reach(t) \/ HandleStorageChange(t)
        \/ ReadLease(t) \/ WriteLease(t) \/ LeaseLost(t) \/ Run(t) \/ Release(t)
        \/ Serve(t) \/ Unavailable(t) \/ Answered(t) \/ NoAnswer(t)
        \/ Accepted(t) \/ Refused(t) \/ RefusedAgain(t)
    \/ \E h \in handed : Deliver(h)
    \/ LeaseEnds

\* Fairness: as long as anything is under way, something goes on: the browser
\* runs the tasks that are due, a request is answered or given up after
\* REQUEST_TIMEOUT_MS, a lease lasts for LEASE_MS. Nothing is said of what.
FairSpec == Spec /\ WF_vars(Progress)

\* In the end every open tab is in the session the record holds, or signed
\* out when it holds none: a tab that hears of a change late, or in the
\* middle of a refresh or of its first one, still follows it.
TabsAgree == <>[](\A t \in Open : tab[t].login = record.login)

\* Every request of the stores comes to an end, one that waits for a refresh
\* of a session the tab has left meanwhile as well.
RequestsEnd == \A t \in Tabs : req[t].phase # "none" ~> req[t].phase = "none"

=============================================================================
