# Verification of nerve

This directory specifies the parts of nerve whose correctness lies in the
interleaving of requests, commands and jobs: TLA+ modules translated from the
code, TLC instances that check them, and theorems that TLAPS proves for every
value of the constants. It was written from the code under `server/internal`
and `web/apps/web/core`; documents are quoted for the names of rules (the "M3
design" of the comments is `docs/v0`) and where the code does something else.

nerve is a project tracker: one Go server on one PostgreSQL database, an object
store for files, and a web client. Almost everything the server promises, it
promises through three means, and the modules are cut along them:

* row locks in one global order, under which permissions are decided again;
* conditional updates (`UPDATE ... WHERE generation = ...`), which need no lock;
* short critical sections in memory (the write gate, the rate limiter).

The client keeps what it reads in stores, one per tab, and has no push from the
server. Its hard parts are two: the tabs of a browser share one session, whose
refresh token may be used once; and a list of work items, read page by page,
must stay exact while its own changes and the answers to its reads cross.

## 1. Inventory

| Component | State | Operations | Meets | Hard behaviour | What makes it correct |
|---|---|---|---|---|---|
| Write gate `platform/gate` | per project: holders, queue of waiters | Enter (one key after another), leave | issue and planning writes enter before they take a connection; `issue/app/lock_across.go` sorts the keys | a deadline that passes as the key is handed over; the second key refused; the forgetting of keys | places counted, FIFO, bounded, no circle of waiting |
| Identity: credentials | `users.password`, `is_active`, `auth_sessions`, `api_tokens` | login, refresh, logout, change and reset of the password, tokens, (de)activation, cleanup | every other module authenticates through it; deactivation calls the workspace module | rotation and reuse, verification outside the lock, lost answers | a token exchanged once; a reset final; nothing lives on in a deactivated account |
| Workspace: memberships, invitations | `workspaces`, `workspace_members`, `workspace_member_invites` | invite, answer, change, remove, leave, deactivate, reactivate, create, delete | project cascades; identity's account lock; `access` decides | several row locks per request, re-evaluation after a wait, races of endings with entries | admins kept, no way back, no deadlock |
| Project: memberships | `projects`, `project_members` | create, join, add, change, remove, leave, delete, cascades | under the workspace's lock, `FOR SHARE` or `FOR UPDATE` | a join against the ending of the workspace membership | members within the workspace; guests stay guests |
| Access rules | none (tables) | decide | asked by every use case, under its locks | - | decided by what the locks keep |
| Issues | work items, `issue_sequences`, parents, relations, comments, versions, drafts | create, update, move, archive, delete, publish a draft | gate, then the project row with `lock_timeout`; jobs take the row without the gate | two moves that close a cycle; the nightly archive against a change | numbers unique, a parent forest, archived rows unchanged |
| Deletion of rows | deleted parents, a scan position | drain in batches under a budget | jobs of issue and planning; the purge visits every module | a crash or the end of the budget between two steps | complete means nothing is left; progress |
| Assets | `assets` with staging, candidates, final object; object store | prepare, upload, complete, bind, duplicate, delete, cleanup, inventory | parents' locks first; the store outside any transaction | leases, late answers of the store, two completions, cleanup between | a published object is never reclaimed; nothing is left for ever |
| Rate limiter | levels per bucket and key | AllowAll, Reserve and refund, sweep | login, refresh, signup, the API | refunds after a sweep | all or none, never beyond the burst |
| Web session `web/.../core/lib/auth` | refresh token and login in localStorage, the lease; per tab: status, access token, back-off | sign in, refresh under a lock, sign out, renew for a request, follow other tabs | identity's refresh | tabs that race, a lock without compare-and-set, events and writes that come late, lost answers, closed tabs | a tab refreshes with the newest token; the record only moves on; the tabs agree |
| Web issue lists `web/.../core/lib`, `store/issue` | per tab: the issues read, lists of counts and pages by group, the changes kept for answers still out, verifications | read the list, a first or further page; create, move, delete; verify; lose and regain the role | the server's issues; the screen's hook reads stale groups again | answers out of order, changes an answer may or may not have, inferences, roles that change meanwhile | at rest a list is the server's; nothing of another role; own changes stay |
| Other web stores | caches per tab | read, change | their endpoints | as the lists, without counts | - |
| Planning | cycles, modules, their issues | create, change, archive, delete | the same gate and project row | as issues | as issues |
| Project states, labels | rows under a project | create, mark default, delete | the project row lock | - | one default state |
| Instance, HTTP adapters, configuration, logging, outbound, web UI, job queue | settings; River's tables | - | - | - | no protocol of their own |

`PROJECT.json` lists the files of each component, its status, and the hazards at
their lines, with the properties that watch them or the module that will.

## 2. The modules

### Gate, FifoSlots, GateProofs

`Gate` is `platform/gate/gate.go` under the issue module's writes. A caller is a
goroutine in one `Keyed.Enter` and the write after it. `keys` is `Keyed.keys`;
`pc`, `plan`, `entered`, `left` are the goroutine's place in the loop over its
keys; `granted` is the closed `ready` channel; `over` is the timer or the
context. One action is one section under the mutex or one step outside it:

| Code | Actions |
|---|---|
| `Enter`, the loop | `Begin`, `Advance` |
| `enter` under the mutex | `TakePlace`, `Refuse`, `Enqueue` |
| the `select` | `Receive`, `GiveUp` (either may win when both are ready) |
| after the timer | `Withdraw`, or `PassOn` when it was handed the key meanwhile |
| `release` | `Release`: hand on, count down, forget |
| the deferred `leave` | `Leave`, `LeaveOne`, `Return` |

`FifoSlots` says what the gate promises, without goroutines or a mutex: a line
per key. `Gate` implements it (`ImplementsSlots`) with a key's owners as those
who hold it, also unaware, and its waiting list as the line.

### Credentials

`Credentials` is one account of `modules/identity`: accounts share no row. A
worker is one request or administrator's command. A request that verifies a
password outside the transaction does so in a step of its own, before the
account-row lock; refresh, logout, token revocation and cleanup never take that
lock and come between. `RefreshBegin` reads and judges the session;
`RefreshRotate` and `RefreshReuse` are the conditional statements, and
`RefreshMiss` is the second read after a rotation that touched no row. A lost
answer needs no action: a client presents any genuine token, old or new.
`cut`, `change`, and of a row `root` and `late` are history: from which password
it comes, and whether its credential had run out when a token was made with it.

### Membership

`Membership` is workspaces, projects, their members and invitations, as
concurrent transactions. `Route` gives each request the stages its code goes
through; `LocksOf` says which rows a stage's statement locks, and `Upcoming` which
of them comes next; `Passes` holds the checks made under them. A transaction begins
(`Begin`), takes one row lock after another (`Take`), makes a stage's checks and chooses the next
statement's rows (`Advance`), writes and commits (one action per operation,
`Write`), or is rolled back at any moment (`Rollback`: refusal, failure, crash).

PostgreSQL is modelled as the code relies on it, at READ COMMITTED. A statement
chooses rows by what is committed as it begins; a row it waited for is judged by
its newest version (`Found`): a list's statement leaves it out, a request that
names it is refused. An address of an invitation is an entry of the unique index
over undeleted invitations, which its inserter holds until it commits.

Rows of `workspace_members` and `project_members` are locked only under the
lock of their workspace or project in the same mode; they are never waited for
and are left out. A refusal's reason is left out. `revived` is history: the
memberships `reactivate-member` restored while the account was inactive, which
the code allows (and the repository's README, line 167, tells administrators of).
An administrator of the workspace may then add such a member to its projects:
`InactiveIsNowhere` is that an inactive account belongs to nothing else.

### Assets

`Assets` is the rows of `file_assets`, the objects of the S3 storage, and the
sweep between them. The code never holds a transaction open across a call to the
storage, so its protocol lies between them:

| Code | Actions |
|---|---|
| `Prepare.Execute` and the client | `Prepare`, `StartUpload`, `UploadLands` |
| `Complete.Execute`, `Duplicate.Execute`, first transaction | `ReserveComplete`, `ReserveDuplicate`: a candidate key with a lease is on the row before anything is written there |
| `sealContent`, outside | `AskCopy`, `CopyLands` (also after its caller gave up), `CheckCopy` |
| `finish`, second transaction | `Finish`, or `GiveUp` |
| the binders and `MoveDraftAssets` | `BindContent`, `SaveDraft`, `PublishDraft`, `ReplaceCover` |
| deletions | `Delete`, `DeleteHost`, `DeleteProject` and its job `MarkScopePage`, `PurgeRow` |
| `cleanRowsPage`, `cleanRow` | `ListRows`, `ReadFacts`, `CleanRow`, `DeleteClaimed`, `DropRecord` |
| `cleanInventoryPage` | `ListObjects`, `ReadReferences`, `DeleteOrphan` |
| the River job of the sweep | `StartAttempt`, `Complete`, `DeletionFails`, `TimeOver`, `Crash` |

A transaction is one action, because it holds the row locks of the gate's
project, of its draft and of its files from before its first check; what
`Membership` shows of such locks is not shown again. `due` is history: what a
cycle found deletable when it began.

The storage is external: it takes an upload at any time after it was sent, copies
only what still has the ETag, and never onto an existing key, as the code asks of
it. The application's clock and the server's, two in the code, are one. The parents
of a page are read in one moment (`ReadFacts`), where `asset_parent_reader.go` asks
for one kind after the other: deletions only come to be, so that a later answer
names no less, and `CleanRow` compares each row again under its lock.

### Tabs

`Tabs` is `core/lib/auth` in all tabs of a browser. An action is one JavaScript
task of one tab, from one `await` to the next.

| Code | Actions |
|---|---|
| `TokenManager.#start`, `retry`, `#backOff` | `Start`, `Retry`, `BackOffEnds` |
| `signIn`, `signOut` up to the lock | `SignIn`, `SignOut` |
| the storage event | `Reach` (the write becomes visible), `HandleStorageChange` |
| `webLock` | `line` in order, `Granted`, `Release` in a later task |
| `leaseLock` | `ReadLease`, `WriteLease`, `LeaseLost`, `LeaseEnds`; released with the task |
| what runs under the lock: `#refreshUnderLock`, `#end`, `signIn`, `signOut` | `Run` up to its request, `Answered`, `NoAnswer`, `Unavailable` after it |
| `authMiddleware` and `renew` | `Request`, `Accepted`, `Refused`, `RefusedAgain`, `Deliver` |
| nerve's `Refresh.Execute` and `Logout.Execute`, in one step | `Serve`; what happens inside them is `Credentials` |

The two locks differ in what they promise, and the plans choose one: under Web
Locks a write may become visible in another tab only after its task
(`refresh-lock.ts` says so of Firefox), which is why the lock is given back in a
later task; under the lease a write is seen at once, but the lease is taken by
writing it and reading it back after a pause (`Settled` says for how long the
pause is meant to be), and a tab that sleeps loses it. `over`, `lost`, `lapsed`,
`reused` and `last` are history. A logout ends the session only by its current token,
and is answered alike with any other (`logout.go`).

### PagedGroups, IssueLists, IssueListsProofs

`PagedGroups` is pure: a list's value, what an answer makes of it (`MergePages`)
and what a confirmed change makes of it (`ConfirmGroups` on the value held,
`ReplayGroups` on an answer that was out). The second asks of each count what it
was read from, its evidence: `PriorCounterMembership`, `AnswerTiming`, `Covers`
are `paged-groups.evidence.ts`.

`IssueLists` is one tab with one list of a project, which uses it:

| Code | Actions |
|---|---|
| `IssueListBinding.fetch`, `fetchFirst`, `fetchNext` | `FetchFirst`, `FetchNext` |
| the answer: `read`, `acceptListIssues`, `Reconciled.fetchPart`, `drain` | `ReadAnswer`; `ReadOverdue` when a newer read of the part is out, `ReadCountsNot` when it is of another role, or older than a deletion or a verification; `FailRead` |
| `useIssueListRefresh` | `Look` |
| `IssueRootStore.write` | `Move`, `Create`, `Delete`, `Begin` (the next one of the same issue), `Answered`, `AnsweredBeside` (its details are read again before it is over), `AnswerThrows` (a count would go below zero), `AnsweredLate`, `EndWrite`, `FailWrite` |
| `IssueVerification` | `Require` and `Request` within the steps above, `JobAnswer`, `FailJob`, `Refresh` |
| `invalidatePermission`, `PermissionReads.observe` | `ChangeRole`, `Regain` |
| nerve's `ListIssues.Execute` and `Listing.Read`, `GetIssue.Execute` | `ServeRead` with `PageOf`, `ServeJob`: each answer is of one read snapshot |
| nerve's `UpdateIssue.Execute`, `IssueCreation`, `ArchiveIssue.Execute`, `DeleteIssue.Execute` | `ServeWrite`: the change is made, or the issue was so already and keeps its version (`Outcomes`), or it is refused |
| other people | `Others`: external |

The screen renders after each change of the stores, before the next answer or
click: `Look` comes first when it is due. An answer says what was true when it
was served, which is any moment between its request and its arrival. `basis`,
`lost` and `mine` are history: what each count goes back to, whether the list
could not know of a change, and which changes this tab was told of.

The server's transactions are one action each: a list, its counts and its cursors
come from one read snapshot, and a write holds the project's row from its checks to
its commit. One refusal is left out: a patch of an archived issue is refused
(`update_issue.go:86`), where `ServeWrite` lets every write of an undeleted issue
through. The tab would only forget such a change, as it does when one fails.

## 3. What the runs check

A module with several scenarios has one run whose initial states choose a
*plan*: who and what there is at first, which requests may come and how often.
A plan bounds only the deeds of people, of failures and of time, never what
follows from them.

| Run | Instance | Shows |
|---|---|---|
| `gate_live` | 3 callers, 2 projects, 1 place each, room in line for all, no deadline to help | `NoIdlePlace`, `NoOvertaking`; `EnterReturns`: every call ends, because keys are entered in one order |
| `gate_stuck` | the same with 1 waiter in line; a write may last for ever | `CountsAgree`: no refusal, timeout or hand-over loses or invents a place, the queue is who waits, and no returned call keeps a key; the refinement of `FifoSlots`; `WaitEnds`: every waiter ends by its deadline |
| `credentials` | 3 requests at a time; 4 plans: a session and its rotation, two changes of the password under a login, tokens under a reset and a deactivation, a token made as its session runs out | `ExchangedOnce`, `RefusedMeansEnded`, `ResetIsFinal`, `OthersSignedOut`, `PasswordKept`, `InactiveIsOut`, `RevokedRotatesNot` |
| `membership` | 3 requests, 2 at a time, or 3 across two workspaces; 6 plans: a workspace, its project, two workspaces, batches of invitations, what is created and deleted, an inactive account's membership | `InvitationsStand`, `InactiveIsNowhere`, `WithinWorkspace`, `NoDeadlock`, `AdminKept`, `NoWayBack` |
| `assets` | 8 plans: 1 file with 2 requests and 2 cycles of the sweep, an attempt of which breaks; 2 files shown by drafts, issues and covers | `KeptIsThere`, `PublishedOnce`, `OrphansAreNobodys`, `SweepIsThorough`, `ShownIsKept`, `ScopeIsEmptied` |
| `tabs` | 2 tabs, either lock, 6 plans; a session lasts for 3 tokens | `TokensStayInSession`, `SpentOnlyAfterLoss`, `RecordMovesOn` |
| `tabs_live` | 2 tabs, either lock, fewer deeds | `TabsAgree`, `RequestsEnd` |
| `issue_lists` | 3 issues, 2 groups, pages of 1; 11 plans of 2 reads and up to 3 deeds | `SettledIsExact`, `ReadUnderThisRole`, `OwnChangesStay`, `IssuesGoForward`; no deadlock: nothing waits for an answer that never comes |
| `reset_overtaken` | as `credentials` | refuted: `ResetRevokesTokens` (section 5) |
| `final_page`, `two_changes`, `stale_again` | the smallest plans that do | refuted: `FinalPageProvesNothingBefore`, `ChangesAddUp`, `StaleIsRetried` (section 5) |

Each property comes with a mutant in `PROJECT.json`: a definition of the model
replaced by the "Broken" variant above it (a dropped condition, a lock in the
wrong mode or order, a reset that is forgotten), under which the same run fails.

### Bounds

The plans, `MaxRequests` (Membership), `MaxTime`, `MaxKeys` (Assets),
`MaxLogins`, `MaxTokens` (Tabs) and `Plans` (IssueLists) stop counters; no guard
of the code stands behind them, except that a session does expire. The gate
needs no bound.

* Gate: a hand-over needs a holder, one who gives up and one behind him, hence
  three callers; across two keys a circle needs two. One waiter in line lets the
  queue refuse, two let it be overtaken.
* Credentials: the races are of at most three: a read, a write that overtakes
  it, a third that profits. Two generations let a token be current and replaced;
  two changes of the password under one login exhaust its one repetition. Expiry
  needs an instant before and one after, deletion a second one; a token that its
  session's end overtakes needs both, and two hashes.
* Membership: every property relates what one transaction checked to what
  another wrote before it committed, so two run at a time, and a third request
  follows to use what the race left behind (an invitation, a role of an ended
  membership). A workspace starts with an admin, a member and a former member:
  the last admin, the last member and the returning member are all one step
  away. A circle of waits that the order of a batch, or of the workspaces, rules
  out takes two; the plan of two workspaces lets three run at a time.
* Assets: the durations are the shortest that keep their order: an upload and a
  lease last one moment, the grace and the ages none, and since every comparison
  in the code is strict, whatever is due falls due a moment later; in four
  moments a candidate is reserved, expires, is claimed, and a second cycle
  finds what the first left. Requests come early (a plan's `last`), what they
  began may end at any later moment. Two requests race for one file, against a
  sweep with one break; each break (a crash, an error, an end of the time) can
  come at every step, and a page holds one row or object, so that every cursor
  is used. The other plans have two files, because a draft, a cover and a page
  of the job relate two; there the sweep is not broken off.
* Tabs: every race is between two tabs; a third would only wait. Two sessions: an
  old one and the one signed in to. Three tokens: one spent, one current, one
  that a tab may have missed. A session is taken to expire after its last token.
* IssueLists: two groups let an issue move; pages of one with three issues let a
  group have an issue shown, one on a further page, and one still to be made.
  Two reads cross each other; those the screen and the verifications send are
  not counted. Two changes of one issue with two reads is the smallest instance
  of each refuted property and of every case `basis` names.
* Symmetry is over the callers, workers and tabs only, which no definition tells
  apart, and never in a run with a liveness property.

Deadlock of the whole model is checked for Gate and IssueLists. In IssueLists the
plans end a behaviour, so `Rest` lets it stay where it is when nothing is out
(`Quiet`) and the screen has nothing to do: what is reported is a read, a change
or a verification that waits for ever. In Credentials, Membership, Assets and Tabs
it is off: the bounds end every behaviour, a circle of lock waits is the property
`NoDeadlock` instead, since `Rollback` is always possible, and a request of a tab
that waits for ever is `RequestsEnd`.

### Fairness

* `Gate!FairSpec`: weak fairness of a goroutine's next section under the mutex
  (Go hands a mutex to each goroutine that waits for it) and of the end of a
  write (its statements run under the request's deadline). Nothing is assumed of
  deadlines, nor of the select's choice.
* `Gate!StuckSpec`: a write may never end. Then deadlines are sure to pass,
  being timers, and a caller whose deadline passed sees it or its key.
* `Tabs!FairSpec`: as long as anything is under way, something goes on: the
  browser runs the tasks that are due, a request is answered or given up after
  `REQUEST_TIMEOUT_MS`, a lease lasts for `LEASE_MS`. Weak fairness of the whole
  of `Progress` says nothing of which goes on; the plans bound what may come
  beside it, so that it is enough.
* Credentials and Membership state none: whoever is in a transaction commits or
  fails, and no property is about when.
* Assets states no fairness: what must happen in the end is stated of the end of
  a cycle (`SweepIsThorough`) and of the job (`ScopeIsEmptied`).

## 4. What is proved

A component's theorems are in a module beside its own, as `THEOREM Spec => ...`: the
runs check the same formulas on small instances, TLAPS for every value of the
constants that the named assumptions allow. In each, `IInv` (or the invariant its
text names) is the inductive one, `InitInv` and `NextInv` show that it is, with a
lemma for each action, and the properties follow.

### Gate

`GateProofs` proves, for any finite set of callers, any keys, plans, places and
queue bound (`LimitsAssumption`: what `config/validate.go` enforces;
`CallersAssumption`; `PlansAssumption`):

| Theorem | Statement |
|---|---|
| `Invariance` | `Spec => []IInv` |
| `TypeCorrect` | `Spec => []TypeOK` |
| `PlacesAreCounted` | `Spec => []PlacesCounted` |
| `NoPlaceIdles` | `Spec => []NoIdlePlace` |
| `QueuesAreExact` | `Spec => []QueueExact` |
| `CallersHoldWhatTheySay` | `Spec => []HoldsWhatItSays` |
| `CountsAlwaysAgree` | `Spec => []CountsAgree`, the conjunction of the three that the run checks |
| `NobodyOvertakes` | `Spec => NoOvertaking` (an action property) |
| `GateImplementsSlots` | `Spec => ImplementsSlots` (the refinement of `FifoSlots`) |

None of the properties is inductive alone. That a hand-over keeps the count
needs the head of a queue to be a caller that waits and holds nothing of that
key (`QueueExact`); that a caller holds a key once needs its keys to ascend and
its progress to match its `pc` (`Progress`); that a forgotten key is held by
nobody needs the count (`PlacesCounted`), and that no one holds a key the gate
does not remember, or remembers one nobody holds, needs `Remembered`. `IInv` is
their conjunction. `InitInv` and `NextInv` have one lemma per action;
`ReleaseKeeps` is shared by `PassOn` and `LeaveOne`, the two steps that give a
place up: the owners of the key either lose the caller and gain the head of the
queue, with an equal cardinality, or lose the caller and count one fewer.

Each of those lemmas also says what its action does to the owners and the queue
of every key: nothing (`SameSlots`), or, to one key, one of the four effects
`Takes`, `Joins`, `Quits` and `Gives`. `NextSlots` collects them, and both
`NobodyOvertakes` and the step simulation `StepImplements` follow from it and
`IInv` alone: an effect is a step of `FifoSlots` because the key's count is the
number of its owners.

### Credentials

`CredentialsProofs` proves, for any workers, passwords, lifetime of a session and
plans (`BoundsAssumption`, `WorkersAssumption`: the bounds are numbers, and
`Nobody` is no worker), all that the run checks: `TypeCorrect`,
`RefreshExchangesOnce`, `RefusalIsFinal`, `ResetEndsTheOld`, `ChangeSignsOthersOut`,
`ChangeIsKept`, `DeactivationSignsOut`, and the action property
`RevocationStopsRotation`.

None is inductive, because each is about what a worker read in one step and does in
a later one. `WorkerInv` says what a worker may rely on in between: with the lock, on
the hash and the account it read (`loginLocked`), on its credential having been good
since the last reset (`createLocked`); without it only on what never goes back. That
is `Ages`: a session keeps what it goes back to, its generation only grows, a
revoked or deleted one stays so. Each action has a lemma that it ages the rows and
one for its own worker; that it leaves the others' knowledge follows from `Ages`
once for all. `ExchangedOnce` is then that a worker answered with tokens left the
session beyond the generation it was presented (`Spent`), which a second one would
have to find.

### Membership

`MembershipLocks` and `MembershipProofs` prove, for any accounts, workspaces,
projects, invitations and transactions, and any plan whose first rows keep the
rules (`MembershipAssumption`, `PlansAssumption`), all that the run checks:
`TypeCorrect`, `ProjectsStayWithin`, `DeactivatedIsNowhere`,
`InvitationsLeadSomewhere`, `AnAdminStays`, `NoneComesBack`, and
`NoneWaitsInACircle`.

The inductive invariant joins what the rows are (`RowsInv`), that two transactions
never hold a lock in modes that conflict (`LocksInv`), and what a transaction knows
(`WorkerInv`): that of each stage it is past, or at, it holds the locks (`Covers`)
and its checks found what they look for (`Checked`). The heart is that others do not
take this away: `Frame` says which rows a transaction's writes may touch, by the
locks it has, and `Kept` what that leaves of another's knowledge. So each
operation's write needs one lemma, that rows and checks as they are make rows as they
ought to be, and the interleaving is dealt with once.

`NoDeadlock` uses that a transaction takes each lock after all that it has, in one
order of the rows (`Orderly`, `Precedes`). In a set of transactions of which each waits for another
of the set, each awaited lock would come before another awaited one: a finite set has
no such order (`NoCircle`).

### Assets

`AssetsProofs` proves, for any number of files, callers, contents, any durations and
any plan whose files fit their hosts (`AssetsAssumption`): `TypeCorrect`,
`KeptStands`, `ShownStays`, `OrphansStayNobodys`, `ScopeEmpties`, and the action
property `PublishesOnce`; `SweepProofs` proves `SweepForgetsNothing`. That is all the
run checks.

`IInv` rests on three facts about keys. A key is `Known` once it was handed out; it is
`Active` while a row names it and not to reclaim it; and what the sweep holds to
delete is never `Active`, because a key is named only by the transaction that hands it
out and a claim is never taken back. An object `Stands` at a key that a caller has
checked for as long as the key is `Active` (`CallInv`), so that a row published under
its lock stands (`RowInv`), and a published row is claimed only long after its
deletion. `HostInv` is what a content shows, which `CleanRow` decides with facts that
were read before it locked the row: a draft's deletion stays true, and whether the file
is still the draft's is compared again. `JobInv` is that all files up to either of the
job's cursors are marked.

Steps fall into kinds that each keep most of the conjuncts: those that touch no row
(`QuietStep`), that only change contents and hosts (`HostingStep`), the requests that
write rows (`RowChanges`), and the sweep (`Sweeps`). A row otherwise only ages
(`Aged`), and what that keeps is one lemma.

`SweepForgetsNothing` (`SweepIsThorough`) needs, beside `IInv`, to know of every object
that is due and still there (`Outstanding`) where it is: `DueInv`. It is `Ahead` of both
cursors, the running attempt's and the recorded one's, from which the next attempt goes
on. In the stage of the rows it is nobody's and old (`Orphan`), or its row comes after
the cursor and would claim it (`Owed`); in the inventory it is nobody's, and comes after
the last key of the last page and after the last one dealt with in this page. Within an
attempt, the page of rows leaves none out (`NoGap`), the keys of the row at hand are all
there (`KeysWork`), and an orphan is in the page at hand or after it (`ObjectsWork`).
What moves a cursor (`RowDone`, `OrphansDue`, `AheadOf`) therefore passes only what is
dealt with; `DeletionFails` and a row that changed since it was listed pass more, and
those objects are no longer due.

The rest is that nothing else takes an object out of these places (`StillDue`). An orphan
stays one, because no key that was handed out is named again (`KeepsNames`, shown of
every step together with `IInv`). A key a row no longer needs stays so (`Lasting`):
rows are deleted no later, their leases do not grow, time goes on, and a candidate
whose lease ran out can no longer be published. The sweep itself is the one that removes
a record, after its object (`OthersStay`).

### Tabs

`TabsProofs` proves, for any tabs, logins and tokens and under either lock
(`TabsAssumption`): `TypeCorrect`, `OwnTokensOnly`, `TokensAreSentOnce` and the action
property `RecordOnlyMovesOn`.

`Known(t)` is every login a tab has to do with: its own, those of its tasks and
requests, of what it sent and what it waits for. A login that is still to come into
the record is known to nobody (`Due`, `Unknown`), and a tab that knows the login it sees
in the record is in it (`SeenInv`); so a record that was left never comes back.
`TokenInv` is that a token exchanged by a job that has not yet kept the new one is the
highest anyone has of that session, and `LockInv` that, as long as the lock kept others
out, who asks for tokens sent the record's, which is the current one. A tab's own steps
know only its session (`TabStep`), and a job's (`JobStep`) either send, are answered,
fail or store (`Settles`, `Stores`); `Picks` is about lines that lose tasks.

### IssueLists

`IssueListsProofs` proves, for any issues, groups, page size and plans
(`IssueListsAssumption`; `StartsAssumption`: where the issues are at first, and at
which version; `PagedGroupsAssumption` and `MarksAssumption`: the marks for an issue
outside the list, gone or not made, and for the whole list are no groups),
`IssuesOnlyGoForward`, `Spec => IssuesGoForward`, `ListsAreOfThisRole`,
`Spec => []ReadUnderThisRole`, `TypesHold`, `Spec => []TypeOK`, and
`OwnChangesAreShown`, `Spec => []OwnChangesStay`.

The first speaks of two states and nothing else, but a step that takes in an answer
needs that every answer still out carries versions: `IInv` is that, of the server's
issues, of the reads, the verifications and the changes of the tab. Of all the
operators a step is composed of, two touch the issues, `AcceptRead` and
`ConfirmEntity` (`AcceptReadMoves`, `ConfirmEntityMoves`); each of the others has a
lemma that it leaves the issues and the role and keeps the requests well formed
(`Keeps`), and each action a lemma that chains them (`MovesKeeps`, `KeepsKeeps`).
`ChangeRole` is the one action that changes the role, and leaves the issues
(`GoodHeld`).

The second is about reads that cross a change of the role. The list is hidden with
the change and shown again by a whole read of this role; but a read may wait for
verifications between the moment it writes the list and the moment it is through,
and the role may change in between, more than once. `RoleInv` (`Ruled`) is that a
read is of this role or an earlier one, a live one of this role; that a whole read
that waits has written every counter under its role, if it is still the tab's
(`Fresh`); and that groups are read only where a whole read went before (`Filled`),
so that a counter read under no role at all is out of the question. Each operator
has a lemma on `Ruled`, each action one on `RoleInv`.

The last two rest on one invariant, `SaneInv`. That a row is no older than what the
tab was told is not inductive: a page served before a change may arrive after it, and
then only the changes kept for that read, made again on the answer, bring the row up
to date, or mark its group stale. `Sane(t, K, e)` says it of a tab `t` in what
surrounds it, `e` (`Now`: the server's issues and clock, `mine`, `basis`), while the
reads `K` are taken out and worked in:

* of the list (`ValueOk`): its evidence is well formed and no count is below zero
  (`Fine`, `SafeCounts`); in a group that is not stale, a row is as new as every
  version of its issue that the group's count knows of, and as what the tab was told
  (`NewRows`); no count goes back to an answer later than the last one (`Bounded`);
* of a read that may write (`LiveOk`): the changes kept for it are those of each issue
  since it was asked for, in the order of their versions, up to the last that was told
  (`Line`), and when there is none its answer already has what was told;
* of the changes that are out (`WritesOk`): of one issue one at a time is out, a
  served move is no earlier than all that was told of its issue, nor than its
  creation, if that was not answered yet (it may be the same version: a move that
  changes nothing writes none);
* of the issues, verifications and requests (`HeldOk`, `JobsOk`, `FormOk`, `Keyed`):
  nothing is newer than the server's, what is deleted is deleted there, and a part and
  a number name one read.

What the list by itself does comes first, with no tab: a confirmed change leaves the
rows of the other issues and has one of its own, or none (`Change`, `ConfirmNew`); an
answer merged leaves no older row (`Merging`); and an answer with all the changes kept
for it shows each issue as it was last told. The fold over those changes
(`Replayed`) is a recursive function on a sequence of any length. Without induction
over data its lemmas argue by the first index where the claim would fail, which exists
because the naturals are well-founded (`Least`, `UpTo`). Then each operator of the tab
leaves it sane, whatever it was before, and each action has one lemma that chains
them (`ReadAnswerSane`, `WriteAnswerSane`, ...; `NextSane`).

Two things are left out of `OwnChangesStay`, and `SaneInv` shows why no more is: a
creation may be answered after a later change of the issue (`mine` is then
`OutOfOrder`, and nothing is in order any more), and a further page takes the mark of a
stale group away and leaves its old rows (`basis[g].unmarked`).

### Only model-checked

* The liveness properties (`EnterReturns`, `WaitEnds`, `TabsAgree`, `RequestsEnd`):
  liveness under fairness and ENABLED are out of the prover's reach.
* `SettledIsExact` of IssueLists: that the settled list is the server's, count for
  count. The proof would have to relate each count to the changes other people made
  since it was read, through the cardinality of sets that the fold over the kept
  changes builds. `SaneInv` bounds a count from below and dates its rows; it does not
  say what the count is.

No module declares a RECURSIVE operator, so that every definition stays open to proof.

## 5. Where the code does something else than its documents say

Each of the first four is a run that refutes one property. `SettledIsExact`
leaves out, by `basis`, just the counts and groups that the next three concern, and
`ResetIsFinal`, by `late`, just the tokens the first one concerns.

* `reset_overtaken`: the creation of a personal access token judges its session at
  an instant it read before it waited for the account row, and a reset of the
  password revokes only the sessions that have not expired at its own, later
  instant. A session that runs out in between is spared by the one and accepted by
  the other: a live token that goes back to the old password
  (`create_api_token.go:55`; `reset_password.go:55-56` says it is refused).
* `final_page`: when a group was read to its last page, that page becomes the
  evidence of its count, and counts as the whole group: an issue moved out of an
  earlier page stays counted (`paged-groups.evidence.ts:121`; M4 design, line 756).
* `two_changes`: of two changes of one issue made again on one answer, the second
  takes the issue for where the untouched answer has it, and not where the first
  change put it: two counts are wrong by one (`paged-groups.replay.ts:21`;
  `reconciled.ts:23-24`).
* `stale_again`: a group that becomes stale once more while it is read for being
  stale is not read again while it is displayed (`use-issue-list-refresh.tsx:68`;
  M4 design, line 802).

Six more follow from the code and are met by the model's guards or its history,
but have no run of their own:

* A further page of a group and its new first page may be out together
  (`fetchNext` looks only at reads of its own part, a whole read is another one).
  Merged last, the further page follows rows that do not end where it begins: a
  gap that a cursor past it never fills. `basis.gap` marks it.
* Only groups are stale and read again, and a group's answer resets that group's
  count only (`paged-groups.ts:315`). When a change leaves the count of the whole
  list unsure, every group can be read again and that count stay as it is until
  the next whole read. `basis.unsure` marks it.
* A further page takes the mark of a stale group away (`paged-groups.ts:313`), though
  its first page, the one a stale group is to be read again by, was not read: the
  user asks for it while a verification is out or an error is shown, when stale
  groups are not read (`use-issue-list-refresh.tsx:49-70`). The rows that were read
  before stay, possibly as they were before an own change, in a group that is no
  longer stale. It takes four issues, pages of one and two moves, a change of which
  could not be placed. `basis.unmarked` marks it.
* After `two_changes` a count may be too low by one, and a third move takes it below
  zero: `setCounter` throws (`paged-groups.ts:69`, `247`) in the middle of
  `IssueRootStore.write`, after the server made the change. The list, the issue and
  the answers still out are not told, and the change is reported as failed
  (`root.store.ts:473-488`). `AnswerThrows` is that step; `lost` marks it.
* A creation is no change of an issue yet, so it is not in the queue of one, and
  nothing waits for it (`root.store.ts:490-510`). The issue may be read, moved or
  deleted, and that be answered, while its creation's answer is still out. The late
  answer then lists the issue as it was created: at an older version, or though this
  tab deleted it; the issue itself is not put back (`issue.store.ts:59-77`).
  `Overtaken` is that; `lost` and `mine` mark it.
* A verification that ends while the list is hidden does not read it again, and
  an inference made in a round in which its issue was verified already is not
  verified. `lost` marks both.

## 6. Not modelled, and why

Of the server: reads and listings (they change nothing, and run in one snapshot);
HTTP parsing and encoding, configuration, logging, the embedded web UI; outbound
requests and link previews (pure checks and network I/O); the job queue (a
library); registration, addresses and profiles of accounts, secret and archived
projects, slugs, display settings; comments, profile and workspace images, a new
project's cover, a draft that changes its project, the temporary files of a local
storage, and what River does with a job that failed too often. The writes under
the project row, the draining jobs, the purge and the rate limiter are planned.

Of the tabs: durations (a token may be too old whenever it is looked at, a wait
ends at any moment) and more than one request at a time in a tab.

Of the issue lists: where a card is dropped and orders a change touches (the list
has the default order, by creation); subgroups; the directories of names a list
may be sorted by; the sub-issues a deletion takes along; filters the client cannot
judge, under which every change makes the list stale; a retry the user asks for;
the lists of a member, two lists beside each other and a list off the screen.

Most of the TypeScript is out of the reach of such models: of some 160,000 lines
100,000 are views (`.tsx`), and the rest is largely tables of constants, types,
generated code, the editor and its extensions, utilities for text and dates, and
the stores of features that still await their server (cycles, modules, the
inbox), which keep single answers. What coordinates anything with anything else is
in `core/lib` and `store/issue`, some three thousand lines, which are modelled
here; the share of the whole that is mapped stays small whatever is modelled.

## 7. Plan

In the order of what matters most:

1. `Gate`, `FifoSlots`, `GateProofs`: done; every safety property and the
   refinement are proved.
2. `Credentials`, `CredentialsProofs`: done; every property the run checks is proved.
3. `Membership`, `MembershipLocks`, `MembershipProofs`: done; every property the run
   checks is proved.
4. `Assets`, `AssetsProofs`, `SweepProofs`: done; every property the run checks is
   proved. An abstract specification (a file is absent, prepared, published once,
   or gone, and its object exists while it is published) would say it in one.
5. `Tabs`, `TabsProofs`: every safety property is proved, the two liveness properties
   are checked. `PagedGroups`, `IssueLists`, `IssueListsProofs`: all properties but
   `SettledIsExact` are proved (section 4). Of the lists, the project stores that use
   `Reconciled` without groups would be the next ones.
6. `ProjectWrites`: the gate, the project row lock with its timeout, the system
   jobs that take the row alone, archiving and deletion; composes `Gate`. Its
   abstract specification is a project that writes change one at a time.
7. `Issues`: numbering, the parent forest, the publication of drafts, archiving
   against the nightly job; under the lock of `ProjectWrites`. The hazards of the
   nightly job and of numbering (`auto_archive.go`, `create_core.go`) belong here.
8. `DrainRows`: the cursors of the purge and of the deletion jobs, with budgets,
   errors and restarts (`delete_rows.go`, `purge.go`); complete means nothing is
   left.
9. `RateLimit`: levels in integer fractions of a unit; a sweep is invisible
   (refinement of a limiter that never sweeps), all or none.
