-------------------------- MODULE CredentialsProofs --------------------------
(***************************************************************************)
(* Theorems about the credentials of an account, for any workers, any      *)
(* lifetime of a session and any plans. The inductive invariant IInv joins *)
(* what the rows are (RowsInv) with what each worker holds, read before    *)
(* and may rely on (WorkerInv).                                            *)
(***************************************************************************)
EXTENDS Credentials, FiniteSetTheorems, TLAPS

RefreshSteps == {"refreshRead", "refreshReuse", "refreshRotate"}
CallerSteps == {"changePassword", "changeLocked", "createToken", "createLocked",
                "deactivate", "deactivateLocked"}
CommandSteps == Commands \cup {"commandLocked"}

\* What a worker works on, by the step it is at.
NoJobs == [kind : {"none"}, answer : {"none"}]
AnsweredJobs == [kind : {"refresh"} \cap plan.kinds, presented : RefreshTokens,
                 answer : {"tokens", "refused", "error", "fault", "done"}]
LoginJobs == [kind : {"login"} \cap plan.kinds, snapshot : Hashes, retried : BOOLEAN, now : Nat]
RefreshJobs == [kind : {"refresh"} \cap plan.kinds, presented : RefreshTokens,
                retried : BOOLEAN, now : Nat]
CallerJobs == [kind : CallerKinds \cap plan.kinds, actor : Actors, root : 1..plan.salts,
               late : BOOLEAN, snapshot : Hashes, retried : BOOLEAN, now : Nat]
CommandJobs == [kind : Commands \cap plan.kinds, now : Nat]

JobOK(w) ==
    \/ pc[w] = "idle" /\ job[w] \in NoJobs \cup AnsweredJobs
    \/ pc[w] \in {"login", "loginLocked"} /\ job[w] \in LoginJobs
    \/ pc[w] \in RefreshSteps /\ job[w] \in RefreshJobs
    \/ pc[w] \in CallerSteps /\ job[w] \in CallerJobs
    \/ pc[w] \in CommandSteps /\ job[w] \in CommandJobs

\* The server issued k: its session is there, at k's generation or beyond, or
\* was there.
Issued(k) ==
    \/ k.session \in gone
    \/ k.session \in DOMAIN sessions /\ k.generation <= sessions[k.session].generation

\* Nobody can exchange k any more.
Spent(k) ==
    \/ k.session \in gone
    \/ k.session \in DOMAIN sessions /\ k.generation < sessions[k.session].generation

Over(k) == k.session \notin DOMAIN sessions \/ ~ Live(k.session, clock)

\* The credential a request came with is, or was, the one it goes back to.
Roots(a, root) ==
    IF "session" \in DOMAIN a
    THEN \/ a.session \in gone
         \/ a.session \in DOMAIN sessions /\ sessions[a.session].root = root
    ELSE a.token \in DOMAIN tokens /\ tokens[a.token].root = root

\* What w holds, and what it knows of the rows.
WorkerInv(w) ==
    /\ JobOK(w)
    /\ pc[w] \in LockedSteps <=> holder = w
    /\ pc[w] # "idle" => job[w].now <= clock
    /\ pc[w] \in RefreshSteps => job[w].presented.generation < plan.generations
    /\ job[w].kind = "refresh" /\ job[w].presented.genuine => Issued(job[w].presented)
    /\ Answered(w, "tokens") => Spent(job[w].presented)
    /\ Answered(w, "refused") /\ job[w].presented.genuine /\ job[w].presented.tag
       => Over(job[w].presented)
    /\ pc[w] \in CallerSteps => Roots(job[w].actor, job[w].root)
    /\ pc[w] = "loginLocked" => active /\ hash = job[w].snapshot
    /\ pc[w] = "createLocked" => job[w].root >= cut \/ job[w].late

\* The ids are numbered as they are drawn, and none is drawn twice.
Numbered(S) == \E n \in Nat : S = 1..n

RowsOK ==
    /\ plan \in Plans
    /\ clock \in 0..plan.time
    /\ salts \in 1..plan.salts /\ hash \in Hashes /\ active \in BOOLEAN
    /\ DOMAIN sessions \subseteq plan.sessions
    /\ \A s \in DOMAIN sessions : sessions[s] \in Sessions
    /\ gone \subseteq plan.sessions \ DOMAIN sessions
    /\ Numbered(DOMAIN sessions \cup gone)
    /\ DOMAIN tokens \subseteq TokenIds
    /\ \A t \in DOMAIN tokens : tokens[t] \in Tokens
    /\ Numbered(DOMAIN tokens)

\* The present hash is of the salt drawn last, and no older than what the last
\* reset and the last change of the password drew.
SaltsOK ==
    /\ cut \in Nat /\ change.salt \in Nat
    /\ hash.salt = salts /\ hash.salt >= cut /\ hash.salt >= change.salt

RowsInv ==
    RowsOK /\ SaltsOK /\ ResetIsFinal /\ OthersSignedOut /\ PasswordKept /\ InactiveIsOut

IInv ==
    /\ RowsInv
    /\ DOMAIN pc = Workers /\ DOMAIN job = Workers
    /\ holder \in Workers \cup {Nobody}
    /\ \A w \in Workers : WorkerInv(w)
    /\ ExchangedOnce

-----------------------------------------------------------------------------
(* What one step does to the rows another worker knows.                      *)

\* A row only goes on: a session keeps what it goes back to and when it ends,
\* rotates, is revoked for good, and is deleted for good; a token stays.
Ages ==
    /\ plan' = plan
    /\ clock <= clock'
    /\ \A s \in DOMAIN sessions :
          \/ s \in gone'
          \/ /\ s \in DOMAIN sessions'
             /\ sessions'[s].root = sessions[s].root
             /\ sessions'[s].expires = sessions[s].expires
             /\ sessions[s].generation <= sessions'[s].generation
             /\ sessions[s].revoked => sessions'[s].revoked
    /\ gone \subseteq gone'
    /\ \A t \in DOMAIN tokens : /\ t \in DOMAIN tokens'
                               /\ tokens'[t].root = tokens[t].root

\* The fields of a session and of a token.
SessionTyped(s) ==
    /\ sessions[s].generation \in Nat /\ sessions[s].expires \in Nat
    /\ sessions[s].revoked \in BOOLEAN /\ sessions[s].root \in Nat
    /\ sessions[s] = [generation |-> sessions[s].generation,
                      revoked |-> sessions[s].revoked,
                      expires |-> sessions[s].expires,
                      root |-> sessions[s].root]

TokenTyped(t) ==
    /\ tokens[t].revoked \in BOOLEAN /\ tokens[t].late \in BOOLEAN
    /\ tokens[t].root \in Nat
    /\ tokens[t] = [revoked |-> tokens[t].revoked, root |-> tokens[t].root,
                    late |-> tokens[t].late]

RowsTyped ==
    /\ clock \in Nat
    /\ \A s \in DOMAIN sessions : SessionTyped(s)
    /\ \A t \in DOMAIN tokens : TokenTyped(t)

LEMMA RowsAreTyped == RowsOK => RowsTyped
<1>. SUFFICES ASSUME RowsOK PROVE RowsTyped
  OBVIOUS
<1>1. clock \in Nat
  BY DEF RowsOK
<1>2. ASSUME NEW s \in DOMAIN sessions PROVE SessionTyped(s)
  <2>1. sessions[s] \in Sessions
    BY DEF RowsOK
  <2>. QED
    BY <2>1 DEF Sessions, SessionTyped
<1>3. ASSUME NEW t \in DOMAIN tokens PROVE TokenTyped(t)
  <2>1. tokens[t] \in Tokens
    BY DEF RowsOK
  <2>. QED
    BY <2>1 DEF Tokens, TokenTyped
<1>. QED
  BY <1>1, <1>2, <1>3 DEF RowsTyped

LEMMA RowsAreTypedAfter == RowsOK' => RowsTyped'
BY RowsAreTyped, PTL

\* A presented token is a record, of numbers and flags.
LEMMA PresentedType ==
    ASSUME RowsOK, NEW k \in RefreshTokens
    PROVE  /\ k.session \in plan.sessions /\ k.generation \in Nat
           /\ k.genuine \in BOOLEAN /\ k.tag \in BOOLEAN
BY BoundsAssumption DEF RowsOK, RefreshTokens

LEMMA IssuedAges ==
    ASSUME RowsOK, RowsOK', Ages, NEW k \in RefreshTokens, Issued(k)
    PROVE  Issued(k)'
<1>1. k.generation \in Nat
  BY PresentedType
<1>2. RowsTyped /\ RowsTyped'
  BY RowsAreTyped, RowsAreTypedAfter
<1>. QED
  BY <1>1, <1>2 DEF Ages, Issued, RowsTyped, SessionTyped

LEMMA SpentAges ==
    ASSUME RowsOK, RowsOK', Ages, NEW k \in RefreshTokens, Spent(k)
    PROVE  Spent(k)'
<1>1. k.generation \in Nat
  BY PresentedType
<1>2. RowsTyped /\ RowsTyped'
  BY RowsAreTyped, RowsAreTypedAfter
<1>. QED
  BY <1>1, <1>2 DEF Ages, Spent, RowsTyped, SessionTyped

LEMMA OverAges ==
    ASSUME RowsOK, RowsOK', Ages, NEW k \in RefreshTokens, Issued(k), Over(k)
    PROVE  Over(k)'
<1>1. RowsTyped /\ RowsTyped'
  BY RowsAreTyped, RowsAreTypedAfter
<1>2. gone' \cap DOMAIN sessions' = {} /\ gone \cap DOMAIN sessions = {}
  BY DEF RowsOK
<1>. QED
  BY <1>1, <1>2 DEF Ages, Issued, Over, Live, RowsTyped, SessionTyped

LEMMA RootsAge ==
    ASSUME RowsOK, RowsOK', Ages, NEW a, NEW root, Roots(a, root)
    PROVE  Roots(a, root)'
BY DEF Ages, Roots

\* What a worker that did nothing knew is still true.
LEMMA OthersKeep ==
    ASSUME RowsOK, RowsOK', Ages, NEW v \in Workers, WorkerInv(v),
           pc'[v] = pc[v], job'[v] = job[v], holder' = v <=> holder = v,
           holder = v => UNCHANGED <<active, hash, cut>>
    PROVE  WorkerInv(v)'
<1>1. JobOK(v)'
  BY DEF WorkerInv, JobOK, Ages, NoJobs, AnsweredJobs, LoginJobs, RefreshJobs, CallerJobs,
         CommandJobs, Hashes, Actors, RefreshTokens
<1>2. job[v].kind = "refresh" => job[v].presented \in RefreshTokens
  BY DEF WorkerInv, JobOK, NoJobs, AnsweredJobs, LoginJobs, RefreshJobs, CallerJobs,
         CommandJobs, CallerKinds, Commands
<1>3. pc[v] \in LockedSteps <=> holder = v
  BY DEF WorkerInv
<1>4. pc[v] # "idle" => job[v].now \in Nat
  BY DEF WorkerInv, JobOK, LoginJobs, RefreshJobs, CallerJobs, CommandJobs
<1>5. clock \in Nat /\ clock' \in Nat
  BY RowsAreTyped, RowsAreTypedAfter DEF RowsTyped
<1>6. (pc[v] # "idle" => job[v].now <= clock)'
  BY <1>4, <1>5 DEF WorkerInv, Ages
<1>7. (job[v].kind = "refresh" /\ job[v].presented.genuine => Issued(job[v].presented))'
  BY <1>2, IssuedAges DEF WorkerInv
<1>8. (Answered(v, "tokens") => Spent(job[v].presented))'
  BY <1>2, SpentAges DEF WorkerInv, Answered
<1>9. (Answered(v, "refused") /\ job[v].presented.genuine /\ job[v].presented.tag
       => Over(job[v].presented))'
  BY <1>2, OverAges DEF WorkerInv, Answered
<1>10. (pc[v] \in CallerSteps => Roots(job[v].actor, job[v].root))'
  BY RootsAge DEF WorkerInv
<1>11. (pc[v] \in RefreshSteps => job[v].presented.generation < plan.generations)'
  BY DEF WorkerInv, Ages
<1>12. (pc[v] = "loginLocked" => active /\ hash = job[v].snapshot)'
  BY <1>3 DEF WorkerInv, LockedSteps
<1>13. (pc[v] = "createLocked" => job[v].root >= cut \/ job[v].late)'
  BY <1>3 DEF WorkerInv, LockedSteps
<1>. QED
  BY <1>1, <1>3, <1>6, <1>7, <1>8, <1>9, <1>10, <1>11, <1>12, <1>13 DEF WorkerInv

\* The account-row lock passes between w and nobody, or stays.
Passes(w) ==
    \/ holder' = holder
    \/ holder = Nobody /\ holder' = w
    \/ holder = w /\ holder' = Nobody

\* Only w goes on.
OnlyFor(w) ==
    /\ DOMAIN pc' = DOMAIN pc /\ DOMAIN job' = DOMAIN job
    /\ \A v \in Workers \ {w} : pc'[v] = pc[v] /\ job'[v] = job[v]

\* No other worker was answered with tokens for what w was.
OnlyAnswered(w) ==
    Answered(w, "tokens") =>
        \A v \in Workers \ {w} :
            Answered(v, "tokens")
            => \/ job[v].presented.session # job[w].presented.session
               \/ job[v].presented.generation # job[w].presented.generation

\* A step of one worker keeps IInv, when it does so for the rows and for him.
LEMMA StepKeeps ==
    ASSUME IInv, NEW w \in Workers, Ages, RowsInv', Passes(w), OnlyFor(w),
           holder # w => UNCHANGED <<active, hash, cut>>,
           WorkerInv(w)', OnlyAnswered(w)'
    PROVE  IInv'
<1>1. RowsOK /\ RowsOK'
  BY DEF IInv, RowsInv
<1>2. DOMAIN pc' = Workers /\ DOMAIN job' = Workers
  BY DEF IInv, OnlyFor
<1>3. holder' \in Workers \cup {Nobody}
  BY DEF IInv, Passes
<1>4. ASSUME NEW v \in Workers PROVE WorkerInv(v)'
  <2>1. CASE v = w
    BY <2>1
  <2>2. CASE v # w
    <3>1. WorkerInv(v) /\ pc'[v] = pc[v] /\ job'[v] = job[v]
      BY <2>2 DEF IInv, OnlyFor
    <3>2. holder' = v <=> holder = v
      BY <2>2, WorkersAssumption DEF Passes
    <3>3. holder = v => UNCHANGED <<active, hash, cut>>
      BY <2>2
    <3>. QED
      BY <1>1, <3>1, <3>2, <3>3, OthersKeep
  <2>. QED
    BY <2>1, <2>2
<1>5. ExchangedOnce'
  <2>1. ASSUME NEW u \in Workers, NEW v \in Workers, u # v,
               Answered(u, "tokens")', Answered(v, "tokens")'
        PROVE  \/ job'[u].presented.session # job'[v].presented.session
               \/ job'[u].presented.generation # job'[v].presented.generation
    <3>1. CASE u = w
      BY <2>1, <3>1 DEF OnlyAnswered
    <3>2. CASE v = w
      BY <2>1, <3>2 DEF OnlyAnswered
    <3>3. CASE u # w /\ v # w
      <4>1. Answered(u, "tokens") /\ Answered(v, "tokens")
        BY <2>1, <3>3 DEF OnlyFor, Answered
      <4>. QED
        BY <2>1, <3>3, <4>1 DEF IInv, ExchangedOnce, OnlyFor
    <3>. QED
      BY <3>1, <3>2, <3>3
  <2>. QED
    BY <2>1 DEF ExchangedOnce
<1>. QED
  BY <1>2, <1>3, <1>4, <1>5 DEF IInv

\* So does a step that is no worker's.
LEMMA RowsStepKeeps ==
    ASSUME IInv, Ages, RowsInv', UNCHANGED <<active, hash, cut, holder, pc, job>>
    PROVE  IInv'
<1>1. RowsOK /\ RowsOK'
  BY DEF IInv, RowsInv
<1>2. ASSUME NEW v \in Workers PROVE WorkerInv(v)'
  BY <1>1, OthersKeep DEF IInv
<1>3. ExchangedOnce'
  BY DEF IInv, ExchangedOnce, Answered
<1>. QED
  BY <1>2, <1>3 DEF IInv

\* Where the rows stay as they are.
LEMMA StillRows ==
    ASSUME RowsInv,
           UNCHANGED <<plan, clock, account, sessions, gone, tokens, history>>
    PROVE  RowsInv' /\ Ages
<1>1. RowsTyped
  BY RowsAreTyped DEF RowsInv
<1>2. Ages
  BY <1>1 DEF Ages, RowsTyped, SessionTyped
<1>. QED
  BY <1>2 DEF RowsInv, RowsOK, SaltsOK, ResetIsFinal, OthersSignedOut, PasswordKept,
          InactiveIsOut, Live, Hashes, Sessions, Tokens, Numbered, account, history

\* An answer, given without the lock, keeps what is known of the worker.
LEMMA AnswerKeeps ==
    ASSUME IInv, NEW w \in Workers, NEW answer, Answer(w, answer), Ages, RowsOK',
           answer \in {"tokens", "refused", "error", "fault", "done"},
           holder' # w,
           \A k \in RefreshTokens :
               job[w].kind = "refresh" /\ job[w].presented = k
               => /\ answer = "tokens" => Spent(k)'
                  /\ answer = "refused" /\ k.genuine /\ k.tag => Over(k)'
    PROVE  WorkerInv(w)' /\ OnlyFor(w)
<1>1. OnlyFor(w) /\ pc'[w] = "idle"
  BY DEF IInv, Answer, OnlyFor
<1>2. RowsOK /\ WorkerInv(w) /\ DOMAIN job = Workers
  BY DEF IInv, RowsInv
<1>3. CASE job[w].kind = "refresh"
  <2>1. job[w].presented \in RefreshTokens /\ "refresh" \in plan.kinds
    BY <1>2, <1>3 DEF WorkerInv, JobOK, NoJobs, AnsweredJobs, LoginJobs, RefreshJobs,
           CallerJobs, CommandJobs, CallerKinds, Commands
  <2>2. PICK k \in RefreshTokens : k = job[w].presented
    BY <2>1
  <2>3. job'[w] = [kind |-> "refresh", presented |-> k, answer |-> answer]
    BY <1>2, <1>3, <2>2 DEF Answer
  <2>4. JobOK(w)'
    BY <1>1, <2>1, <2>3, <2>2 DEF JobOK, AnsweredJobs, Ages, RefreshTokens
  <2>5. k.genuine => Issued(k)'
    BY <1>2, <1>3, <2>2, IssuedAges DEF WorkerInv
  <2>. QED
    BY <1>1, <1>3, <2>3, <2>2, <2>4, <2>5
       DEF WorkerInv, LockedSteps, RefreshSteps, CallerSteps, Answered
<1>4. CASE job[w].kind # "refresh"
  <2>1. job'[w] = [kind |-> "none", answer |-> "none"]
    BY <1>2, <1>4 DEF Answer
  <2>2. JobOK(w)'
    BY <1>1, <2>1 DEF JobOK, NoJobs
  <2>. QED
    BY <1>1, <2>1, <2>2 DEF WorkerInv, LockedSteps, RefreshSteps, CallerSteps, Answered
<1>. QED
  BY <1>3, <1>4

-----------------------------------------------------------------------------
(* The steps that write no row: requests begin, look, take the lock, end.    *)

LEMMA LoginVerifyKeeps ==
    ASSUME IInv, NEW w \in Workers, LoginVerify(w)
    PROVE  IInv'
<1>1. RowsInv' /\ Ages
  BY StillRows DEF IInv, LoginVerify
<1>2. OnlyFor(w) /\ Passes(w)
  BY DEF IInv, LoginVerify, Begin, OnlyFor, Passes
<1>3. /\ "login" \in plan.kinds /\ pc[w] = "idle" /\ pc'[w] = "login"
      /\ job'[w] = [kind |-> "login", snapshot |-> hash, retried |-> FALSE, now |-> clock]
  BY DEF IInv, LoginVerify, Begin
<1>4. hash \in Hashes /\ clock \in Nat
  BY RowsAreTyped DEF IInv, RowsInv, RowsOK, RowsTyped
<1>5. WorkerInv(w)'
  <2>1. JobOK(w)'
    BY <1>1, <1>3, <1>4 DEF JobOK, LoginJobs, Ages, Hashes
  <2>2. holder' # w
    BY <1>3 DEF LoginVerify, IInv, WorkerInv, LockedSteps
  <2>. QED
    BY <1>1, <1>3, <1>4, <2>1, <2>2
       DEF WorkerInv, LockedSteps, RefreshSteps, CallerSteps, Answered, Ages, LoginVerify
<1>6. OnlyAnswered(w)'
  BY <1>3 DEF OnlyAnswered, Answered
<1>. QED
  BY <1>1, <1>2, <1>5, <1>6, StepKeeps DEF LoginVerify, account, history

LEMMA RefreshBeginKeeps ==
    ASSUME IInv, NEW w \in Workers, RefreshBegin(w)
    PROVE  IInv'
<1>1. PICK k \in RefreshTokens :
          /\ Presentable(k)
          /\ k.generation < plan.generations
          /\ Begin(w, "refresh", [kind |-> "refresh", presented |-> k,
                                  retried |-> FALSE, now |-> clock], "refreshRead")
          /\ UNCHANGED <<plan, clock, account, holder, sessions, gone, tokens, history>>
  BY DEF RefreshBegin
<1>2. RowsInv' /\ Ages
  BY <1>1, StillRows DEF IInv
<1>3. OnlyFor(w) /\ Passes(w)
  BY <1>1 DEF IInv, Begin, OnlyFor, Passes
<1>4. /\ "refresh" \in plan.kinds /\ pc[w] = "idle" /\ pc'[w] = "refreshRead"
      /\ job'[w] = [kind |-> "refresh", presented |-> k, retried |-> FALSE, now |-> clock]
  BY <1>1 DEF IInv, Begin
<1>5. clock \in Nat
  BY RowsAreTyped DEF IInv, RowsInv, RowsTyped
<1>6. WorkerInv(w)'
  <2>1. JobOK(w)'
    BY <1>2, <1>4, <1>5 DEF JobOK, RefreshJobs, RefreshSteps, Ages, RefreshTokens
  <2>2. holder' # w
    BY <1>1, <1>4 DEF IInv, WorkerInv, LockedSteps
  <2>3. k.genuine => Issued(k)'
    BY <1>1 DEF Presentable, Issued
  <2>. QED
    BY <1>1, <1>2, <1>4, <1>5, <2>1, <2>2, <2>3
       DEF WorkerInv, LockedSteps, RefreshSteps, CallerSteps, Answered, Ages
<1>7. OnlyAnswered(w)'
  BY <1>4 DEF OnlyAnswered, Answered
<1>. QED
  BY <1>1, <1>2, <1>3, <1>6, <1>7, StepKeeps DEF account, history

LEMMA CallerBeginKeeps ==
    ASSUME IInv, NEW w \in Workers, CallerBegin(w)
    PROVE  IInv'
<1>1. PICK a \in Actors, kind \in CallerKinds :
          /\ Valid(a, clock)
          /\ Begin(w, kind, [kind |-> kind, actor |-> a, root |-> RootOf(a),
                             late |-> FALSE, snapshot |-> hash, retried |-> FALSE,
                             now |-> clock], kind)
          /\ UNCHANGED <<plan, clock, account, holder, sessions, gone, tokens, history>>
  BY DEF CallerBegin
<1>2. RowsInv' /\ Ages
  BY <1>1, StillRows DEF IInv
<1>3. OnlyFor(w) /\ Passes(w)
  BY <1>1 DEF IInv, Begin, OnlyFor, Passes
<1>4. PICK root : root = RootOf(a)
  OBVIOUS
<1>5. /\ kind \in plan.kinds /\ pc[w] = "idle" /\ pc'[w] = kind
      /\ job'[w] = [kind |-> kind, actor |-> a, root |-> root, late |-> FALSE,
                    snapshot |-> hash, retried |-> FALSE, now |-> clock]
  BY <1>1, <1>4 DEF IInv, Begin
<1>6. hash \in Hashes /\ clock \in Nat /\ RowsOK
  BY RowsAreTyped DEF IInv, RowsInv, RowsOK, RowsTyped
<1>7. root \in 1..plan.salts
  BY <1>1, <1>4, <1>6 DEF RowsOK, Sessions, Tokens, RootOf, Valid
<1>8. Roots(a, root)'
  BY <1>1, <1>4 DEF Valid, RootOf, Roots
<1>9. WorkerInv(w)'
  <2>1. JobOK(w)'
    BY <1>2, <1>5, <1>6, <1>7 DEF JobOK, CallerJobs, CallerKinds, CallerSteps, Ages, Hashes, Actors
  <2>2. holder' # w
    BY <1>1, <1>5 DEF IInv, WorkerInv, LockedSteps
  <2>. QED
    BY <1>1, <1>2, <1>5, <1>6, <1>8, <2>1, <2>2
       DEF WorkerInv, LockedSteps, RefreshSteps, CallerKinds, Answered, Ages
<1>10. OnlyAnswered(w)'
  BY <1>5 DEF OnlyAnswered, Answered, CallerKinds
<1>. QED
  BY <1>1, <1>2, <1>3, <1>9, <1>10, StepKeeps DEF account, history

LEMMA CommandBeginKeeps ==
    ASSUME IInv, NEW w \in Workers, CommandBegin(w)
    PROVE  IInv'
<1>1. PICK kind \in Commands :
          /\ Begin(w, kind, [kind |-> kind, now |-> clock], kind)
          /\ UNCHANGED <<plan, clock, account, holder, sessions, gone, tokens, history>>
  BY DEF CommandBegin
<1>2. RowsInv' /\ Ages
  BY <1>1, StillRows DEF IInv
<1>3. OnlyFor(w) /\ Passes(w)
  BY <1>1 DEF IInv, Begin, OnlyFor, Passes
<1>4. /\ kind \in plan.kinds /\ pc[w] = "idle" /\ pc'[w] = kind
      /\ job'[w] = [kind |-> kind, now |-> clock]
  BY <1>1 DEF IInv, Begin
<1>5. clock \in Nat
  BY RowsAreTyped DEF IInv, RowsInv, RowsTyped
<1>6. WorkerInv(w)'
  <2>1. JobOK(w)'
    BY <1>2, <1>4, <1>5 DEF JobOK, CommandJobs, CommandSteps, Ages
  <2>2. holder' # w
    BY <1>1, <1>4 DEF IInv, WorkerInv, LockedSteps
  <2>. QED
    BY <1>1, <1>2, <1>4, <1>5, <2>1, <2>2
       DEF WorkerInv, LockedSteps, RefreshSteps, CallerSteps, Commands, Answered, Ages
<1>7. OnlyAnswered(w)'
  BY <1>4 DEF OnlyAnswered, Answered, Commands
<1>. QED
  BY <1>1, <1>2, <1>3, <1>6, <1>7, StepKeeps DEF account, history

\* Only a refresh has a token to answer about.
LEMMA NotRefreshing ==
    ASSUME IInv, NEW w \in Workers, pc[w] \notin RefreshSteps \cup {"idle"}
    PROVE  job[w].kind # "refresh"
BY DEF IInv, WorkerInv, JobOK, LoginJobs, CallerJobs, CommandJobs, CallerKinds, Commands

\* An answer without tokens.
LEMMA PlainAnswerKeeps ==
    ASSUME IInv, NEW w \in Workers, NEW answer, Answer(w, answer), Ages, RowsOK',
           answer \in {"refused", "error", "fault", "done"}, holder' # w,
           answer = "refused" =>
               \A k \in RefreshTokens :
                   job[w].kind = "refresh" /\ job[w].presented = k /\ k.genuine /\ k.tag
                   => Over(k)'
    PROVE  WorkerInv(w)' /\ OnlyFor(w) /\ OnlyAnswered(w)'
<1>1. WorkerInv(w)' /\ OnlyFor(w)
  BY AnswerKeeps
<1>2. ~ Answered(w, "tokens")'
  BY DEF Answer, Answered, IInv
<1>. QED
  BY <1>1, <1>2 DEF OnlyAnswered

LEMMA LookAgainKeeps ==
    ASSUME IInv, NEW w \in Workers, pc[w] \in {"login", "changePassword"},
           LookAgain(w), Ages, RowsOK', clock' = clock, hash' = hash,
           sessions' = sessions, gone' = gone, tokens' = tokens, holder' # w
    PROVE  WorkerInv(w)' /\ OnlyFor(w) /\ OnlyAnswered(w)'
<1>1. CASE Answer(w, "refused")
  <2>1. job[w].kind # "refresh"
    BY NotRefreshing DEF RefreshSteps
  <2>. QED
    BY <1>1, <2>1, PlainAnswerKeeps
<1>2. CASE ~ (job[w].retried \/ hash.password # job[w].snapshot.password)
  <2>1. /\ job' = [job EXCEPT ![w] =
                      [@ EXCEPT !.snapshot = hash, !.retried = TRUE, !.now = clock]]
        /\ pc' = pc
    BY <1>2 DEF LookAgain
  <2>2. WorkerInv(w) /\ DOMAIN job = Workers /\ hash \in Hashes /\ clock \in Nat
    BY RowsAreTyped DEF IInv, RowsInv, RowsOK, RowsTyped
  <2>3. CASE pc[w] = "login"
    <3>1. job[w] \in LoginJobs
      BY <2>2, <2>3 DEF WorkerInv, JobOK, RefreshSteps, CallerSteps, CommandSteps, Commands
    <3>2. job'[w] = [kind |-> job[w].kind, snapshot |-> hash, retried |-> TRUE, now |-> clock]
      BY <2>1, <2>2, <3>1 DEF LoginJobs
    <3>3. JobOK(w)'
      BY <2>1, <2>2, <2>3, <3>1, <3>2 DEF JobOK, LoginJobs, Ages, Hashes
    <3>4. job'[w].kind = "login" /\ job'[w].now = clock
      BY <3>1, <3>2 DEF LoginJobs
    <3>. QED
      BY <2>1, <2>2, <2>3, <3>3, <3>4
         DEF WorkerInv, OnlyFor, OnlyAnswered, Answered, LockedSteps, RefreshSteps, CallerSteps
  <2>4. CASE pc[w] = "changePassword"
    <3>1. job[w] \in CallerJobs
      BY <2>2, <2>4 DEF WorkerInv, JobOK, RefreshSteps, CallerSteps, CommandSteps, Commands
    <3>2. job'[w] = [kind |-> job[w].kind, actor |-> job[w].actor, root |-> job[w].root,
                     late |-> job[w].late, snapshot |-> hash, retried |-> TRUE, now |-> clock]
      BY <2>1, <2>2, <3>1 DEF CallerJobs
    <3>3. JobOK(w)'
      BY <2>1, <2>2, <2>4, <3>1, <3>2
         DEF JobOK, CallerJobs, CallerSteps, Ages, Hashes, Actors
    <3>4. /\ job'[w].kind # "refresh" /\ job'[w].now = clock
          /\ job'[w].actor = job[w].actor /\ job'[w].root = job[w].root
      BY <3>1, <3>2 DEF CallerJobs, CallerKinds
    <3>5. Roots(job[w].actor, job[w].root)'
      BY <2>2, <2>4, <3>4 DEF WorkerInv, CallerSteps, Roots
    <3>. QED
      BY <2>1, <2>2, <2>4, <3>3, <3>4, <3>5
         DEF WorkerInv, OnlyFor, OnlyAnswered, Answered, LockedSteps, RefreshSteps
  <2>. QED
    BY <2>3, <2>4
<1>. QED
  BY <1>1, <1>2 DEF LookAgain

LEMMA LoginLockKeeps ==
    ASSUME IInv, NEW w \in Workers, LoginLock(w)
    PROVE  IInv'
<1>1. RowsInv' /\ Ages /\ RowsOK'
  BY StillRows DEF IInv, LoginLock, RowsInv
<1>2. CASE LookAgain(w) /\ UNCHANGED holder
  <2>1. holder' # w /\ Passes(w)
    BY <1>2, WorkersAssumption DEF LoginLock, Passes
  <2>2. WorkerInv(w)' /\ OnlyFor(w) /\ OnlyAnswered(w)'
    BY <1>1, <1>2, <2>1, LookAgainKeeps DEF LoginLock, account
  <2>. QED
    BY <1>1, <2>1, <2>2, StepKeeps DEF LoginLock, account, history
<1>3. CASE Answer(w, "refused") /\ UNCHANGED holder
  <2>1. holder' # w /\ Passes(w)
    BY <1>3, WorkersAssumption DEF LoginLock, Passes
  <2>2. job[w].kind # "refresh"
    BY NotRefreshing DEF RefreshSteps, LoginLock
  <2>3. WorkerInv(w)' /\ OnlyFor(w) /\ OnlyAnswered(w)'
    BY <1>1, <1>3, <2>1, <2>2, PlainAnswerKeeps
  <2>. QED
    BY <1>1, <2>1, <2>3, StepKeeps DEF LoginLock, account, history
<1>4. CASE /\ hash = job[w].snapshot /\ active
           /\ \E now \in Instants(w) : Locked(w, "loginLocked", now)
  <2>1. PICK now \in Instants(w) : Locked(w, "loginLocked", now)
    BY <1>4
  <2>2. WorkerInv(w) /\ DOMAIN job = Workers /\ DOMAIN pc = Workers /\ clock \in Nat
    BY RowsAreTyped DEF IInv, RowsInv, RowsTyped
  <2>3. job[w] \in LoginJobs
    BY <2>2 DEF LoginLock, WorkerInv, JobOK, RefreshSteps, CallerSteps, CommandSteps, Commands
  <2>4. now \in Nat /\ now <= clock
    BY <2>2, <2>3 DEF Instants, LoginJobs
  <2>5. /\ pc'[w] = "loginLocked" /\ holder' = w
        /\ job'[w] = [kind |-> job[w].kind, snapshot |-> job[w].snapshot,
                      retried |-> job[w].retried, now |-> now]
    BY <2>1, <2>2, <2>3 DEF Locked, Goto, LoginJobs
  <2>6. JobOK(w)'
    BY <1>1, <2>3, <2>4, <2>5 DEF JobOK, LoginJobs, Ages, Hashes
  <2>7. job'[w].kind # "refresh" /\ job'[w].now = now /\ job'[w].snapshot = job[w].snapshot
    BY <2>3, <2>5 DEF LoginJobs
  <2>8. WorkerInv(w)' /\ OnlyAnswered(w)'
    BY <1>4, <2>4, <2>5, <2>6, <2>7
       DEF LoginLock, account, WorkerInv, OnlyAnswered, Answered, LockedSteps, RefreshSteps,
           CallerSteps
  <2>9. OnlyFor(w) /\ Passes(w)
    BY <2>1, <2>2 DEF LoginLock, Locked, Goto, OnlyFor, Passes
  <2>. QED
    BY <1>1, <2>8, <2>9, StepKeeps DEF LoginLock, account, history
<1>. QED
  BY <1>2, <1>3, <1>4 DEF LoginLock

\* A caller that takes the lock at the instant now, and what it knows then.
LEMMA CallerLockedKeeps ==
    ASSUME IInv, NEW w \in Workers, pc[w] \in CallerKinds,
           NEW step \in {"changeLocked", "createLocked", "deactivateLocked"},
           NEW now \in Instants(w), NEW late \in BOOLEAN, holder = Nobody, holder' = w,
           Goto(w, step), Ages, RowsOK', clock' = clock, cut' = cut,
           \/ job' = [job EXCEPT ![w].now = now] /\ late = job[w].late
           \/ job' = [job EXCEPT ![w] = [job[w] EXCEPT !.now = now, !.late = late]],
           step = "createLocked" => job[w].root >= cut \/ late
    PROVE  WorkerInv(w)' /\ OnlyFor(w) /\ OnlyAnswered(w)' /\ Passes(w)
<1>1. WorkerInv(w) /\ DOMAIN job = Workers /\ DOMAIN pc = Workers /\ clock \in Nat /\ RowsOK
  BY RowsAreTyped DEF IInv, RowsInv, RowsTyped
<1>2. job[w] \in CallerJobs
  BY <1>1 DEF WorkerInv, JobOK, RefreshSteps, CallerKinds, CommandSteps, Commands
<1>3. now \in Nat /\ now <= clock
  BY <1>1, <1>2 DEF Instants, CallerJobs
<1>4. /\ pc'[w] = step
      /\ job'[w] = [kind |-> job[w].kind, actor |-> job[w].actor, root |-> job[w].root,
                    late |-> late, snapshot |-> job[w].snapshot,
                    retried |-> job[w].retried, now |-> now]
  BY <1>1, <1>2 DEF Goto, CallerJobs
<1>5. JobOK(w)'
  BY <1>2, <1>3, <1>4 DEF JobOK, CallerJobs, CallerSteps, Ages, Hashes, Actors
<1>6. /\ job'[w].kind # "refresh" /\ job'[w].now = now /\ job'[w].late = late
      /\ job'[w].actor = job[w].actor /\ job'[w].root = job[w].root
  BY <1>2, <1>4 DEF CallerJobs, CallerKinds
<1>7. (pc[w] \in CallerSteps => Roots(job[w].actor, job[w].root))'
  <2>1. Roots(job[w].actor, job[w].root)
    BY <1>1 DEF WorkerInv, CallerKinds, CallerSteps
  <2>2. PICK a, root : a = job[w].actor /\ root = job[w].root
    OBVIOUS
  <2>3. Roots(a, root)'
    BY <1>1, <2>1, <2>2, RootsAge
  <2>. QED
    BY <1>6, <2>2, <2>3
<1>8. WorkerInv(w)'
  BY <1>3, <1>4, <1>5, <1>6, <1>7
     DEF WorkerInv, Answered, LockedSteps, RefreshSteps
<1>9. OnlyFor(w) /\ Passes(w) /\ OnlyAnswered(w)'
  BY <1>1, <1>4 DEF Goto, OnlyFor, Passes, OnlyAnswered, Answered
<1>. QED
  BY <1>8, <1>9

LEMMA CredentialRefusedKeeps ==
    ASSUME IInv, NEW w \in Workers, CredentialRefused(w)
    PROVE  IInv'
<1>1. RowsInv' /\ Ages /\ RowsOK'
  BY StillRows DEF IInv, CredentialRefused, RowsInv
<1>2. holder' # w /\ Passes(w)
  BY WorkersAssumption DEF CredentialRefused, Passes
<1>3. job[w].kind # "refresh"
  BY NotRefreshing DEF RefreshSteps, CredentialRefused, CallerKinds
<1>4. WorkerInv(w)' /\ OnlyFor(w) /\ OnlyAnswered(w)'
  BY <1>1, <1>2, <1>3, PlainAnswerKeeps DEF CredentialRefused
<1>. QED
  BY <1>1, <1>2, <1>4, StepKeeps DEF CredentialRefused, account, history

LEMMA ChangeLockKeeps ==
    ASSUME IInv, NEW w \in Workers, ChangeLock(w)
    PROVE  IInv'
<1>1. RowsInv' /\ Ages /\ RowsOK'
  BY StillRows DEF IInv, ChangeLock, RowsInv
<1>2. PICK now \in Instants(w) :
          /\ CredentialLock(w, now)
          /\ \/ LookAgain(w) /\ UNCHANGED holder
             \/ Locked(w, "changeLocked", now)
  BY DEF ChangeLock
<1>3. CASE LookAgain(w) /\ UNCHANGED holder
  <2>1. holder' # w /\ Passes(w)
    BY <1>2, <1>3, WorkersAssumption DEF CredentialLock, Passes
  <2>2. WorkerInv(w)' /\ OnlyFor(w) /\ OnlyAnswered(w)'
    BY <1>1, <1>3, <2>1, LookAgainKeeps DEF ChangeLock, account
  <2>. QED
    BY <1>1, <2>1, <2>2, StepKeeps DEF ChangeLock, account, history
<1>4. CASE Locked(w, "changeLocked", now)
  <2>1. job[w] \in CallerJobs
    BY DEF ChangeLock, IInv, WorkerInv, JobOK, RefreshSteps, CommandSteps, Commands
  <2>2. job[w].late \in BOOLEAN
    BY <2>1 DEF CallerJobs
  <2>3. WorkerInv(w)' /\ OnlyFor(w) /\ OnlyAnswered(w)' /\ Passes(w)
    BY <1>1, <1>2, <1>4, <2>2, CallerLockedKeeps
       DEF ChangeLock, CredentialLock, Locked, CallerKinds, account, history
  <2>. QED
    BY <1>1, <2>3, StepKeeps DEF ChangeLock, account, history
<1>. QED
  BY <1>2, <1>3, <1>4

LEMMA DeactivateLockKeeps ==
    ASSUME IInv, NEW w \in Workers, DeactivateLock(w)
    PROVE  IInv'
<1>1. RowsInv' /\ Ages /\ RowsOK'
  BY StillRows DEF IInv, DeactivateLock, RowsInv
<1>2. PICK now \in Instants(w) : CredentialLock(w, now) /\ Locked(w, "deactivateLocked", now)
  BY DEF DeactivateLock
<1>3. job[w] \in CallerJobs
  BY DEF DeactivateLock, IInv, WorkerInv, JobOK, RefreshSteps, CommandSteps, Commands
<1>4. job[w].late \in BOOLEAN
  BY <1>3 DEF CallerJobs
<1>5. WorkerInv(w)' /\ OnlyFor(w) /\ OnlyAnswered(w)' /\ Passes(w)
  BY <1>1, <1>2, <1>4, CallerLockedKeeps
     DEF DeactivateLock, CredentialLock, Locked, CallerKinds, account, history
<1>. QED
  BY <1>1, <1>5, StepKeeps DEF DeactivateLock, account, history

\* The one lock that counts for later resets: what the new token will go back
\* to is no older than the last one, or the credential had run out.
LEMMA CreateTokenLockKeeps ==
    ASSUME IInv, NEW w \in Workers, CreateTokenLock(w)
    PROVE  IInv'
<1>1. RowsInv' /\ Ages /\ RowsOK' /\ RowsOK
  BY StillRows DEF IInv, CreateTokenLock, RowsInv
<1>2. PICK now \in Instants(w) :
          /\ CredentialLock(w, now)
          /\ holder' = w
          /\ Goto(w, "createLocked")
          /\ job' = [job EXCEPT
                ![w] = [@ EXCEPT !.now = now, !.late = RanOut(job[w].actor)]]
  BY DEF CreateTokenLock
<1>3. job[w] \in CallerJobs
  BY DEF CreateTokenLock, IInv, WorkerInv, JobOK, RefreshSteps, CommandSteps, Commands
<1>4. PICK a \in Actors : a = job[w].actor
  BY <1>3 DEF CallerJobs
<1>5. Valid(a, now) /\ Roots(a, job[w].root) /\ holder = Nobody
  BY <1>2, <1>4 DEF CredentialLock, CreateTokenLock, IInv, WorkerInv, CallerSteps
<1>6. RanOut(a) \in BOOLEAN /\ (job[w].root >= cut \/ RanOut(a))
  <2>1. CASE "session" \in DOMAIN a
    <3>1. /\ a.session \in DOMAIN sessions /\ ~ sessions[a.session].revoked
          /\ SessionTyped(a.session)
      BY <1>1, <1>5, <2>1, RowsAreTyped DEF Valid, Live, RowsTyped
    <3>2. sessions[a.session].root = job[w].root
      BY <1>1, <1>5, <2>1, <3>1 DEF Roots, RowsOK
    <3>3. clock \in Nat
      BY <1>1, RowsAreTyped DEF RowsTyped
    <3>4. sessions[a.session].expires > clock => job[w].root >= cut
      BY <3>1, <3>2 DEF IInv, RowsInv, ResetIsFinal, Live
    <3>. QED
      BY <2>1, <3>1, <3>3, <3>4 DEF RanOut, SessionTyped
  <2>2. CASE ~ ("session" \in DOMAIN a)
    <3>1. /\ a.token \in DOMAIN tokens /\ ~ tokens[a.token].revoked
          /\ TokenTyped(a.token) /\ tokens[a.token].root = job[w].root
      BY <1>1, <1>5, <2>2, RowsAreTyped DEF Valid, RowsTyped, Roots
    <3>. QED
      BY <2>2, <3>1 DEF RanOut, TokenTyped, IInv, RowsInv, ResetIsFinal
  <2>. QED
    BY <2>1, <2>2
<1>7. job' = [job EXCEPT ![w] = [job[w] EXCEPT !.now = now, !.late = RanOut(a)]]
  BY <1>2, <1>4 DEF IInv
<1>8. PICK late \in BOOLEAN : late = RanOut(a)
  BY <1>6
<1>9. WorkerInv(w)' /\ OnlyFor(w) /\ OnlyAnswered(w)' /\ Passes(w)
  BY <1>1, <1>2, <1>5, <1>6, <1>7, <1>8, CallerLockedKeeps
     DEF CreateTokenLock, CallerKinds, account, history
<1>. QED
  BY <1>1, <1>9, StepKeeps DEF CreateTokenLock, account, history

LEMMA CommandLockKeeps ==
    ASSUME IInv, NEW w \in Workers, CommandLock(w)
    PROVE  IInv'
<1>1. RowsInv' /\ Ages /\ RowsOK'
  BY StillRows DEF IInv, CommandLock, RowsInv
<1>2. WorkerInv(w) /\ DOMAIN job = Workers /\ DOMAIN pc = Workers
  BY DEF IInv
<1>3. job[w] \in CommandJobs /\ job[w].now <= clock
  BY <1>2 DEF CommandLock, WorkerInv, JobOK, RefreshSteps, CallerSteps, Commands
<1>4. pc'[w] = "commandLocked" /\ holder' = w /\ job'[w] = job[w]
  BY <1>2, <1>3 DEF CommandLock, Locked, Goto, CommandJobs
<1>5. JobOK(w)' /\ job[w].kind # "refresh"
  BY <1>1, <1>3, <1>4 DEF JobOK, CommandJobs, CommandSteps, Commands, Ages
<1>6. WorkerInv(w)' /\ OnlyAnswered(w)'
  BY <1>3, <1>4, <1>5
     DEF CommandLock, WorkerInv, OnlyAnswered, Answered, LockedSteps, RefreshSteps, CallerSteps
<1>7. OnlyFor(w) /\ Passes(w)
  BY <1>2 DEF CommandLock, Locked, Goto, OnlyFor, Passes
<1>. QED
  BY <1>1, <1>6, <1>7, StepKeeps DEF CommandLock, account, history

\* What a refresh that is under way knows.
LEMMA Refreshing ==
    ASSUME IInv, NEW w \in Workers, pc[w] \in RefreshSteps
    PROVE  \E k \in RefreshTokens :
              /\ job[w].presented = k /\ k.generation < plan.generations
              /\ k.genuine => Issued(k)
              /\ job[w].kind = "refresh" /\ "refresh" \in plan.kinds
              /\ job[w] = [kind |-> "refresh", presented |-> k,
                           retried |-> job[w].retried, now |-> job[w].now]
              /\ job[w].retried \in BOOLEAN
              /\ job[w].now \in Nat /\ job[w].now <= clock
<1>1. WorkerInv(w)
  BY DEF IInv
<1>2. job[w] \in RefreshJobs
  BY <1>1 DEF WorkerInv, JobOK, RefreshSteps, CallerSteps, CommandSteps, Commands
<1>. QED
  BY <1>1, <1>2 DEF WorkerInv, RefreshJobs, RefreshSteps

\* A refresh that goes on to its next step, at most with its one repetition
\* used.
LEMMA RefreshGoesOn ==
    ASSUME IInv, NEW w \in Workers, pc[w] \in RefreshSteps, NEW step \in RefreshSteps,
           Goto(w, step), job' = job \/ job' = [job EXCEPT ![w].retried = TRUE],
           UNCHANGED <<plan, clock, account, holder, sessions, gone, tokens, history>>
    PROVE  IInv'
<1>1. RowsInv' /\ Ages
  BY StillRows DEF IInv
<1>2. PICK k \in RefreshTokens :
              /\ job[w].presented = k /\ k.generation < plan.generations
              /\ k.genuine => Issued(k)
              /\ job[w].kind = "refresh" /\ "refresh" \in plan.kinds
              /\ job[w] = [kind |-> "refresh", presented |-> k,
                           retried |-> job[w].retried, now |-> job[w].now]
              /\ job[w].retried \in BOOLEAN
              /\ job[w].now \in Nat /\ job[w].now <= clock
  BY Refreshing
<1>3. WorkerInv(w) /\ DOMAIN job = Workers /\ DOMAIN pc = Workers
  BY DEF IInv
<1>4. PICK retried \in BOOLEAN :
          job'[w] = [kind |-> "refresh", presented |-> k, retried |-> retried,
                     now |-> job[w].now]
  <2>1. CASE job' = job
    BY <1>2, <2>1
  <2>2. CASE job' = [job EXCEPT ![w].retried = TRUE]
    <3>1. job'[w] = [kind |-> "refresh", presented |-> k, retried |-> TRUE,
                     now |-> job[w].now]
      BY <1>2, <1>3, <2>2
    <3>. QED
      BY <3>1
  <2>. QED
    BY <2>1, <2>2
<1>5. pc'[w] = step
  BY <1>3 DEF Goto
<1>6. JobOK(w)'
  BY <1>1, <1>2, <1>4, <1>5 DEF JobOK, RefreshJobs, RefreshTokens, Ages
<1>7. job'[w].presented = k /\ job'[w].now = job[w].now
  BY <1>4
<1>8. k.genuine => Issued(k)'
  BY <1>2 DEF Issued
<1>9. WorkerInv(w)' /\ OnlyAnswered(w)'
  BY <1>2, <1>3, <1>5, <1>6, <1>7, <1>8
     DEF WorkerInv, OnlyAnswered, Answered, LockedSteps, RefreshSteps, CallerSteps
<1>10. OnlyFor(w) /\ Passes(w)
  BY <1>3 DEF Goto, OnlyFor, Passes
<1>. QED
  BY <1>1, <1>9, <1>10, StepKeeps DEF account, history

LEMMA RefreshReadKeeps ==
    ASSUME IInv, NEW w \in Workers, RefreshRead(w)
    PROVE  IInv'
<1> DEFINE verdict == IF job[w].presented.session \in DOMAIN sessions
                      THEN Judge(job[w].presented, job[w].now) ELSE "reject"
<1>1. RowsInv' /\ Ages /\ RowsOK' /\ RowsOK
  BY StillRows DEF IInv, RefreshRead, RowsInv
<1>2. PICK k \in RefreshTokens :
              /\ job[w].presented = k /\ k.generation < plan.generations
              /\ k.genuine => Issued(k)
              /\ job[w].kind = "refresh" /\ "refresh" \in plan.kinds
              /\ job[w] = [kind |-> "refresh", presented |-> k,
                           retried |-> job[w].retried, now |-> job[w].now]
              /\ job[w].retried \in BOOLEAN
              /\ job[w].now \in Nat /\ job[w].now <= clock
  BY Refreshing DEF RefreshRead, RefreshSteps
<1>3. CASE verdict = "reject" /\ Answer(w, "refused")
  <2>1. k.genuine /\ k.tag => Over(k)'
    <3>. SUFFICES ASSUME k.genuine, k.tag, k.session \in DOMAIN sessions
                  PROVE  ~ Live(k.session, clock)
      BY DEF RefreshRead, Over, Live
    <3>1. /\ k.generation \in Nat /\ SessionTyped(k.session) /\ clock \in Nat
          /\ k.generation <= sessions[k.session].generation
      BY <1>1, <1>2, PresentedType, RowsAreTyped DEF RowsTyped, Issued, RowsOK
    <3>2. Judge(k, job[w].now) = "reject"
      BY <1>2, <1>3
    <3>3. ~ Live(k.session, job[w].now)
      BY <3>1, <3>2 DEF Judge, SessionTyped
    <3>. QED
      BY <1>2, <3>1, <3>3 DEF Live, SessionTyped
  <2>2. holder' # w /\ Passes(w)
    BY DEF RefreshRead, Passes, IInv, WorkerInv, LockedSteps
  <2>3. WorkerInv(w)' /\ OnlyFor(w) /\ OnlyAnswered(w)'
    BY <1>1, <1>2, <1>3, <2>1, <2>2, PlainAnswerKeeps
  <2>. QED
    BY <1>1, <2>2, <2>3, StepKeeps DEF RefreshRead, account, history
<1>4. CASE Goto(w, "refreshReuse") /\ UNCHANGED job
  BY <1>4, RefreshGoesOn DEF RefreshRead, RefreshSteps
<1>5. CASE Goto(w, "refreshRotate") /\ UNCHANGED job
  BY <1>5, RefreshGoesOn DEF RefreshRead, RefreshSteps
<1>. QED
  BY <1>3, <1>4, <1>5 DEF RefreshRead

LEMMA RefreshMissKeeps ==
    ASSUME IInv, NEW w \in Workers, RefreshMiss(w)
    PROVE  IInv'
<1>1. CASE Answer(w, "fault")
  <2>1. RowsInv' /\ Ages /\ RowsOK'
    BY StillRows DEF IInv, RefreshMiss, RowsInv
  <2>2. holder' # w /\ Passes(w)
    BY DEF RefreshMiss, Passes, IInv, WorkerInv, LockedSteps
  <2>3. WorkerInv(w)' /\ OnlyFor(w) /\ OnlyAnswered(w)'
    BY <1>1, <2>1, <2>2, PlainAnswerKeeps
  <2>. QED
    BY <2>1, <2>2, <2>3, StepKeeps DEF RefreshMiss, account, history
<1>2. CASE job' = [job EXCEPT ![w].retried = TRUE] /\ Goto(w, "refreshRead")
  BY <1>2, RefreshGoesOn DEF RefreshMiss, RefreshSteps
<1>. QED
  BY <1>1, <1>2 DEF RefreshMiss

LEMMA FailKeeps ==
    ASSUME IInv, NEW w \in Workers, Fail(w)
    PROVE  IInv'
<1>1. RowsInv' /\ Ages /\ RowsOK'
  BY StillRows DEF IInv, Fail, RowsInv
<1>2. holder' # w /\ Passes(w)
  BY WorkersAssumption DEF Fail, Passes
<1>3. WorkerInv(w)' /\ OnlyFor(w) /\ OnlyAnswered(w)'
  BY <1>1, <1>2, PlainAnswerKeeps DEF Fail
<1>. QED
  BY <1>1, <1>2, <1>3, StepKeeps DEF Fail, account, history

-----------------------------------------------------------------------------
(* The steps that write rows.                                                *)

\* Sessions rotate, are revoked or deleted; tokens are revoked.
SessionsFall ==
    /\ DOMAIN sessions' \subseteq DOMAIN sessions
    /\ gone' = gone \cup (DOMAIN sessions \ DOMAIN sessions')
    /\ \A s \in DOMAIN sessions' :
          /\ sessions'[s] \in Sessions
          /\ sessions'[s].root = sessions[s].root
          /\ sessions'[s].expires = sessions[s].expires
          /\ sessions[s].generation <= sessions'[s].generation
          /\ sessions[s].revoked => sessions'[s].revoked

TokensFall ==
    /\ DOMAIN tokens' = DOMAIN tokens
    /\ \A t \in DOMAIN tokens :
          /\ tokens'[t] \in Tokens
          /\ tokens'[t].root = tokens[t].root /\ tokens'[t].late = tokens[t].late
          /\ tokens[t].revoked => tokens'[t].revoked

LEMMA StillTokens ==
    ASSUME RowsOK, tokens' = tokens
    PROVE  TokensFall
BY DEF RowsOK, TokensFall

LEMMA StillSessions ==
    ASSUME RowsOK, UNCHANGED <<sessions, gone>>
    PROVE  SessionsFall
<1>1. RowsTyped
  BY RowsAreTyped
<1>. QED
  BY <1>1 DEF RowsOK, SessionsFall, RowsTyped, SessionTyped

LEMMA FallingRows ==
    ASSUME RowsOK, SessionsFall, TokensFall, UNCHANGED <<plan, clock>>,
           salts' \in 1..plan.salts, hash' \in Hashes, active' \in BOOLEAN
    PROVE  RowsOK' /\ Ages
<1>1. RowsTyped
  BY RowsAreTyped
<1>2. Ages
  BY <1>1 DEF Ages, SessionsFall, TokensFall, RowsTyped
<1>3. DOMAIN sessions' \cup gone' = DOMAIN sessions \cup gone
  BY DEF SessionsFall
<1>4. Numbered(DOMAIN sessions \cup gone)' /\ Numbered(DOMAIN tokens)'
  BY <1>3 DEF RowsOK, Numbered, TokensFall
<1>5. /\ DOMAIN sessions' \subseteq plan.sessions
      /\ gone' \subseteq plan.sessions \ DOMAIN sessions'
  BY DEF RowsOK, SessionsFall
<1>6. \A s \in DOMAIN sessions' : sessions'[s] \in Sessions'
  BY DEF SessionsFall, Sessions
<1>7. \A t \in DOMAIN tokens' : tokens'[t] \in Tokens'
  BY DEF TokensFall, Tokens
<1>8. DOMAIN tokens' \subseteq TokenIds
  BY DEF RowsOK, TokensFall
<1>9. RowsOK'
  BY <1>4, <1>5, <1>6, <1>7, <1>8 DEF RowsOK, Hashes
<1>. QED
  BY <1>2, <1>9

\* What lives after lived before.
LEMMA FallingLive ==
    ASSUME RowsOK, SessionsFall, clock' = clock, NEW s \in DOMAIN sessions',
           Live(s, clock)'
    PROVE  /\ s \in DOMAIN sessions /\ Live(s, clock)
           /\ sessions'[s].root = sessions[s].root
BY DEF SessionsFall, Live

\* Sessions or tokens fall, and nothing else changes.
LEMMA FallKeepsRows ==
    ASSUME RowsInv, SessionsFall, TokensFall,
           UNCHANGED <<plan, clock, account, history>>
    PROVE  RowsInv' /\ Ages /\ RowsOK'
<1>1. RowsOK
  BY DEF RowsInv
<1>2. RowsOK' /\ Ages
  BY <1>1, FallingRows DEF RowsOK, account
<1>3. SaltsOK' /\ PasswordKept'
  BY DEF RowsInv, SaltsOK, PasswordKept, account, history
<1>4. ResetIsFinal'
  <2>1. ASSUME NEW s \in DOMAIN sessions', Live(s, clock)'
        PROVE  sessions'[s].root >= cut'
    BY <1>1, <2>1, FallingLive DEF RowsInv, ResetIsFinal, history
  <2>2. ASSUME NEW t \in DOMAIN tokens', ~ tokens'[t].revoked
        PROVE  tokens'[t].root >= cut' \/ tokens'[t].late
    BY <2>2 DEF RowsInv, ResetIsFinal, TokensFall, history
  <2>. QED
    BY <2>1, <2>2 DEF ResetIsFinal
<1>5. OthersSignedOut'
  <2>1. ASSUME NEW s \in DOMAIN sessions', Live(s, clock)'
        PROVE  s = change'.keep \/ sessions'[s].root >= change'.salt
    BY <1>1, <2>1, FallingLive DEF RowsInv, OthersSignedOut, history
  <2>. QED
    BY <2>1 DEF OthersSignedOut
<1>6. InactiveIsOut'
  <2>1. ASSUME NEW s \in DOMAIN sessions', ~ active', Live(s, clock)'
        PROVE  FALSE
    BY <1>1, <2>1, FallingLive DEF RowsInv, InactiveIsOut, account
  <2>. QED
    BY <2>1 DEF InactiveIsOut
<1>. QED
  BY <1>2, <1>3, <1>4, <1>5, <1>6 DEF RowsInv

\* RevokeSessions: what lives on is the session to keep.
LEMMA RevokeSessionsFalls ==
    ASSUME RowsOK, NEW keep, NEW now \in Nat, now <= clock, RevokeSessions(keep, now),
           gone' = gone, clock' = clock
    PROVE  /\ SessionsFall
           /\ \A s \in DOMAIN sessions' : Live(s, clock)' => s = keep
<1>1. RowsTyped
  BY RowsAreTyped
<1>2. DOMAIN sessions' = DOMAIN sessions
  BY DEF RevokeSessions
<1>3. ASSUME NEW s \in DOMAIN sessions
      PROVE  /\ sessions'[s] \in Sessions
             /\ sessions'[s].root = sessions[s].root
             /\ sessions'[s].expires = sessions[s].expires
             /\ sessions'[s].generation = sessions[s].generation
             /\ sessions[s].revoked => sessions'[s].revoked
             /\ s # keep /\ Live(s, now) => sessions'[s].revoked
  <2>1. SessionTyped(s) /\ sessions[s] \in Sessions
    BY <1>1 DEF RowsTyped, RowsOK
  <2>2. PICK r \in BOOLEAN : r <=> sessions[s].revoked \/ (s # keep /\ Live(s, now))
    OBVIOUS
  <2>3. sessions'[s] = [sessions[s] EXCEPT !.revoked = r]
    <3>1. (sessions[s].revoked \/ (s # keep /\ Live(s, now))) \in BOOLEAN
      OBVIOUS
    <3>2. r = (sessions[s].revoked \/ (s # keep /\ Live(s, now)))
      BY <2>2
    <3>. QED
      BY <3>2 DEF RevokeSessions
  <2>4. sessions'[s] = [generation |-> sessions[s].generation, revoked |-> r,
                        expires |-> sessions[s].expires, root |-> sessions[s].root]
    BY <2>1, <2>3 DEF SessionTyped
  <2>5. sessions'[s] \in Sessions
    BY <2>1, <2>4 DEF Sessions
  <2>. QED
    BY <2>2, <2>4, <2>5
<1>4. SessionsFall
  BY <1>1, <1>2, <1>3 DEF SessionsFall, RowsTyped, SessionTyped
<1>5. ASSUME NEW s \in DOMAIN sessions', Live(s, clock)' PROVE s = keep
  <2>1. SessionTyped(s) /\ clock \in Nat /\ s \in DOMAIN sessions
    BY <1>1, <1>2 DEF RowsTyped
  <2>2. ~ sessions[s].revoked /\ sessions[s].expires > clock
    BY <1>3, <1>5, <2>1 DEF Live
  <2>3. Live(s, now)
    BY <2>1, <2>2 DEF Live, SessionTyped
  <2>. QED
    BY <1>3, <1>5, <2>1, <2>3 DEF Live
<1>. QED
  BY <1>4, <1>5

\* A transaction under the account-row lock commits.
LEMMA CommitKeeps ==
    ASSUME IInv, NEW w \in Workers, Commit(w), Ages, RowsInv'
    PROVE  IInv'
<1>1. holder = w /\ holder' = Nobody /\ Answer(w, "done")
  BY DEF Commit
<1>2. holder' # w /\ Passes(w)
  BY <1>1, WorkersAssumption DEF Passes
<1>3. WorkerInv(w)' /\ OnlyFor(w) /\ OnlyAnswered(w)'
  BY <1>1, <1>2, PlainAnswerKeeps DEF RowsInv
<1>. QED
  BY <1>1, <1>2, <1>3, StepKeeps

\* The worker under the lock, and the instant of its transaction.
LEMMA UnderLock ==
    ASSUME IInv, NEW w \in Workers,
           pc[w] \in LockedSteps
    PROVE  job[w].now \in Nat /\ job[w].now <= clock /\ RowsOK /\ RowsInv
BY DEF IInv, RowsInv, WorkerInv, JobOK, LockedSteps, LoginJobs, CallerJobs, CommandJobs, RefreshSteps

\* A hash made now has a salt beyond all that came before.
LEMMA RehashIs ==
    ASSUME RowsInv, NEW p \in Passwords, Rehash(p), plan' = plan
    PROVE  /\ salts' = salts + 1 /\ salts' \in 1..plan.salts
           /\ hash' \in Hashes /\ hash'.salt = salts' /\ hash'.password = p
           /\ salts' > cut /\ salts' > change.salt
           /\ hash.salt = salts /\ salts \in Nat /\ plan.salts \in Nat
           /\ cut \in Nat /\ change.salt \in Nat
<1>1. salts \in 1..plan.salts /\ plan.salts \in Nat
  BY BoundsAssumption DEF RowsInv, RowsOK
<1>2. salts' = salts + 1 /\ salts < plan.salts /\ hash' = [password |-> p, salt |-> salts + 1]
  BY DEF Rehash
<1>. QED
  BY <1>1, <1>2 DEF RowsInv, SaltsOK, Hashes

LEMMA LoginCommitKeeps ==
    ASSUME IInv, NEW w \in Workers, LoginCommit(w)
    PROVE  IInv'
<1> DEFINE s == Cardinality(DOMAIN sessions \cup gone) + 1
           row == [generation |-> 0, revoked |-> FALSE, expires |-> job[w].now + SessionTTL,
                   root |-> job[w].snapshot.salt]
<1>1. /\ pc[w] = "loginLocked" /\ s \in plan.sessions /\ Commit(w)
      /\ sessions' = [i \in DOMAIN sessions \cup {s} |->
                         IF i # s THEN sessions[i] ELSE row]
      /\ UNCHANGED <<salts, hash>> \/ Rehash(job[w].snapshot.password)
      /\ UNCHANGED <<plan, clock, active, gone, tokens, history>>
  BY DEF LoginCommit
<1>2. /\ job[w].now \in Nat /\ job[w].now <= clock /\ RowsOK /\ RowsInv
      /\ active /\ hash = job[w].snapshot /\ RowsTyped
  BY <1>1, UnderLock, RowsAreTyped DEF LockedSteps, IInv, WorkerInv
<1>3. PICK n \in Nat : DOMAIN sessions \cup gone = 1..n
  BY <1>2 DEF RowsOK, Numbered
<1>4. s = n + 1
  <2>1. Cardinality(1..n) = n
    BY FS_Interval
  <2>. QED
    BY <1>3, <2>1
<1>5. PICK new \in Nat : new = s
  BY <1>4
<1>6. s \notin DOMAIN sessions /\ s \notin gone
  BY <1>3, <1>4
<1>7. row \in Sessions
  <2>1. /\ SessionTTL \in Nat /\ plan.time \in Nat /\ plan.salts \in Nat
        /\ plan.generations \in Nat /\ clock \in 0..plan.time
    BY <1>2, BoundsAssumption DEF RowsOK
  <2>2. hash.salt \in 1..plan.salts
    BY <1>2 DEF RowsOK, Hashes
  <2>. QED
    BY <1>2, <2>1, <2>2 DEF Sessions
<1>8. PICK r \in Sessions : r = row
  BY <1>7
<1>9. r.root = hash.salt
  BY <1>2, <1>8
<1>. HIDE DEF s, row
<1>10. /\ DOMAIN sessions' = DOMAIN sessions \cup {new} /\ sessions'[new] = r
       /\ \A i \in DOMAIN sessions : sessions'[i] = sessions[i]
  BY <1>1, <1>5, <1>6, <1>8
<1>11. Ages
  BY <1>1, <1>2, <1>10 DEF Ages, RowsTyped, SessionTyped
<1>12. hash.password \in Passwords
  BY <1>2 DEF RowsOK, Hashes
<1>13. \/ UNCHANGED <<salts, hash>>
       \/ /\ salts' \in 1..plan.salts /\ hash' \in Hashes /\ hash'.salt = salts'
          /\ hash'.password = hash.password
          /\ hash'.salt >= cut /\ hash'.salt >= change.salt
  BY <1>1, <1>2, <1>12, RehashIs
<1>14. RowsOK'
  <2>1. DOMAIN sessions' \cup gone' = 1..(n + 1)
    BY <1>1, <1>3, <1>4, <1>5, <1>10
  <2>2. Numbered(DOMAIN sessions \cup gone)' /\ Numbered(DOMAIN tokens)'
    BY <1>1, <1>2, <2>1 DEF RowsOK, Numbered
  <2>3. \A i \in DOMAIN sessions' : sessions'[i] \in Sessions'
    BY <1>1, <1>2, <1>10 DEF RowsOK, Sessions
  <2>4. \A t \in DOMAIN tokens' : tokens'[t] \in Tokens'
    BY <1>1, <1>2 DEF RowsOK, Tokens
  <2>5. /\ DOMAIN sessions' \subseteq plan.sessions
        /\ gone' \subseteq plan.sessions \ DOMAIN sessions'
    BY <1>1, <1>2, <1>5, <1>6, <1>10 DEF RowsOK
  <2>6. salts' \in 1..plan.salts /\ hash' \in Hashes
    BY <1>2, <1>13 DEF RowsOK
  <2>. QED
    BY <1>1, <1>2, <2>2, <2>3, <2>4, <2>5, <2>6 DEF RowsOK, Hashes
<1>15. SaltsOK' /\ PasswordKept'
  BY <1>1, <1>2, <1>13 DEF RowsInv, SaltsOK, PasswordKept, history
<1>16. hash.salt >= cut /\ hash.salt >= change.salt
  BY <1>2 DEF RowsInv, SaltsOK
<1>17. ResetIsFinal'
  BY <1>1, <1>2, <1>9, <1>10, <1>16 DEF RowsInv, ResetIsFinal, Live, history
<1>18. OthersSignedOut'
  BY <1>1, <1>2, <1>9, <1>10, <1>16 DEF RowsInv, OthersSignedOut, Live, history
<1>19. InactiveIsOut'
  BY <1>1, <1>2 DEF InactiveIsOut
<1>. QED
  BY <1>1, <1>11, <1>14, <1>15, <1>17, <1>18, <1>19, CommitKeeps DEF RowsInv

\* The password is changed under the lock: no session but keep lives on.
LEMMA ChangeCommitKeeps ==
    ASSUME IInv, NEW w \in Workers, ChangeCommit(w)
    PROVE  IInv'
<1> DEFINE keep == SessionOf(job[w].actor)
<1>1. PICK p \in Passwords :
          Rehash(p) /\ change' = [salt |-> salts + 1, keep |-> keep, password |-> p]
  BY DEF ChangeCommit
<1>2. job[w].now \in Nat /\ job[w].now <= clock /\ RowsOK /\ RowsInv
  BY UnderLock DEF ChangeCommit, LockedSteps
<1>3. SessionsFall /\ \A s \in DOMAIN sessions' : Live(s, clock)' => s = keep
  BY <1>2, RevokeSessionsFalls DEF ChangeCommit
<1>4. TokensFall
  BY <1>2, StillTokens DEF ChangeCommit
<1>5. /\ salts' = salts + 1 /\ salts' \in 1..plan.salts
      /\ hash' \in Hashes /\ hash'.salt = salts' /\ hash'.password = p
      /\ salts' > cut /\ salts' > change.salt
      /\ salts \in Nat /\ cut \in Nat /\ change.salt \in Nat
  BY <1>1, <1>2, RehashIs DEF ChangeCommit
<1>6. RowsOK' /\ Ages
  BY <1>2, <1>3, <1>4, <1>5, FallingRows DEF ChangeCommit, RowsOK
<1>7. SaltsOK' /\ PasswordKept'
  BY <1>1, <1>5 DEF SaltsOK, PasswordKept, ChangeCommit
<1>8. ResetIsFinal'
  <2>1. ASSUME NEW s \in DOMAIN sessions', Live(s, clock)'
        PROVE  sessions'[s].root >= cut'
    BY <1>2, <1>3, <2>1, FallingLive DEF RowsInv, ResetIsFinal, ChangeCommit
  <2>. QED
    BY <1>2, <2>1 DEF RowsInv, ResetIsFinal, ChangeCommit
<1>9. OthersSignedOut'
  BY <1>1, <1>3 DEF OthersSignedOut
<1>10. InactiveIsOut'
  <2>1. ASSUME NEW s \in DOMAIN sessions', ~ active', Live(s, clock)'
        PROVE  FALSE
    BY <1>2, <1>3, <2>1, FallingLive DEF RowsInv, InactiveIsOut, ChangeCommit
  <2>. QED
    BY <2>1 DEF InactiveIsOut
<1>. QED
  BY <1>6, <1>7, <1>8, <1>9, <1>10, CommitKeeps DEF RowsInv, ChangeCommit

LEMMA ResetCommitKeeps ==
    ASSUME IInv, NEW w \in Workers, ResetCommit(w)
    PROVE  IInv'
<1>1. PICK p \in Passwords :
          Rehash(p) /\ change' = [salt |-> salts + 1, keep |-> NoSession, password |-> p]
  BY DEF ResetCommit
<1>2. job[w].now \in Nat /\ job[w].now <= clock /\ RowsOK /\ RowsInv
  BY UnderLock DEF ResetCommit, LockedSteps
<1>3. SessionsFall /\ \A s \in DOMAIN sessions' : Live(s, clock)' => s = NoSession
  BY <1>2, RevokeSessionsFalls DEF ResetCommit
<1>4. NoSession \notin DOMAIN sessions'
  <2>1. PICK n \in Nat : DOMAIN sessions \cup gone = 1..n
    BY <1>2 DEF RowsOK, Numbered
  <2>. QED
    BY <1>3, <2>1 DEF SessionsFall, NoSession
<1>5. TokensFall /\ \A t \in DOMAIN tokens' : tokens'[t].revoked
  <2>1. ASSUME NEW t \in DOMAIN tokens
        PROVE  tokens'[t] = [revoked |-> TRUE, root |-> tokens[t].root, late |-> tokens[t].late]
    <3>1. TokenTyped(t)
      BY <1>2, RowsAreTyped DEF RowsTyped
    <3>2. tokens'[t] = [tokens[t] EXCEPT !.revoked = TRUE]
      BY DEF ResetCommit
    <3>. QED
      BY <3>1, <3>2 DEF TokenTyped
  <2>. QED
    BY <1>2, <2>1, RowsAreTyped DEF ResetCommit, TokensFall, RowsOK, Tokens
<1>6. /\ salts' = salts + 1 /\ salts' \in 1..plan.salts
      /\ hash' \in Hashes /\ hash'.salt = salts' /\ hash'.password = p
      /\ salts \in Nat
  BY <1>1, <1>2, RehashIs DEF ResetCommit
<1>7. RowsOK' /\ Ages
  BY <1>2, <1>3, <1>5, <1>6, FallingRows DEF ResetCommit, RowsOK
<1>8. SaltsOK' /\ PasswordKept'
  BY <1>1, <1>6 DEF SaltsOK, PasswordKept, ResetCommit
<1>9. ResetIsFinal' /\ OthersSignedOut' /\ InactiveIsOut'
  BY <1>3, <1>4, <1>5 DEF ResetIsFinal, OthersSignedOut, InactiveIsOut
<1>. QED
  BY <1>7, <1>8, <1>9, CommitKeeps DEF RowsInv, ResetCommit

LEMMA SetEmailCommitKeeps ==
    ASSUME IInv, NEW w \in Workers, SetEmailCommit(w)
    PROVE  IInv'
<1>1. job[w].now \in Nat /\ job[w].now <= clock /\ RowsOK /\ RowsInv
  BY UnderLock DEF SetEmailCommit, LockedSteps
<1>2. SessionsFall /\ TokensFall
  BY <1>1, RevokeSessionsFalls, StillTokens DEF SetEmailCommit
<1>3. RowsInv' /\ Ages
  BY <1>1, <1>2, FallKeepsRows DEF SetEmailCommit
<1>. QED
  BY <1>3, CommitKeeps DEF SetEmailCommit

LEMMA ActivateCommitKeeps ==
    ASSUME IInv, NEW w \in Workers, ActivateCommit(w)
    PROVE  IInv'
<1>1. RowsOK /\ RowsInv
  BY DEF IInv, RowsInv
<1>2. SessionsFall /\ TokensFall
  BY <1>1, StillSessions, StillTokens DEF ActivateCommit
<1>3. RowsOK' /\ Ages
  BY <1>1, <1>2, FallingRows DEF ActivateCommit, RowsOK
<1>4. RowsInv'
  BY <1>1, <1>3 DEF RowsInv, SaltsOK, ResetIsFinal, OthersSignedOut, PasswordKept,
     InactiveIsOut, Live, ActivateCommit, history
<1>. QED
  BY <1>3, <1>4, CommitKeeps DEF ActivateCommit

\* The account is inactive, and no session lives on.
LEMMA DeactivateCommitKeeps ==
    ASSUME IInv, NEW w \in Workers, DeactivateCommit(w)
    PROVE  IInv'
<1>1. job[w].now \in Nat /\ job[w].now <= clock /\ RowsOK /\ RowsInv
  BY UnderLock DEF DeactivateCommit, LockedSteps
<1>2. SessionsFall /\ \A s \in DOMAIN sessions' : Live(s, clock)' => s = NoSession
  BY <1>1, RevokeSessionsFalls DEF DeactivateCommit
<1>3. TokensFall
  BY <1>1, StillTokens DEF DeactivateCommit
<1>4. RowsOK' /\ Ages
  BY <1>1, <1>2, <1>3, FallingRows DEF DeactivateCommit, RowsOK
<1>5. NoSession \notin DOMAIN sessions'
  <2>1. PICK n \in Nat : DOMAIN sessions \cup gone = 1..n
    BY <1>1 DEF RowsOK, Numbered
  <2>. QED
    BY <1>2, <2>1 DEF SessionsFall, NoSession
<1>6. ResetIsFinal' /\ OthersSignedOut' /\ InactiveIsOut'
  BY <1>1, <1>2, <1>5
     DEF RowsInv, ResetIsFinal, OthersSignedOut, InactiveIsOut, DeactivateCommit, history
<1>7. SaltsOK' /\ PasswordKept'
  BY <1>1 DEF RowsInv, SaltsOK, PasswordKept, DeactivateCommit, history
<1>. QED
  BY <1>4, <1>6, <1>7, CommitKeeps DEF RowsInv, DeactivateCommit

LEMMA CreateTokenCommitKeeps ==
    ASSUME IInv, NEW w \in Workers, CreateTokenCommit(w)
    PROVE  IInv'
<1> DEFINE t == Cardinality(DOMAIN tokens) + 1
           row == [revoked |-> FALSE, root |-> job[w].root, late |-> job[w].late]
<1>1. /\ pc[w] = "createLocked" /\ t \in TokenIds /\ Commit(w)
      /\ tokens' = [i \in DOMAIN tokens \cup {t} |-> IF i = t THEN row ELSE tokens[i]]
      /\ UNCHANGED <<plan, clock, account, sessions, gone, history>>
  BY DEF CreateTokenCommit
<1>2. RowsOK /\ RowsInv /\ RowsTyped /\ (job[w].root >= cut \/ job[w].late)
  BY <1>1, RowsAreTyped DEF IInv, RowsInv, WorkerInv
<1>3. job[w] \in CallerJobs
  BY <1>1 DEF IInv, WorkerInv, JobOK, RefreshSteps, CommandSteps, Commands
<1>4. PICK n \in Nat : DOMAIN tokens = 1..n
  BY <1>2 DEF RowsOK, Numbered
<1>5. t = n + 1
  <2>1. Cardinality(1..n) = n
    BY FS_Interval
  <2>. QED
    BY <1>4, <2>1
<1>6. PICK new \in Nat : new = t
  BY <1>5
<1>7. row \in Tokens /\ row.late = job[w].late /\ row.root = job[w].root
  BY <1>3 DEF Tokens, CallerJobs
<1>8. PICK r \in Tokens : r = row
  BY <1>7
<1>9. r.root >= cut \/ r.late
  BY <1>2, <1>7, <1>8
<1>. HIDE DEF t, row
<1>10. /\ DOMAIN tokens' = DOMAIN tokens \cup {new} /\ tokens'[new] = r
       /\ new \notin DOMAIN tokens
       /\ \A i \in DOMAIN tokens : tokens'[i] = tokens[i]
  BY <1>1, <1>4, <1>5, <1>6, <1>8
<1>11. Ages
  BY <1>1, <1>2, <1>10 DEF Ages, RowsTyped, SessionTyped
<1>12. RowsOK'
  <2>1. DOMAIN tokens' = 1..(n + 1)
    BY <1>4, <1>5, <1>6, <1>10
  <2>2. Numbered(DOMAIN sessions \cup gone)' /\ Numbered(DOMAIN tokens)'
    BY <1>1, <1>2, <2>1 DEF RowsOK, Numbered
  <2>3. \A i \in DOMAIN sessions' : sessions'[i] \in Sessions'
    BY <1>1, <1>2 DEF RowsOK, Sessions
  <2>4. \A i \in DOMAIN tokens' : tokens'[i] \in Tokens'
    BY <1>1, <1>2, <1>10 DEF RowsOK, Tokens
  <2>5. DOMAIN tokens' \subseteq TokenIds
    BY <1>1, <1>2, <1>6, <1>10 DEF RowsOK
  <2>. QED
    BY <1>1, <1>2, <2>2, <2>3, <2>4, <2>5 DEF RowsOK, Hashes, account
<1>13. ResetIsFinal'
  BY <1>1, <1>2, <1>9, <1>10 DEF RowsInv, ResetIsFinal, Live, history
<1>14. SaltsOK' /\ PasswordKept' /\ OthersSignedOut' /\ InactiveIsOut'
  BY <1>1, <1>2
     DEF RowsInv, SaltsOK, PasswordKept, OthersSignedOut, InactiveIsOut, Live, account, history
<1>. QED
  BY <1>1, <1>11, <1>12, <1>13, <1>14, CommitKeeps DEF RowsInv

\* One session's row changes as Fall allows.
LEMMA OneSessionFalls ==
    ASSUME RowsOK, NEW s \in DOMAIN sessions, NEW row \in Sessions,
           sessions' = [sessions EXCEPT ![s] = row], gone' = gone,
           row.root = sessions[s].root, row.expires = sessions[s].expires,
           sessions[s].generation <= row.generation,
           sessions[s].revoked => row.revoked
    PROVE  SessionsFall
<1>1. RowsTyped
  BY RowsAreTyped
<1>. QED
  BY <1>1 DEF SessionsFall, RowsTyped, SessionTyped, RowsOK

LEMMA RefreshReuseKeeps ==
    ASSUME IInv, NEW w \in Workers, RefreshReuse(w)
    PROVE  IInv'
<1>1. RowsOK /\ RowsInv /\ RowsTyped
  BY RowsAreTyped DEF IInv, RowsInv
<1>2. PICK k \in RefreshTokens : job[w].presented = k
  BY Refreshing DEF RefreshReuse, RefreshSteps
<1>3. ASSUME NEW s \in DOMAIN sessions
      PROVE  /\ s \in DOMAIN sessions'
             /\ sessions'[s] \in Sessions
             /\ sessions'[s].root = sessions[s].root
             /\ sessions'[s].expires = sessions[s].expires
             /\ sessions'[s].generation = sessions[s].generation
             /\ sessions[s].revoked => sessions'[s].revoked
             /\ s = k.session => sessions'[s].revoked
  <2>1. SessionTyped(s) /\ sessions[s] \in Sessions
    BY <1>1 DEF RowsTyped, RowsOK
  <2>2. PICK r \in BOOLEAN : r = (sessions[s].revoked \/ s = k.session)
    OBVIOUS
  <2>3. sessions'[s] = [sessions[s] EXCEPT !.revoked = r]
    BY <1>2, <2>2 DEF RefreshReuse
  <2>4. sessions'[s] = [generation |-> sessions[s].generation, revoked |-> r,
                        expires |-> sessions[s].expires, root |-> sessions[s].root]
    BY <2>1, <2>3 DEF SessionTyped
  <2>5. sessions'[s] \in Sessions
    BY <2>1, <2>4 DEF Sessions
  <2>6. s \in DOMAIN sessions'
    BY DEF RefreshReuse
  <2>7. sessions'[s].revoked = r
    BY <2>4
  <2>8. (sessions[s].revoked => sessions'[s].revoked) /\ (s = k.session => sessions'[s].revoked)
    BY <2>2, <2>7
  <2>. QED
    BY <2>4, <2>5, <2>6, <2>8
<1>4. SessionsFall /\ TokensFall
  BY <1>1, <1>3, StillTokens DEF SessionsFall, RowsTyped, SessionTyped, RefreshReuse
<1>5. RowsInv' /\ Ages /\ RowsOK'
  BY <1>1, <1>4, FallKeepsRows DEF RefreshReuse
<1>6. Over(k)'
  BY <1>3, <1>4 DEF Over, Live, SessionsFall
<1>7. holder' # w /\ Passes(w)
  BY DEF RefreshReuse, Passes, IInv, WorkerInv, LockedSteps
<1>8. WorkerInv(w)' /\ OnlyFor(w) /\ OnlyAnswered(w)'
  BY <1>2, <1>5, <1>6, <1>7, PlainAnswerKeeps DEF RefreshReuse
<1>. QED
  BY <1>5, <1>7, <1>8, StepKeeps DEF RefreshReuse, account, history

\* The rotation: whoever was answered with tokens before presented an older
\* generation.
LEMMA RefreshRotateKeeps ==
    ASSUME IInv, NEW w \in Workers, RefreshRotate(w)
    PROVE  IInv'
<1>1. RowsOK /\ RowsInv /\ RowsTyped
  BY RowsAreTyped DEF IInv, RowsInv
<1>2. PICK k \in RefreshTokens : job[w].presented = k /\ k.generation < plan.generations
  BY Refreshing DEF RefreshRotate, RefreshSteps
<1>3. /\ k.session \in DOMAIN sessions /\ ~ sessions[k.session].revoked
      /\ k.generation = sessions[k.session].generation
      /\ sessions' = [sessions EXCEPT ![k.session].generation = @ + 1]
  BY <1>2 DEF RefreshRotate, Current, Live
<1>4. PICK answer \in {"tokens", "error"} : Answer(w, answer)
  BY DEF RefreshRotate
<1>5. SessionTyped(k.session) /\ sessions[k.session] \in Sessions /\ plan.generations \in Nat
  BY <1>1, <1>3, BoundsAssumption DEF RowsTyped, RowsOK
<1>6. PICK row \in Sessions :
          row = [generation |-> k.generation + 1, revoked |-> sessions[k.session].revoked,
                 expires |-> sessions[k.session].expires, root |-> sessions[k.session].root]
  <2>1. k.generation + 1 \in 0..plan.generations
    BY <1>2, <1>3, <1>5 DEF SessionTyped
  <2>. QED
    BY <1>5, <2>1 DEF Sessions
<1>7. sessions' = [sessions EXCEPT ![k.session] = row]
  <2>1. row = [sessions[k.session] EXCEPT !.generation = k.generation + 1]
    BY <1>5, <1>6 DEF SessionTyped
  <2>2. row = [sessions[k.session] EXCEPT !.generation = @ + 1]
    BY <1>3, <2>1
  <2>. QED
    BY <1>3, <2>2
<1>8. SessionsFall /\ TokensFall
  <2>1. /\ row.root = sessions[k.session].root /\ row.expires = sessions[k.session].expires
        /\ sessions[k.session].generation <= row.generation
        /\ sessions[k.session].revoked => row.revoked
    BY <1>3, <1>5, <1>6 DEF SessionTyped
  <2>. QED
    BY <1>1, <1>3, <1>7, <2>1, OneSessionFalls, StillTokens DEF RefreshRotate
<1>9. RowsInv' /\ Ages /\ RowsOK'
  BY <1>1, <1>8, FallKeepsRows DEF RefreshRotate
<1>10. Spent(k)'
  BY <1>3, <1>5, <1>6, <1>7 DEF Spent, SessionTyped
<1>11. holder' # w /\ Passes(w)
  BY DEF RefreshRotate, Passes, IInv, WorkerInv, LockedSteps
<1>12. WorkerInv(w)' /\ OnlyFor(w)
  BY <1>2, <1>4, <1>9, <1>10, <1>11, AnswerKeeps
<1>13. OnlyAnswered(w)'
  <2>1. job'[w].presented = k
    <3>1. job[w].kind = "refresh"
      BY Refreshing DEF RefreshRotate, RefreshSteps
    <3>. QED
      BY <1>2, <1>4, <3>1 DEF Answer, IInv
  <2>2. ASSUME NEW v \in Workers \ {w}, Answered(v, "tokens")',
               job'[v].presented.session = k.session,
               job'[v].presented.generation = k.generation
        PROVE  FALSE
    <3>1. Answered(v, "tokens") /\ job[v].presented = job'[v].presented
      BY <1>12, <2>2 DEF OnlyFor, Answered
    <3>2. Spent(job[v].presented)
      BY <3>1 DEF IInv, WorkerInv
    <3>3. k.session \notin gone
      BY <1>1, <1>3 DEF RowsOK
    <3>. QED
      BY <1>3, <1>5, <2>2, <3>1, <3>2, <3>3 DEF Spent, SessionTyped
  <2>. QED
    BY <2>1, <2>2 DEF OnlyAnswered
<1>. QED
  BY <1>9, <1>11, <1>12, <1>13, StepKeeps DEF RefreshRotate, account, history

-----------------------------------------------------------------------------
(* Steps of nobody.                                                          *)

LEMMA TickKeeps == ASSUME IInv, Tick PROVE IInv'
<1>1. RowsOK /\ RowsInv /\ RowsTyped
  BY RowsAreTyped DEF IInv, RowsInv
<1>2. clock' \in 0..plan.time /\ clock <= clock' /\ clock' \in Nat
  BY <1>1, BoundsAssumption DEF Tick, RowsOK
<1>3. Ages
  BY <1>1, <1>2 DEF Tick, Ages, RowsTyped, SessionTyped
<1>4. RowsOK'
  BY <1>1, <1>2 DEF Tick, RowsOK, Numbered, Hashes, Sessions, Tokens, account
<1>5. \A s \in DOMAIN sessions : Live(s, clock)' => Live(s, clock)
  BY <1>1, <1>2 DEF Tick, Live, RowsTyped, SessionTyped
<1>6. ResetIsFinal' /\ OthersSignedOut' /\ InactiveIsOut'
  BY <1>1, <1>5
     DEF Tick, RowsInv, ResetIsFinal, OthersSignedOut, InactiveIsOut, account, history
<1>7. SaltsOK' /\ PasswordKept'
  BY <1>1 DEF Tick, RowsInv, SaltsOK, PasswordKept, account, history
<1>. QED
  BY <1>3, <1>4, <1>6, <1>7, RowsStepKeeps DEF Tick, RowsInv, account, history

LEMMA LogoutKeeps == ASSUME IInv, Logout PROVE IInv'
<1>1. RowsOK /\ RowsInv /\ RowsTyped
  BY RowsAreTyped DEF IInv, RowsInv
<1>2. PICK k \in RefreshTokens :
          /\ Current(k, clock)
          /\ sessions' = [sessions EXCEPT ![k.session].revoked = TRUE]
  BY DEF Logout
<1>3. k.session \in DOMAIN sessions /\ SessionTyped(k.session) /\ sessions[k.session] \in Sessions
  BY <1>1, <1>2 DEF Current, RowsTyped, RowsOK
<1>4. PICK row \in Sessions :
          row = [generation |-> sessions[k.session].generation, revoked |-> TRUE,
                 expires |-> sessions[k.session].expires, root |-> sessions[k.session].root]
  BY <1>3 DEF Sessions
<1>5. sessions' = [sessions EXCEPT ![k.session] = row]
  <2>1. sessions'[k.session] = [sessions[k.session] EXCEPT !.revoked = TRUE]
    BY <1>2, <1>3
  <2>2. sessions'[k.session] = row
    BY <1>3, <1>4, <2>1 DEF SessionTyped
  <2>. QED
    BY <1>2, <2>2
<1>6. SessionsFall /\ TokensFall
  <2>1. /\ row.root = sessions[k.session].root /\ row.expires = sessions[k.session].expires
        /\ sessions[k.session].generation <= row.generation /\ row.revoked
    BY <1>3, <1>4 DEF SessionTyped
  <2>. QED
    BY <1>1, <1>3, <1>5, <2>1, OneSessionFalls, StillTokens DEF Logout
<1>. QED
  BY <1>1, <1>6, FallKeepsRows, RowsStepKeeps DEF Logout, account, history

LEMMA CleanupSessionsKeeps == ASSUME IInv, CleanupSessions PROVE IInv'
<1>1. RowsOK /\ RowsInv /\ RowsTyped
  BY RowsAreTyped DEF IInv, RowsInv
<1>2. PICK S \in SUBSET DOMAIN sessions :
          /\ sessions' = [s \in DOMAIN sessions \ S |-> sessions[s]]
          /\ gone' = gone \cup S
  BY DEF CleanupSessions
<1>3. SessionsFall /\ TokensFall
  BY <1>1, <1>2, StillTokens
     DEF SessionsFall, RowsTyped, SessionTyped, RowsOK, CleanupSessions
<1>. QED
  BY <1>1, <1>3, FallKeepsRows, RowsStepKeeps DEF CleanupSessions, account, history

LEMMA RevokeTokenKeeps == ASSUME IInv, RevokeToken PROVE IInv'
<1>1. RowsOK /\ RowsInv /\ RowsTyped
  BY RowsAreTyped DEF IInv, RowsInv
<1>2. PICK t \in DOMAIN tokens : tokens' = [tokens EXCEPT ![t].revoked = TRUE]
  BY DEF RevokeToken
<1>3. tokens'[t] = [revoked |-> TRUE, root |-> tokens[t].root, late |-> tokens[t].late]
  <2>1. TokenTyped(t)
    BY <1>1 DEF RowsTyped
  <2>2. tokens'[t] = [tokens[t] EXCEPT !.revoked = TRUE]
    BY <1>2
  <2>. QED
    BY <2>1, <2>2 DEF TokenTyped
<1>4. tokens[t] \in Tokens
  BY <1>1 DEF RowsOK
<1>5. tokens'[t] \in Tokens
  BY <1>3, <1>4 DEF Tokens
<1>6. SessionsFall /\ TokensFall
  BY <1>1, <1>2, <1>3, <1>5, StillSessions DEF TokensFall, RowsOK, RevokeToken
<1>. QED
  BY <1>1, <1>6, FallKeepsRows, RowsStepKeeps DEF RevokeToken, account, history

-----------------------------------------------------------------------------
(* The invariant.                                                            *)

LEMMA InitInv == Init => IInv
<1>. SUFFICES ASSUME Init PROVE IInv
  OBVIOUS
<1>1. /\ plan \in Plans /\ clock = 0 /\ salts = 1 /\ hash \in Hashes /\ hash.salt = 1
      /\ active = TRUE /\ DOMAIN sessions = {} /\ DOMAIN tokens = {} /\ gone = {} /\ cut = 1
      /\ change.salt = 1 /\ change.password = hash.password
  BY DEF Init
<1>2. plan.time \in Nat /\ plan.salts \in Nat /\ 1 \in 1..plan.salts
  BY <1>1, BoundsAssumption DEF Hashes
<1>3. Numbered(DOMAIN sessions \cup gone) /\ Numbered(DOMAIN tokens)
  <2>1. {} = 1..0
    OBVIOUS
  <2>. QED
    BY <1>1, <2>1 DEF Numbered
<1>4. RowsOK
  BY <1>1, <1>2, <1>3 DEF RowsOK
<1>5. RowsInv
  BY <1>1, <1>4 DEF RowsInv, SaltsOK, ResetIsFinal, OthersSignedOut, PasswordKept,
                    InactiveIsOut
<1>6. ASSUME NEW w \in Workers PROVE WorkerInv(w)
  <2>1. pc[w] = "idle" /\ job[w] = [kind |-> "none", answer |-> "none"] /\ holder = Nobody
    BY DEF Init
  <2>2. JobOK(w)
    BY <2>1 DEF JobOK, NoJobs
  <2>. QED
    BY <2>1, <2>2, WorkersAssumption
       DEF WorkerInv, LockedSteps, RefreshSteps, CallerSteps, Answered
<1>7. ExchangedOnce
  BY DEF Init, ExchangedOnce, Answered
<1>. QED
  BY <1>5, <1>6, <1>7 DEF IInv, Init

LEMMA IdleKeeps == ASSUME IInv, UNCHANGED vars PROVE IInv'
BY StillRows, RowsStepKeeps DEF IInv, vars, account, history

LEMMA NextInv == IInv /\ [Next]_vars => IInv'
<1>. SUFFICES ASSUME IInv, [Next]_vars PROVE IInv'
  OBVIOUS
<1>1. CASE UNCHANGED vars
  BY <1>1, IdleKeeps
<1>2. CASE Tick \/ Logout \/ CleanupSessions \/ RevokeToken
  BY <1>2, TickKeeps, LogoutKeeps, CleanupSessionsKeeps, RevokeTokenKeeps
<1>3. ASSUME NEW w \in Workers,
             \/ LoginVerify(w) \/ RefreshBegin(w) \/ CallerBegin(w) \/ CommandBegin(w)
             \/ Fail(w)
      PROVE  IInv'
  BY <1>3, LoginVerifyKeeps, RefreshBeginKeeps, CallerBeginKeeps, CommandBeginKeeps, FailKeeps
<1>4. ASSUME NEW w \in Workers, Lock(w) PROVE IInv'
  BY <1>4, LoginLockKeeps, ChangeLockKeeps, CreateTokenLockKeeps, DeactivateLockKeeps,
     CommandLockKeeps, CredentialRefusedKeeps DEF Lock
<1>5. ASSUME NEW w \in Workers, Step(w) PROVE IInv'
  BY <1>5, LoginCommitKeeps, RefreshReadKeeps, RefreshReuseKeeps, RefreshRotateKeeps,
     RefreshMissKeeps, ChangeCommitKeeps, CreateTokenCommitKeeps, ResetCommitKeeps,
     SetEmailCommitKeeps, ActivateCommitKeeps, DeactivateCommitKeeps DEF Step
<1>. QED
  BY <1>1, <1>2, <1>3, <1>4, <1>5 DEF Next

\* What every state a behavior reaches satisfies: the rows are well formed and
\* safe, and each worker may rely on what it read, from its first step to its
\* answer (account_guard.go:22-34, refresh.go:25-60).
THEOREM Invariance == Spec => []IInv
BY InitInv, NextInv, PTL DEF Spec

-----------------------------------------------------------------------------
(* What follows.                                                             *)

\* The rows, the jobs and the account-row lock are of their types: who is
\* between the lock and the commit holds the row, and nobody else does
\* (account_guard.go:22-34).
THEOREM TypeCorrect == Spec => []TypeOK
<1>1. IInv => TypeOK
  <2>. SUFFICES ASSUME IInv PROVE TypeOK
    OBVIOUS
  <2>1. ASSUME NEW w \in Workers
        PROVE  job[w].kind \in plan.kinds \cup {"none"} /\ (pc[w] \in LockedSteps <=> holder = w)
    BY DEF IInv, WorkerInv, JobOK, NoJobs, AnsweredJobs, LoginJobs, RefreshJobs, CallerJobs,
           CommandJobs
  <2>. QED
    BY <2>1 DEF IInv, RowsInv, RowsOK, TypeOK
<1>. QED
  BY <1>1, Invariance, PTL

\* However many refreshes present one generation of a session, however they
\* interleave with each other and with what revokes and deletes it, one at most
\* is answered with tokens (sessions.sql:21-31).
THEOREM RefreshExchangesOnce == Spec => []ExchangedOnce
<1>1. IInv => ExchangedOnce
  BY DEF IInv
<1>. QED
  BY <1>1, Invariance, PTL

\* A token the server issued is refused only when its session is over, also
\* after any number of rotations between the refusal and the look at it
\* (refresh.go:41-48).
THEOREM RefusalIsFinal == Spec => []RefusedMeansEnded
<1>1. IInv => RefusedMeansEnded
  BY DEF IInv, WorkerInv, RefusedMeansEnded, Over
<1>. QED
  BY <1>1, Invariance, PTL

\* No credential of an older password outlives a reset, whoever was between
\* reading the hash and taking the lock (reset_password.go:55-56).
THEOREM ResetEndsTheOld == Spec => []ResetIsFinal
<1>1. IInv => ResetIsFinal
  BY DEF IInv, RowsInv
<1>. QED
  BY <1>1, Invariance, PTL

\* A change of the password signs the others out, also those that were logging
\* in with the old one (change_password.go:50-53).
THEOREM ChangeSignsOthersOut == Spec => []OthersSignedOut
<1>1. IInv => OthersSignedOut
  BY DEF IInv, RowsInv
<1>. QED
  BY <1>1, Invariance, PTL

\* No login's second hash overwrites a change of the password
\* (login.go:103-105).
THEOREM ChangeIsKept == Spec => []PasswordKept
<1>1. IInv => PasswordKept
  BY DEF IInv, RowsInv
<1>. QED
  BY <1>1, Invariance, PTL

\* Nobody is signed in to a deactivated account (login.go:106-108,
\* deactivate.go:114).
THEOREM DeactivationSignsOut == Spec => []InactiveIsOut
<1>1. IInv => InactiveIsOut
  BY DEF IInv, RowsInv
<1>. QED
  BY <1>1, Invariance, PTL

-----------------------------------------------------------------------------
\* No step but a rotation touches the generation of a session that stays.
SameGenerations ==
    \A s \in DOMAIN sessions \cap DOMAIN sessions' :
        sessions'[s].generation = sessions[s].generation

LEMMA RevokeSessionsStays ==
    ASSUME RowsOK, NEW keep, NEW now, RevokeSessions(keep, now)
    PROVE  SameGenerations
<1>1. RowsTyped
  BY RowsAreTyped
<1>2. ASSUME NEW s \in DOMAIN sessions
      PROVE  sessions'[s].generation = sessions[s].generation
  <2>1. SessionTyped(s)
    BY <1>1 DEF RowsTyped
  <2>2. sessions'[s] = [sessions[s] EXCEPT !.revoked = @ \/ (s # keep /\ Live(s, now))]
    BY DEF RevokeSessions
  <2>. QED
    BY <2>1, <2>2 DEF SessionTyped
<1>. QED
  BY <1>2 DEF SameGenerations

LEMMA OnlyRotationMoves ==
    ASSUME IInv, [Next]_vars
    PROVE  \/ SameGenerations
           \/ \E w \in Workers : RefreshRotate(w)
<1>1. RowsOK /\ RowsTyped
  BY RowsAreTyped DEF IInv, RowsInv
<1>2. ASSUME sessions' = sessions PROVE SameGenerations
  BY <1>2 DEF SameGenerations
<1>3. ASSUME UNCHANGED vars \/ Tick \/ RevokeToken PROVE SameGenerations
  BY <1>2, <1>3 DEF vars, Tick, RevokeToken
<1>4. ASSUME Logout PROVE SameGenerations
  <2>1. PICK k \in RefreshTokens :
            /\ Current(k, clock)
            /\ sessions' = [sessions EXCEPT ![k.session].revoked = TRUE]
    BY <1>4 DEF Logout
  <2>2. SessionTyped(k.session) /\ k.session \in DOMAIN sessions
    BY <1>1, <2>1 DEF Current, RowsTyped
  <2>3. sessions'[k.session] = [sessions[k.session] EXCEPT !.revoked = TRUE]
    BY <2>1, <2>2
  <2>. QED
    BY <2>1, <2>2, <2>3 DEF SameGenerations, SessionTyped
<1>5. ASSUME CleanupSessions PROVE SameGenerations
  BY <1>5 DEF CleanupSessions, SameGenerations
<1>6. ASSUME NEW w \in Workers,
             LoginVerify(w) \/ RefreshBegin(w) \/ CallerBegin(w) \/ CommandBegin(w) \/ Fail(w)
      PROVE  SameGenerations
  BY <1>2, <1>6 DEF LoginVerify, RefreshBegin, CallerBegin, CommandBegin, Fail
<1>7. ASSUME NEW w \in Workers, Lock(w) PROVE SameGenerations
  BY <1>2, <1>7 DEF Lock, LoginLock, ChangeLock, CreateTokenLock, DeactivateLock, CommandLock,
                    CredentialRefused
<1>8. ASSUME NEW w \in Workers, LoginCommit(w) PROVE SameGenerations
  <2>1. Cardinality(DOMAIN sessions \cup gone) + 1 \notin DOMAIN sessions
    <3>1. PICK n \in Nat : DOMAIN sessions \cup gone = 1..n
      BY <1>1 DEF RowsOK, Numbered
    <3>2. Cardinality(1..n) = n
      BY FS_Interval
    <3>3. Cardinality(DOMAIN sessions \cup gone) = n
      BY <3>1, <3>2
    <3>. QED
      BY <3>1, <3>3
  <2>. QED
    BY <1>8, <2>1 DEF LoginCommit, SameGenerations
<1>9. ASSUME NEW w \in Workers, RefreshReuse(w) PROVE SameGenerations
  <2>1. ASSUME NEW s \in DOMAIN sessions
        PROVE  sessions'[s].generation = sessions[s].generation
    <3>1. SessionTyped(s)
      BY <1>1 DEF RowsTyped
    <3>2. sessions'[s] =
              [sessions[s] EXCEPT !.revoked = @ \/ s = job[w].presented.session]
      BY <1>9 DEF RefreshReuse
    <3>. QED
      BY <3>1, <3>2 DEF SessionTyped
  <2>. QED
    BY <2>1 DEF SameGenerations
<1>10. ASSUME NEW w \in Workers,
              ChangeCommit(w) \/ ResetCommit(w) \/ SetEmailCommit(w) \/ DeactivateCommit(w)
       PROVE  SameGenerations
  BY <1>1, <1>10, RevokeSessionsStays
     DEF ChangeCommit, ResetCommit, SetEmailCommit, DeactivateCommit
<1>11. ASSUME NEW w \in Workers,
              RefreshRead(w) \/ RefreshMiss(w) \/ CreateTokenCommit(w) \/ ActivateCommit(w)
       PROVE  SameGenerations
  BY <1>2, <1>11 DEF RefreshRead, RefreshMiss, CreateTokenCommit, ActivateCommit
<1>. QED
  BY <1>3, <1>4, <1>5, <1>6, <1>7, <1>8, <1>9, <1>10, <1>11 DEF Next, Step

\* A session that was revoked, by a logout, a reuse, another's change of the
\* password or an administrator, after a refresh judged it live, gives that
\* refresh no tokens (sessions.sql:22-24).
THEOREM RevocationStopsRotation == Spec => RevokedRotatesNot
<1>1. IInv /\ [Next]_vars
      => [\A s \in DOMAIN sessions \cap DOMAIN sessions' :
             sessions'[s].generation # sessions[s].generation
             => ~ sessions[s].revoked]_vars
  <2>. SUFFICES ASSUME IInv, [Next]_vars
                PROVE  \A s \in DOMAIN sessions \cap DOMAIN sessions' :
                          sessions'[s].generation # sessions[s].generation
                          => ~ sessions[s].revoked
    OBVIOUS
  <2>1. CASE SameGenerations
    BY <2>1 DEF SameGenerations
  <2>2. ASSUME NEW w \in Workers, RefreshRotate(w)
        PROVE  \A s \in DOMAIN sessions \cap DOMAIN sessions' :
                  sessions'[s].generation # sessions[s].generation
                  => ~ sessions[s].revoked
    BY <2>2 DEF RefreshRotate, Current, Live
  <2>. QED
    BY <2>1, <2>2, OnlyRotationMoves
<1>. QED
  BY <1>1, Invariance, PTL DEF Spec, RevokedRotatesNot
=============================================================================
