-------------------------------- MODULE Gate ---------------------------------
(***************************************************************************)
(* The write gate: server/internal/platform/gate/gate.go, as the issue     *)
(* module's writes use it (issue/app/lock.go, lock_across.go).             *)
(*                                                                         *)
(* A caller is a goroutine in one call of Keyed.Enter and in the write     *)
(* that follows it. It enters the keys of its plan one after another;      *)
(* between two sections under the gate's mutex anything may happen to the  *)
(* others, its deadline may pass, and its context may end. One action is   *)
(* one section under the mutex, or one step outside it (the select, the    *)
(* call of leave).                                                         *)
(*                                                                         *)
(* Abstractions. The deadline and the context are one flag, over[c]: both  *)
(* end a wait alike and only the error differs. A call whose context is    *)
(* done as it begins returns at once and changes nothing, so it has no     *)
(* action. once.Do makes the function Enter returns leave the keys one     *)
(* time, so that function has one action.                                  *)
(***************************************************************************)
EXTENDS Integers, Sequences, FiniteSets, SequencesExt

CONSTANTS Callers,    \* the goroutines
          Keys,       \* the keys: project ids, as numbers in their order
          Plans,      \* the key lists a caller may come with
          PerKey,     \* Limits.PerKey
          MaxQueue    \* Limits.MaxQueue

\* The configuration refuses fewer than one place per key and a negative
\* queue (config/validate.go:197-205).
ASSUME LimitsAssumption == PerKey \in Nat \ {0} /\ MaxQueue \in Nat

ASSUME CallersAssumption == IsFiniteSet(Callers) /\ Keys \subseteq Nat

ASSUME PlansAssumption == Plans \subseteq Seq(Keys) \ {<<>>}

VARIABLES keys,       \* Keyed.keys: the queue of each key the gate remembers
          pc,         \* where the caller is
          plan,       \* the keys of its call, in the order it enters them
          entered,    \* how many of them it entered
          left,       \* how many of those it gave up again
          granted,    \* waiter.granted of the queue entry it waits with
          over        \* its deadline passed, or its context is done

vars == <<keys, pc, plan, entered, left, granted, over>>

\* A queue: how many callers hold the key, and those waiting for it.
Queues == [holders : Nat, waiting : Seq(Callers)]
EmptyQueue == [holders |-> 0, waiting |-> <<>>]

\* What a caller finds for k: a key the gate does not remember has a new queue.
At(k) == IF k \in DOMAIN keys THEN keys[k] ELSE EmptyQueue

\* keys with q as k's queue, and keys without k.
Put(k, q) == [j \in DOMAIN keys \cup {k} |-> IF j = k THEN q ELSE keys[j]]
Forget(k) == [j \in DOMAIN keys \ {k} |-> keys[j]]

\* The key c enters next, or waits for.
Wanted(c) == plan[c][entered[c] + 1]

\* c holds a place of k: it entered k and did not give it up yet, or k was
\* handed to it while it waited.
Holds(c, k) ==
    \/ \E i \in left[c] + 1 .. entered[c] : plan[c][i] = k
    \/ granted[c] /\ Wanted(c) = k

Owners(k) == {c \in Callers : Holds(c, k)}

\* c waits for k, and was not handed it.
Waits(c, k) ==
    pc[c] \in {"waiting", "givingUp"} /\ ~ granted[c] /\ Wanted(c) = k

Init ==
    /\ keys = [k \in {} |-> EmptyQueue]
    /\ pc = [c \in Callers |-> "idle"]
    /\ plan = [c \in Callers |-> <<>>]
    /\ entered = [c \in Callers |-> 0]
    /\ left = [c \in Callers |-> 0]
    /\ granted = [c \in Callers |-> FALSE]
    /\ over = [c \in Callers |-> FALSE]

-----------------------------------------------------------------------------
\* Broken: each key once, in whatever order.
AscendingOnce(p) == \A i, j \in 1..Len(p) : i < j => p[i] # p[j]

\* A write enters each of its keys once and in ascending order: ascending
\* (issue/app/lock_across.go) sorts and compacts what its precheck gathered.
Ascending(p) == \A i, j \in 1..Len(p) : i < j => p[i] < p[j]

\* Enter begins with keys p; its deadline starts now.
Begin(c, p) ==
    /\ pc[c] = "idle"
    /\ Ascending(p)
    /\ pc' = [pc EXCEPT ![c] = "entering"]
    /\ plan' = [plan EXCEPT ![c] = p]
    /\ entered' = [entered EXCEPT ![c] = 0]
    /\ left' = [left EXCEPT ![c] = 0]
    /\ over' = [over EXCEPT ![c] = FALSE]
    /\ UNCHANGED <<keys, granted>>

\* The deadline passes, or the context is cancelled.
Expire(c) ==
    /\ pc[c] \in {"entering", "waiting"}
    /\ ~ over[c]
    /\ over' = [over EXCEPT ![c] = TRUE]
    /\ UNCHANGED <<keys, pc, plan, entered, left, granted>>

\* One more key entered: the next one, or, after the last, the write begins.
Advance(c) ==
    /\ entered' = [entered EXCEPT ![c] = @ + 1]
    /\ pc' = [pc EXCEPT
          ![c] = IF entered[c] + 1 = Len(plan[c]) THEN "inside" ELSE "entering"]

FreePlace(k) == At(k).holders < PerKey /\ At(k).waiting = <<>>

\* A free place is taken at once, without a look at the deadline.
TakePlace(c) ==
    LET k == Wanted(c) IN
    /\ pc[c] = "entering"
    /\ FreePlace(k)
    /\ keys' = Put(k, [At(k) EXCEPT !.holders = @ + 1])
    /\ Advance(c)
    /\ UNCHANGED <<plan, left, granted, over>>

\* Broken: one waiter too many.
QueueFullTooLate(k) == Len(At(k).waiting) > MaxQueue

QueueFull(k) == Len(At(k).waiting) >= MaxQueue

\* Broken: leaves the key that refused it too.
RefuseLeavingOneMore(c) ==
    /\ pc[c] = "entering"
    /\ ~ FreePlace(Wanted(c))
    /\ QueueFull(Wanted(c))
    /\ pc' = [pc EXCEPT ![c] = "leaving"]
    /\ entered' = [entered EXCEPT ![c] = @ + 1]
    /\ UNCHANGED <<keys, plan, left, granted, over>>

\* ErrFull: nothing of this key, and the keys entered before it are left.
Refuse(c) ==
    LET k == Wanted(c) IN
    /\ pc[c] = "entering"
    /\ ~ FreePlace(k)
    /\ QueueFull(k)
    /\ keys' = Put(k, At(k))
    /\ pc' = [pc EXCEPT ![c] = "leaving"]
    /\ UNCHANGED <<plan, entered, left, granted, over>>

Enqueue(c) ==
    LET k == Wanted(c) IN
    /\ pc[c] = "entering"
    /\ ~ FreePlace(k)
    /\ ~ QueueFull(k)
    /\ keys' = Put(k, [At(k) EXCEPT !.waiting = Append(@, c)])
    /\ pc' = [pc EXCEPT ![c] = "waiting"]
    /\ UNCHANGED <<plan, entered, left, granted, over>>

\* The select sees ready: the key is c's.
Receive(c) ==
    /\ pc[c] = "waiting"
    /\ granted[c]
    /\ granted' = [granted EXCEPT ![c] = FALSE]
    /\ Advance(c)
    /\ UNCHANGED <<keys, plan, left, over>>

\* Broken: the timer of a later key never fires.
GiveUpAtFirstKey(c) ==
    /\ pc[c] = "waiting"
    /\ over[c]
    /\ entered[c] = 0
    /\ pc' = [pc EXCEPT ![c] = "givingUp"]
    /\ UNCHANGED <<keys, plan, entered, left, granted, over>>

\* The select sees the timer or the context, even when ready is closed too.
GiveUp(c) ==
    /\ pc[c] = "waiting"
    /\ over[c]
    /\ pc' = [pc EXCEPT ![c] = "givingUp"]
    /\ UNCHANGED <<keys, plan, entered, left, granted, over>>

\* Not handed the key: out of its queue.
Withdraw(c) ==
    LET k == Wanted(c) IN
    /\ pc[c] = "givingUp"
    /\ ~ granted[c]
    /\ \E i \in 1..Len(At(k).waiting) :
          /\ At(k).waiting[i] = c
          /\ keys' = Put(k, [At(k) EXCEPT !.waiting = RemoveAt(@, i)])
    /\ pc' = [pc EXCEPT ![c] = "leaving"]
    /\ UNCHANGED <<plan, entered, left, granted, over>>

\* Broken: a place given up is free, whoever waits.
ReleaseToNobody(c, k) ==
    /\ keys' = Put(k, [At(k) EXCEPT !.holders = @ - 1])
    /\ granted' = [granted EXCEPT ![c] = FALSE]

\* Broken: the last caller in the queue is served first.
ReleaseToLast(c, k) ==
    LET q == At(k) IN
    IF q.waiting # <<>>
    THEN /\ keys' = Put(k, [q EXCEPT !.waiting = Front(@)])
         /\ granted' = [d \in Callers |->
               d = Last(q.waiting) \/ (granted[d] /\ d # c)]
    ELSE /\ keys' = IF q.holders = 1
                    THEN Forget(k)
                    ELSE Put(k, [q EXCEPT !.holders = @ - 1])
         /\ granted' = [granted EXCEPT ![c] = FALSE]

\* Broken: a key nobody holds is kept.
ReleaseKeepingKey(c, k) ==
    LET q == At(k) IN
    IF q.waiting # <<>>
    THEN /\ keys' = Put(k, [q EXCEPT !.waiting = Tail(@)])
         /\ granted' = [d \in Callers |->
               d = Head(q.waiting) \/ (granted[d] /\ d # c)]
    ELSE /\ keys' = Put(k, [q EXCEPT !.holders = @ - 1])
         /\ granted' = [granted EXCEPT ![c] = FALSE]

\* release: k goes to the first caller waiting, who then holds it; when none
\* waits, one holder fewer, and a key nobody holds is forgotten.
Release(c, k) ==
    LET q == At(k) IN
    IF q.waiting # <<>>
    THEN /\ keys' = Put(k, [q EXCEPT !.waiting = Tail(@)])
         /\ granted' = [d \in Callers |->
               d = Head(q.waiting) \/ (granted[d] /\ d # c)]
    ELSE /\ keys' = IF q.holders = 1
                    THEN Forget(k)
                    ELSE Put(k, [q EXCEPT !.holders = @ - 1])
         /\ granted' = [granted EXCEPT ![c] = FALSE]

\* Handed the key as it gave up: it passes the key on.
PassOn(c) ==
    /\ pc[c] = "givingUp"
    /\ granted[c]
    /\ Release(c, Wanted(c))
    /\ pc' = [pc EXCEPT ![c] = "leaving"]
    /\ UNCHANGED <<plan, entered, left, over>>

\* The write ended, on whatever path: Locks.run's deferred leave.
Leave(c) ==
    /\ pc[c] = "inside"
    /\ pc' = [pc EXCEPT ![c] = "leaving"]
    /\ UNCHANGED <<keys, plan, entered, left, granted, over>>

\* leave gives the keys up one after another, each under the mutex.
LeaveOne(c) ==
    /\ pc[c] = "leaving"
    /\ left[c] < entered[c]
    /\ Release(c, plan[c][left[c] + 1])
    /\ left' = [left EXCEPT ![c] = @ + 1]
    /\ UNCHANGED <<pc, plan, entered, over>>

Return(c) ==
    /\ pc[c] = "leaving"
    /\ left[c] = entered[c]
    /\ pc' = [pc EXCEPT ![c] = "idle"]
    /\ UNCHANGED <<keys, plan, entered, left, granted, over>>

\* What the gate's own code does next for c, once its goroutine runs.
Proceed(c) ==
    \/ TakePlace(c) \/ Refuse(c) \/ Enqueue(c) \/ Receive(c)
    \/ Withdraw(c) \/ PassOn(c) \/ LeaveOne(c) \/ Return(c)

Next ==
    \E c \in Callers :
        \/ \E p \in Plans : Begin(c, p)
        \/ Expire(c)
        \/ GiveUp(c)
        \/ Leave(c)
        \/ Proceed(c)

Spec == Init /\ [][Next]_vars

\* The mutex is handed to every goroutine that waits for it, and a write ends:
\* its statements run under the request's deadline. Nothing makes a deadline
\* pass before a place comes free, and the select may always prefer ready.
Fairness == \A c \in Callers : WF_vars(Proceed(c)) /\ WF_vars(Leave(c))
FairSpec == Spec /\ Fairness

\* A write may also never end. Then only the deadlines are sure to pass, and
\* a caller whose deadline passed sees it when ready never comes.
StuckFairness ==
    \A c \in Callers :
        /\ WF_vars(Proceed(c))
        /\ WF_vars(Expire(c))
        /\ WF_vars(GiveUp(c) \/ Receive(c))
StuckSpec == Spec /\ StuckFairness

-----------------------------------------------------------------------------
TypeOK ==
    /\ DOMAIN keys \subseteq Keys
    /\ \A k \in DOMAIN keys : keys[k] \in Queues
    /\ pc \in [Callers -> {"idle", "entering", "waiting", "givingUp", "inside", "leaving"}]
    /\ plan \in [Callers -> Plans \cup {<<>>}]
    /\ entered \in [Callers -> Nat]
    /\ left \in [Callers -> Nat]
    /\ granted \in [Callers -> BOOLEAN]
    /\ over \in [Callers -> BOOLEAN]

\* No place is lost and none is invented: the holders a key counts are the
\* callers that hold it, those handed it and not yet aware of it included
\* (gate.go:128-133), and they are at most PerKey.
PlacesCounted ==
    \A k \in Keys :
        /\ At(k).holders = Cardinality(Owners(k))
        /\ At(k).holders <= PerKey

\* No one waits for a key that has a free place (gate.go:97-111): a caller
\* that gives up or leaves hands its place to the queue or shrinks the count.
NoIdlePlace ==
    \A k \in Keys : At(k).waiting # <<>> => At(k).holders = PerKey

\* A caller is in a queue once, in the queue of the key it waits for, and
\* only while it waits and was not handed it; no queue is longer than
\* MaxQueue (gate.go:109-114, 135).
QueueExact ==
    \A k \in Keys :
        LET w == At(k).waiting IN
        /\ Len(w) <= MaxQueue
        /\ \A i, j \in 1..Len(w) : w[i] = w[j] => i = j
        /\ \A c \in Callers : (\E i \in 1..Len(w) : w[i] = c) <=> Waits(c, k)

\* A call that was refused or gave up holds nothing, a write runs only while
\* it holds every key of its plan, and a key nobody holds takes no memory
\* (gate.go:60-72, 147-149).
HoldsWhatItSays ==
    /\ \A c \in Callers :
          /\ pc[c] = "idle" => \A k \in Keys : ~ Holds(c, k)
          /\ pc[c] = "inside" => \A i \in 1..Len(plan[c]) : Holds(c, plan[c][i])
    /\ \A k \in DOMAIN keys : Owners(k) # {}

\* The counts, the queues and what the callers hold tell one story, through
\* every refusal, timeout and hand-over (gate.go:60-165).
CountsAgree == PlacesCounted /\ QueueExact /\ HoldsWhatItSays

\* How far each call is, by where its caller is.
Progress ==
    \A c \in Callers :
        /\ Ascending(plan[c])
        /\ left[c] <= entered[c] /\ entered[c] <= Len(plan[c])
        /\ pc[c] \in {"entering", "waiting", "givingUp"}
              => left[c] = 0 /\ entered[c] < Len(plan[c])
        /\ pc[c] = "inside" => left[c] = 0 /\ entered[c] = Len(plan[c])
        /\ pc[c] = "idle" => left[c] = entered[c]
        /\ granted[c] => pc[c] \in {"waiting", "givingUp"}

\* Every key the gate remembers is held.
Remembered == \A k \in DOMAIN keys : keys[k].holders > 0

\* The inductive invariant the theorems of GateProofs rest on.
IInv ==
    /\ TypeOK
    /\ Progress
    /\ PlacesCounted
    /\ NoIdlePlace
    /\ QueueExact
    /\ Remembered

\* First come, first served: whoever comes to hold a key while others wait
\* for it is the first of them (gate.go:104, 154-157).
NoOvertaking ==
    [][\A k \in Keys : \A c \in Callers :
          (~ Holds(c, k) /\ Holds(c, k)' /\ At(k).waiting # <<>>)
            => c = Head(At(k).waiting)]_vars

\* Every call of Enter comes to its end, the keys entered or nothing held,
\* without any deadline's help: callers that enter keys in one order never
\* wait for each other in a circle, and no one is passed over for ever
\* (gate.go:69-72).
EnterReturns ==
    \A c \in Callers : pc[c] = "entering" ~> pc[c] \in {"inside", "idle"}

\* A write that never ends keeps its place, and no caller: every other one
\* waits until its deadline at the most (gate.go:117-127).
WaitEnds ==
    \A c \in Callers : pc[c] = "waiting" ~> pc[c] \in {"inside", "idle"}

\* The gate implements a line for a key's places.
Slots == INSTANCE FifoSlots WITH
    Users <- Callers,
    Places <- Keys,
    Slots <- PerKey,
    Room <- MaxQueue,
    owners <- [k \in Keys |-> Owners(k)],
    line <- [k \in Keys |-> At(k).waiting]

ImplementsSlots == Slots!SlotsSpec
=============================================================================
