----------------------------- MODULE GateProofs ------------------------------
(***************************************************************************)
(* Theorems about the write gate, for any number of callers and keys and   *)
(* any limits. The inductive invariant IInv joins what a key counts (its   *)
(* holders) with what the callers did (the places each holds), and what a  *)
(* queue says with what the callers in it wait for.                        *)
(***************************************************************************)
EXTENDS Gate, FiniteSetTheorems, SequenceTheorems, TLAPS

USE DEF Queues, EmptyQueue

\* What At finds after a queue is put, or forgotten: k's own, the others' as
\* before.
LEMMA PutAt ==
    ASSUME NEW k, NEW STATE q, keys' = Put(k, q)
    PROVE  /\ At(k)' = q
           /\ \A j : j # k => At(j)' = At(j)
           /\ DOMAIN keys' = DOMAIN keys \cup {k}
           /\ keys'[k] = q
           /\ \A j \in DOMAIN keys : j # k => keys'[j] = keys[j]
BY DEF Put, At

LEMMA ForgetAt ==
    ASSUME NEW k, keys' = Forget(k)
    PROVE  /\ At(k)' = EmptyQueue
           /\ \A j : j # k => At(j)' = At(j)
           /\ DOMAIN keys' = DOMAIN keys \ {k}
           /\ \A j \in DOMAIN keys : j # k => keys'[j] = keys[j]
BY DEF Forget, At

\* A queue without the caller at one position: the others in their order.
LEMMA RemoveAtType ==
    ASSUME NEW S, NEW s \in Seq(S), NEW i \in 1..Len(s)
    PROVE  /\ RemoveAt(s, i) \in Seq(S)
           /\ Len(RemoveAt(s, i)) = Len(s) - 1
           /\ \A j \in 1..Len(s) - 1 :
                 RemoveAt(s, i)[j] = IF j < i THEN s[j] ELSE s[j + 1]
<1> DEFINE a == SubSeq(s, 1, i - 1)
           b == SubSeq(s, i + 1, Len(s))
<1>1. /\ a \in Seq(S) /\ Len(a) = i - 1
      /\ \A j \in 1..i - 1 : a[j] = s[j]
  OBVIOUS
<1>2. /\ b \in Seq(S) /\ Len(b) = Len(s) - i
      /\ \A j \in 1..Len(s) - i : b[j] = s[i + j]
  OBVIOUS
<1>3. RemoveAt(s, i) = a \o b
  BY DEF RemoveAt
<1>. HIDE DEF a, b
<1>4. /\ a \o b \in Seq(S)
      /\ Len(a \o b) = Len(a) + Len(b)
      /\ \A j \in 1..Len(a) + Len(b) :
            (a \o b)[j] = IF j <= Len(a) THEN a[j] ELSE b[j - Len(a)]
  BY <1>1, <1>2, ConcatProperties
<1>5. Len(a) + Len(b) = Len(s) - 1
  BY <1>1, <1>2
<1>6. ASSUME NEW j \in 1..Len(s) - 1
      PROVE  (a \o b)[j] = IF j < i THEN s[j] ELSE s[j + 1]
  <2>1. CASE j < i
    BY <2>1, <1>1, <1>2, <1>4, <1>5
  <2>2. CASE ~ (j < i)
    <3>1. j - Len(a) \in 1..Len(s) - i /\ ~ (j <= Len(a))
      BY <2>2, <1>1
    <3>2. (a \o b)[j] = b[j - Len(a)]
      BY <3>1, <1>4, <1>5
    <3>3. b[j - Len(a)] = s[i + (j - Len(a))] /\ i + (j - Len(a)) = j + 1
      BY <3>1, <1>1, <1>2
    <3>. QED
      BY <3>2, <3>3, <2>2
  <2>. QED
    BY <2>1, <2>2
<1>. QED
  BY <1>3, <1>4, <1>5, <1>6

\* The same as one function, the way FifoSlots writes it.
LEMMA RemoveAtIs ==
    ASSUME NEW S, NEW s \in Seq(S), NEW i \in 1..Len(s)
    PROVE  RemoveAt(s, i) =
             [j \in 1..Len(s) - 1 |-> IF j < i THEN s[j] ELSE s[j + 1]]
<1> DEFINE r == RemoveAt(s, i)
<1>1. /\ r \in Seq(S) /\ Len(r) = Len(s) - 1
      /\ \A j \in 1..Len(s) - 1 : r[j] = IF j < i THEN s[j] ELSE s[j + 1]
  BY RemoveAtType
<1>. HIDE DEF r
<1>2. r = [j \in 1..Len(r) |-> r[j]]
  BY <1>1
<1>3. r = [j \in 1..Len(s) - 1 |-> IF j < i THEN s[j] ELSE s[j + 1]]
  BY <1>1, <1>2
<1>. QED
  BY <1>3 DEF r

\* What a caller finds for a key is a queue.
LEMMA AtType ==
    ASSUME TypeOK, NEW k
    PROVE  At(k) \in Queues
BY DEF TypeOK, At

\* The keys of a call, and the one it wants next.
LEMMA PlanType ==
    ASSUME TypeOK, NEW c \in Callers
    PROVE  /\ plan[c] \in Seq(Keys)
           /\ entered[c] \in Nat /\ left[c] \in Nat
           /\ entered[c] < Len(plan[c]) => Wanted(c) \in Keys
<1>1. plan[c] \in Plans \cup {<<>>} /\ entered[c] \in Nat /\ left[c] \in Nat
  BY DEF TypeOK
<1>2. <<>> \in Seq(Keys)
  BY EmptySeq
<1>3. plan[c] \in Seq(Keys)
  BY <1>1, <1>2, PlansAssumption
<1>. QED
  BY <1>1, <1>3 DEF Wanted

\* A queue of which only the holders or only the waiting change is a queue.
LEMMA QueueType ==
    ASSUME NEW q \in Queues
    PROVE  /\ q.holders \in Nat /\ q.waiting \in Seq(Callers)
           /\ \A n \in Nat : [q EXCEPT !.holders = n] \in Queues
           /\ \A w \in Seq(Callers) : [q EXCEPT !.waiting = w] \in Queues
OBVIOUS

\* The owners are some of the callers.
LEMMA OwnersFinite ==
    ASSUME NEW k
    PROVE  IsFiniteSet(Owners(k)) /\ Cardinality(Owners(k)) \in Nat
<1>1. Owners(k) \in SUBSET Callers
  BY DEF Owners
<1>. QED
  BY <1>1, CallersAssumption, FS_Subset, FS_CardinalityType

THEOREM InitInv == Init => IInv
<1> SUFFICES ASSUME Init PROVE IInv
  OBVIOUS
<1>. USE LimitsAssumption, CallersAssumption DEF Init
<1>1. TypeOK
  BY DEF TypeOK
<1>2. Progress
  BY DEF Progress, Ascending
<1>3. \A k : At(k) = EmptyQueue /\ Owners(k) = {}
  BY DEF At, Owners, Holds
<1>4. PlacesCounted
  <2>1. Cardinality({}) = 0
    BY FS_EmptySet
  <2>2. ASSUME NEW k \in Keys
        PROVE  At(k).holders = Cardinality(Owners(k)) /\ At(k).holders <= PerKey
    <3>1. At(k) = [holders |-> 0, waiting |-> <<>>] /\ Owners(k) = {}
      BY <1>3
    <3>2. At(k).holders = 0
      BY <3>1
    <3>3. Cardinality(Owners(k)) = 0
      BY <3>1, <2>1, Zenon
    <3>. QED
      BY <3>2, <3>3
  <2>. QED
    BY <2>2 DEF PlacesCounted
<1>5. NoIdlePlace /\ QueueExact
  BY <1>3 DEF NoIdlePlace, QueueExact, Waits
<1>6. Remembered
  BY DEF Remembered
<1>. QED
  BY <1>1, <1>2, <1>4, <1>5, <1>6 DEF IInv

-----------------------------------------------------------------------------
(* What a step may do to the places and the lines of the keys, the callers'  *)
(* progress aside.                                                           *)

SameSlot(k) == Owners(k)' = Owners(k) /\ At(k)'.waiting = At(k).waiting
SameSlots == \A k \in Keys : SameSlot(k)
OthersSame(k) == \A j \in Keys : j # k => SameSlot(j)

\* c takes a free place of k.
Takes(c, k) ==
    /\ c \notin Owners(k)
    /\ At(k).waiting = <<>> /\ At(k).holders < PerKey
    /\ Owners(k)' = Owners(k) \cup {c}
    /\ At(k)'.waiting = <<>>
    /\ OthersSame(k)

\* c joins k's line, all the places being taken.
Joins(c, k) ==
    /\ c \notin Owners(k)
    /\ At(k).holders = PerKey /\ Len(At(k).waiting) < MaxQueue
    /\ Owners(k)' = Owners(k)
    /\ At(k)'.waiting = Append(At(k).waiting, c)
    /\ OthersSame(k)

\* The caller at position i leaves k's line.
Quits(i, k) ==
    /\ i \in 1..Len(At(k).waiting)
    /\ Owners(k)' = Owners(k)
    /\ At(k)'.waiting = RemoveAt(At(k).waiting, i)
    /\ OthersSame(k)

\* c gives k up, to the first in line or to nobody.
Gives(c, k) ==
    /\ c \in Owners(k)
    /\ \/ /\ At(k).waiting = <<>>
          /\ Owners(k)' = Owners(k) \ {c}
          /\ At(k)'.waiting = <<>>
       \/ /\ At(k).waiting # <<>>
          /\ Owners(k)' = (Owners(k) \ {c}) \cup {Head(At(k).waiting)}
          /\ At(k)'.waiting = Tail(At(k).waiting)
    /\ OthersSame(k)

-----------------------------------------------------------------------------
(* The steps that leave every queue and every place alone.                   *)

\* When the keys stay, and each caller holds what it held, and who waits or
\* gives up without a place does so still, the parts about queues stay true.
LEMMA SameQueues ==
    ASSUME IInv, UNCHANGED keys,
           \A d \in Callers, k \in Keys :
              /\ Holds(d, k)' <=> Holds(d, k)
              /\ Waits(d, k)' <=> Waits(d, k)
    PROVE  PlacesCounted' /\ NoIdlePlace' /\ QueueExact' /\ Remembered' /\ SameSlots
<1>1. \A k : At(k)' = At(k)
  BY DEF At
<1>2. \A k \in Keys : Owners(k)' = Owners(k)
  BY DEF Owners
<1>3. PlacesCounted'
  BY <1>1, <1>2 DEF IInv, PlacesCounted
<1>4. NoIdlePlace'
  BY <1>1 DEF IInv, NoIdlePlace
<1>5. QueueExact'
  BY <1>1 DEF IInv, QueueExact
<1>6. Remembered'
  BY DEF IInv, Remembered
<1>7. SameSlots
  BY <1>1, <1>2 DEF SameSlots, SameSlot
<1>. QED
  BY <1>3, <1>4, <1>5, <1>6, <1>7

LEMMA BeginInv ==
    ASSUME IInv, NEW c \in Callers, NEW p \in Plans, Begin(c, p)
    PROVE  IInv' /\ SameSlots
<1>. USE DEF IInv, Begin
<1>1. TypeOK'
  BY DEF TypeOK
<1>2. Progress'
  <2>1. Len(p) > 0 /\ p \in Seq(Keys)
    BY PlansAssumption
  <2>. QED
    BY <2>1 DEF Progress, TypeOK
<1>3. ASSUME NEW d \in Callers, NEW k \in Keys
      PROVE  Holds(d, k)' <=> Holds(d, k)
  <2>1. CASE d = c
    <3>1. /\ left[c] = entered[c] /\ entered[c] \in Nat /\ ~ granted[c]
          /\ left'[c] = 0 /\ entered'[c] = 0 /\ ~ granted'[c]
      BY DEF Progress, TypeOK
    <3>2. left[c] + 1 .. entered[c] = {} /\ left'[c] + 1 .. entered'[c] = {}
      BY <3>1
    <3>. QED
      BY <2>1, <3>1, <3>2 DEF Holds
  <2>2. CASE d # c
    BY <2>2 DEF Holds, Wanted, TypeOK
  <2>. QED
    BY <2>1, <2>2
<1>4. ASSUME NEW d \in Callers, NEW k \in Keys
      PROVE  Waits(d, k)' <=> Waits(d, k)
  BY DEF Waits, Wanted, TypeOK
<1>. QED
  BY <1>1, <1>2, <1>3, <1>4, SameQueues

\* A step that changes where c is, and no more.
LEMMA MoveInv ==
    ASSUME IInv, NEW c \in Callers,
           Expire(c) \/ GiveUp(c) \/ Leave(c) \/ Return(c)
    PROVE  IInv' /\ SameSlots
<1>. USE DEF IInv, Expire, GiveUp, Leave, Return
<1>1. TypeOK'
  BY DEF TypeOK
<1>2. Progress'
  BY PlanType DEF Progress, TypeOK
<1>3. ASSUME NEW d \in Callers, NEW k \in Keys
      PROVE  Holds(d, k)' <=> Holds(d, k)
  BY DEF Holds, Wanted
<1>4. ASSUME NEW d \in Callers, NEW k \in Keys
      PROVE  Waits(d, k)' <=> Waits(d, k)
  BY DEF Waits, Wanted, TypeOK
<1>. QED
  BY <1>1, <1>2, <1>3, <1>4, SameQueues

\* Receive: the place handed to c becomes the one it entered last.
LEMMA ReceiveInv ==
    ASSUME IInv, NEW c \in Callers, Receive(c)
    PROVE  IInv' /\ SameSlots
<1>. USE DEF IInv, Receive, Advance
<1>1. TypeOK'
  BY DEF TypeOK
<1>2. Progress'
  BY PlanType DEF Progress, TypeOK
<1>3. ASSUME NEW d \in Callers, NEW k \in Keys
      PROVE  Holds(d, k)' <=> Holds(d, k)
  <2>1. CASE d = c
    <3>1. left[c] = 0 /\ entered[c] \in Nat /\ entered'[c] = entered[c] + 1
      BY PlanType DEF Progress, TypeOK
    <3>2. Holds(c, k)' <=> \E i \in 1..entered[c] + 1 : plan[c][i] = k
      BY <3>1 DEF Holds, TypeOK
    <3>3. Holds(c, k) <=> (\E i \in 1..entered[c] : plan[c][i] = k)
                            \/ plan[c][entered[c] + 1] = k
      BY <3>1 DEF Holds, Wanted
    <3>. QED
      BY <2>1, <3>1, <3>2, <3>3
  <2>2. CASE d # c
    BY <2>2 DEF Holds, Wanted, TypeOK
  <2>. QED
    BY <2>1, <2>2
<1>4. ASSUME NEW d \in Callers, NEW k \in Keys
      PROVE  Waits(d, k)' <=> Waits(d, k)
  BY DEF Waits, Wanted, TypeOK
<1>. QED
  BY <1>1, <1>2, <1>3, <1>4, SameQueues

-----------------------------------------------------------------------------
(* The steps that change a queue.                                            *)

\* What the invariant says of one key.
QueueRight(k) ==
    LET w == At(k).waiting IN
    /\ At(k) \in Queues
    /\ At(k).holders = Cardinality(Owners(k)) /\ At(k).holders <= PerKey
    /\ w # <<>> => At(k).holders = PerKey
    /\ Len(w) <= MaxQueue
    /\ \A i, j \in 1..Len(w) : w[i] = w[j] => i = j
    /\ \A c \in Callers : (\E i \in 1..Len(w) : w[i] = c) <=> Waits(c, k)

LEMMA QueueIsRight ==
    ASSUME IInv, NEW k \in Keys
    PROVE  QueueRight(k)
BY AtType DEF IInv, PlacesCounted, NoIdlePlace, QueueExact, QueueRight

\* When one queue is put in place or forgotten, is right afterwards, and the
\* owners and waiters of the other keys are the same, every part stays true.
LEMMA OneQueue ==
    ASSUME IInv, NEW k \in Keys, NEW STATE q,
           \/ keys' = Put(k, q) /\ q.holders > 0
           \/ keys' = Forget(k),
           QueueRight(k)',
           \A d \in Callers, j \in Keys : j # k =>
              (Holds(d, j)' <=> Holds(d, j)) /\ (Waits(d, j)' <=> Waits(d, j))
    PROVE  /\ PlacesCounted' /\ NoIdlePlace' /\ QueueExact' /\ Remembered'
           /\ DOMAIN keys' \subseteq Keys
           /\ \A j \in DOMAIN keys' : keys'[j] \in Queues
           /\ OthersSame(k)
<1>1. /\ \A j : j # k => At(j)' = At(j)
      /\ DOMAIN keys' \in {DOMAIN keys \cup {k}, DOMAIN keys \ {k}}
      /\ \A j \in DOMAIN keys : j # k => keys'[j] = keys[j]
      /\ k \in DOMAIN keys' => At(k)'.holders > 0
  BY PutAt, ForgetAt
<1>2. k \in DOMAIN keys' => keys'[k] = At(k)'
  BY DEF At
<1>3. \A j \in Keys : j # k => Owners(j)' = Owners(j)
  BY DEF Owners
<1>4. ASSUME NEW j \in Keys
      PROVE  QueueRight(j)'
  <2>1. CASE j = k
    BY <2>1
  <2>2. CASE j # k
    BY <2>2, <1>1, <1>3, QueueIsRight DEF QueueRight
  <2>. QED
    BY <2>1, <2>2
<1>5. PlacesCounted' /\ NoIdlePlace' /\ QueueExact'
  BY <1>4 DEF QueueRight, PlacesCounted, NoIdlePlace, QueueExact
<1>6. Remembered'
  BY <1>1, <1>2 DEF IInv, Remembered
<1>7. /\ DOMAIN keys' \subseteq Keys
      /\ \A j \in DOMAIN keys' : keys'[j] \in Queues
  BY <1>1, <1>2 DEF IInv, TypeOK, QueueRight
<1>8. OthersSame(k)
  BY <1>1, <1>3 DEF OthersSame, SameSlot
<1>. QED
  BY <1>5, <1>6, <1>7, <1>8

\* What c holds when it enters the key it wants: what it held, and that key,
\* which it did not hold.
LEMMA NextPlace ==
    ASSUME IInv, NEW c \in Callers, pc[c] \in {"entering", "waiting", "givingUp"}
    PROVE  /\ left[c] = 0
           /\ Wanted(c) \in Keys
           /\ \A i \in 1..entered[c] : plan[c][i] # Wanted(c)
           /\ pc[c] = "entering" => ~ granted[c]
<1>1. left[c] = 0 /\ entered[c] < Len(plan[c]) /\ Ascending(plan[c])
  BY DEF IInv, Progress
<1>2. plan[c] \in Seq(Keys) /\ entered[c] \in Nat /\ Wanted(c) \in Keys
  BY <1>1, PlanType DEF IInv
<1>3. ASSUME NEW i \in 1..entered[c]
      PROVE  plan[c][i] # Wanted(c)
  <2>1. /\ i \in 1..Len(plan[c]) /\ entered[c] + 1 \in 1..Len(plan[c])
        /\ i < entered[c] + 1
    BY <1>1, <1>2
  <2>2. plan[c][i] < plan[c][entered[c] + 1]
    BY <1>1, <2>1 DEF Ascending
  <2>3. plan[c][i] \in Nat
    <3>1. plan[c][i] \in Keys
      BY <1>2, <2>1, ElementOfSeq
    <3>. QED
      BY <3>1, CallersAssumption
  <2>. QED
    BY <2>2, <2>3 DEF Wanted
<1>. QED
  BY <1>1, <1>2, <1>3 DEF IInv, Progress

LEMMA TakePlaceInv ==
    ASSUME IInv, NEW c \in Callers, TakePlace(c)
    PROVE  IInv' /\ \E k \in Keys : Takes(c, k)
<1>. PICK k \in Keys : k = Wanted(c)
  BY NextPlace DEF TakePlace
<1>1. /\ pc[c] = "entering" /\ left[c] = 0 /\ ~ granted[c]
      /\ \A i \in 1..entered[c] : plan[c][i] # k
      /\ entered[c] \in Nat /\ entered[c] < Len(plan[c])
  BY NextPlace, PlanType DEF IInv, TakePlace, Progress
<1>2. /\ At(k) \in Queues
      /\ At(k).holders \in Nat /\ At(k).holders < PerKey /\ At(k).waiting = <<>>
  BY AtType, QueueType DEF IInv, TakePlace, FreePlace
<1>. DEFINE q == [At(k) EXCEPT !.holders = @ + 1]
<1>3. keys' = Put(k, q)
  BY DEF TakePlace
<1>4. At(k)' = q
  <2>. HIDE DEF q
  <2>. QED
    BY <1>3, PutAt
<1>5. q \in Queues /\ q.holders = At(k).holders + 1 /\ q.waiting = <<>>
  BY <1>2
<1>6. /\ entered' = [entered EXCEPT ![c] = @ + 1]
      /\ UNCHANGED <<plan, left, granted, over>>
      /\ pc'[c] \notin {"waiting", "givingUp"}
      /\ \A d \in Callers : d # c => pc'[d] = pc[d]
  BY DEF TakePlace, Advance, IInv, TypeOK
<1>7. ASSUME NEW d \in Callers, NEW j \in Keys
      PROVE  Holds(d, j)' <=> Holds(d, j) \/ (d = c /\ j = k)
  <2>1. CASE d = c
    <3>1. entered'[c] = entered[c] + 1 /\ left'[c] = 0 /\ ~ granted'[c]
      BY <1>1, <1>6 DEF IInv, TypeOK
    <3>2. Holds(c, j)' <=> \E i \in 1..entered[c] + 1 : plan[c][i] = j
      BY <3>1, <1>1, <1>6 DEF Holds
    <3>3. Holds(c, j) <=> \E i \in 1..entered[c] : plan[c][i] = j
      BY <1>1 DEF Holds
    <3>. QED
      BY <2>1, <3>2, <3>3, <1>1 DEF Wanted
  <2>2. CASE d # c
    BY <2>2, <1>6 DEF Holds, Wanted, IInv, TypeOK
  <2>. QED
    BY <2>1, <2>2
<1>8. ASSUME NEW d \in Callers, NEW j \in Keys
      PROVE  Waits(d, j)' <=> Waits(d, j)
  BY <1>1, <1>6 DEF Waits, Wanted, IInv, TypeOK
<1>9. Owners(k)' = Owners(k) \cup {c} /\ c \notin Owners(k)
  <2>1. ~ Holds(c, k)
    BY <1>1 DEF Holds
  <2>. QED
    BY <2>1, <1>7 DEF Owners
<1>10. Cardinality(Owners(k)') = At(k).holders + 1
  <2>1. Cardinality(Owners(k)) = At(k).holders
    BY DEF IInv, PlacesCounted
  <2>. QED
    BY <2>1, <1>9, OwnersFinite, FS_AddElement
<1>11. QueueRight(k)'
  <2>1. \A d \in Callers : ~ Waits(d, k)
    BY <1>2 DEF IInv, QueueExact
  <2>. HIDE DEF q
  <2>. QED
    BY <2>1, <1>2, <1>4, <1>5, <1>8, <1>10, LimitsAssumption DEF QueueRight
<1>12. /\ PlacesCounted' /\ NoIdlePlace' /\ QueueExact' /\ Remembered'
       /\ DOMAIN keys' \subseteq Keys /\ \A j \in DOMAIN keys' : keys'[j] \in Queues
       /\ OthersSame(k)
  <2>. HIDE DEF q
  <2>1. q.holders > 0
    BY <1>2, <1>5
  <2>. QED
    BY <1>3, <2>1, <1>7, <1>8, <1>11, OneQueue
<1>13. TypeOK'
  <2>1. pc' \in [Callers ->
                   {"idle", "entering", "waiting", "givingUp", "inside", "leaving"}]
    BY DEF TakePlace, Advance, IInv, TypeOK
  <2>. QED
    BY <2>1, <1>6, <1>12 DEF IInv, TypeOK
<1>14. Progress'
  BY <1>1, PlanType DEF TakePlace, Advance, IInv, TypeOK, Progress
<1>15. Takes(c, k)
  <2>. HIDE DEF q
  <2>. QED
    BY <1>2, <1>4, <1>5, <1>9, <1>12 DEF Takes
<1>. QED
  BY <1>12, <1>13, <1>14, <1>15 DEF IInv

LEMMA RefuseInv ==
    ASSUME IInv, NEW c \in Callers, Refuse(c)
    PROVE  IInv' /\ SameSlots
<1> DEFINE k == Wanted(c)
<1>1. pc[c] = "entering" /\ k \in Keys /\ ~ granted[c]
  BY NextPlace DEF Refuse
<1>2. k \in DOMAIN keys
  <2>1. CASE k \notin DOMAIN keys
    <3>1. At(k) = [holders |-> 0, waiting |-> <<>>]
      BY <2>1 DEF At
    <3>2. FreePlace(k)
      BY <3>1, LimitsAssumption DEF FreePlace
    <3>. QED
      BY <3>2 DEF Refuse
  <2>. QED
    BY <2>1
<1>3. DOMAIN keys' = DOMAIN keys /\ \A j \in DOMAIN keys : keys'[j] = keys[j]
  <2>1. keys' = Put(k, At(k))
    BY DEF Refuse
  <2>. QED
    BY <2>1, <1>2 DEF Put, At
<1>4. \A j : At(j)' = At(j)
  BY <1>3 DEF At
<1>5. UNCHANGED <<plan, entered, left, granted, over>>
      /\ pc' = [pc EXCEPT ![c] = "leaving"]
  BY DEF Refuse
<1>6. \A j \in Keys : Owners(j)' = Owners(j)
  BY <1>5 DEF Owners, Holds, Wanted
<1>7. PlacesCounted' /\ NoIdlePlace'
  BY <1>4, <1>6 DEF IInv, PlacesCounted, NoIdlePlace
<1>8. QueueExact'
  <2>1. ASSUME NEW d \in Callers, NEW j \in Keys
        PROVE  Waits(d, j)' <=> Waits(d, j)
    BY <1>1, <1>5 DEF Waits, Wanted, IInv, TypeOK
  <2>. QED
    BY <2>1, <1>4 DEF IInv, QueueExact
<1>9. Remembered'
  BY <1>3 DEF IInv, Remembered
<1>10. TypeOK'
  BY <1>3, <1>5 DEF IInv, TypeOK
<1>11. Progress'
  BY <1>1, <1>5, PlanType DEF IInv, TypeOK, Progress
<1>12. SameSlots
  BY <1>4, <1>6 DEF SameSlots, SameSlot
<1>. QED
  BY <1>7, <1>8, <1>9, <1>10, <1>11, <1>12 DEF IInv

LEMMA EnqueueInv ==
    ASSUME IInv, NEW c \in Callers, Enqueue(c)
    PROVE  IInv' /\ \E k \in Keys : Joins(c, k)
<1>. PICK k \in Keys : k = Wanted(c)
  BY NextPlace DEF Enqueue
<1>1. pc[c] = "entering" /\ ~ granted[c]
  BY NextPlace DEF Enqueue
<1>2. At(k) \in Queues /\ At(k).holders \in Nat /\ At(k).waiting \in Seq(Callers)
  BY AtType, QueueType DEF IInv
<1>. DEFINE w == Append(At(k).waiting, c)
            q == [At(k) EXCEPT !.waiting = w]
<1>3. keys' = Put(k, q)
  BY DEF Enqueue
<1>4. At(k)' = q
  <2>. HIDE DEF q
  <2>. QED
    BY <1>3, PutAt
<1>5. q \in Queues /\ q.holders = At(k).holders /\ q.waiting = w
  <2>1. w \in Seq(Callers)
    BY <1>2, AppendProperties
  <2>. HIDE DEF w
  <2>. QED
    BY <2>1, <1>2
<1>6. /\ Len(w) = Len(At(k).waiting) + 1 /\ Len(At(k).waiting) \in Nat
      /\ \A i \in 1..Len(At(k).waiting) : w[i] = At(k).waiting[i]
      /\ w[Len(At(k).waiting) + 1] = c /\ w # <<>>
  BY <1>2, AppendProperties, LenProperties
<1>7. /\ UNCHANGED <<plan, entered, left, granted, over>>
      /\ pc' = [pc EXCEPT ![c] = "waiting"]
      /\ ~ QueueFull(k) /\ ~ FreePlace(k)
  BY DEF Enqueue
<1>8. ASSUME NEW d \in Callers, NEW j \in Keys
      PROVE  /\ Holds(d, j)' <=> Holds(d, j)
             /\ Waits(d, j)' <=> Waits(d, j) \/ (d = c /\ j = k)
  BY <1>1, <1>7 DEF Holds, Waits, Wanted, IInv, TypeOK
<1>9. At(k).holders = PerKey /\ Len(w) <= MaxQueue
  <2>1. At(k).holders <= PerKey /\ (At(k).waiting # <<>> => At(k).holders = PerKey)
    BY DEF IInv, PlacesCounted, NoIdlePlace
  <2>. QED
    BY <2>1, <1>2, <1>6, <1>7, LimitsAssumption DEF QueueFull, FreePlace
<1>10. QueueRight(k)'
  <2>1. Owners(k)' = Owners(k) /\ QueueRight(k) /\ ~ Waits(c, k)
    BY <1>1, <1>8, QueueIsRight DEF Owners, Waits
  <2>2. \A i, j \in 1..Len(w) : w[i] = w[j] => i = j
    BY <2>1, <1>6 DEF QueueRight
  <2>3. \A d \in Callers : (\E i \in 1..Len(w) : w[i] = d) <=> Waits(d, k)'
    BY <2>1, <1>6, <1>8 DEF QueueRight
  <2>. HIDE DEF q, w
  <2>. QED
    BY <2>1, <2>2, <2>3, <1>4, <1>5, <1>9 DEF QueueRight
<1>11. /\ PlacesCounted' /\ NoIdlePlace' /\ QueueExact' /\ Remembered'
       /\ DOMAIN keys' \subseteq Keys /\ \A j \in DOMAIN keys' : keys'[j] \in Queues
       /\ OthersSame(k)
  <2>. HIDE DEF q
  <2>1. q.holders > 0
    BY <1>5, <1>9, LimitsAssumption
  <2>. QED
    BY <1>3, <2>1, <1>8, <1>10, OneQueue
<1>12. TypeOK' /\ Progress'
  BY <1>1, <1>7, <1>11 DEF IInv, TypeOK, Progress
<1>13. Joins(c, k)
  <2>1. Owners(k)' = Owners(k) /\ c \notin Owners(k)
    <3>1. \A i \in 1..entered[c] : plan[c][i] # k
      BY <1>1, NextPlace
    <3>2. left[c] = 0
      BY <1>1, NextPlace
    <3>. QED
      BY <3>1, <3>2, <1>1, <1>8, PlanType DEF Owners, Holds, IInv
  <2>2. Len(At(k).waiting) < MaxQueue
    BY <1>6, <1>9, LimitsAssumption
  <2>3. At(k)'.waiting = Append(At(k).waiting, c)
    BY <1>4, <1>5
  <2>. HIDE DEF q, w
  <2>. QED
    BY <2>1, <2>2, <2>3, <1>9, <1>11 DEF Joins
<1>. QED
  BY <1>11, <1>12, <1>13 DEF IInv

LEMMA WithdrawInv ==
    ASSUME IInv, NEW c \in Callers, Withdraw(c)
    PROVE  IInv' /\ \E k \in Keys, i \in Nat : Quits(i, k)
<1>. PICK k \in Keys : k = Wanted(c)
  BY NextPlace DEF Withdraw
<1>1. At(k) \in Queues /\ At(k).holders \in Nat /\ At(k).waiting \in Seq(Callers)
  BY AtType, QueueType DEF IInv
<1>2. PICK i \in 1..Len(At(k).waiting) :
         /\ At(k).waiting[i] = c
         /\ keys' = Put(k, [At(k) EXCEPT !.waiting = RemoveAt(@, i)])
  BY DEF Withdraw
<1>. DEFINE v == At(k).waiting
            w == RemoveAt(v, i)
            q == [At(k) EXCEPT !.waiting = w]
<1>3. keys' = Put(k, q)
  BY <1>2
<1>4. At(k)' = q
  <2>. HIDE DEF q
  <2>. QED
    BY <1>3, PutAt
<1>5. /\ w \in Seq(Callers) /\ Len(w) = Len(v) - 1 /\ Len(v) \in Nat
      /\ \A j \in 1..Len(v) - 1 : w[j] = IF j < i THEN v[j] ELSE v[j + 1]
  BY <1>1, RemoveAtType, LenProperties
<1>6. q \in Queues /\ q.holders = At(k).holders /\ q.waiting = w
  <2>. HIDE DEF w
  <2>. QED
    BY <1>1, <1>5
<1>7. /\ UNCHANGED <<plan, entered, left, granted, over>>
      /\ pc' = [pc EXCEPT ![c] = "leaving"]
      /\ pc[c] = "givingUp" /\ ~ granted[c]
  BY DEF Withdraw
<1>8. ASSUME NEW d \in Callers, NEW j \in Keys
      PROVE  /\ Holds(d, j)' <=> Holds(d, j)
             /\ Waits(d, j)' <=> Waits(d, j) /\ ~ (d = c /\ j = k)
  BY <1>7 DEF Holds, Waits, Wanted, IInv, TypeOK
<1>9. QueueRight(k) /\ v # <<>>
  BY <1>1, <1>2, QueueIsRight
<1>10. QueueRight(k)'
  <2>1. Owners(k)' = Owners(k)
    BY <1>8 DEF Owners
  <2>2. \A m, j \in 1..Len(w) : w[m] = w[j] => m = j
    BY <1>5, <1>9 DEF QueueRight
  <2>3. ASSUME NEW d \in Callers
        PROVE  (\E j \in 1..Len(w) : w[j] = d) <=> Waits(d, k)'
    <3>1. ASSUME NEW j \in 1..Len(w), w[j] = d
          PROVE  d # c /\ \E m \in 1..Len(v) : v[m] = d
      <4>1. PICK m \in 1..Len(v) : m # i /\ v[m] = d
        <5>1. CASE j < i
          BY <5>1, <3>1, <1>5
        <5>2. CASE ~ (j < i)
          <6>1. j + 1 \in 1..Len(v) /\ j + 1 # i /\ v[j + 1] = d
            BY <5>2, <3>1, <1>2, <1>5
          <6>. QED
            BY <6>1
        <5>. QED
          BY <5>1, <5>2
      <4>2. d # c
        <5>. HIDE DEF w
        <5>. QED
          BY <4>1, <1>2, <1>9 DEF QueueRight
      <4>. QED
        BY <4>1, <4>2
    <3>2. ASSUME NEW m \in 1..Len(v), v[m] = d, d # c
          PROVE  \E j \in 1..Len(w) : w[j] = d
      <4>1. CASE m < i
        BY <3>2, <4>1, <1>5
      <4>2. CASE ~ (m < i)
        <5>1. m - 1 \in 1..Len(w) /\ ~ (m - 1 < i) /\ (m - 1) + 1 = m
          BY <3>2, <4>2, <1>2, <1>5
        <5>. QED
          BY <3>2, <5>1, <1>5
      <4>. QED
        BY <4>1, <4>2
    <3>. QED
      BY <3>1, <3>2, <1>8, <1>9 DEF QueueRight
  <2>4. At(k).holders = PerKey /\ Len(w) <= MaxQueue
    BY <1>5, <1>9, LimitsAssumption DEF QueueRight
  <2>. HIDE DEF q, w
  <2>. QED
    BY <2>1, <2>2, <2>3, <2>4, <1>4, <1>6, <1>9 DEF QueueRight
<1>11. /\ PlacesCounted' /\ NoIdlePlace' /\ QueueExact' /\ Remembered'
       /\ DOMAIN keys' \subseteq Keys /\ \A j \in DOMAIN keys' : keys'[j] \in Queues
       /\ OthersSame(k)
  <2>1. q.holders > 0
    BY <1>6, <1>9, LimitsAssumption DEF QueueRight
  <2>. HIDE DEF q
  <2>. QED
    BY <1>3, <2>1, <1>8, <1>10, OneQueue
<1>12. TypeOK' /\ Progress'
  BY <1>7, <1>11, PlanType DEF IInv, TypeOK, Progress
<1>13. Quits(i, k)
  <2>1. Owners(k)' = Owners(k)
    BY <1>8 DEF Owners
  <2>2. At(k)'.waiting = RemoveAt(At(k).waiting, i)
    <3>. HIDE DEF q, w
    <3>1. At(k)'.waiting = w
      BY <1>4, <1>6
    <3>. QED
      BY <3>1 DEF w
  <2>. QED
    BY <2>1, <2>2, <1>11 DEF Quits
<1>14. i \in Nat
  BY <1>5
<1>. QED
  BY <1>11, <1>12, <1>13, <1>14 DEF IInv

-----------------------------------------------------------------------------
(* The steps that give a place up.                                           *)

\* c gives its place of k up, and no other; c is in no queue then. The place
\* goes to the first waiting, or the count shrinks.
LEMMA ReleaseKeeps ==
    ASSUME IInv, NEW c \in Callers, NEW k \in Keys, Release(c, k),
           Holds(c, k), pc[c] = "leaving" \/ granted[c],
           UNCHANGED <<plan, entered>>,
           \A d \in Callers : d # c => pc'[d] = pc[d] /\ left'[d] = left[d],
           pc'[c] = "leaving",
           ~ granted'[c] => \A j \in Keys : Holds(c, j)' <=> Holds(c, j) /\ j # k
    PROVE  /\ PlacesCounted' /\ NoIdlePlace' /\ QueueExact' /\ Remembered'
           /\ DOMAIN keys' \subseteq Keys
           /\ \A j \in DOMAIN keys' : keys'[j] \in Queues
           /\ granted' \in [Callers -> BOOLEAN]
           /\ ~ granted'[c]
           /\ \A d \in Callers : granted'[d] => granted[d] \/ Waits(d, k)
           /\ Gives(c, k)
<1>1. /\ At(k) \in Queues /\ At(k).holders \in Nat /\ At(k).waiting \in Seq(Callers)
      /\ QueueRight(k)
  BY AtType, QueueType, QueueIsRight DEF IInv
<1>2. At(k).holders > 0
  <2>1. Owners(k) # {}
    BY DEF Owners
  <2>2. Cardinality(Owners(k)) # 0
    BY <2>1, OwnersFinite, FS_EmptySet
  <2>. QED
    BY <2>2, <1>1 DEF QueueRight
<1>3. \A j \in Keys : ~ Waits(c, j)
  BY DEF Waits
<1>4. CASE At(k).waiting # <<>>
  <2>. DEFINE v == At(k).waiting
              w == Tail(v)
              q == [At(k) EXCEPT !.waiting = w]
  <2>1. /\ keys' = Put(k, q)
        /\ granted' = [d \in Callers |-> d = Head(v) \/ (granted[d] /\ d # c)]
    BY <1>4 DEF Release
  <2>2. /\ w \in Seq(Callers) /\ Len(w) = Len(v) - 1 /\ Len(v) \in Nat /\ Len(v) > 0
        /\ \A i \in 1..Len(w) : w[i] = v[i + 1]
        /\ Head(v) = v[1] /\ Head(v) \in Callers
    BY <1>1, <1>4, HeadTailProperties, LenProperties, EmptySeq
  <2>. DEFINE h == Head(v)
  <2>3. h \in Callers /\ Waits(h, k)
    BY <2>2, <1>1 DEF QueueRight
  <2>4. h # c /\ ~ granted'[c]
    BY <2>1, <2>3, <1>3
  <2>5. q \in Queues /\ q.holders = At(k).holders /\ q.waiting = w
    <3>. HIDE DEF w
    <3>. QED
      BY <2>2, <1>1
  <2>6. At(k)' = q
    <3>. HIDE DEF q
    <3>. QED
      BY <2>1, PutAt
  <2>7. ASSUME NEW d \in Callers, NEW j \in Keys
        PROVE  /\ Holds(d, j)' <=> (Holds(d, j) /\ ~ (d = c /\ j = k)) \/ (d = h /\ j = k)
               /\ Waits(d, j)' <=> Waits(d, j) /\ ~ (d = h /\ j = k)
    <3>1. CASE d = c
      BY <3>1, <2>4, <1>3 DEF Waits
    <3>2. CASE d = h
      <4>1. /\ granted'[d] /\ ~ granted[d] /\ pc'[d] = pc[d] /\ left'[d] = left[d]
            /\ Wanted(d) = k /\ Wanted(d)' = Wanted(d)
        BY <3>2, <2>1, <2>3, <2>4 DEF Waits, Wanted
      <4>. HIDE DEF h
      <4>. QED
        BY <3>2, <4>1, <2>4 DEF Holds, Waits
    <3>3. CASE d # c /\ d # h
      <4>1. /\ granted'[d] <=> granted[d]
            /\ pc'[d] = pc[d] /\ left'[d] = left[d]
        BY <3>3, <2>1
      <4>. QED
        BY <3>3, <4>1 DEF Holds, Waits, Wanted
    <3>. QED
      BY <3>1, <3>2, <3>3
  <2>8. Owners(k)' = (Owners(k) \ {c}) \cup {h}
    BY <2>2, <2>7 DEF Owners
  <2>9. Cardinality(Owners(k)') = At(k).holders
    <3>1. Owners(k)' = (Owners(k) \ {c}) \cup {h}
      BY <2>8
    <3>2. c \in Owners(k)
      BY DEF Owners
    <3>3. h \notin Owners(k)
      BY <2>3, NextPlace DEF Owners, Holds, Waits
    <3>4. /\ IsFiniteSet(Owners(k)) /\ Cardinality(Owners(k)) = At(k).holders
      BY <1>1, OwnersFinite DEF QueueRight
    <3>. HIDE DEF h
    <3>5. /\ IsFiniteSet(Owners(k) \ {c})
          /\ Cardinality(Owners(k) \ {c}) = At(k).holders - 1
      BY <3>2, <3>4, FS_RemoveElement
    <3>6. Cardinality((Owners(k) \ {c}) \cup {h}) = (At(k).holders - 1) + 1
      BY <3>3, <3>5, FS_AddElement
    <3>. QED
      BY <3>1, <3>6, <1>1
  <2>10. QueueRight(k)'
    <3>1. \A i, j \in 1..Len(w) : w[i] = w[j] => i = j
      BY <2>2, <1>1 DEF QueueRight
    <3>2. ASSUME NEW d \in Callers
          PROVE  (\E i \in 1..Len(w) : w[i] = d) <=> Waits(d, k)'
      <4>1. ASSUME NEW i \in 1..Len(w), w[i] = d
            PROVE  d # h /\ Waits(d, k)
        <5>1. i + 1 \in 1..Len(v) /\ 1 \in 1..Len(v) /\ v[i + 1] = d /\ i + 1 # 1
          BY <4>1, <2>2
        <5>. HIDE DEF v, w
        <5>. QED
          BY <5>1, <2>2, <1>1 DEF QueueRight, v
      <4>2. ASSUME Waits(d, k), d # h
            PROVE  \E i \in 1..Len(w) : w[i] = d
        <5>1. PICK m \in 1..Len(v) : v[m] = d
          BY <4>2, <1>1 DEF QueueRight
        <5>2. m - 1 \in 1..Len(w) /\ (m - 1) + 1 = m
          BY <5>1, <4>2, <2>2
        <5>3. w[m - 1] = d
          BY <5>1, <5>2, <2>2
        <5>. HIDE DEF w
        <5>. QED
          BY <5>2, <5>3
      <4>. QED
        BY <4>1, <4>2, <2>7
    <3>3. At(k).holders = PerKey /\ At(k).holders <= PerKey /\ Len(w) <= MaxQueue
      BY <1>1, <1>4, <2>2, LimitsAssumption DEF QueueRight
    <3>. HIDE DEF q, w, h
    <3>. QED
      BY <3>1, <3>2, <3>3, <2>5, <2>6, <2>9 DEF QueueRight
  <2>11. /\ PlacesCounted' /\ NoIdlePlace' /\ QueueExact' /\ Remembered'
         /\ DOMAIN keys' \subseteq Keys /\ \A j \in DOMAIN keys' : keys'[j] \in Queues
         /\ OthersSame(k)
    <3>1. q.holders > 0
      BY <2>5, <1>2
    <3>. HIDE DEF q, h
    <3>. QED
      BY <2>1, <3>1, <2>7, <2>10, OneQueue
  <2>12. ASSUME NEW d \in Callers, granted'[d]
         PROVE  granted[d] \/ Waits(d, k)
    BY <2>12, <2>1, <2>3
  <2>13. granted' \in [Callers -> BOOLEAN]
    BY <2>1 DEF IInv, TypeOK
  <2>14. Gives(c, k)
    <3>1. At(k)'.waiting = w
      BY <2>5, <2>6
    <3>2. c \in Owners(k)
      BY DEF Owners
    <3>. QED
      BY <3>1, <3>2, <1>4, <2>11, <2>8 DEF Gives
  <2>. QED
    BY <2>4, <2>11, <2>12, <2>13, <2>14
<1>5. CASE At(k).waiting = <<>>
  <2>. DEFINE q == [At(k) EXCEPT !.holders = @ - 1]
  <2>1. /\ keys' = IF At(k).holders = 1 THEN Forget(k) ELSE Put(k, q)
        /\ granted' = [granted EXCEPT ![c] = FALSE]
    BY <1>5 DEF Release
  <2>2. q \in Queues /\ q.holders = At(k).holders - 1 /\ q.waiting = <<>>
    BY <1>1, <1>2, <1>5
  <2>3. /\ At(k)' \in Queues /\ At(k)'.holders = At(k).holders - 1
        /\ At(k)'.waiting = <<>>
    <3>1. CASE At(k).holders = 1
      <4>1. At(k)' = [holders |-> 0, waiting |-> <<>>]
        BY <3>1, <2>1, ForgetAt
      <4>. QED
        BY <3>1, <4>1
    <3>2. CASE At(k).holders # 1
      <4>1. keys' = Put(k, q)
        BY <3>2, <2>1
      <4>. HIDE DEF q
      <4>2. At(k)' = q
        BY <4>1, PutAt
      <4>. QED
        BY <4>2, <2>2
    <3>. QED
      BY <3>1, <3>2
  <2>4. ~ granted'[c] /\ granted' \in [Callers -> BOOLEAN]
        /\ \A d \in Callers : d # c => granted'[d] = granted[d]
    BY <2>1 DEF IInv, TypeOK
  <2>5. ASSUME NEW d \in Callers, NEW j \in Keys
        PROVE  /\ Holds(d, j)' <=> Holds(d, j) /\ ~ (d = c /\ j = k)
               /\ Waits(d, j)' <=> Waits(d, j)
    <3>1. CASE d = c
      BY <3>1, <2>4, <1>3 DEF Waits
    <3>2. CASE d # c
      BY <3>2, <2>4 DEF Holds, Waits, Wanted
    <3>. QED
      BY <3>1, <3>2
  <2>6. Owners(k)' = Owners(k) \ {c} /\ c \in Owners(k)
    BY <2>5 DEF Owners
  <2>7. Cardinality(Owners(k)') = At(k).holders - 1
    BY <2>6, <1>1, OwnersFinite, FS_RemoveElement DEF QueueRight
  <2>8. QueueRight(k)'
    BY <2>3, <2>5, <2>7, <1>1, <1>2, <1>5, LimitsAssumption DEF QueueRight
  <2>9. /\ PlacesCounted' /\ NoIdlePlace' /\ QueueExact' /\ Remembered'
        /\ DOMAIN keys' \subseteq Keys /\ \A j \in DOMAIN keys' : keys'[j] \in Queues
        /\ OthersSame(k)
    <3>1. keys' = Forget(k) \/ (keys' = Put(k, q) /\ q.holders > 0)
      BY <2>1, <2>2, <1>1, <1>2
    <3>. HIDE DEF q
    <3>. QED
      BY <3>1, <2>5, <2>8, OneQueue
  <2>10. Gives(c, k)
    BY <1>5, <2>3, <2>9, <2>6 DEF Gives
  <2>. QED
    BY <2>4, <2>9, <2>10
<1>. QED
  BY <1>4, <1>5

LEMMA PassOnInv ==
    ASSUME IInv, NEW c \in Callers, PassOn(c)
    PROVE  IInv' /\ \E k \in Keys : Gives(c, k)
<1>. PICK k \in Keys : k = Wanted(c)
  BY NextPlace DEF PassOn
<1>1. /\ pc[c] = "givingUp" /\ granted[c] /\ Release(c, k)
      /\ pc' = [pc EXCEPT ![c] = "leaving"]
      /\ UNCHANGED <<plan, entered, left, over>>
  BY DEF PassOn
<1>2. left[c] = 0 /\ \A i \in 1..entered[c] : plan[c][i] # k
  BY <1>1, NextPlace
<1>3. Holds(c, k)
  BY <1>1 DEF Holds
<1>4. /\ pc'[c] = "leaving"
      /\ \A d \in Callers : d # c => pc'[d] = pc[d] /\ left'[d] = left[d]
  BY <1>1 DEF IInv, TypeOK
<1>5. ASSUME ~ granted'[c], NEW j \in Keys
      PROVE  Holds(c, j)' <=> Holds(c, j) /\ j # k
  BY <1>5, <1>1, <1>2 DEF Holds
<1>6. /\ PlacesCounted' /\ NoIdlePlace' /\ QueueExact' /\ Remembered'
      /\ DOMAIN keys' \subseteq Keys
      /\ \A j \in DOMAIN keys' : keys'[j] \in Queues
      /\ granted' \in [Callers -> BOOLEAN]
      /\ ~ granted'[c]
      /\ \A d \in Callers : granted'[d] => granted[d] \/ Waits(d, k)
      /\ Gives(c, k)
  BY <1>1, <1>3, <1>4, <1>5, ReleaseKeeps
<1>7. TypeOK'
  BY <1>1, <1>6 DEF IInv, TypeOK
<1>8. Progress'
  BY <1>1, <1>6, PlanType DEF IInv, TypeOK, Progress, Waits
<1>. QED
  BY <1>6, <1>7, <1>8 DEF IInv

LEMMA LeaveOneInv ==
    ASSUME IInv, NEW c \in Callers, LeaveOne(c)
    PROVE  IInv' /\ \E k \in Keys : Gives(c, k)
<1>1. /\ pc[c] = "leaving" /\ ~ granted[c]
      /\ plan[c] \in Seq(Keys) /\ entered[c] \in Nat /\ left[c] \in Nat
      /\ left[c] < entered[c] /\ entered[c] <= Len(plan[c]) /\ Ascending(plan[c])
  BY PlanType DEF LeaveOne, IInv, Progress
<1>. PICK k \in Keys : k = plan[c][left[c] + 1]
  BY <1>1
<1>2. /\ Release(c, k)
      /\ left' = [left EXCEPT ![c] = @ + 1]
      /\ UNCHANGED <<pc, plan, entered, over>>
  BY DEF LeaveOne
<1>3. Holds(c, k)
  BY <1>1 DEF Holds
<1>4. ASSUME NEW i \in left[c] + 2 .. entered[c]
      PROVE  plan[c][i] # k
  <2>1. /\ i \in 1..Len(plan[c]) /\ left[c] + 1 \in 1..Len(plan[c])
        /\ left[c] + 1 < i
    BY <1>1
  <2>2. plan[c][left[c] + 1] < plan[c][i]
    BY <1>1, <2>1 DEF Ascending
  <2>. QED
    BY <2>2, CallersAssumption
<1>5. /\ pc'[c] = "leaving" /\ left'[c] = left[c] + 1
      /\ \A d \in Callers : d # c => pc'[d] = pc[d] /\ left'[d] = left[d]
  BY <1>1, <1>2 DEF IInv, TypeOK
<1>6. ASSUME ~ granted'[c], NEW j \in Keys
      PROVE  Holds(c, j)' <=> Holds(c, j) /\ j # k
  <2>1. Holds(c, j)' <=> \E i \in left[c] + 2 .. entered[c] : plan[c][i] = j
    BY <1>1, <1>2, <1>5, <1>6 DEF Holds
  <2>2. Holds(c, j) <=> \E i \in left[c] + 1 .. entered[c] : plan[c][i] = j
    BY <1>1 DEF Holds
  <2>3. \A i : i \in left[c] + 1 .. entered[c]
                 <=> i = left[c] + 1 \/ i \in left[c] + 2 .. entered[c]
    BY <1>1
  <2>. QED
    BY <2>1, <2>2, <2>3, <1>4
<1>7. /\ PlacesCounted' /\ NoIdlePlace' /\ QueueExact' /\ Remembered'
      /\ DOMAIN keys' \subseteq Keys
      /\ \A j \in DOMAIN keys' : keys'[j] \in Queues
      /\ granted' \in [Callers -> BOOLEAN]
      /\ ~ granted'[c]
      /\ \A d \in Callers : granted'[d] => granted[d] \/ Waits(d, k)
      /\ Gives(c, k)
  BY <1>1, <1>2, <1>3, <1>5, <1>6, ReleaseKeeps
<1>8. TypeOK'
  <2>1. left' \in [Callers -> Nat]
    BY <1>2 DEF IInv, TypeOK
  <2>2. /\ pc' = pc /\ plan' = plan /\ entered' = entered /\ over' = over
    BY <1>2
  <2>. QED
    BY <2>1, <2>2, <1>7 DEF IInv, TypeOK
<1>9. Progress'
  BY <1>1, <1>2, <1>5, <1>7, PlanType DEF IInv, Progress, Waits
<1>. QED
  BY <1>7, <1>8, <1>9 DEF IInv

-----------------------------------------------------------------------------
\* Every step keeps the invariant (all of gate.go's handlers).
THEOREM NextInv == IInv /\ [Next]_vars => IInv'
<1>. SUFFICES ASSUME IInv, [Next]_vars PROVE IInv'
  OBVIOUS
<1>1. ASSUME NEW c \in Callers, NEW p \in Plans, Begin(c, p) PROVE IInv'
  BY <1>1, BeginInv
<1>2. ASSUME NEW c \in Callers, Expire(c) \/ GiveUp(c) \/ Leave(c) \/ Return(c)
      PROVE  IInv'
  BY <1>2, MoveInv
<1>3. ASSUME NEW c \in Callers, TakePlace(c) PROVE IInv'
  BY <1>3, TakePlaceInv
<1>4. ASSUME NEW c \in Callers, Refuse(c) PROVE IInv'
  BY <1>4, RefuseInv
<1>5. ASSUME NEW c \in Callers, Enqueue(c) PROVE IInv'
  BY <1>5, EnqueueInv
<1>6. ASSUME NEW c \in Callers, Receive(c) PROVE IInv'
  BY <1>6, ReceiveInv
<1>7. ASSUME NEW c \in Callers, Withdraw(c) PROVE IInv'
  BY <1>7, WithdrawInv
<1>8. ASSUME NEW c \in Callers, PassOn(c) PROVE IInv'
  BY <1>8, PassOnInv
<1>9. ASSUME NEW c \in Callers, LeaveOne(c) PROVE IInv'
  BY <1>9, LeaveOneInv
<1>10. CASE UNCHANGED vars
  <2>1. /\ \A k : At(k)' = At(k) /\ Owners(k)' = Owners(k)
        /\ \A c, k : Waits(c, k)' <=> Waits(c, k)
    BY <1>10 DEF vars, At, Owners, Holds, Waits, Wanted
  <2>2. TypeOK' /\ Progress' /\ Remembered'
    BY <1>10 DEF vars, IInv, TypeOK, Progress, Remembered
  <2>3. PlacesCounted' /\ NoIdlePlace'
    BY <2>1 DEF IInv, PlacesCounted, NoIdlePlace
  <2>4. QueueExact'
    BY <2>1 DEF IInv, QueueExact
  <2>. QED
    BY <2>2, <2>3, <2>4 DEF IInv
<1>. QED
  BY <1>1, <1>2, <1>3, <1>4, <1>5, <1>6, <1>7, <1>8, <1>9, <1>10
     DEF Next, Proceed

\* What every step does to the places and the lines: nothing, or one caller
\* takes a place, joins a line, quits one or gives a place up.
LEMMA NextSlots ==
    ASSUME IInv, [Next]_vars
    PROVE  \/ SameSlots
           \/ \E k \in Keys :
                 \/ \E c \in Callers : Takes(c, k) \/ Joins(c, k) \/ Gives(c, k)
                 \/ \E i \in Nat : Quits(i, k)
<1>1. ASSUME NEW c \in Callers, NEW p \in Plans, Begin(c, p) PROVE SameSlots
  BY <1>1, BeginInv
<1>2. ASSUME NEW c \in Callers, Expire(c) \/ GiveUp(c) \/ Leave(c) \/ Return(c)
      PROVE  SameSlots
  BY <1>2, MoveInv
<1>3. ASSUME NEW c \in Callers, Refuse(c) \/ Receive(c) PROVE SameSlots
  BY <1>3, RefuseInv, ReceiveInv
<1>4. ASSUME NEW c \in Callers, TakePlace(c) PROVE \E k \in Keys : Takes(c, k)
  BY <1>4, TakePlaceInv
<1>5. ASSUME NEW c \in Callers, Enqueue(c) PROVE \E k \in Keys : Joins(c, k)
  BY <1>5, EnqueueInv
<1>6. ASSUME NEW c \in Callers, Withdraw(c)
      PROVE  \E k \in Keys, i \in Nat : Quits(i, k)
  BY <1>6, WithdrawInv
<1>7. ASSUME NEW c \in Callers, PassOn(c) \/ LeaveOne(c)
      PROVE  \E k \in Keys : Gives(c, k)
  BY <1>7, PassOnInv, LeaveOneInv
<1>8. CASE UNCHANGED vars
  BY <1>8 DEF vars, SameSlots, SameSlot, At, Owners, Holds, Wanted
<1>. QED
  BY <1>1, <1>2, <1>3, <1>4, <1>5, <1>6, <1>7, <1>8 DEF Next, Proceed

\* The inductive invariant holds in every state of the gate (gate.go).
THEOREM Invariance == Spec => []IInv
<1>. QED
  BY InitInv, NextInv, PTL DEF Spec

\* Every variable of the gate and of its callers has its type (gate.go:34-53).
THEOREM TypeCorrect == Spec => []TypeOK
<1>1. IInv => TypeOK
  BY DEF IInv
<1>. QED
  BY <1>1, Invariance, PTL

\* For any number of callers, keys and places: the holders a key counts are
\* the callers that hold it, and never more than PerKey (gate.go:97-165).
THEOREM PlacesAreCounted == Spec => []PlacesCounted
<1>1. IInv => PlacesCounted
  BY DEF IInv
<1>. QED
  BY <1>1, Invariance, PTL

\* No caller waits for a key that has a free place: no hand-over is lost,
\* whoever times out at the moment it is served (gate.go:128-133, 150-165).
THEOREM NoPlaceIdles == Spec => []NoIdlePlace
<1>1. IInv => NoIdlePlace
  BY DEF IInv
<1>. QED
  BY <1>1, Invariance, PTL

\* The queues hold exactly the callers that wait, once each, and are never
\* longer than MaxQueue (gate.go:109-115, 135).
THEOREM QueuesAreExact == Spec => []QueueExact
<1>1. IInv => QueueExact
  BY DEF IInv
<1>. QED
  BY <1>1, Invariance, PTL

\* A returned call holds nothing, a write holds all its keys, and the gate
\* remembers only keys that are held (gate.go:60-72, 147-149).
THEOREM CallersHoldWhatTheySay == Spec => []HoldsWhatItSays
<1>1. IInv => HoldsWhatItSays
  <2>. SUFFICES ASSUME IInv PROVE HoldsWhatItSays
    OBVIOUS
  <2>1. ASSUME NEW c \in Callers, pc[c] = "idle", NEW k \in Keys
        PROVE  ~ Holds(c, k)
    BY <2>1, PlanType DEF IInv, Progress, Holds
  <2>2. ASSUME NEW c \in Callers, pc[c] = "inside", NEW i \in 1..Len(plan[c])
        PROVE  Holds(c, plan[c][i])
    BY <2>2 DEF IInv, Progress, Holds
  <2>3. ASSUME NEW k \in DOMAIN keys
        PROVE  Owners(k) # {}
    <3>1. keys[k].holders > 0 /\ k \in Keys
      BY DEF IInv, Remembered, TypeOK
    <3>2. Cardinality(Owners(k)) # 0
      BY <3>1 DEF IInv, PlacesCounted, At
    <3>. QED
      BY <3>2, FS_EmptySet
  <2>. QED
    BY <2>1, <2>2, <2>3 DEF HoldsWhatItSays
<1>. QED
  BY <1>1, Invariance, PTL

\* For any number of callers, keys and places, the counts of the gate, its
\* queues and what its callers hold agree (gate.go:60-165).
THEOREM CountsAlwaysAgree == Spec => []CountsAgree
<1>. QED
  BY PlacesAreCounted, QueuesAreExact, CallersHoldWhatTheySay, PTL DEF CountsAgree

-----------------------------------------------------------------------------
(* The gate against what it promises.                                        *)

\* Whoever comes to hold a key while others wait for it is the first of them:
\* no newcomer and no later waiter overtakes (gate.go:104, 154-157).
THEOREM NobodyOvertakes == Spec => NoOvertaking
<1>1. ASSUME IInv, [Next]_vars, NEW k \in Keys, NEW c \in Callers,
             ~ Holds(c, k), Holds(c, k)', At(k).waiting # <<>>
      PROVE  c = Head(At(k).waiting)
  <2>1. c \notin Owners(k) /\ c \in Owners(k)'
    BY <1>1 DEF Owners
  <2>2. CASE SameSlots
    BY <2>1, <2>2 DEF SameSlots, SameSlot
  <2>3. ASSUME NEW j \in Keys, NEW i \in Nat, Quits(i, j) PROVE FALSE
    BY <2>1, <2>3 DEF Quits, OthersSame, SameSlot
  <2>4. ASSUME NEW j \in Keys, NEW d \in Callers, Joins(d, j) PROVE FALSE
    BY <2>1, <2>4 DEF Joins, OthersSame, SameSlot
  <2>5. ASSUME NEW j \in Keys, NEW d \in Callers, Takes(d, j) PROVE FALSE
    BY <2>1, <2>5, <1>1 DEF Takes, OthersSame, SameSlot
  <2>6. ASSUME NEW j \in Keys, NEW d \in Callers, Gives(d, j)
        PROVE  c = Head(At(k).waiting)
    BY <2>1, <2>6 DEF Gives, OthersSame, SameSlot
  <2>. QED
    BY <1>1, <2>2, <2>3, <2>4, <2>5, <2>6, NextSlots
<1>2. IInv /\ [Next]_vars =>
        [\A k \in Keys : \A c \in Callers :
            (~ Holds(c, k) /\ Holds(c, k)' /\ At(k).waiting # <<>>)
              => c = Head(At(k).waiting)]_vars
  BY <1>1
<1>. QED
  BY <1>2, Invariance, PTL DEF Spec, NoOvertaking

\* FifoSlots counts places with the Cardinality of its own FiniteSets.
LEMMA SameCardinality ==
    ASSUME NEW S
    PROVE  Slots!Cardinality(S) = Cardinality(S)
BY DEF Slots!Cardinality, Cardinality

\* The step a caller's step maps to.
LEMMA StepImplements ==
    ASSUME IInv, [Next]_vars
    PROVE  [Slots!SlotsNext]_(Slots!slotVars)
<1>. DEFINE owners == [k \in Keys |-> Owners(k)]
            line == [k \in Keys |-> At(k).waiting]
<1>1. CASE SameSlots
  <2>1. owners' = owners /\ line' = line
    BY <1>1 DEF SameSlots, SameSlot
  <2>. QED
    BY <2>1 DEF Slots!slotVars
<1>2. ASSUME NEW c \in Callers, NEW k \in Keys, Takes(c, k)
      PROVE  Slots!Take(c, k)
  <2>1. owners' = [owners EXCEPT ![k] = @ \cup {c}] /\ line' = line
    BY <1>2 DEF Takes, OthersSame, SameSlot
  <2>2. Slots!Cardinality(Owners(k)) < PerKey
    BY <1>2, SameCardinality DEF Takes, IInv, PlacesCounted
  <2>. QED
    BY <1>2, <2>1, <2>2 DEF Takes, Slots!Take
<1>3. ASSUME NEW c \in Callers, NEW k \in Keys, Joins(c, k)
      PROVE  Slots!Join(c, k)
  <2>1. owners' = owners /\ line' = [line EXCEPT ![k] = Append(@, c)]
    BY <1>3 DEF Joins, OthersSame, SameSlot
  <2>2. Slots!Cardinality(Owners(k)) = PerKey
    BY <1>3, SameCardinality DEF Joins, IInv, PlacesCounted
  <2>. QED
    BY <1>3, <2>1, <2>2 DEF Joins, Slots!Join
<1>4. ASSUME NEW c \in Callers, NEW k \in Keys, Gives(c, k)
      PROVE  Slots!Give(c, k)
  <2>1. CASE At(k).waiting = <<>>
    <3>1. owners' = [owners EXCEPT ![k] = @ \ {c}] /\ line' = line
      BY <1>4, <2>1 DEF Gives, OthersSame, SameSlot
    <3>. QED
      BY <1>4, <2>1, <3>1 DEF Gives, Slots!Give
  <2>2. CASE At(k).waiting # <<>>
    <3>1. /\ owners' = [owners EXCEPT ![k] = (@ \ {c}) \cup {Head(line[k])}]
          /\ line' = [line EXCEPT ![k] = Tail(@)]
      BY <1>4, <2>2 DEF Gives, OthersSame, SameSlot
    <3>. QED
      BY <1>4, <2>2, <3>1 DEF Gives, Slots!Give
  <2>. QED
    BY <2>1, <2>2
<1>5. ASSUME NEW i \in Nat, NEW k \in Keys, Quits(i, k)
      PROVE  i \in 1..MaxQueue /\ Slots!Quit(i, k)
  <2>1. /\ At(k).waiting \in Seq(Callers) /\ i \in 1..Len(At(k).waiting)
        /\ Len(At(k).waiting) <= MaxQueue
    BY <1>5, AtType, QueueType DEF Quits, IInv, QueueExact
  <2>2. i \in 1..MaxQueue
    BY <2>1, LimitsAssumption
  <2>3. RemoveAt(At(k).waiting, i) =
          [j \in 1..Len(At(k).waiting) - 1 |->
              IF j < i THEN At(k).waiting[j] ELSE At(k).waiting[j + 1]]
    BY <2>1, RemoveAtIs
  <2>4. /\ owners' = owners
        /\ line' = [line EXCEPT ![k] = RemoveAt(line[k], i)]
    BY <1>5 DEF Quits, OthersSame, SameSlot
  <2>5. line[k] = At(k).waiting
    OBVIOUS
  <2>6. i \in DOMAIN line[k]
    BY <2>1, <2>5
  <2>7. line' = [line EXCEPT
          ![k] = [j \in 1..Len(@) - 1 |-> IF j < i THEN @[j] ELSE @[j + 1]]]
    BY <2>3, <2>4, <2>5
  <2>. QED
    BY <2>2, <2>4, <2>6, <2>7 DEF Slots!Quit, owners, line
<1>. QED
  BY <1>1, <1>2, <1>3, <1>4, <1>5, NextSlots DEF Slots!SlotsNext

\* The gate implements a line for each key's places: whatever deadlines pass
\* between its critical sections, its callers see FifoSlots (gate.go:60-165).
THEOREM GateImplementsSlots == Spec => ImplementsSlots
<1>1. Init => Slots!SlotsInit
  BY DEF Init, Slots!SlotsInit, At, Owners, Holds
<1>2. IInv /\ [Next]_vars => [Slots!SlotsNext]_(Slots!slotVars)
  BY StepImplements
<1>. QED
  BY <1>1, <1>2, Invariance, PTL DEF Spec, ImplementsSlots, Slots!SlotsSpec
=============================================================================
