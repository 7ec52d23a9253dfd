------------------------------ MODULE TabsProofs ------------------------------
(***************************************************************************)
(* Theorems about the session of the tabs, for any number of tabs, logins  *)
(* and tokens, under either lock.                                          *)
(***************************************************************************)
EXTENDS Tabs, TLAPS, FiniteSetTheorems, SequenceTheorems, WellFoundedInduction

-----------------------------------------------------------------------------
(* The inductive invariant                                                   *)

Kinds == {"refresh", "signIn", "signOut", "end"}
Tasks == [tab : Tabs, kind : Kinds, login : Logins]
RealToken(k) == k = NoToken \/ (k.login \in Logins /\ k.n \in 1..MaxTokens)

TabStates == [status : {"closed", "starting", "signed-in", "signed-out", "unavailable"},
              login : 0..MaxLogins, access : Token, backOff : BOOLEAN,
              refreshing : 0..MaxLogins, first : 0..MaxLogins]
Jobs == [phase : {"none", "taking", "settling", "calling", "answered", "settled"},
         sent : Token, answer : {"none", "tokens", "done", "unauthorized", "unavailable"},
         result : {"none", "tokens", "done", "ended", "changed", "unavailable"}]
Reqs == [phase : {"none", "asking", "sent", "renewing", "again", "ending"},
         login : 0..MaxLogins, token : Token]
Results == {"tokens", "done", "ended", "changed", "unavailable"}
HandedTasks == [tab : Tabs, task : Tasks, result : Results, token : Token]
Sessions == [n : 1..MaxTokens, alive : BOOLEAN]

Doing(t) == job[t].phase \in {"calling", "answered"}

\* The variables, each by itself.
TypeInv ==
    /\ left \in [lock : {"web", "lease"}, signIns : Nat, requests : Nat, closes : Nat,
                 failures : Nat]
    /\ logins \in 0..MaxLogins /\ logins + left.signIns <= MaxLogins
    /\ session \in [Logins -> Sessions]
    /\ record \in Token /\ RealToken(record) /\ before \in Token /\ RealToken(before)
    /\ behind \subseteq Tabs /\ news \subseteq Open
    /\ tab \in [Tabs -> TabStates]
    /\ line \in Seq(Tasks)
    /\ job \in [Tabs -> Jobs]
    /\ handed \subseteq HandedTasks
    /\ req \in [Tabs -> Reqs]
    /\ lease \in Tabs \cup {"none", "gone"}
    /\ last \in 0..MaxLogins

\* A tab has an access token of its session only, and is signed out when it
\* is in none; a request is of a session, and has its token. Nothing is left
\* of a tab that is closed.
TabInv(t) ==
    /\ tab[t].access # NoToken => tab[t].access.login = tab[t].login
    /\ t \in Open => (tab[t].status = "signed-out" <=> tab[t].login = None)
    /\ t \notin Open => tab[t] = ClosedTab /\ job[t] = NoJob /\ ~ HasTask(t)
    /\ req[t].phase # "none" => req[t].login # None
    /\ req[t].phase \in {"sent", "again"} => req[t].token.login = req[t].login

HandedInv ==
    \A h \in handed :
        /\ h.tab \in Open
        /\ h.result = "tokens" => h.token.login = h.task.login

\* What a tab's job is about: its first task, under the lock of the page.
JobInv(t) ==
    /\ job[t].phase # "none" => HasTask(t)
    /\ left.lock = "web" => /\ job[t].phase \notin {"taking", "settling"}
                            /\ job[t].phase # "none" => line[1].tab = t
    /\ left.lock = "lease" => job[t].phase # "settled"
    /\ job[t].phase \in {"none", "taking", "settling"} => job[t] = [NoJob EXCEPT !.phase = job[t].phase]
    /\ Doing(t) => /\ FirstTask(t).kind \in {"refresh", "signOut"}
                   /\ job[t].sent # NoToken /\ RealToken(job[t].sent)
                   /\ job[t].sent.login = FirstTask(t).login
                   /\ job[t].result = "none"
    /\ job[t].phase = "answered" =>
           job[t].answer \in IF FirstTask(t).kind = "refresh"
                             THEN {"tokens", "unauthorized", "unavailable"}
                             ELSE {"done", "unavailable"}
    /\ job[t].phase # "answered" => job[t].answer = "none"
    /\ job[t].phase = "settled" =>
           /\ job[t].result \in Results
           /\ job[t].result = "tokens" => /\ job[t].sent.login = FirstTask(t).login
                                          /\ job[t].sent.n \in 1..(MaxTokens - 1)

\* Only a task that is through and has the Web Locks lock still leaves a write
\* that is not seen everywhere.
BehindInv ==
    behind # {} => left.lock = "web" /\ \E t \in Tabs : job[t].phase = "settled"

\* The logins a tab has to do with, but for those of its sign-ins.
Known(t) ==
    ({tab[t].login, tab[t].refreshing, tab[t].first, req[t].login, job[t].sent.login}
     \cup {line[i].login : i \in {k \in DOMAIN line : line[k].tab = t /\ line[k].kind # "signIn"}}
     \cup {h.task.login : h \in {k \in handed : k.tab = t /\ k.task.kind # "signIn"}}) \ {None}

\* The sign-in that is i-th in line has written its record.
Through(i) == i = 1 /\ left.lock = "web" /\ job[line[i].tab].phase = "settled"

\* A login that is still to come into the record.
Due(l) ==
    \/ l > logins
    \/ \E i \in DOMAIN line : line[i].kind = "signIn" /\ line[i].login = l /\ ~ Through(i)

Unknown(l) ==
    /\ l \notin {record.login, before.login, last} /\ session[l].n = 1
    /\ \A t \in Tabs : l \notin Known(t)

LoginInv ==
    /\ \A l \in Logins : Due(l) => Unknown(l)
    /\ \A i, j \in DOMAIN line :
          i # j /\ line[i].kind = "signIn" /\ line[j].kind = "signIn" => line[i].login # line[j].login
    /\ \A i \in DOMAIN line : line[i].kind = "signIn" => line[i].login <= logins

\* A tab that has to do with the login it sees in the record is in it, and one
\* that does not see the record's login yet has nothing to do with it.
SeenInv(t) ==
    /\ Seen(t).login \in Known(t) => tab[t].login = Seen(t).login
    /\ t \in behind => record.login = before.login \/ record.login \notin Known(t)

\* A session's tokens go up to its current one. A token that was exchanged,
\* with its successor still to be kept, is the highest anyone has.
TokenInv ==
    /\ record # NoToken => record.n <= session[record.login].n
    /\ \A t \in Tabs : Doing(t) => job[t].sent.n <= session[job[t].sent.login].n
    /\ \A t \in Tabs : job[t].answer = "tokens" =>
          /\ session[job[t].sent.login].n = job[t].sent.n + 1
          /\ record.login = job[t].sent.login => record.n <= job[t].sent.n
          /\ \A u \in Tabs : Doing(u) /\ job[u].sent.login = job[t].sent.login =>
                job[u].sent.n <= job[t].sent.n
          /\ \A u \in Tabs \ {t} :
                job[u].answer = "tokens" => job[u].sent.login # job[t].sent.login

\* What is signed out of, or was refused.
OverInv ==
    /\ \A i \in DOMAIN line : line[i].kind \in {"signOut", "end"} => line[i].login \in over
    /\ \A t \in Tabs : job[t].answer = "unauthorized" => job[t].sent.login \in over

\* As long as the lock kept others out, a request sent the record's token, and
\* the record's token is the session's current one.
LockInv ==
    ~ lapsed =>
        /\ \A t \in Tabs : Doing(t) =>
              /\ job[t].sent = record
              /\ left.lock = "lease" => lease = t /\ \A u \in Tabs \ {t} : job[u].phase # "taking"
        /\ record # NoToken /\ record.login \notin lost =>
              \/ session[record.login].n = record.n
              \/ \E t \in Tabs : job[t].answer = "tokens"

IInv ==
    /\ TypeInv /\ HandedInv /\ BehindInv /\ LoginInv /\ TokenInv /\ OverInv /\ LockInv
    /\ SpentOnlyAfterLoss
    /\ \A t \in Tabs : TabInv(t) /\ JobInv(t) /\ SeenInv(t)

-----------------------------------------------------------------------------
(* Lines                                                                     *)

LEMMA Least ==
    ASSUME NEW T, T \subseteq Nat, T # {}
    PROVE  \E m \in T : \A n \in T : m <= n
<1>. DEFINE R == OpToRel(<, Nat)
<1>1. IsWellFoundedOn(R, Nat)
  BY NatLessThanWellFounded
<1>2. \A y, x \in Nat : y < x => <<y, x>> \in R
  BY DEF OpToRel
<1>. HIDE DEF R
<1>3. PICK m \in T : \A n \in T : ~ (<<n, m>> \in R)
  BY <1>1, WFMin
<1>4. ASSUME NEW n \in T
      PROVE  m <= n
  <2>1. m \in Nat /\ n \in Nat
    OBVIOUS
  <2>2. ~ (n < m)
    BY <1>2, <1>3, <2>1
  <2>. QED
    BY <2>1, <2>2
<1>. QED
  BY <1>4

\* i is the place of t's first task in q.
IsFirst(q, t, i) == i \in DOMAIN q /\ q[i].tab = t /\ \A j \in 1..(i - 1) : q[j].tab # t

LEMMA FirstIs ==
    ASSUME NEW q \in Seq(Tasks), NEW t
    PROVE  /\ Has(q, t) => IsFirst(q, t, First(q, t))
           /\ \A i : IsFirst(q, t, i) => First(q, t) = i
<1>1. DOMAIN q = 1..Len(q) /\ Len(q) \in Nat
  OBVIOUS
<1>2. ASSUME NEW i, NEW j, IsFirst(q, t, i), IsFirst(q, t, j)
      PROVE  i = j
  <2>1. i \in 1..Len(q) /\ j \in 1..Len(q)
    BY <1>1, <1>2 DEF IsFirst
  <2>2. ~ (i < j) /\ ~ (j < i)
    BY <1>1, <1>2, <2>1 DEF IsFirst
  <2>. QED
    BY <2>1, <2>2
<1>3. ASSUME Has(q, t)
      PROVE  \E i : IsFirst(q, t, i)
  <2>. DEFINE T == {i \in DOMAIN q : q[i].tab = t}
  <2>1. T \subseteq Nat /\ T # {}
    BY <1>1, <1>3 DEF Has
  <2>2. PICK i \in T : \A n \in T : i <= n
    BY <2>1, Least
  <2>3. ASSUME NEW j \in 1..(i - 1)
        PROVE  q[j].tab # t
    BY <1>1, <2>2
  <2>. QED
    BY <2>2, <2>3 DEF IsFirst
<1>4. First(q, t) = CHOOSE i : IsFirst(q, t, i)
  BY DEF First, IsFirst
<1>. QED
  BY <1>2, <1>3, <1>4

\* r is q with the task k after it.
LongerBy(r, q, k) ==
    /\ r \in Seq(Tasks) /\ Len(r) = Len(q) + 1 /\ r[Len(q) + 1] = k
    /\ \A i \in DOMAIN q : i \in DOMAIN r /\ r[i] = q[i]
    /\ \A i \in DOMAIN r : i \in DOMAIN q \/ i = Len(q) + 1
    /\ \A t : Has(q, t) => Has(r, t) /\ r[First(r, t)] = q[First(q, t)]
    /\ \A t : t # k.tab /\ ~ Has(q, t) => ~ Has(r, t)

\* A task that comes into line is its last.
LEMMA Appended ==
    ASSUME NEW q \in Seq(Tasks), NEW k \in Tasks
    PROVE  LongerBy(Append(q, k), q, k)
<1>. DEFINE r == Append(q, k)
<1>1. /\ r \in Seq(Tasks) /\ Len(r) = Len(q) + 1 /\ r[Len(q) + 1] = k
      /\ \A i \in 1..Len(q) : r[i] = q[i]
  OBVIOUS
<1>. HIDE DEF r
<1>2. DOMAIN q = 1..Len(q) /\ DOMAIN r = 1..Len(r) /\ Len(q) \in Nat
  BY <1>1
<1>3. ASSUME NEW t, Has(q, t)
      PROVE  Has(r, t) /\ r[First(r, t)] = q[First(q, t)]
  <2>1. PICK i : i = First(q, t)
    OBVIOUS
  <2>2. IsFirst(q, t, i)
    BY <1>3, <2>1, FirstIs
  <2>3. IsFirst(r, t, i)
    BY <1>1, <1>2, <2>2 DEF IsFirst
  <2>4. First(r, t) = i
    BY <1>1, <2>3, FirstIs
  <2>. QED
    BY <1>1, <1>2, <2>1, <2>2, <2>3, <2>4 DEF Has, IsFirst
<1>4. ASSUME NEW t, t # k.tab, ~ Has(q, t)
      PROVE  ~ Has(r, t)
  BY <1>1, <1>2, <1>4 DEF Has
<1>5. \A i \in DOMAIN q : i \in DOMAIN r /\ r[i] = q[i]
  BY <1>1, <1>2
<1>6. \A i \in DOMAIN r : i \in DOMAIN q \/ i = Len(q) + 1
  BY <1>1, <1>2
<1>. QED
  BY <1>1, <1>3, <1>4, <1>5, <1>6 DEF r, LongerBy

\* r is what stays of q when only tasks of t are taken out of it, and pick where
\* the tasks of r were in q.
WhatStays(r, q, pick, t) ==
    /\ r \in Seq(Tasks)
    /\ \A i \in DOMAIN r : pick[i] \in DOMAIN q /\ r[i] = q[pick[i]]
    /\ \A i, j \in DOMAIN r : i # j => pick[i] # pick[j]
    /\ \A u : u # t /\ Has(q, u) => Has(r, u) /\ r[First(r, u)] = q[First(q, u)]
    /\ \A u : ~ Has(q, u) => ~ Has(r, u)
    /\ Len(q) > 0 /\ q[1].tab # t => Len(r) > 0 /\ r[1] = q[1] /\ pick[1] = 1

LEMMA Picked ==
    ASSUME NEW q \in Seq(Tasks), NEW t, NEW n \in Nat, NEW pick \in [1..n -> DOMAIN q],
           \A i, j \in 1..n : i < j => pick[i] < pick[j],
           \A i \in DOMAIN q : q[i].tab # t => \E j \in 1..n : pick[j] = i
    PROVE  WhatStays([i \in 1..n |-> q[pick[i]]], q, pick, t)
<1>. DEFINE r == [i \in 1..n |-> q[pick[i]]]
<1>1. DOMAIN q = 1..Len(q) /\ Len(q) \in Nat /\ \A i \in DOMAIN q : q[i] \in Tasks
  OBVIOUS
<1>2. r \in Seq(Tasks) /\ DOMAIN r = 1..n /\ Len(r) = n
  <2>1. r \in [1..n -> Tasks]
    BY <1>1
  <2>. QED
    BY <2>1
<1>3. \A i \in DOMAIN r : pick[i] \in DOMAIN q /\ r[i] = q[pick[i]]
  BY <1>2
<1>. HIDE DEF r
<1>4. \A i, j \in 1..n : i # j => pick[i] # pick[j]
  <2>. SUFFICES ASSUME NEW i \in 1..n, NEW j \in 1..n, i # j
                PROVE  pick[i] # pick[j]
    OBVIOUS
  <2>1. pick[i] \in Nat /\ pick[j] \in Nat
    BY <1>1
  <2>2. i < j \/ j < i
    OBVIOUS
  <2>3. pick[i] < pick[j] \/ pick[j] < pick[i]
    BY <2>2
  <2>. QED
    BY <2>1, <2>3
<1>5. ASSUME NEW i \in 1..n, NEW j \in 1..n, pick[i] < pick[j]
      PROVE  i < j
  <2>1. pick[i] \in Nat /\ pick[j] \in Nat
    BY <1>1
  <2>2. ~ (j < i) /\ i # j
    BY <1>5, <2>1
  <2>. QED
    BY <2>2
<1>6. ASSUME NEW u, u # t, Has(q, u)
      PROVE  Has(r, u) /\ r[First(r, u)] = q[First(q, u)]
  <2>1. PICK k : k = First(q, u)
    OBVIOUS
  <2>2. IsFirst(q, u, k)
    BY <1>6, <2>1, FirstIs
  <2>3. PICK i \in 1..n : pick[i] = k
    BY <1>6, <2>2 DEF IsFirst
  <2>4. ASSUME NEW j \in 1..(i - 1)
        PROVE  r[j].tab # u
    <3>1. j \in 1..n /\ j < i
      OBVIOUS
    <3>2. pick[j] < pick[i] /\ pick[j] \in 1..Len(q) /\ k \in 1..Len(q)
      BY <1>1, <2>3, <3>1
    <3>3. pick[j] \in 1..(k - 1)
      BY <2>3, <3>2
    <3>4. q[pick[j]].tab # u
      BY <2>2, <3>3 DEF IsFirst
    <3>. QED
      BY <1>2, <1>3, <3>1, <3>4
  <2>5. IsFirst(r, u, i)
    BY <1>2, <1>3, <2>2, <2>3, <2>4 DEF IsFirst
  <2>6. First(r, u) = i
    BY <1>2, <2>5, FirstIs
  <2>. QED
    BY <1>2, <1>3, <2>1, <2>2, <2>3, <2>5, <2>6 DEF Has, IsFirst
<1>7. \A u : ~ Has(q, u) => ~ Has(r, u)
  BY <1>3 DEF Has
<1>8. ASSUME Len(q) > 0, q[1].tab # t
      PROVE  Len(r) > 0 /\ r[1] = q[1] /\ pick[1] = 1
  <2>1. PICK j \in 1..n : pick[j] = 1
    BY <1>1, <1>8
  <2>2. j = 1
    <3>1. SUFFICES ASSUME 1 < j PROVE FALSE
      OBVIOUS
    <3>2. 1 \in 1..n /\ pick[1] \in 1..Len(q) /\ pick[1] < pick[j]
      BY <1>1, <3>1
    <3>. QED
      BY <2>1, <3>2
  <2>. QED
    BY <1>2, <1>3, <2>1, <2>2
<1>. QED
  BY <1>2, <1>3, <1>4, <1>6, <1>7, <1>8 DEF r, WhatStays

\* The first task of t is taken out of a line.
LEMMA Shortened ==
    ASSUME NEW q \in Seq(Tasks), NEW t, Has(q, t)
    PROVE  \E n \in Nat : \E pick \in [1..n -> DOMAIN q] :
              /\ \A i, j \in 1..n : i < j => pick[i] < pick[j]
              /\ \A i \in DOMAIN q : q[i].tab # t => \E j \in 1..n : pick[j] = i
              /\ RemoveAt(q, First(q, t)) = [i \in 1..n |-> q[pick[i]]]
              /\ \A i \in 1..n : pick[i] # First(q, t)
<1>1. PICK r : r = RemoveAt(q, First(q, t))
  OBVIOUS
<1>2. PICK k : k = First(q, t)
  OBVIOUS
<1>3. k \in 1..Len(q) /\ Len(q) \in Nat /\ DOMAIN q = 1..Len(q) /\ q[k].tab = t
  BY <1>2, FirstIs DEF IsFirst
<1>4. PICK n : n = Len(q) - 1
  OBVIOUS
<1>5. n \in Nat
  BY <1>3, <1>4
<1>. DEFINE pick == [i \in 1..n |-> IF i < k THEN i ELSE i + 1]
<1>6. pick \in [1..n -> DOMAIN q] /\ \A i \in 1..n : pick[i] # k
  BY <1>3, <1>4, <1>5
<1>7. \A i, j \in 1..n : i < j => pick[i] < pick[j]
  BY <1>3, <1>5
<1>8. ASSUME NEW i \in DOMAIN q, q[i].tab # t
      PROVE  \E j \in 1..n : pick[j] = i
  <2>1. i # k /\ i \in 1..Len(q)
    BY <1>3, <1>8
  <2>2. CASE i < k
    <3>1. i \in 1..n /\ pick[i] = i
      BY <1>3, <1>4, <1>5, <2>1, <2>2
    <3>. QED
      BY <3>1
  <2>3. CASE k < i
    <3>1. i - 1 \in 1..n /\ pick[i - 1] = i
      BY <1>3, <1>4, <1>5, <2>1, <2>3
    <3>. QED
      BY <3>1
  <2>. QED
    BY <1>3, <2>1, <2>2, <2>3
<1>9. r = [i \in 1..n |-> q[pick[i]]]
  <2>1. r = SubSeq(q, 1, k - 1) \o SubSeq(q, k + 1, Len(q))
    BY <1>1, <1>2 DEF RemoveAt
  <2>2. PICK s : s = SubSeq(q, 1, k - 1)
    OBVIOUS
  <2>3. PICK u : u = SubSeq(q, k + 1, Len(q))
    OBVIOUS
  <2>4. s \in Seq(Tasks) /\ Len(s) = k - 1 /\ \A i \in 1..(k - 1) : s[i] = q[i]
    <3>1. \A i \in 1..(k - 1) : q[i] \in Tasks /\ 1 + i - 1 = i
      BY <1>3
    <3>2. 1 \in Int /\ k - 1 \in Int /\ (k - 1) - 1 + 1 = k - 1
      BY <1>3
    <3>3. /\ s \in Seq(Tasks)
          /\ Len(s) = IF 1 <= k - 1 THEN (k - 1) - 1 + 1 ELSE 0
          /\ \A i \in 1..((k - 1) - 1 + 1) : s[i] = q[1 + i - 1]
      BY <2>2, <3>1, <3>2, SubSeqProperties
    <3>. QED
      BY <1>3, <3>1, <3>2, <3>3
  <2>5. /\ u \in Seq(Tasks) /\ Len(u) = Len(q) - k
        /\ \A i \in 1..(Len(q) - k) : u[i] = q[i + k]
    <3>1. PICK a, m : a = k + 1 /\ m = Len(q)
      OBVIOUS
    <3>2. a \in 1..(m + 1) /\ m \in Nat /\ a \in Int /\ m \in Int
      BY <1>3, <3>1
    <3>3. \A i \in a..m : q[i] \in Tasks
      BY <1>3, <3>1, <3>2
    <3>4. /\ u \in Seq(Tasks) /\ Len(u) = IF a <= m THEN m - a + 1 ELSE 0
          /\ \A i \in 1..(m - a + 1) : u[i] = q[a + i - 1]
      BY <2>3, <3>1, <3>2, <3>3, SubSeqProperties
    <3>5. m - a + 1 = m - k /\ \A i \in 1..(m - k) : a + i - 1 = i + k
      BY <1>3, <3>1, <3>2
    <3>6. Len(u) = m - k
      BY <3>2, <3>4, <3>5
    <3>7. \A i \in 1..(m - k) : u[i] = q[i + k]
      BY <3>4, <3>5
    <3>. QED
      BY <3>1, <3>4, <3>6, <3>7
  <2>. HIDE DEF pick
  <2>6. PICK v : v = s \o u
    OBVIOUS
  <2>7. PICK ls, lu : ls = Len(s) /\ lu = Len(u)
    OBVIOUS
  <2>8. /\ v \in Seq(Tasks) /\ Len(v) = ls + lu
        /\ \A i \in 1..(ls + lu) : v[i] = IF i <= ls THEN s[i] ELSE u[i - ls]
    BY <2>4, <2>5, <2>6, <2>7, ConcatProperties
  <2>9. ls + lu = n /\ ls = k - 1 /\ lu = Len(q) - k
    BY <1>3, <1>4, <2>4, <2>5, <2>7
  <2>10. ASSUME NEW i \in 1..n
         PROVE  v[i] = q[pick[i]]
    <3>1. CASE i < k
      <4>1. pick[i] = i /\ i \in 1..(k - 1) /\ i <= ls /\ i \in 1..(ls + lu)
        BY <1>3, <1>5, <2>9, <3>1 DEF pick
      <4>. QED
        BY <2>4, <2>8, <4>1
    <3>2. CASE ~ (i < k)
      <4>1. PICK j : j = i - ls
        OBVIOUS
      <4>2. /\ pick[i] = i + 1 /\ ~ (i <= ls) /\ i \in 1..(ls + lu)
            /\ j \in 1..(Len(q) - k) /\ j + k = i + 1
        BY <1>3, <1>4, <1>5, <2>9, <3>2, <4>1 DEF pick
      <4>3. v[i] = u[j]
        BY <2>8, <4>1, <4>2
      <4>. QED
        BY <2>5, <4>2, <4>3
    <3>. QED
      BY <3>1, <3>2
  <2>11. v = [i \in 1..n |-> v[i]]
    BY <2>8, <2>9
  <2>. QED
    BY <2>1, <2>2, <2>3, <2>6, <2>10, <2>11
<1>. QED
  BY <1>1, <1>2, <1>5, <1>6, <1>7, <1>8, <1>9

-----------------------------------------------------------------------------
(* A tab does something of its own                                           *)

GoodTab(s) ==
    /\ s \in TabStates /\ s.status # "closed"
    /\ s.status = "signed-out" <=> s.login = None
    /\ s.access # NoToken => s.access.login = s.login

GoodReq(q) ==
    /\ q \in Reqs
    /\ q.phase # "none" => q.login # None
    /\ q.phase \in {"sent", "again"} => q.token.login = q.login

\* The tab t goes on in login l, with the logins of S: those it has to do
\* with, and that of the record it sees when it is in that one.
Stays(t, l, S) ==
    \/ l = tab[t].login /\ S \subseteq Known(t) \cup {None}
    \/ l = Seen(t).login /\ S \subseteq Known(t) \cup {None, Seen(t).login}

\* A line stays, or a task of t, of a login in S, joins it.
Joins(t, S) ==
    \/ line' = line
    \/ \E k \in Tasks :
          /\ line' = Append(line, k) /\ k.tab = t /\ k.kind # "signIn" /\ k.login \in S
          /\ k.kind \in {"signOut", "end"} => k.login \in over'

LEMMA Bounds ==
    /\ MaxLogins \in Nat \ {0} /\ MaxTokens \in Nat \ {0}
    /\ None \in 0..MaxLogins /\ Logins = (0..MaxLogins) \ {None}
<1>1. MaxLogins \in Nat \ {0} /\ MaxTokens \in Nat \ {0}
  BY TabsAssumption
<1>. QED
  BY <1>1 DEF None, Logins

LEMMA FreshToken == RealToken(NoToken) /\ NoToken \in Token /\ NoToken.login = None
BY TabsAssumption DEF RealToken, NoToken, Token, None

LEMMA SeenType ==
    ASSUME IInv, NEW t \in Tabs
    PROVE  Seen(t) \in Token /\ RealToken(Seen(t)) /\ Seen(t).login \in 0..MaxLogins
BY DEF IInv, TypeInv, Seen, Token

LEMMA InLogin ==
    ASSUME NEW t
    PROVE  tab[t].login \in Known(t) \cup {None} /\ None \notin Known(t)
BY DEF Known

\* What a line's change leaves of the tasks.
LEMMA JoinsLine ==
    ASSUME line \in Seq(Tasks), NEW t \in Tabs, NEW S, Joins(t, S)
    PROVE  /\ line' \in Seq(Tasks)
           /\ \A i \in DOMAIN line : i \in DOMAIN line' /\ line'[i] = line[i]
           /\ \A i \in DOMAIN line' :
                 \/ i \in DOMAIN line
                 \/ /\ line'[i].tab = t /\ line'[i].kind # "signIn" /\ line'[i].login \in S
                    /\ line'[i].kind \in {"signOut", "end"} => line'[i].login \in over'
           /\ \A u : HasTask(u) => HasTask(u)' /\ FirstTask(u)' = FirstTask(u)
           /\ \A u : u # t /\ ~ HasTask(u) => ~ HasTask(u)'
<1>1. CASE line' = line
  BY <1>1 DEF HasTask, FirstTask
<1>2. CASE line' # line
  <2>1. PICK k \in Tasks :
          /\ line' = Append(line, k) /\ k.tab = t /\ k.kind # "signIn" /\ k.login \in S
          /\ k.kind \in {"signOut", "end"} => k.login \in over'
    BY <1>2 DEF Joins
  <2>2. /\ line' \in Seq(Tasks) /\ Len(line') = Len(line) + 1 /\ line'[Len(line) + 1] = k
        /\ \A i \in DOMAIN line : i \in DOMAIN line' /\ line'[i] = line[i]
        /\ \A i \in DOMAIN line' : i \in DOMAIN line \/ i = Len(line) + 1
        /\ \A u : Has(line, u) => Has(line', u) /\ line'[First(line', u)] = line[First(line, u)]
        /\ \A u : u # k.tab /\ ~ Has(line, u) => ~ Has(line', u)
    <3>1. PICK q : q = line
      OBVIOUS
    <3>2. PICK r : r = line'
      OBVIOUS
    <3>3. q \in Seq(Tasks) /\ r = Append(q, k)
      BY <2>1, <3>1, <3>2
    <3>4. LongerBy(r, q, k)
      BY <3>3, Appended
    <3>. QED
      BY <3>1, <3>2, <3>4 DEF LongerBy
  <2>3. \A u : HasTask(u) => HasTask(u)' /\ FirstTask(u)' = FirstTask(u)
    BY <2>2 DEF HasTask, FirstTask
  <2>4. \A u : u # t /\ ~ HasTask(u) => ~ HasTask(u)'
    BY <2>1, <2>2 DEF HasTask
  <2>5. \A i \in DOMAIN line' :
           \/ i \in DOMAIN line
           \/ /\ line'[i].tab = t /\ line'[i].kind # "signIn" /\ line'[i].login \in S
              /\ line'[i].kind \in {"signOut", "end"} => line'[i].login \in over'
    BY <2>1, <2>2
  <2>. QED
    BY <2>2, <2>3, <2>4, <2>5
<1>. QED
  BY <1>1, <1>2

LEMMA TabStep ==
    ASSUME IInv, NEW t \in Tabs, NEW s, NEW q, NEW S,
           tab' = [tab EXCEPT ![t] = s], GoodTab(s),
           req' = [req EXCEPT ![t] = q], GoodReq(q),
           Joins(t, S), Stays(t, s.login, S),
           {s.refreshing, s.first, q.login} \subseteq S,
           news' \subseteq news, handed' \subseteq handed, over \subseteq over',
           left' \in [lock : {left.lock}, signIns : {left.signIns}, requests : Nat,
                      closes : Nat, failures : Nat],
           UNCHANGED <<server, record, before, behind, job, lease, last, lost, lapsed, reused>>
    PROVE  IInv'
<1>1. TypeInv /\ HandedInv /\ BehindInv /\ LoginInv /\ TokenInv /\ OverInv /\ LockInv
  BY DEF IInv
<1>2. \A u \in Tabs : TabInv(u) /\ JobInv(u) /\ SeenInv(u)
  BY DEF IInv
<1>3. UNCHANGED <<session, logins, record, before, behind, job, lease, last, lost, lapsed, reused>>
  BY DEF server
<1>4. left'.lock = left.lock /\ left'.signIns = left.signIns
  OBVIOUS
<1>5. /\ line' \in Seq(Tasks) /\ line \in Seq(Tasks)
      /\ \A i \in DOMAIN line : i \in DOMAIN line' /\ line'[i] = line[i]
      /\ \A i \in DOMAIN line' :
            \/ i \in DOMAIN line
            \/ /\ line'[i].tab = t /\ line'[i].kind # "signIn" /\ line'[i].login \in S
               /\ line'[i].kind \in {"signOut", "end"} => line'[i].login \in over'
      /\ \A u : HasTask(u) => HasTask(u)' /\ FirstTask(u)' = FirstTask(u)
      /\ \A u : u # t /\ ~ HasTask(u) => ~ HasTask(u)'
  <2>1. line \in Seq(Tasks)
    BY <1>1 DEF TypeInv
  <2>. QED
    BY <2>1, JoinsLine
<1>6. /\ tab'[t] = s /\ req'[t] = q
      /\ \A u \in Tabs \ {t} : tab'[u] = tab[u] /\ req'[u] = req[u]
  BY <1>1 DEF TypeInv
<1>7. t \in Open' /\ \A u \in Tabs \ {t} : u \in Open' <=> u \in Open
  BY <1>6 DEF Open, GoodTab
<1>8. /\ \A u \in Tabs \ {t} : Known(u)' \subseteq Known(u)
      /\ Known(t)' \subseteq (Known(t) \cup S \cup {s.login}) \ {None}
  <2>1. ASSUME NEW u \in Tabs \ {t}, NEW l \in Known(u)'
        PROVE  l \in Known(u)
    BY <1>3, <1>5, <1>6, <2>1 DEF Known
  <2>2. ASSUME NEW l \in Known(t)'
        PROVE  l \in (Known(t) \cup S \cup {s.login}) \ {None}
    BY <1>3, <1>5, <1>6, <2>2 DEF Known
  <2>. QED
    BY <2>1, <2>2
<1>9. \A u \in Tabs : Seen(u)' = Seen(u)
  BY <1>3 DEF Seen
<1>10. \A u \in Tabs : Known(u)' \subseteq Known(u) \cup {Seen(u).login}
  BY <1>8, InLogin DEF Stays
<1>11. TypeInv'
  <2>1. logins' + left'.signIns <= MaxLogins
    BY <1>1, <1>3, <1>4 DEF TypeInv
  <2>2. tab' \in [Tabs -> TabStates] /\ req' \in [Tabs -> Reqs]
    BY <1>1 DEF TypeInv, GoodTab, GoodReq
  <2>3. news' \subseteq Open'
    BY <1>1, <1>7 DEF TypeInv, Open
  <2>4. left' \in [lock : {"web", "lease"}, signIns : Nat, requests : Nat, closes : Nat,
                   failures : Nat]
    BY <1>1 DEF TypeInv
  <2>. QED
    BY <1>1, <1>3, <1>5, <2>1, <2>2, <2>3, <2>4 DEF TypeInv
<1>12. HandedInv'
  BY <1>1, <1>7 DEF HandedInv, Open
<1>13. BehindInv'
  BY <1>1, <1>3, <1>4 DEF BehindInv
<1>14. \A u \in Tabs : TabInv(u)'
  <2>1. TabInv(t)'
    BY <1>6, <1>7 DEF TabInv, GoodTab, GoodReq
  <2>2. ASSUME NEW u \in Tabs \ {t}
        PROVE  TabInv(u)'
    BY <1>2, <1>3, <1>5, <1>6, <1>7, <2>2 DEF TabInv
  <2>. QED
    BY <2>1, <2>2
<1>15. \A u \in Tabs : JobInv(u)'
  <2>. SUFFICES ASSUME NEW u \in Tabs
                PROVE  JobInv(u)'
    OBVIOUS
  <2>1. CASE job[u].phase = "none"
    BY <1>2, <1>3, <1>4, <2>1 DEF JobInv, Doing
  <2>2. CASE job[u].phase # "none"
    <3>1. HasTask(u) /\ HasTask(u)' /\ FirstTask(u)' = FirstTask(u)
      BY <1>2, <1>5, <2>2 DEF JobInv
    <3>2. line'[1] = line[1]
      <4>1. \E i : i \in DOMAIN line
        BY <3>1 DEF HasTask, Has
      <4>2. 1 \in DOMAIN line
        BY <1>5, <4>1
      <4>. QED
        BY <1>5, <4>2
    <3>. QED
      BY <1>2, <1>3, <1>4, <2>2, <3>1, <3>2 DEF JobInv, Doing
  <2>. QED
    BY <2>1, <2>2
<1>16. LoginInv'
  <2>1. ASSUME NEW l \in Logins, Due(l)'
        PROVE  Unknown(l)'
    <3>1. Due(l)
      <4>1. CASE l > logins'
        BY <1>3, <4>1 DEF Due
      <4>2. CASE ~ (l > logins')
        <5>1. PICK i \in DOMAIN line' : line'[i].kind = "signIn" /\ line'[i].login = l /\ ~ Through(i)'
          BY <2>1, <4>2 DEF Due
        <5>2. i \in DOMAIN line /\ line'[i] = line[i]
          BY <1>5, <5>1
        <5>3. ~ Through(i)
          BY <1>3, <1>4, <5>1, <5>2 DEF Through
        <5>. QED
          BY <5>1, <5>2, <5>3 DEF Due
      <4>. QED
        BY <4>1, <4>2
    <3>2. Unknown(l)
      BY <1>1, <3>1 DEF LoginInv
    <3>3. \A u \in Tabs : l \notin Known(u) /\ l # Seen(u).login
      BY <3>2 DEF Unknown, Seen
    <3>4. \A u \in Tabs : l \notin Known(u)'
      BY <1>10, <3>3
    <3>. QED
      BY <1>3, <3>2, <3>4 DEF Unknown
  <2>2. \A i \in DOMAIN line' : line'[i].kind = "signIn" => i \in DOMAIN line /\ line'[i] = line[i]
    BY <1>5
  <2>. QED
    BY <1>1, <1>3, <2>1, <2>2 DEF LoginInv
<1>17. \A u \in Tabs : SeenInv(u)'
  <2>1. ASSUME NEW u \in Tabs \ {t}
        PROVE  SeenInv(u)'
    BY <1>2, <1>3, <1>6, <1>8, <1>9, <2>1 DEF SeenInv
  <2>2. SeenInv(t)'
    <3>1. Seen(t).login \in Known(t)' => s.login = Seen(t).login
      <4>1. CASE s.login = Seen(t).login
        BY <4>1
      <4>2. CASE s.login # Seen(t).login
        BY <1>2, <1>8, <4>2, InLogin DEF Stays, SeenInv
      <4>. QED
        BY <4>1, <4>2
    <3>2. t \in behind => record.login = before.login \/ record.login \notin Known(t)'
      BY <1>2, <1>10 DEF SeenInv, Seen
    <3>. QED
      BY <1>3, <1>6, <1>9, <3>1, <3>2 DEF SeenInv
  <2>. QED
    BY <2>1, <2>2
<1>18. TokenInv'
  BY <1>1, <1>3 DEF TokenInv, Doing
<1>19. OverInv'
  BY <1>1, <1>3, <1>5 DEF OverInv
<1>20. LockInv'
  BY <1>1, <1>3, <1>4 DEF LockInv, Doing
<1>21. SpentOnlyAfterLoss'
  BY <1>3 DEF IInv, SpentOnlyAfterLoss
<1>. QED
  BY <1>11, <1>12, <1>13, <1>14, <1>15, <1>16, <1>17, <1>18, <1>19, <1>20, <1>21 DEF IInv

-----------------------------------------------------------------------------
(* The steps of a tab of its own                                             *)

LEMMA OpenIsGood ==
    ASSUME IInv, NEW t \in Tabs, tab[t].status # "closed"
    PROVE  GoodTab(tab[t])
BY DEF IInv, TabInv, TypeInv, GoodTab, Open

LEMMA LeaveGood ==
    ASSUME NEW s \in TabStates
    PROVE  /\ LeaveSession(s) \in TabStates /\ LeaveSession(s).access = NoToken
           /\ LeaveSession(s).status = s.status /\ LeaveSession(s).login = s.login
           /\ LeaveSession(s).refreshing = s.refreshing /\ LeaveSession(s).first = s.first
BY FreshToken DEF LeaveSession, TabStates

LEMMA SignedOutGood ==
    ASSUME NEW s \in TabStates
    PROVE  /\ GoodTab(SignedOut(s)) /\ SignedOut(s).login = None
           /\ SignedOut(s).refreshing = s.refreshing /\ SignedOut(s).first = s.first
<1>1. PICK u \in TabStates :
         /\ u = LeaveSession(s) /\ u.access = NoToken
         /\ u.refreshing = s.refreshing /\ u.first = s.first
  BY LeaveGood
<1>2. SignedOut(s) = [u EXCEPT !.status = "signed-out", !.login = None]
  BY <1>1 DEF SignedOut
<1>3. /\ SignedOut(s) \in TabStates /\ SignedOut(s).status = "signed-out"
      /\ SignedOut(s).login = None /\ SignedOut(s).access = u.access
      /\ SignedOut(s).refreshing = u.refreshing /\ SignedOut(s).first = u.first
  BY <1>1, <1>2, Bounds DEF TabStates
<1>. QED
  BY <1>1, <1>3 DEF GoodTab

LEMMA SwitchGood ==
    ASSUME NEW s, GoodTab(s), NEW r \in Token, RealToken(r)
    PROVE  /\ GoodTab(SwitchTo(s, r)) /\ SwitchTo(s, r).login = r.login
           /\ SwitchTo(s, r).refreshing = s.refreshing /\ SwitchTo(s, r).first = s.first
<1>1. CASE r = NoToken
  BY <1>1, SignedOutGood, FreshToken DEF SwitchTo, GoodTab
<1>2. CASE r # NoToken /\ r.login = s.login
  BY <1>2 DEF SwitchTo
<1>3. CASE r # NoToken /\ r.login # s.login
  <2>1. PICK u \in TabStates :
           /\ u = LeaveSession(s) /\ u.access = NoToken
           /\ u.refreshing = s.refreshing /\ u.first = s.first
    BY LeaveGood DEF GoodTab
  <2>2. SwitchTo(s, r) = [u EXCEPT !.status = "signed-in", !.login = r.login]
    BY <1>3, <2>1 DEF SwitchTo
  <2>3. r.login \in Logins /\ r.login # None /\ r.login \in 0..MaxLogins
    BY <1>3, TabsAssumption DEF RealToken, Logins, None
  <2>. QED
    BY <2>1, <2>2, <2>3 DEF GoodTab, TabStates
<1>. QED
  BY <1>1, <1>2, <1>3

\* What a tab sees in the record, when it is no record, has no login.
LEMMA SeenLogin ==
    ASSUME IInv, NEW t \in Tabs
    PROVE  Seen(t).login = None <=> Seen(t) = NoToken
BY SeenType, FreshToken, TabsAssumption DEF RealToken, Logins, None

\* A refresh that is asked for, in the login s goes on in.
LEMMA RefreshJoins ==
    ASSUME IInv, NEW t \in Tabs, NEW s, GoodTab(s), s.login # None, Refresh(t, s),
           NEW S, s.login \in S
    PROVE  /\ Joins(t, S)
           /\ \E u : /\ tab' = [tab EXCEPT ![t] = u] /\ GoodTab(u)
                     /\ u.login = s.login /\ u.first = s.first
                     /\ u.refreshing \in {s.refreshing, s.login}
<1>1. CASE s.refreshing = s.login
  BY <1>1 DEF Refresh, Joins
<1>2. CASE s.refreshing # s.login
  <2>1. PICK u : u = [s EXCEPT !.refreshing = s.login]
    OBVIOUS
  <2>2. tab' = [tab EXCEPT ![t] = u] /\ line' = Append(line, Task(t, "refresh", s.login))
    BY <1>2, <2>1 DEF Refresh
  <2>3. /\ GoodTab(u) /\ u.login = s.login /\ u.first = s.first /\ u.refreshing = s.login
    BY <2>1 DEF GoodTab, TabStates
  <2>4. PICK k : k = Task(t, "refresh", s.login)
    OBVIOUS
  <2>5. k \in Tasks /\ k.tab = t /\ k.kind = "refresh" /\ k.login = s.login
    BY <2>4, TabsAssumption DEF Task, Tasks, Kinds, Logins, GoodTab, TabStates, None
  <2>6. Joins(t, S)
    BY <2>2, <2>4, <2>5 DEF Joins
  <2>. QED
    BY <2>2, <2>3, <2>6
<1>. QED
  BY <1>1, <1>2

\* The request stays as it is.
LEMMA SameRequest ==
    ASSUME IInv, NEW t \in Tabs
    PROVE  /\ req = [req EXCEPT ![t] = req[t]] /\ GoodReq(req[t])
           /\ req[t].login \in Known(t) \cup {None}
<1>1. req \in [Tabs -> Reqs]
  BY DEF IInv, TypeInv
<1>. QED
  BY <1>1 DEF IInv, TabInv, Known, GoodReq

LEMMA SameLeft ==
    ASSUME IInv
    PROVE  left \in [lock : {left.lock}, signIns : {left.signIns}, requests : Nat,
                     closes : Nat, failures : Nat]
BY DEF IInv, TypeInv

LEMMA LoginsKnown ==
    ASSUME IInv, NEW t \in Tabs
    PROVE  {tab[t].login, tab[t].refreshing, tab[t].first, req[t].login}
              \subseteq Known(t) \cup {None}
BY DEF Known

LEMMA StartInv ==
    ASSUME IInv, NEW t \in Tabs, Start(t)
    PROVE  IInv'
<1>1. tab[t] = ClosedTab
  BY DEF Start, IInv, TabInv, Open
<1>2. /\ req' = [req EXCEPT ![t] = req[t]] /\ GoodReq(req[t])
      /\ req[t].login \in Known(t) \cup {None}
  BY SameRequest DEF Start
<1>3. CASE Seen(t) = NoToken
  <2>1. PICK s : s = [ClosedTab EXCEPT !.status = "signed-out"]
    OBVIOUS
  <2>2. tab' = [tab EXCEPT ![t] = s] /\ line' = line
    BY <1>3, <2>1 DEF Start
  <2>3. GoodTab(s) /\ s.login = None /\ s.refreshing = None /\ s.first = None
    <3>1. s = [status |-> "signed-out", login |-> None, access |-> NoToken,
               backOff |-> FALSE, refreshing |-> None, first |-> None]
      BY <2>1 DEF ClosedTab
    <3>. QED
      BY <3>1, FreshToken, Bounds DEF GoodTab, TabStates
  <2>4. PICK S : S = Known(t) \cup {None}
    OBVIOUS
  <2>5. Stays(t, s.login, S) /\ Joins(t, S)
    BY <1>1, <2>2, <2>3, <2>4 DEF Stays, Joins, ClosedTab
  <2>. QED
    BY <1>2, <2>2, <2>3, <2>4, <2>5, SameLeft, TabStep DEF Start, stored, history
<1>4. CASE Seen(t) # NoToken
  <2>1. PICK s : s = [[ClosedTab EXCEPT !.status = "starting", !.login = Seen(t).login]
                         EXCEPT !.first = Seen(t).login]
    OBVIOUS
  <2>2. Refresh(t, s)
    BY <1>4, <2>1 DEF Start, FirstRefresh, ClosedTab
  <2>3. Seen(t).login # None
    BY <1>4, SeenLogin
  <2>4. /\ GoodTab(s) /\ s.login = Seen(t).login /\ s.refreshing = None
        /\ s.first = Seen(t).login
    <3>1. s = [status |-> "starting", login |-> Seen(t).login, access |-> NoToken,
               backOff |-> FALSE, refreshing |-> None, first |-> Seen(t).login]
      BY <2>1 DEF ClosedTab
    <3>2. Seen(t).login \in 0..MaxLogins
      BY SeenType
    <3>. QED
      BY <2>3, <3>1, <3>2, FreshToken, Bounds DEF GoodTab, TabStates
  <2>5. PICK S : S = Known(t) \cup {None, Seen(t).login}
    OBVIOUS
  <2>6. PICK u : /\ tab' = [tab EXCEPT ![t] = u] /\ GoodTab(u)
                 /\ u.login = s.login /\ u.first = s.first
                 /\ u.refreshing \in {s.refreshing, s.login}
    BY <2>2, <2>3, <2>4, <2>5, RefreshJoins
  <2>7. Joins(t, S)
    BY <2>2, <2>3, <2>4, <2>5, RefreshJoins
  <2>8. Stays(t, u.login, S) /\ {u.refreshing, u.first, req[t].login} \subseteq S
    BY <1>2, <2>4, <2>5, <2>6 DEF Stays
  <2>. QED
    BY <1>2, <2>6, <2>7, <2>8, SameLeft, TabStep DEF Start, stored, history
<1>. QED
  BY <1>3, <1>4

LEMMA RetryInv ==
    ASSUME IInv, NEW t \in Tabs, Retry(t)
    PROVE  IInv'
<1>1. GoodTab(tab[t]) /\ tab[t].login # None
  BY OpenIsGood DEF Retry, Idle, Open, GoodTab
<1>2. /\ req' = [req EXCEPT ![t] = req[t]] /\ GoodReq(req[t])
      /\ req[t].login \in Known(t) \cup {None}
  BY SameRequest DEF Retry
<1>3. PICK s : s = [[tab[t] EXCEPT !.backOff = FALSE] EXCEPT !.first = tab[t].login]
  OBVIOUS
<1>4. Refresh(t, s)
  BY <1>3, <1>1 DEF Retry, FirstRefresh, GoodTab, TabStates
<1>5. /\ GoodTab(s) /\ s.login = tab[t].login /\ s.refreshing = tab[t].refreshing
      /\ s.first = tab[t].login
  BY <1>1, <1>3 DEF GoodTab, TabStates
<1>6. PICK S : S = Known(t) \cup {None}
  OBVIOUS
<1>7. s.login \in S /\ s.refreshing \in S
  BY <1>5, <1>6, LoginsKnown
<1>8. PICK u : /\ tab' = [tab EXCEPT ![t] = u] /\ GoodTab(u)
               /\ u.login = s.login /\ u.first = s.first
               /\ u.refreshing \in {s.refreshing, s.login}
  BY <1>1, <1>4, <1>5, <1>7, RefreshJoins
<1>9. Joins(t, S)
  BY <1>1, <1>4, <1>5, <1>7, RefreshJoins
<1>10. Stays(t, u.login, S) /\ {u.refreshing, u.first, req[t].login} \subseteq S
  BY <1>2, <1>5, <1>6, <1>7, <1>8 DEF Stays
<1>. QED
  BY <1>2, <1>8, <1>9, <1>10, SameLeft, TabStep DEF Retry, stored, history

LEMMA BackOffEndsInv ==
    ASSUME IInv, NEW t \in Tabs, BackOffEnds(t)
    PROVE  IInv'
<1>1. GoodTab(tab[t])
  <2>1. tab[t].backOff
    BY DEF BackOffEnds
  <2>2. ClosedTab.backOff = FALSE
    BY DEF ClosedTab
  <2>3. t \in Open
    BY <2>1, <2>2 DEF IInv, TabInv
  <2>. QED
    BY <2>3, OpenIsGood DEF Open
<1>2. /\ req' = [req EXCEPT ![t] = req[t]] /\ GoodReq(req[t])
      /\ req[t].login \in Known(t) \cup {None}
  BY SameRequest DEF BackOffEnds
<1>3. PICK s : s = [tab[t] EXCEPT !.backOff = FALSE]
  OBVIOUS
<1>4. tab' = [tab EXCEPT ![t] = s]
  <2>1. tab \in [Tabs -> TabStates]
    BY DEF IInv, TypeInv
  <2>. QED
    BY <1>3, <2>1 DEF BackOffEnds
<1>5. /\ GoodTab(s) /\ s.login = tab[t].login /\ s.refreshing = tab[t].refreshing
      /\ s.first = tab[t].first
  BY <1>1, <1>3 DEF GoodTab, TabStates
<1>6. PICK S : S = Known(t) \cup {None}
  OBVIOUS
<1>7. /\ Stays(t, s.login, S) /\ Joins(t, S)
      /\ {s.refreshing, s.first, req[t].login} \subseteq S
  BY <1>5, <1>6, LoginsKnown DEF Stays, Joins, BackOffEnds
<1>. QED
  BY <1>2, <1>4, <1>5, <1>7, SameLeft, TabStep DEF BackOffEnds, stored, history

LEMMA HandleStorageChangeInv ==
    ASSUME IInv, NEW t \in Tabs, HandleStorageChange(t)
    PROVE  IInv'
<1>1. GoodTab(tab[t])
  BY OpenIsGood DEF HandleStorageChange, Idle, Open
<1>2. /\ req' = [req EXCEPT ![t] = req[t]] /\ GoodReq(req[t])
      /\ req[t].login \in Known(t) \cup {None}
  BY SameRequest DEF HandleStorageChange
<1>3. PICK s : s = Heard(tab[t], Seen(t))
  OBVIOUS
<1>4. tab' = [tab EXCEPT ![t] = s]
  BY <1>3 DEF HandleStorageChange
<1>5. /\ GoodTab(s) /\ s.login \in {tab[t].login, Seen(t).login}
      /\ s.refreshing = tab[t].refreshing /\ s.first = tab[t].first
  BY <1>1, <1>3, SwitchGood, SeenType DEF Heard
<1>6. PICK S : S = Known(t) \cup {None}
  OBVIOUS
<1>7. /\ Stays(t, s.login, S) /\ Joins(t, S)
      /\ {s.refreshing, s.first, req[t].login} \subseteq S
  BY <1>5, <1>6, LoginsKnown DEF Stays, Joins, HandleStorageChange
<1>. QED
  BY <1>2, <1>4, <1>5, <1>7, SameLeft, TabStep DEF HandleStorageChange, history

LEMMA SignOutInv ==
    ASSUME IInv, NEW t \in Tabs, SignOut(t)
    PROVE  IInv'
<1>1. GoodTab(tab[t]) /\ tab[t].login # None
  BY OpenIsGood DEF SignOut, Idle, Open, GoodTab
<1>2. /\ req' = [req EXCEPT ![t] = req[t]] /\ GoodReq(req[t])
      /\ req[t].login \in Known(t) \cup {None}
  BY SameRequest DEF SignOut
<1>3. tab' = [tab EXCEPT ![t] = tab[t]]
  <2>1. tab \in [Tabs -> TabStates]
    BY DEF IInv, TypeInv
  <2>. QED
    BY <2>1 DEF SignOut
<1>4. PICK S : S = Known(t) \cup {None}
  OBVIOUS
<1>5. PICK k : k = Task(t, "signOut", tab[t].login)
  OBVIOUS
<1>6. k \in Tasks /\ k.tab = t /\ k.kind = "signOut" /\ k.login = tab[t].login
  BY <1>1, <1>5, TabsAssumption DEF Task, Tasks, Kinds, Logins, GoodTab, TabStates, None
<1>7. Joins(t, S)
  BY <1>4, <1>5, <1>6, LoginsKnown DEF Joins, SignOut
<1>8. Stays(t, tab[t].login, S) /\ {tab[t].refreshing, tab[t].first, req[t].login} \subseteq S
  BY <1>4, LoginsKnown DEF Stays
<1>. QED
  BY <1>1, <1>2, <1>3, <1>7, <1>8, SameLeft, TabStep DEF SignOut, stored

LEMMA SameTab ==
    ASSUME IInv, NEW t \in Tabs
    PROVE  tab = [tab EXCEPT ![t] = tab[t]] /\ tab[t] \in TabStates
BY DEF IInv, TypeInv

\* A tab that refreshes as it is, but for its access token, and its request.
LEMMA RefreshInv ==
    ASSUME IInv, NEW t \in Tabs, NEW s, GoodTab(s), Refresh(t, s),
           s.login = tab[t].login, s.login # None,
           s.refreshing = tab[t].refreshing, s.first = tab[t].first,
           NEW q, req' = [req EXCEPT ![t] = q], GoodReq(q), q.login = tab[t].login,
           left' \in [lock : {left.lock}, signIns : {left.signIns}, requests : Nat,
                      closes : Nat, failures : Nat],
           UNCHANGED <<server, stored, job, handed, lease, history>>
    PROVE  IInv'
<1>1. PICK S : S = Known(t) \cup {None}
  OBVIOUS
<1>2. s.login \in S /\ s.refreshing \in S /\ s.first \in S /\ q.login \in S
  BY <1>1, LoginsKnown
<1>3. PICK u : /\ tab' = [tab EXCEPT ![t] = u] /\ GoodTab(u)
               /\ u.login = s.login /\ u.first = s.first
               /\ u.refreshing \in {s.refreshing, s.login}
  BY <1>2, RefreshJoins
<1>4. Joins(t, S)
  BY <1>2, RefreshJoins
<1>5. Stays(t, u.login, S) /\ {u.refreshing, u.first, q.login} \subseteq S
  BY <1>1, <1>2, <1>3 DEF Stays
<1>. QED
  BY <1>3, <1>4, <1>5, TabStep DEF stored, history

\* A tab's request changes, and perhaps its access token.
LEMMA RequestStep ==
    ASSUME IInv, NEW t \in Tabs, NEW s, GoodTab(s), tab' = [tab EXCEPT ![t] = s],
           s.login = tab[t].login,
           s.refreshing = tab[t].refreshing, s.first = tab[t].first,
           NEW q, req' = [req EXCEPT ![t] = q], GoodReq(q),
           q.login \in {None, req[t].login, tab[t].login},
           Joins(t, Known(t) \cup {None}), over \subseteq over',
           left' \in [lock : {left.lock}, signIns : {left.signIns}, requests : Nat,
                      closes : Nat, failures : Nat],
           UNCHANGED <<server, stored, job, handed, lease, last, lost, lapsed, reused>>
    PROVE  IInv'
<1>1. PICK S : S = Known(t) \cup {None}
  OBVIOUS
<1>2. s.login \in S /\ s.refreshing \in S /\ s.first \in S /\ q.login \in S
  BY <1>1, LoginsKnown
<1>3. Stays(t, s.login, S) /\ {s.refreshing, s.first, q.login} \subseteq S
  BY <1>1, <1>2 DEF Stays
<1>4. Joins(t, S)
  BY <1>1
<1>. QED
  BY <1>3, <1>4, TabStep DEF stored

LEMMA NoRequestIs ==
    GoodReq(NoRequest) /\ NoRequest.login = None
BY Bounds, FreshToken DEF NoRequest, Reqs, GoodReq

LEMMA RequestInv ==
    ASSUME IInv, NEW t \in Tabs, Request(t)
    PROVE  IInv'
<1>1. PICK s : s = tab[t]
  OBVIOUS
<1>2. GoodTab(s) /\ s.login # None
  BY <1>1, OpenIsGood DEF Request, Idle, Open
<1>3. left' \in [lock : {left.lock}, signIns : {left.signIns}, requests : Nat,
                 closes : Nat, failures : Nat]
  <2>1. left \in [lock : {"web", "lease"}, signIns : Nat, requests : Nat, closes : Nat,
                  failures : Nat]
    BY DEF IInv, TypeInv
  <2>2. left.requests > 0 /\ left' = [left EXCEPT !.requests = @ - 1]
    BY DEF Request
  <2>. QED
    BY <2>1, <2>2
<1>4. CASE /\ s.access # NoToken
           /\ req' = [req EXCEPT ![t] = [phase |-> "sent", login |-> s.login, token |-> s.access]]
           /\ UNCHANGED <<tab, line>>
  <2>1. PICK q : q = [phase |-> "sent", login |-> s.login, token |-> s.access]
    OBVIOUS
  <2>2. GoodReq(q) /\ q.login = s.login /\ req' = [req EXCEPT ![t] = q]
    BY <1>2, <1>4, <2>1 DEF Reqs, GoodTab, TabStates, GoodReq
  <2>3. tab' = [tab EXCEPT ![t] = s] /\ Joins(t, Known(t) \cup {None})
    BY <1>1, <1>4, SameTab DEF Joins
  <2>. QED
    BY <1>1, <1>2, <1>3, <2>2, <2>3, RequestStep DEF Request, history
<1>5. CASE /\ Refresh(t, s)
           /\ req' = [req EXCEPT ![t] = [phase |-> "asking", login |-> s.login, token |-> NoToken]]
  <2>1. PICK q : q = [phase |-> "asking", login |-> s.login, token |-> NoToken]
    OBVIOUS
  <2>2. GoodReq(q) /\ q.login = s.login /\ req' = [req EXCEPT ![t] = q]
    BY <1>2, <1>5, <2>1, FreshToken DEF Reqs, GoodTab, TabStates, GoodReq
  <2>. QED
    BY <1>1, <1>2, <1>3, <1>5, <2>2, RefreshInv DEF Request
<1>. QED
  BY <1>1, <1>4, <1>5 DEF Request

LEMMA AcceptedInv ==
    ASSUME IInv, NEW t \in Tabs, Accepted(t)
    PROVE  IInv'
<1>1. PICK s : s = tab[t]
  OBVIOUS
<1>2. GoodTab(s)
  BY <1>1, OpenIsGood DEF Accepted, Idle, Open
<1>3. tab' = [tab EXCEPT ![t] = s] /\ Joins(t, Known(t) \cup {None})
  BY <1>1, SameTab DEF Joins, Accepted
<1>4. PICK q : q = NoRequest
  OBVIOUS
<1>5. GoodReq(q) /\ q.login = None /\ req' = [req EXCEPT ![t] = q]
  BY <1>4, NoRequestIs DEF Accepted
<1>. QED
  BY <1>1, <1>2, <1>3, <1>5, SameLeft, RequestStep DEF Accepted, history

LEMMA RefusedInv ==
    ASSUME IInv, NEW t \in Tabs, Refused(t)
    PROVE  IInv'
<1>1. PICK s : s = tab[t]
  OBVIOUS
<1>2. PICK r \in Reqs : r = req[t]
  BY SameRequest DEF GoodReq
<1>3. PICK dropped : dropped = [s EXCEPT !.access = NoToken]
  OBVIOUS
<1>4. GoodTab(s) /\ r.phase = "sent"
  BY <1>1, <1>2, OpenIsGood DEF Refused, Idle, Open
<1>5. /\ GoodTab(dropped) /\ dropped.login = s.login
      /\ dropped.refreshing = s.refreshing /\ dropped.first = s.first
  BY <1>3, <1>4, FreshToken DEF GoodTab, TabStates
<1>6. r.token.login = r.login /\ r.login # None
  BY <1>2, <1>4, SameRequest DEF GoodReq
<1>7. GoodReq(NoRequest) /\ NoRequest.login = None
  BY NoRequestIs
<1>8. CASE s.login # r.login /\ req' = [req EXCEPT ![t] = NoRequest] /\ UNCHANGED <<tab, line>>
  <2>1. tab' = [tab EXCEPT ![t] = s] /\ Joins(t, Known(t) \cup {None})
    BY <1>1, <1>8, SameTab DEF Joins
  <2>. QED
    BY <1>1, <1>4, <1>7, <1>8, <2>1, SameLeft, RequestStep DEF Refused, history
<1>9. CASE /\ s.login = r.login /\ s.access \notin {NoToken, r.token}
           /\ req' = [req EXCEPT ![t].phase = "again", ![t].token = s.access]
           /\ UNCHANGED <<tab, line>>
  <2>1. PICK q : q = [r EXCEPT !.phase = "again", !.token = s.access]
    OBVIOUS
  <2>2. q \in Reqs /\ q.login = r.login /\ q.token = s.access
    BY <1>4, <2>1 DEF Reqs, GoodTab, TabStates
  <2>3. req' = [req EXCEPT ![t] = q]
    <3>1. req \in [Tabs -> Reqs]
      BY DEF IInv, TypeInv
    <3>. QED
      BY <1>2, <1>9, <2>1, <3>1
  <2>4. GoodReq(q)
    BY <1>4, <1>6, <1>9, <2>2 DEF GoodTab, GoodReq
  <2>5. tab' = [tab EXCEPT ![t] = s] /\ Joins(t, Known(t) \cup {None})
    BY <1>1, <1>9, SameTab DEF Joins
  <2>. QED
    BY <1>1, <1>2, <1>4, <2>2, <2>3, <2>4, <2>5, SameLeft, RequestStep DEF Refused, history
<1>10. CASE /\ s.login = r.login
            /\ IF s.access = r.token THEN Refresh(t, dropped) ELSE Refresh(t, s)
            /\ req' = [req EXCEPT ![t].phase = "renewing"]
  <2>1. PICK q : q = [r EXCEPT !.phase = "renewing"]
    OBVIOUS
  <2>2. GoodReq(q) /\ q.login = s.login
    BY <1>6, <1>10, <2>1 DEF Reqs, GoodReq
  <2>3. req' = [req EXCEPT ![t] = q]
    <3>1. req \in [Tabs -> Reqs]
      BY DEF IInv, TypeInv
    <3>. QED
      BY <1>2, <1>10, <2>1, <3>1
  <2>4. UNCHANGED <<server, stored, job, handed, lease, history>> /\ left' = left
    BY DEF Refused
  <2>5. CASE Refresh(t, dropped)
    BY <1>1, <1>5, <1>6, <1>10, <2>2, <2>3, <2>4, <2>5, SameLeft, RefreshInv
  <2>6. CASE Refresh(t, s)
    BY <1>1, <1>4, <1>6, <1>10, <2>2, <2>3, <2>4, <2>6, SameLeft, RefreshInv
  <2>. QED
    BY <1>10, <2>5, <2>6
<1>11. CASE /\ s.login = r.login
            /\ tab' = [tab EXCEPT ![t] = IF s.access = r.token THEN dropped ELSE s]
            /\ req' = [req EXCEPT ![t] = NoRequest]
            /\ UNCHANGED line
  <2>1. PICK u : u = IF s.access = r.token THEN dropped ELSE s
    OBVIOUS
  <2>2. /\ GoodTab(u) /\ u.login = s.login /\ u.refreshing = s.refreshing
        /\ u.first = s.first /\ tab' = [tab EXCEPT ![t] = u]
    BY <1>4, <1>5, <1>11, <2>1
  <2>3. Joins(t, Known(t) \cup {None})
    BY <1>11 DEF Joins
  <2>. QED
    BY <1>1, <1>7, <1>11, <2>2, <2>3, SameLeft, RequestStep DEF Refused, history
<1>. QED
  BY <1>1, <1>2, <1>3, <1>8, <1>9, <1>10, <1>11 DEF Refused

LEMMA RefusedAgainInv ==
    ASSUME IInv, NEW t \in Tabs, RefusedAgain(t)
    PROVE  IInv'
<1>1. PICK s : s = tab[t]
  OBVIOUS
<1>2. PICK r \in Reqs : r = req[t]
  BY SameRequest DEF GoodReq
<1>3. GoodTab(s) /\ GoodReq(r) /\ r.phase = "again"
  BY <1>1, <1>2, OpenIsGood, SameRequest DEF RefusedAgain, Idle, Open
<1>4. PICK q : q = [r EXCEPT !.phase = "ending"]
  OBVIOUS
<1>5. GoodReq(q) /\ q.login = r.login
  BY <1>3, <1>4 DEF GoodReq, Reqs
<1>6. req' = [req EXCEPT ![t] = q]
  <2>1. req \in [Tabs -> Reqs]
    BY DEF IInv, TypeInv
  <2>. QED
    BY <1>2, <1>4, <2>1 DEF RefusedAgain
<1>7. PICK k : k = Task(t, "end", r.login)
  OBVIOUS
<1>8. k \in Tasks /\ k.tab = t /\ k.kind = "end" /\ k.login = r.login
  BY <1>3, <1>7, Bounds DEF Task, Tasks, Kinds, GoodReq, Reqs
<1>9. Joins(t, Known(t) \cup {None})
  BY <1>2, <1>7, <1>8, LoginsKnown DEF Joins, RefusedAgain
<1>10. tab' = [tab EXCEPT ![t] = s]
  BY <1>1, SameTab DEF RefusedAgain
<1>. QED
  BY <1>1, <1>2, <1>3, <1>5, <1>6, <1>9, <1>10, SameLeft, RequestStep DEF RefusedAgain

LEMMA DeliverInv ==
    ASSUME IInv, NEW h \in handed, Deliver(h)
    PROVE  IInv'
<1>1. PICK t : t = h.tab
  OBVIOUS
<1>2. PICK k : k = h.task
  OBVIOUS
<1>3. /\ t \in Tabs /\ k \in Tasks /\ h.token \in Token /\ t \in Open
      /\ h.result = "tokens" => h.token.login = k.login
  BY <1>1, <1>2 DEF IInv, TypeInv, HandedInv, HandedTasks
<1>4. PICK s \in TabStates : s = tab[t]
  BY <1>3, SameTab
<1>5. PICK r \in Reqs : r = req[t]
  BY <1>3, SameRequest DEF GoodReq
<1>6. GoodTab(s) /\ GoodReq(r) /\ t \in Tabs
  BY <1>3, <1>4, <1>5, OpenIsGood, SameRequest DEF Open
<1>7. PICK m : m = Seen(t)
  OBVIOUS
<1>8. m \in Token /\ RealToken(m)
  BY <1>3, <1>7, SeenType
<1>9. PICK a : a = IF k.kind = "refresh" /\ s.refreshing = k.login
                   THEN [s EXCEPT !.refreshing = None] ELSE s
  OBVIOUS
<1>10. GoodTab(a) /\ a.login = s.login /\ a.first = s.first /\ a.refreshing \in {None, s.refreshing}
  BY <1>6, <1>9, Bounds DEF GoodTab, TabStates
<1>11. PICK isFirst : isFirst = (k.kind = "refresh" /\ a.first = k.login)
  OBVIOUS
<1>12. PICK done : done = IF isFirst THEN [a EXCEPT !.first = None] ELSE a
  OBVIOUS
<1>13. /\ GoodTab(done) /\ done.login = s.login /\ done.first \in {None, s.first}
       /\ done.refreshing \in {None, s.refreshing}
  BY <1>10, <1>12, Bounds DEF GoodTab, TabStates
<1>14. PICK u : u = CASE ~isFirst \/ h.result # "unavailable" -> done
                      [] isFirst /\ h.result = "unavailable" /\ IsRecordOf(m, k.login) ->
                           [done EXCEPT !.status = "unavailable", !.login = k.login]
                      [] OTHER -> SwitchTo(done, m)
  OBVIOUS
<1>15. PICK q : q = CASE WaitsFor(r, k) /\ h.result = "tokens" ->
                           [r EXCEPT !.phase = IF @ = "asking" THEN "sent" ELSE "again",
                                     !.token = h.token]
                      [] WaitsFor(r, k) /\ h.result # "tokens" -> NoRequest
                      [] OTHER -> r
  OBVIOUS
<1>16. tab' = [tab EXCEPT ![t] = u]
  BY <1>1, <1>2, <1>3, <1>4, <1>7, <1>9, <1>11, <1>12, <1>14 DEF Deliver
<1>17. req' = [req EXCEPT ![t] = q]
  <2>1. req' = [req EXCEPT ![t] =
           CASE WaitsFor(r, k) /\ h.result = "tokens" ->
                  [r EXCEPT !.phase = IF @ = "asking" THEN "sent" ELSE "again",
                            !.token = h.token]
             [] WaitsFor(r, k) /\ h.result # "tokens" -> NoRequest
             [] OTHER -> r]
    BY <1>1, <1>2, <1>5 DEF Deliver
  <2>. QED
    BY <1>15, <2>1
<1>18. GoodReq(q) /\ q.login \in {None, r.login}
  <2>1. CASE WaitsFor(r, k) /\ h.result = "tokens"
    <3>1. q = [r EXCEPT !.phase = IF @ = "asking" THEN "sent" ELSE "again", !.token = h.token]
      BY <1>15, <2>1
    <3>2. /\ q \in Reqs /\ q.login = r.login /\ q.token = h.token
      BY <1>3, <3>1 DEF Reqs
    <3>3. k.login = r.login /\ r.login # None
      BY <1>3, <2>1, Bounds DEF WaitsFor, Tasks
    <3>. QED
      BY <1>3, <2>1, <3>2, <3>3 DEF GoodReq
  <2>2. CASE WaitsFor(r, k) /\ h.result # "tokens"
    BY <1>15, <2>2, NoRequestIs
  <2>3. CASE ~ WaitsFor(r, k)
    BY <1>6, <1>15, <2>3
  <2>. QED
    BY <2>1, <2>2, <2>3
<1>19. /\ GoodTab(u) /\ u.login \in {s.login, m.login}
       /\ u.first \in {None, s.first} /\ u.refreshing \in {None, s.refreshing}
  <2>1. CASE ~isFirst \/ h.result # "unavailable"
    BY <1>13, <1>14, <2>1
  <2>2. CASE isFirst /\ h.result = "unavailable" /\ IsRecordOf(m, k.login)
    <3>1. u = [done EXCEPT !.status = "unavailable", !.login = k.login]
      BY <1>14, <2>2
    <3>2. m.login = k.login /\ k.login # None /\ k.login \in 0..MaxLogins
      BY <1>3, <2>2, Bounds DEF IsRecordOf, Tasks
    <3>3. k.login = s.login
      <4>1. s.first = k.login
        BY <1>10, <1>11, <2>2
      <4>2. m.login \in Known(t)
        BY <1>4, <3>2, <4>1 DEF Known
      <4>. QED
        BY <1>3, <1>4, <1>7, <3>2, <4>2 DEF IInv, SeenInv
    <3>. QED
      BY <1>13, <3>1, <3>2, <3>3 DEF GoodTab, TabStates
  <2>3. CASE isFirst /\ h.result = "unavailable" /\ ~ IsRecordOf(m, k.login)
    <3>1. u = SwitchTo(done, m)
      BY <1>14, <2>3
    <3>. QED
      BY <1>8, <1>13, <3>1, SwitchGood
  <2>. QED
    BY <2>1, <2>2, <2>3
<1>20. PICK S : S = Known(t) \cup {None}
  OBVIOUS
<1>21. Stays(t, u.login, S) /\ {u.refreshing, u.first, q.login} \subseteq S
  BY <1>3, <1>4, <1>5, <1>7, <1>18, <1>19, <1>20, LoginsKnown DEF Stays
<1>22. Joins(t, S) /\ handed' \subseteq handed
  BY DEF Joins, Deliver
<1>. QED
  BY <1>6, <1>16, <1>17, <1>18, <1>19, <1>21, <1>22, SameLeft, TabStep DEF Deliver, stored, history

-----------------------------------------------------------------------------
(* The start, and a sign-in                                                  *)

LEMMA InitInv == Init => IInv
<1>. SUFFICES ASSUME Init
              PROVE  IInv
  OBVIOUS
<1>1. PICK ll : ll = logins
  OBVIOUS
<1>2. /\ ll \in 0..1 /\ logins = ll /\ last = ll /\ left \in Plans
      /\ session = [l \in Logins |-> [n |-> 1, alive |-> l <= ll]]
      /\ record = IF ll = 0 THEN NoToken ELSE [login |-> 1, n |-> 1]
      /\ before = NoToken /\ behind = {} /\ news = {} /\ line = <<>> /\ handed = {}
      /\ over = {} /\ lost = {} /\ reused = {} /\ lapsed = FALSE /\ lease = "none"
  BY <1>1 DEF Init
<1>3. ll \in 0..MaxLogins /\ 1 \in Logins /\ 1 \in 1..MaxTokens /\ 1 \in 0..MaxTokens
  BY <1>2, Bounds DEF Logins
<1>4. record \in Token /\ RealToken(record) /\ record.login = ll
  BY <1>2, <1>3, FreshToken, Bounds DEF Token, RealToken, None
<1>5. \A l \in Logins : session[l].n = 1
  BY <1>2
<1>6. ClosedTab \in TabStates /\ NoJob \in Jobs /\ NoRequest \in Reqs
  BY FreshToken, Bounds DEF ClosedTab, TabStates, NoJob, Jobs, NoRequest, Reqs
<1>7. \A t \in Tabs : tab[t] = ClosedTab /\ job[t] = NoJob /\ req[t] = NoRequest
  BY DEF Init
<1>8. Open = {}
  BY <1>7 DEF Open, ClosedTab
<1>9. \A t \in Tabs : Known(t) = {} /\ ~ HasTask(t)
  BY <1>2, <1>7, FreshToken DEF Known, ClosedTab, NoJob, NoRequest, HasTask, Has
<1>10. TypeInv
  <2>1. /\ left \in [lock : {"web", "lease"}, signIns : Nat, requests : Nat, closes : Nat,
                     failures : Nat]
        /\ left.signIns < MaxLogins
    BY <1>2, TabsAssumption
  <2>2. logins + left.signIns <= MaxLogins
    BY <1>2, <2>1, Bounds
  <2>3. session \in [Logins -> Sessions]
    BY <1>2, <1>3 DEF Sessions
  <2>4. tab \in [Tabs -> TabStates] /\ job \in [Tabs -> Jobs] /\ req \in [Tabs -> Reqs]
    BY <1>6 DEF Init
  <2>. QED
    BY <1>2, <1>3, <1>4, <2>1, <2>2, <2>3, <2>4, FreshToken DEF TypeInv
<1>11. HandedInv /\ BehindInv /\ OverInv
  BY <1>2, <1>7 DEF HandedInv, BehindInv, OverInv, NoJob
<1>12. LoginInv
  <2>1. ASSUME NEW l \in Logins, Due(l)
        PROVE  Unknown(l)
    <3>1. l > ll /\ l # None
      BY <1>2, <2>1 DEF Due, Logins, None
    <3>2. l \notin {record.login, before.login, last}
      BY <1>2, <1>4, <3>1, FreshToken DEF Logins
    <3>. QED
      BY <1>5, <1>9, <3>2 DEF Unknown
  <2>. QED
    BY <1>2, <2>1 DEF LoginInv
<1>13. TokenInv
  <2>1. record # NoToken => record.n = 1 /\ record.login \in Logins
    BY <1>2, <1>3
  <2>. QED
    BY <1>5, <1>7, <2>1 DEF TokenInv, NoJob, Doing
<1>14. LockInv
  <2>1. record # NoToken => record.n = 1 /\ record.login \in Logins
    BY <1>2, <1>3
  <2>. QED
    BY <1>5, <1>7, <2>1 DEF LockInv, NoJob, Doing
<1>15. SpentOnlyAfterLoss
  BY <1>2 DEF SpentOnlyAfterLoss
<1>16. ASSUME NEW t \in Tabs
       PROVE  TabInv(t) /\ JobInv(t) /\ SeenInv(t)
  <2>1. TabInv(t)
    <3>1. ClosedTab.access = NoToken /\ NoRequest.phase = "none"
      BY DEF ClosedTab, NoRequest
    <3>2. t \notin Open
      BY <1>8
    <3>. QED
      BY <1>7, <1>9, <3>1, <3>2 DEF TabInv
  <2>2. JobInv(t)
    BY <1>7 DEF JobInv, NoJob, Doing
  <2>3. SeenInv(t)
    BY <1>2, <1>9 DEF SeenInv
  <2>. QED
    BY <2>1, <2>2, <2>3
<1>. QED
  BY <1>10, <1>11, <1>12, <1>13, <1>14, <1>15, <1>16 DEF IInv

LEMMA SignInInv ==
    ASSUME IInv, NEW t \in Tabs, SignIn(t)
    PROVE  IInv'
<1>1. TypeInv /\ HandedInv /\ BehindInv /\ LoginInv /\ TokenInv /\ OverInv /\ LockInv
  BY DEF IInv
<1>2. \A u \in Tabs : TabInv(u) /\ JobInv(u) /\ SeenInv(u)
  BY DEF IInv
<1>3. /\ UNCHANGED <<record, before, behind, news, tab, job, handed, req, lease,
                     last, over, lost, lapsed, reused>>
      /\ logins' = logins + 1 /\ line' = Append(line, Task(t, "signIn", logins + 1))
  BY DEF SignIn, stored, history
<1>4. /\ left' \in [lock : {"web", "lease"}, signIns : Nat, requests : Nat, closes : Nat,
                    failures : Nat]
      /\ left'.lock = left.lock /\ left'.signIns = left.signIns - 1 /\ left.signIns > 0
      /\ left.signIns \in Nat /\ logins \in Nat /\ logins + left.signIns <= MaxLogins
  <2>1. left \in [lock : {"web", "lease"}, signIns : Nat, requests : Nat, closes : Nat,
                  failures : Nat]
    BY <1>1 DEF TypeInv
  <2>2. left.signIns > 0 /\ left' = [left EXCEPT !.signIns = @ - 1]
    BY DEF SignIn
  <2>3. logins \in Nat /\ logins + left.signIns <= MaxLogins
    BY <1>1, Bounds DEF TypeInv
  <2>. QED
    BY <2>1, <2>2, <2>3
<1>5. logins + 1 \in Logins /\ logins + 1 \in 0..MaxLogins
  BY <1>4, Bounds DEF Logins
<1>6. session' \in [Logins -> Sessions] /\ \A l \in Logins : session'[l].n = session[l].n
  BY <1>1, <1>5 DEF SignIn, TypeInv, Sessions
<1>7. PICK k : k = Task(t, "signIn", logins + 1)
  OBVIOUS
<1>8. k \in Tasks /\ k.tab = t /\ k.kind = "signIn" /\ k.login = logins + 1
  BY <1>5, <1>7 DEF Task, Tasks, Kinds
<1>9. /\ line' \in Seq(Tasks) /\ line \in Seq(Tasks)
      /\ \A i \in DOMAIN line : i \in DOMAIN line' /\ line'[i] = line[i]
      /\ \A i \in DOMAIN line' : i \in DOMAIN line \/ i = Len(line) + 1
      /\ line'[Len(line) + 1] = k
      /\ \A u : HasTask(u) => HasTask(u)' /\ FirstTask(u)' = FirstTask(u)
      /\ \A u : u # t /\ ~ HasTask(u) => ~ HasTask(u)'
  <2>1. PICK q : q = line
    OBVIOUS
  <2>2. PICK r : r = line'
    OBVIOUS
  <2>3. q \in Seq(Tasks) /\ r = Append(q, k)
    BY <1>1, <1>3, <1>7, <2>1, <2>2 DEF TypeInv
  <2>4. LongerBy(r, q, k)
    BY <1>8, <2>3, Appended
  <2>. QED
    BY <1>8, <2>1, <2>2, <2>3, <2>4 DEF HasTask, FirstTask, LongerBy
<1>10. t \in Open /\ \A u \in Tabs : u \in Open' <=> u \in Open
  BY <1>3 DEF Open, SignIn, Idle
<1>11. \A u \in Tabs : Known(u)' \subseteq Known(u)
  BY <1>3, <1>8, <1>9 DEF Known
<1>12. \A u \in Tabs : Seen(u)' = Seen(u)
  BY <1>3 DEF Seen
<1>13. TypeInv'
  <2>1. logins' + left'.signIns <= MaxLogins
    <3>1. PICK n \in Nat : n = left.signIns
      BY <1>4
    <3>2. logins' = logins + 1 /\ left'.signIns = n - 1 /\ logins + n <= MaxLogins
      BY <1>3, <1>4, <3>1
    <3>. QED
      BY <1>4, <3>2, Bounds
  <2>. QED
    BY <1>1, <1>3, <1>4, <1>5, <1>6, <1>9, <2>1 DEF TypeInv, Open
<1>14. HandedInv' /\ BehindInv'
  BY <1>1, <1>3, <1>4 DEF HandedInv, BehindInv, Open
<1>15. \A u \in Tabs : TabInv(u)'
  BY <1>2, <1>3, <1>9, <1>10 DEF TabInv
<1>16. ASSUME NEW u \in Tabs
       PROVE  JobInv(u)'
  <2>1. CASE job[u].phase = "none"
    BY <1>2, <1>3, <1>4, <2>1 DEF JobInv, Doing
  <2>2. CASE job[u].phase # "none"
    <3>1. HasTask(u) /\ HasTask(u)' /\ FirstTask(u)' = FirstTask(u)
      BY <1>2, <1>9, <2>2 DEF JobInv
    <3>2. line'[1] = line[1]
      <4>1. \E i : i \in DOMAIN line
        BY <3>1 DEF HasTask, Has
      <4>2. 1 \in DOMAIN line
        BY <1>9, <4>1
      <4>. QED
        BY <1>9, <4>2
    <3>. QED
      BY <1>2, <1>3, <1>4, <2>2, <3>1, <3>2 DEF JobInv, Doing
  <2>. QED
    BY <2>1, <2>2
<1>17. LoginInv'
  <2>1. ASSUME NEW l \in Logins, Due(l)'
        PROVE  Unknown(l)'
    <3>1. Due(l)
      <4>1. CASE l > logins
        BY <4>1 DEF Due
      <4>2. CASE ~ (l > logins)
        <5>1. ~ (l > logins')
          BY <1>3, <1>4, <4>2 DEF Logins
        <5>2. PICK i \in DOMAIN line' : line'[i].kind = "signIn" /\ line'[i].login = l /\ ~ Through(i)'
          BY <2>1, <5>1 DEF Due
        <5>3. i \in DOMAIN line /\ line'[i] = line[i]
          BY <1>4, <1>8, <1>9, <4>2, <5>2 DEF Logins
        <5>4. ~ Through(i)
          BY <1>3, <1>4, <5>2, <5>3 DEF Through
        <5>. QED
          BY <5>2, <5>3, <5>4 DEF Due
      <4>. QED
        BY <4>1, <4>2
    <3>2. Unknown(l)
      BY <1>1, <3>1 DEF LoginInv
    <3>. QED
      BY <1>3, <1>6, <1>11, <3>2 DEF Unknown
  <2>2. \A i \in DOMAIN line : line[i].kind = "signIn" => line[i].login \in Nat /\ line[i].login <= logins
    <3>1. ASSUME NEW i \in DOMAIN line
          PROVE  line[i].login \in Nat
      <4>1. line[i] \in Tasks
        BY <1>9
      <4>. QED
        BY <4>1, Bounds DEF Tasks, Logins
    <3>. QED
      BY <1>1, <3>1 DEF LoginInv
  <2>3. \A i, j \in DOMAIN line' :
           i # j /\ line'[i].kind = "signIn" /\ line'[j].kind = "signIn" => line'[i].login # line'[j].login
    <3>1. SUFFICES ASSUME NEW i \in DOMAIN line', NEW j \in DOMAIN line', i # j,
                          line'[i].kind = "signIn", line'[j].kind = "signIn"
                   PROVE  line'[i].login # line'[j].login
      OBVIOUS
    <3>2. CASE i \in DOMAIN line /\ j \in DOMAIN line
      BY <1>1, <1>9, <3>1, <3>2 DEF LoginInv
    <3>3. CASE i \in DOMAIN line /\ j \notin DOMAIN line
      BY <1>4, <1>8, <1>9, <2>2, <3>1, <3>3
    <3>4. CASE i \notin DOMAIN line /\ j \in DOMAIN line
      BY <1>4, <1>8, <1>9, <2>2, <3>1, <3>4
    <3>5. CASE i \notin DOMAIN line /\ j \notin DOMAIN line
      BY <1>9, <3>1, <3>5
    <3>. QED
      BY <3>2, <3>3, <3>4, <3>5
  <2>4. \A i \in DOMAIN line' : line'[i].kind = "signIn" => line'[i].login <= logins'
    BY <1>3, <1>4, <1>8, <1>9, <2>2
  <2>. QED
    BY <2>1, <2>3, <2>4 DEF LoginInv
<1>18. \A u \in Tabs : SeenInv(u)'
  BY <1>2, <1>3, <1>11, <1>12 DEF SeenInv
<1>19. TokenInv'
  <2>1. /\ record # NoToken => record.login \in Logins
        /\ \A u \in Tabs : Doing(u) => job[u].sent.login \in Logins
    BY <1>1, <1>2, FreshToken DEF TypeInv, RealToken, JobInv
  <2>2. \A u \in Tabs : job[u].answer = "tokens" => Doing(u)
    BY <1>2 DEF JobInv, Doing
  <2>. QED
    BY <1>1, <1>3, <1>6, <2>1, <2>2 DEF TokenInv, Doing
<1>20. OverInv'
  BY <1>1, <1>3, <1>8, <1>9 DEF OverInv
<1>21. LockInv'
  <2>1. record # NoToken => record.login \in Logins
    BY <1>1 DEF TypeInv, RealToken
  <2>. QED
    BY <1>1, <1>3, <1>4, <1>6, <2>1 DEF LockInv, Doing
<1>22. SpentOnlyAfterLoss'
  BY <1>3 DEF IInv, SpentOnlyAfterLoss
<1>. QED
  BY <1>13, <1>14, <1>15, <1>16, <1>17, <1>18, <1>19, <1>20, <1>21, <1>22 DEF IInv

-----------------------------------------------------------------------------
(* The lease, and the requests to the server                                 *)

\* What holds of every job that does not settle, and of the lock and the
\* tokens only in part: each action shows the rest of itself.
Rest(t) == JobInv(t) /\ TokenInv /\ LockInv /\ SpentOnlyAfterLoss
           /\ \A u \in Tabs : job[u].answer = "unauthorized" => job[u].sent.login \in over

LEMMA JobStep ==
    ASSUME IInv, NEW t \in Tabs, HasTask(t),
           NEW j \in Jobs, job' = [job EXCEPT ![t] = j],
           job[t].phase # "settled", j.phase # "settled",
           j.sent.login \in Known(t) \cup {None},
           lease' \in Tabs \cup {"none", "gone"},
           session' \in [Logins -> Sessions],
           \A l \in Logins : Due(l) => session'[l].n = 1,
           over \subseteq over',
           left' \in [lock : {left.lock}, signIns : {left.signIns}, requests : Nat,
                      closes : Nat, failures : Nat],
           UNCHANGED <<logins, stored, tab, line, handed, req, last>>,
           Rest(t)'
    PROVE  IInv'
<1>1. TypeInv /\ HandedInv /\ BehindInv /\ LoginInv /\ OverInv
  BY DEF IInv
<1>2. \A u \in Tabs : TabInv(u) /\ JobInv(u) /\ SeenInv(u)
  BY DEF IInv
<1>3. UNCHANGED <<record, before, behind, news, logins, tab, line, handed, req, last>>
  BY DEF stored
<1>4. left'.lock = left.lock /\ left'.signIns = left.signIns
  OBVIOUS
<1>5. job'[t] = j /\ \A u \in Tabs \ {t} : job'[u] = job[u]
  BY <1>1 DEF TypeInv
<1>6. \A u : HasTask(u)' = HasTask(u) /\ FirstTask(u)' = FirstTask(u)
  BY <1>3 DEF HasTask, FirstTask
<1>7. Open' = Open
  BY <1>3 DEF Open
<1>8. \A u \in Tabs : Known(u)' \subseteq Known(u)
  <2>1. ASSUME NEW u \in Tabs \ {t}
        PROVE  Known(u)' \subseteq Known(u)
    BY <1>3, <1>5, <2>1 DEF Known
  <2>2. Known(t)' \subseteq Known(t)
    <3>1. Known(t)' = ({tab[t].login, tab[t].refreshing, tab[t].first, req[t].login, j.sent.login}
             \cup {line[i].login : i \in {k \in DOMAIN line : line[k].tab = t /\ line[k].kind # "signIn"}}
             \cup {h.task.login : h \in {k \in handed : k.tab = t /\ k.task.kind # "signIn"}}) \ {None}
      BY <1>3, <1>5 DEF Known
    <3>. QED
      BY <3>1 DEF Known
  <2>. QED
    BY <2>1, <2>2
<1>9. TypeInv'
  <2>1. logins' + left'.signIns <= MaxLogins
    BY <1>1, <1>3, <1>4 DEF TypeInv
  <2>2. left' \in [lock : {"web", "lease"}, signIns : Nat, requests : Nat, closes : Nat,
                   failures : Nat]
    BY <1>1 DEF TypeInv
  <2>3. job' \in [Tabs -> Jobs]
    BY <1>1 DEF TypeInv
  <2>. QED
    BY <1>1, <1>3, <1>7, <2>1, <2>2, <2>3 DEF TypeInv
<1>10. HandedInv'
  BY <1>1, <1>3, <1>7 DEF HandedInv
<1>11. BehindInv'
  BY <1>1, <1>3, <1>4, <1>5 DEF BehindInv
<1>12. \A u \in Tabs : TabInv(u)'
  BY <1>2, <1>3, <1>5, <1>6, <1>7 DEF TabInv
<1>13. ASSUME NEW u \in Tabs \ {t}
       PROVE  JobInv(u)'
  BY <1>2, <1>3, <1>4, <1>5, <1>6 DEF JobInv, Doing
<1>14. LoginInv'
  <2>1. ASSUME NEW l \in Logins, Due(l)'
        PROVE  Unknown(l)'
    <3>1. Due(l)
      <4>1. CASE l > logins
        BY <4>1 DEF Due
      <4>2. CASE ~ (l > logins)
        <5>1. PICK i \in DOMAIN line : line[i].kind = "signIn" /\ line[i].login = l /\ ~ Through(i)'
          BY <1>3, <2>1, <4>2 DEF Due
        <5>2. line[i].tab \in Tabs
          <6>1. line[i] \in Tasks
            BY <1>1 DEF TypeInv
          <6>. QED
            BY <6>1 DEF Tasks
        <5>3. ~ Through(i)
          BY <1>3, <1>4, <1>5, <5>1, <5>2 DEF Through
        <5>. QED
          BY <5>1, <5>3 DEF Due
      <4>. QED
        BY <4>1, <4>2
    <3>2. Unknown(l)
      BY <1>1, <3>1 DEF LoginInv
    <3>. QED
      BY <1>3, <1>8, <3>1, <3>2 DEF Unknown
  <2>. QED
    BY <1>1, <1>3, <2>1 DEF LoginInv
<1>15. \A u \in Tabs : SeenInv(u)'
  BY <1>2, <1>3, <1>8 DEF SeenInv, Seen
<1>16. OverInv'
  BY <1>1, <1>3 DEF OverInv, Rest
<1>17. \A u \in Tabs : JobInv(u)'
  BY <1>13 DEF Rest
<1>18. TokenInv' /\ LockInv' /\ SpentOnlyAfterLoss'
  BY DEF Rest
<1>. QED
  BY <1>9, <1>10, <1>11, <1>12, <1>14, <1>15, <1>16, <1>17, <1>18 DEF IInv

\* The sessions a job is about are known.
LEMMA NotDue ==
    ASSUME IInv, NEW t \in Tabs, NEW l \in Known(t), l \in Logins
    PROVE  ~ Due(l)
BY DEF IInv, LoginInv, Unknown

LEMMA DueFresh ==
    ASSUME IInv
    PROVE  \A l \in Logins : Due(l) => session[l].n = 1
BY DEF IInv, LoginInv, Unknown

LEMMA IdleJobIs ==
    ASSUME IInv, NEW t \in Tabs, job[t].phase \in {"none", "taking", "settling"}
    PROVE  /\ job[t] \in Jobs /\ job[t].sent = NoToken /\ job[t].answer = "none"
           /\ job[t].result = "none" /\ job[t] = [NoJob EXCEPT !.phase = job[t].phase]
           /\ job[t].sent.login = None
<1>1. job[t] = [NoJob EXCEPT !.phase = job[t].phase] /\ job[t] \in Jobs
  BY DEF IInv, JobInv, TypeInv
<1>2. [NoJob EXCEPT !.phase = job[t].phase] =
         [phase |-> job[t].phase, sent |-> NoToken, answer |-> "none", result |-> "none"]
  BY DEF NoJob
<1>. QED
  BY <1>1, <1>2, FreshToken

\* A job that does nothing yet goes on to do nothing.
LEMMA WaitStep ==
    ASSUME IInv, NEW t \in Tabs, HasTask(t), left.lock = "lease",
           job[t].phase \in {"none", "taking", "settling"},
           NEW p \in {"none", "taking", "settling"},
           job' = [job EXCEPT ![t].phase = p],
           lease' \in Tabs \cup {"none", "gone"},
           p = "taking" \/ lease' # lease => lapsed \/ \A u \in Tabs : ~ Doing(u),
           UNCHANGED <<server, stored, tab, line, handed, req, left, history>>
    PROVE  IInv'
<1>1. /\ job[t] \in Jobs /\ job[t].sent = NoToken /\ job[t].answer = "none"
      /\ job[t].result = "none" /\ job[t] = [NoJob EXCEPT !.phase = job[t].phase]
      /\ job[t].sent.login = None
  BY IdleJobIs
<1>2. TypeInv /\ TokenInv /\ OverInv /\ LockInv /\ SpentOnlyAfterLoss /\ JobInv(t)
  BY DEF IInv
<1>3. PICK j : j = [NoJob EXCEPT !.phase = p]
  OBVIOUS
<1>4. /\ j = [phase |-> p, sent |-> NoToken, answer |-> "none", result |-> "none"]
      /\ j \in Jobs /\ j.phase = p /\ j.sent = NoToken /\ j.answer = "none"
      /\ j.sent.login = None
  BY <1>3, FreshToken DEF NoJob, Jobs
<1>5. job' = [job EXCEPT ![t] = j]
  <2>1. [job[t] EXCEPT !.phase = p] = j
    BY <1>1, <1>3 DEF NoJob
  <2>2. job \in [Tabs -> Jobs]
    BY <1>2 DEF TypeInv
  <2>. QED
    BY <2>1, <2>2
<1>6. job'[t] = j /\ \A u \in Tabs \ {t} : job'[u] = job[u]
  BY <1>2, <1>5 DEF TypeInv
<1>7. /\ UNCHANGED <<session, logins, record, tab, line, handed, req, left,
                     last, over, lost, lapsed, reused>>
      /\ \A u : HasTask(u)' = HasTask(u) /\ FirstTask(u)' = FirstTask(u)
  BY DEF server, stored, history, HasTask, FirstTask
<1>8. ~ Doing(t) /\ ~ Doing(t)' /\ \A u \in Tabs : Doing(u)' = Doing(u)
  BY <1>4, <1>6 DEF Doing
<1>9. JobInv(t)'
  BY <1>3, <1>4, <1>6, <1>7 DEF JobInv, Doing
<1>10. TokenInv'
  BY <1>1, <1>2, <1>4, <1>6, <1>7, <1>8 DEF TokenInv
<1>11. \A u \in Tabs : job'[u].answer = job[u].answer /\ job'[u].sent = job[u].sent
  BY <1>1, <1>4, <1>6
<1>12. LockInv'
  <2>1. SUFFICES ASSUME ~ lapsed
                 PROVE  /\ \A u \in Tabs : Doing(u) =>
                            /\ job[u].sent = record
                            /\ lease' = u /\ \A v \in Tabs \ {u} : job'[v].phase # "taking"
                        /\ record # NoToken /\ record.login \notin lost =>
                            \/ session[record.login].n = record.n
                            \/ \E u \in Tabs : job[u].answer = "tokens"
    BY <1>7, <1>8, <1>11 DEF LockInv
  <2>2. ASSUME NEW u \in Tabs, Doing(u)
        PROVE  /\ job[u].sent = record
               /\ lease' = u /\ \A v \in Tabs \ {u} : job'[v].phase # "taking"
    <3>1. p # "taking" /\ lease' = lease
      BY <2>1, <2>2
    <3>2. job[u].sent = record /\ lease = u /\ \A v \in Tabs \ {u} : job[v].phase # "taking"
      BY <1>2, <2>1, <2>2 DEF LockInv
    <3>. QED
      BY <1>4, <1>6, <3>1, <3>2
  <2>. QED
    BY <1>2, <2>1, <2>2 DEF LockInv
<1>13. \A u \in Tabs : job'[u].answer = "unauthorized" => job'[u].sent.login \in over'
  BY <1>2, <1>7, <1>11 DEF OverInv
<1>14. SpentOnlyAfterLoss'
  BY <1>2, <1>7 DEF SpentOnlyAfterLoss
<1>15. Rest(t)'
  BY <1>9, <1>10, <1>12, <1>13, <1>14 DEF Rest
<1>16. session' \in [Logins -> Sessions] /\ \A l \in Logins : Due(l) => session'[l].n = 1
  BY <1>2, <1>7, DueFresh DEF TypeInv
<1>17. job[t].phase # "settled" /\ j.phase # "settled"
  BY <1>4
<1>. QED
  BY <1>4, <1>5, <1>7, <1>15, <1>16, <1>17, SameLeft, JobStep DEF history

\* As long as the lease keeps others out, it is that of the job that is on.
LEMMA LeaseOfTheJob ==
    ASSUME IInv, ~ lapsed, left.lock = "lease", NEW u \in Tabs, Doing(u)
    PROVE  lease = u /\ \A v \in Tabs \ {u} : job[v].phase # "taking"
BY DEF IInv, LockInv

LEMMA ReadLeaseInv ==
    ASSUME IInv, NEW t \in Tabs, ReadLease(t)
    PROVE  IInv'
<1>1. /\ left.lock = "lease" /\ HasTask(t) /\ job[t].phase = "none" /\ lease \in {"none", t}
      /\ job' = [job EXCEPT ![t].phase = "taking"] /\ lease' = lease
      /\ UNCHANGED <<server, stored, tab, line, handed, req, left, history>>
  BY DEF ReadLease
<1>2. lease' \in Tabs \cup {"none", "gone"}
  BY <1>1
<1>3. ASSUME ~ lapsed, NEW u \in Tabs, Doing(u)
      PROVE  FALSE
  <2>1. lease = u /\ u # t
    BY <1>1, <1>3, LeaseOfTheJob DEF Doing
  <2>. QED
    BY <1>1, <2>1, TabsAssumption
<1>. QED
  BY <1>1, <1>2, <1>3, WaitStep

LEMMA WriteLeaseInv ==
    ASSUME IInv, NEW t \in Tabs, WriteLease(t)
    PROVE  IInv'
<1>1. /\ job[t].phase = "taking" /\ lease' = t /\ job' = [job EXCEPT ![t].phase = "settling"]
      /\ UNCHANGED <<server, stored, tab, line, handed, req, left, history>>
  BY DEF WriteLease
<1>2. left.lock = "lease" /\ HasTask(t)
  BY <1>1 DEF IInv, TypeInv, JobInv
<1>3. ASSUME ~ lapsed, NEW u \in Tabs, Doing(u)
      PROVE  FALSE
  BY <1>1, <1>2, <1>3, LeaseOfTheJob DEF Doing
<1>. QED
  BY <1>1, <1>2, <1>3, WaitStep

LEMMA LeaseLostInv ==
    ASSUME IInv, NEW t \in Tabs, LeaseLost(t)
    PROVE  IInv'
<1>1. /\ job[t].phase = "settling" /\ lease' = lease /\ job' = [job EXCEPT ![t].phase = "none"]
      /\ UNCHANGED <<server, stored, tab, line, handed, req, left, history>>
  BY DEF LeaseLost
<1>2. left.lock = "lease" /\ HasTask(t) /\ lease' \in Tabs \cup {"none", "gone"}
  BY <1>1 DEF IInv, TypeInv, JobInv
<1>. QED
  BY <1>1, <1>2, WaitStep

LEMMA LeaseEndsInv ==
    ASSUME IInv, LeaseEnds
    PROVE  IInv'
<1>1. TypeInv /\ HandedInv /\ BehindInv /\ LoginInv /\ TokenInv /\ OverInv /\ LockInv
  BY DEF IInv
<1>2. \A u \in Tabs : TabInv(u) /\ JobInv(u) /\ SeenInv(u)
  BY DEF IInv
<1>3. /\ UNCHANGED <<session, logins, record, before, behind, news, tab, line, job, handed,
                     req, last, over, lost, reused>>
      /\ lease' = "none" /\ lapsed' = (lapsed \/ lease # "gone")
  BY DEF LeaseEnds, server, stored
<1>4. /\ left' \in [lock : {"web", "lease"}, signIns : Nat, requests : Nat, closes : Nat,
                    failures : Nat]
      /\ left'.lock = left.lock /\ left'.signIns = left.signIns
  <2>1. left \in [lock : {"web", "lease"}, signIns : Nat, requests : Nat, closes : Nat,
                  failures : Nat]
    BY <1>1 DEF TypeInv
  <2>. QED
    BY <2>1 DEF LeaseEnds, Fail
<1>5. \A u : HasTask(u)' = HasTask(u) /\ FirstTask(u)' = FirstTask(u)
  BY <1>3 DEF HasTask, FirstTask
<1>6. \A u \in Tabs : Doing(u)' = Doing(u) /\ Known(u)' = Known(u) /\ Seen(u)' = Seen(u)
  BY <1>3 DEF Doing, Known, Seen
<1>7. TypeInv'
  BY <1>1, <1>3, <1>4 DEF TypeInv, Open
<1>8. HandedInv' /\ BehindInv' /\ TokenInv' /\ OverInv'
  BY <1>1, <1>3, <1>4, <1>6 DEF HandedInv, BehindInv, TokenInv, OverInv, Open
<1>9. LoginInv'
  BY <1>1, <1>3, <1>4, <1>6 DEF LoginInv, Due, Through, Unknown
<1>10. LockInv'
  <2>1. SUFFICES ASSUME ~ lapsed, lease = "gone"
                 PROVE  LockInv'
    BY <1>3 DEF LockInv
  <2>2. ASSUME NEW u \in Tabs, Doing(u)
        PROVE  job[u].sent = record /\ left.lock # "lease"
    BY <1>1, <2>1, <2>2, TabsAssumption DEF LockInv
  <2>. QED
    BY <1>1, <1>3, <1>4, <1>6, <2>1, <2>2 DEF LockInv
<1>11. \A u \in Tabs : TabInv(u)' /\ JobInv(u)' /\ SeenInv(u)'
  <2>1. \A u \in Tabs : TabInv(u)'
    BY <1>2, <1>3, <1>5 DEF TabInv, Open
  <2>2. \A u \in Tabs : JobInv(u)'
    BY <1>2, <1>3, <1>4, <1>5, <1>6 DEF JobInv
  <2>3. \A u \in Tabs : SeenInv(u)'
    BY <1>2, <1>3, <1>6 DEF SeenInv
  <2>. QED
    BY <2>1, <2>2, <2>3
<1>12. SpentOnlyAfterLoss'
  BY <1>3 DEF IInv, SpentOnlyAfterLoss
<1>. QED
  BY <1>7, <1>8, <1>9, <1>10, <1>11, <1>12 DEF IInv

LEMMA JobIs ==
    ASSUME IInv, NEW t \in Tabs
    PROVE  job[t] \in Jobs /\ job = [job EXCEPT ![t] = job[t]]
BY DEF IInv, TypeInv

\* What is known of a job that has sent a token.
LEMMA SentIs ==
    ASSUME IInv, NEW t \in Tabs, Doing(t)
    PROVE  /\ HasTask(t) /\ FirstTask(t).kind \in {"refresh", "signOut"}
           /\ job[t].sent \in Token /\ job[t].sent # NoToken
           /\ job[t].sent.login \in Logins /\ job[t].sent.n \in 1..MaxTokens
           /\ job[t].sent.login = FirstTask(t).login
           /\ job[t].sent.login \in Known(t) /\ job[t].result = "none"
           /\ job[t].phase # "settled" /\ job[t].phase # "none" /\ job[t].phase # "taking"
           /\ left.lock = "web" => line[1].tab = t
<1>1. JobInv(t) /\ job[t] \in Jobs
  BY JobIs DEF IInv
<1>2. job[t].phase # "settled" /\ job[t].phase # "none" /\ job[t].phase # "taking"
  BY DEF Doing
<1>3. /\ HasTask(t) /\ FirstTask(t).kind \in {"refresh", "signOut"}
      /\ job[t].sent # NoToken /\ RealToken(job[t].sent)
      /\ job[t].sent.login = FirstTask(t).login /\ job[t].result = "none"
      /\ left.lock = "web" => line[1].tab = t
  BY <1>1, <1>2 DEF JobInv
<1>4. job[t].sent.login \in Logins /\ job[t].sent.n \in 1..MaxTokens
  BY <1>3 DEF RealToken
<1>. QED
  BY <1>1, <1>2, <1>3, <1>4, Bounds DEF Known, Jobs

\* Tokens that are not kept yet are those of a job that is on.
LEMMA TokensAreOfADoer ==
    ASSUME IInv, NEW t \in Tabs, job[t].answer # "none"
    PROVE  Doing(t)
BY DEF IInv, JobInv, Doing

\* As long as the lock keeps others out, one job at a time is on.
LEMMA OneDoes ==
    ASSUME IInv, ~ lapsed, NEW t \in Tabs, NEW u \in Tabs, Doing(t), Doing(u)
    PROVE  t = u
<1>1. CASE left.lock = "web"
  BY <1>1, SentIs
<1>2. CASE left.lock = "lease"
  BY <1>2, LeaseOfTheJob
<1>. QED
  BY <1>1, <1>2 DEF IInv, TypeInv

LEMMA AnswerJob ==
    ASSUME IInv, NEW t \in Tabs, NEW a \in {"tokens", "done", "unauthorized", "unavailable"},
           Answer(t, a)
    PROVE  \E j \in Jobs :
              /\ job' = [job EXCEPT ![t] = j] /\ job'[t] = j
              /\ \A u \in Tabs \ {t} : job'[u] = job[u]
              /\ j.phase = "answered" /\ j.sent = job[t].sent /\ j.answer = a
              /\ j.result = job[t].result
<1>1. PICK j0 \in Jobs : j0 = job[t]
  BY JobIs
<1>2. PICK j : j = [j0 EXCEPT !.phase = "answered", !.answer = a]
  OBVIOUS
<1>3. j \in Jobs /\ j.phase = "answered" /\ j.sent = j0.sent /\ j.answer = a /\ j.result = j0.result
  BY <1>2 DEF Jobs
<1>4. job \in [Tabs -> Jobs]
  BY DEF IInv, TypeInv
<1>5. job' = [job EXCEPT ![t] = j]
  BY <1>1, <1>2, <1>4 DEF Answer
<1>6. job'[t] = j /\ \A u \in Tabs \ {t} : job'[u] = job[u]
  BY <1>4, <1>5
<1>. QED
  BY <1>1, <1>3, <1>5, <1>6

\* A request is answered, and the session goes on with it, to its next token
\* or not.
LEMMA AnswerStep ==
    ASSUME IInv, NEW t \in Tabs, job[t].phase = "calling", NEW a,
           Answer(t, a),
           FirstTask(t).kind = "refresh" => a \in {"tokens", "unauthorized", "unavailable"},
           FirstTask(t).kind # "refresh" => a \in {"done", "unavailable"},
           session' \in [Logins -> Sessions],
           \A l \in Logins : l # job[t].sent.login => session'[l].n = session[l].n,
           \/ a # "tokens" /\ session'[job[t].sent.login].n = session[job[t].sent.login].n
           \/ /\ a = "tokens" /\ job[t].sent.n = session[job[t].sent.login].n
              /\ session'[job[t].sent.login].n = job[t].sent.n + 1,
           over \subseteq over', a = "unauthorized" => job[t].sent.login \in over',
           lapsed \/ reused' \subseteq lost,
           left' \in [lock : {left.lock}, signIns : {left.signIns}, requests : Nat,
                      closes : Nat, failures : Nat],
           UNCHANGED <<logins, stored, tab, line, handed, req, lease, last, lost, lapsed>>
    PROVE  IInv'
<1>1. PICK s : s = job[t].sent
  OBVIOUS
<1>2. PICK login, n : login = s.login /\ n = s.n
  OBVIOUS
<1>3. Doing(t)
  BY DEF Doing
<1>4. /\ HasTask(t) /\ FirstTask(t).kind \in {"refresh", "signOut"} /\ s \in Token /\ s # NoToken
      /\ login \in Logins /\ n \in 1..MaxTokens /\ login = FirstTask(t).login /\ login \in Known(t)
      /\ job[t].result = "none" /\ job[t].phase # "settled"
      /\ left.lock = "web" => line[1].tab = t
  BY <1>1, <1>2, <1>3, SentIs
<1>5. PICK j \in Jobs :
         /\ job' = [job EXCEPT ![t] = j] /\ job'[t] = j
         /\ \A u \in Tabs \ {t} : job'[u] = job[u]
         /\ j.phase = "answered" /\ j.sent = s /\ j.answer = a /\ j.result = "none"
  <2>1. a \in {"tokens", "done", "unauthorized", "unavailable"}
    OBVIOUS
  <2>2. PICK j \in Jobs :
           /\ job' = [job EXCEPT ![t] = j] /\ job'[t] = j
           /\ \A u \in Tabs \ {t} : job'[u] = job[u]
           /\ j.phase = "answered" /\ j.sent = job[t].sent /\ j.answer = a
           /\ j.result = job[t].result
    BY <2>1, AnswerJob, Zenon
  <2>. QED
    BY <1>1, <1>4, <2>2
<1>6. job' = [job EXCEPT ![t] = j]
  BY <1>5
<1>7. job'[t] = j /\ \A u \in Tabs \ {t} : job'[u] = job[u]
  BY <1>5
<1>8. /\ UNCHANGED <<record, tab, line, handed, req, lease, lapsed, lost>>
      /\ \A u : HasTask(u)' = HasTask(u) /\ FirstTask(u)' = FirstTask(u)
      /\ left'.lock = left.lock
  BY DEF stored, HasTask, FirstTask
<1>9. \A u \in Tabs : Doing(u)' = Doing(u) /\ job'[u].sent = job[u].sent
  <2>1. Doing(t)' /\ job'[t].sent = job[t].sent
    BY <1>1, <1>5 DEF Doing
  <2>2. \A u \in Tabs \ {t} : Doing(u)' = Doing(u) /\ job'[u].sent = job[u].sent
    BY <1>7 DEF Doing
  <2>3. Doing(t)' = Doing(t)
    BY <1>3, <2>1
  <2>. QED
    BY <2>1, <2>2, <2>3
<1>10. a \in {"tokens", "done", "unauthorized", "unavailable"} /\ j \in Jobs
  BY <1>5
<1>11. /\ session \in [Logins -> Sessions] /\ \A l \in Logins : session[l].n \in Nat /\ session'[l].n \in Nat
       /\ record.n \in Nat /\ n \in Nat /\ (record # NoToken => record.login \in Logins)
  <2>1. session \in [Logins -> Sessions] /\ record \in Token /\ RealToken(record)
    BY DEF IInv, TypeInv
  <2>2. \A l \in Logins : session[l] \in Sessions /\ session'[l] \in Sessions
    BY <2>1
  <2>3. \A x \in Sessions : x.n \in Nat
    BY Bounds DEF Sessions
  <2>. QED
    BY <1>4, <2>1, <2>2, <2>3, Bounds DEF Token, RealToken
<1>12. \A l \in Logins : session[l].n <= session'[l].n
  BY <1>1, <1>2, <1>4, <1>11
<1>13. \A u \in Tabs : Doing(u) => job[u].sent.login \in Logins /\ job[u].sent.n \in Nat
  BY SentIs, Bounds
<1>14. TokenInv /\ LockInv /\ OverInv /\ JobInv(t)
  BY DEF IInv
<1>15. JobInv(t)'
  <2>1. RealToken(s)
    BY <1>1, <1>3, <1>14 DEF JobInv
  <2>2. /\ HasTask(t)' /\ (left'.lock = "web" => line'[1].tab = t)
        /\ FirstTask(t)' = FirstTask(t) /\ FirstTask(t).kind \in {"refresh", "signOut"}
    BY <1>4, <1>8
  <2>3. /\ job'[t].phase = "answered" /\ job'[t].sent = s /\ job'[t].answer = a
        /\ job'[t].result = "none"
    BY <1>5
  <2>4. a \in IF FirstTask(t)'.kind = "refresh" THEN {"tokens", "unauthorized", "unavailable"}
              ELSE {"done", "unavailable"}
    BY <2>2
  <2>5. s # NoToken /\ s.login = FirstTask(t)'.login
    BY <1>2, <1>4, <2>2
  <2>. QED
    BY <2>1, <2>2, <2>3, <2>4, <2>5 DEF JobInv, Doing
<1>16. TokenInv'
  <2>1. record # NoToken => record.n <= session'[record.login].n
    <3>1. record # NoToken => record.n <= session[record.login].n
      BY <1>14 DEF TokenInv
    <3>. QED
      BY <1>11, <1>12, <3>1
  <2>2. ASSUME NEW u \in Tabs, Doing(u)
        PROVE  job[u].sent.n <= session'[job[u].sent.login].n
    <3>1. job[u].sent.n <= session[job[u].sent.login].n
      BY <1>14, <2>2 DEF TokenInv
    <3>. QED
      BY <1>11, <1>12, <1>13, <2>2, <3>1
  <2>3. ASSUME a = "tokens"
        PROVE  /\ session[login].n = n /\ session'[login].n = n + 1
               /\ record.login = login => record.n <= n
               /\ \A u \in Tabs : Doing(u) /\ job[u].sent.login = login => job[u].sent.n <= n
               /\ \A u \in Tabs \ {t} : job[u].answer = "tokens" => job[u].sent.login # login
    <3>1. session[login].n = n /\ session'[login].n = n + 1
      BY <1>1, <1>2, <2>3
    <3>2. record.login = login => record.n <= n
      BY <1>4, <1>14, <3>1, FreshToken, Bounds DEF TokenInv
    <3>3. \A u \in Tabs : Doing(u) /\ job[u].sent.login = login => job[u].sent.n <= n
      BY <1>14, <3>1 DEF TokenInv
    <3>4. ASSUME NEW u \in Tabs \ {t}, job[u].answer = "tokens", job[u].sent.login = login
          PROVE  FALSE
      <4>1. Doing(u)
        BY <3>4, TokensAreOfADoer
      <4>2. session[login].n = job[u].sent.n + 1
        BY <1>14, <3>4 DEF TokenInv
      <4>3. n <= job[u].sent.n
        BY <1>1, <1>2, <1>3, <1>4, <1>14, <3>4 DEF TokenInv
      <4>. QED
        BY <1>11, <1>13, <3>1, <4>1, <4>2, <4>3
    <3>. QED
      BY <3>1, <3>2, <3>3, <3>4
  <2>4. ASSUME NEW u \in Tabs, job'[u].answer = "tokens"
        PROVE  /\ session'[job[u].sent.login].n = job[u].sent.n + 1
               /\ record.login = job[u].sent.login => record.n <= job[u].sent.n
               /\ \A v \in Tabs : Doing(v) /\ job[v].sent.login = job[u].sent.login =>
                     job[v].sent.n <= job[u].sent.n
               /\ \A v \in Tabs \ {u} :
                     job'[v].answer = "tokens" => job[v].sent.login # job[u].sent.login
    <3>1. CASE u = t
      BY <1>1, <1>2, <1>5, <1>7, <2>3, <2>4, <3>1
    <3>2. CASE u # t
      <4>1. job[u].answer = "tokens" /\ Doing(u)
        BY <1>7, <2>4, <3>2, TokensAreOfADoer
      <4>2. /\ session[job[u].sent.login].n = job[u].sent.n + 1
            /\ record.login = job[u].sent.login => record.n <= job[u].sent.n
            /\ \A v \in Tabs : Doing(v) /\ job[v].sent.login = job[u].sent.login =>
                  job[v].sent.n <= job[u].sent.n
            /\ \A v \in Tabs \ {u} :
                  job[v].answer = "tokens" => job[v].sent.login # job[u].sent.login
        BY <1>14, <4>1 DEF TokenInv
      <4>3. a = "tokens" => job[u].sent.login # login
        BY <2>3, <3>2, <4>1
      <4>4. session'[job[u].sent.login].n = session[job[u].sent.login].n
        BY <1>1, <1>2, <1>13, <4>1, <4>3
      <4>5. ASSUME NEW v \in Tabs \ {u}, job'[v].answer = "tokens"
            PROVE  job[v].sent.login # job[u].sent.login
        BY <1>1, <1>2, <1>5, <1>7, <4>2, <4>3, <4>5
      <4>. QED
        BY <4>2, <4>4, <4>5
    <3>. QED
      BY <3>1, <3>2
  <2>5. \A u \in Tabs : Doing(u)' => job'[u].sent.n <= session'[job'[u].sent.login].n
    BY <1>9, <2>2
  <2>6. \A u \in Tabs : job'[u].answer = "tokens" =>
           /\ session'[job'[u].sent.login].n = job'[u].sent.n + 1
           /\ record'.login = job'[u].sent.login => record'.n <= job'[u].sent.n
           /\ \A v \in Tabs : Doing(v)' /\ job'[v].sent.login = job'[u].sent.login =>
                 job'[v].sent.n <= job'[u].sent.n
           /\ \A v \in Tabs \ {u} :
                 job'[v].answer = "tokens" => job'[v].sent.login # job'[u].sent.login
    <3>1. SUFFICES ASSUME NEW u \in Tabs, job'[u].answer = "tokens"
                   PROVE  /\ session'[job'[u].sent.login].n = job'[u].sent.n + 1
                          /\ record'.login = job'[u].sent.login => record'.n <= job'[u].sent.n
                          /\ \A v \in Tabs : Doing(v)' /\ job'[v].sent.login = job'[u].sent.login =>
                                job'[v].sent.n <= job'[u].sent.n
                          /\ \A v \in Tabs \ {u} :
                                job'[v].answer = "tokens" => job'[v].sent.login # job'[u].sent.login
      OBVIOUS
    <3>2. PICK k : k = job[u].sent /\ k = job'[u].sent
      BY <1>9
    <3>3. /\ session'[k.login].n = k.n + 1 /\ record.login = k.login => record.n <= k.n
          /\ \A v \in Tabs : Doing(v) /\ job[v].sent.login = k.login => job[v].sent.n <= k.n
          /\ \A v \in Tabs \ {u} : job'[v].answer = "tokens" => job[v].sent.login # k.login
      BY <2>4, <3>1, <3>2
    <3>4. ASSUME NEW v \in Tabs, Doing(v)', job'[v].sent.login = k.login
          PROVE  job'[v].sent.n <= k.n
      <4>1. Doing(v) /\ job'[v].sent = job[v].sent
        BY <1>9, <3>4
      <4>. QED
        BY <3>3, <3>4, <4>1
    <3>5. ASSUME NEW v \in Tabs \ {u}, job'[v].answer = "tokens"
          PROVE  job'[v].sent.login # k.login
      BY <1>9, <3>3, <3>5
    <3>6. record' = record /\ k = job'[u].sent
      BY <1>8, <3>2
    <3>7. session'[job'[u].sent.login].n = job'[u].sent.n + 1
      BY <1>9, <2>4, <3>1
    <3>8. record'.login = job'[u].sent.login => record'.n <= job'[u].sent.n
      BY <1>8, <1>9, <2>4, <3>1
    <3>9. \A v \in Tabs : Doing(v)' /\ job'[v].sent.login = job'[u].sent.login =>
             job'[v].sent.n <= job'[u].sent.n
      BY <3>4, <3>6, Zenon
    <3>10. \A v \in Tabs \ {u} :
             job'[v].answer = "tokens" => job'[v].sent.login # job'[u].sent.login
      BY <3>5, <3>6, Zenon
    <3>. QED
      BY <3>7, <3>8, <3>9, <3>10
  <2>7. record' # NoToken => record'.n <= session'[record'.login].n
    BY <1>8, <2>1
  <2>. QED
    BY <2>5, <2>6, <2>7 DEF TokenInv
<1>17. LockInv'
  <2>1. SUFFICES ASSUME ~ lapsed
                 PROVE  LockInv'
    <3>1. ~ lapsed' => ~ lapsed
      BY <1>8
    <3>. QED
      BY <3>1, Zenon DEF LockInv
  <2>2. \A u \in Tabs : Doing(u) =>
           /\ job[u].sent = record
           /\ left.lock = "lease" => lease = u /\ \A v \in Tabs \ {u} : job'[v].phase # "taking"
    BY <1>5, <1>7, <1>14, <2>1 DEF LockInv
  <2>3. ASSUME record # NoToken, record.login \notin lost
        PROVE  \/ session'[record.login].n = record.n
               \/ \E u \in Tabs : job'[u].answer = "tokens"
    <3>1. CASE a = "tokens"
      BY <1>5, <1>7, <3>1
    <3>2. CASE a # "tokens"
      <4>1. \/ session[record.login].n = record.n
            \/ \E u \in Tabs : job[u].answer = "tokens"
        BY <1>14, <2>1, <2>3 DEF LockInv
      <4>2. job[t].answer = "none"
        BY <1>14 DEF JobInv
      <4>3. session'[record.login].n = session[record.login].n
        BY <1>1, <1>2, <1>11, <2>3, <3>2
      <4>. QED
        BY <1>7, <4>1, <4>2, <4>3
    <3>. QED
      BY <3>1, <3>2
  <2>. QED
    BY <1>8, <1>9, <2>2, <2>3 DEF LockInv
<1>18. \A u \in Tabs : job'[u].answer = "unauthorized" => job'[u].sent.login \in over'
  BY <1>1, <1>5, <1>7, <1>14 DEF OverInv
<1>19. SpentOnlyAfterLoss'
  BY <1>8 DEF SpentOnlyAfterLoss
<1>20. Rest(t)'
  BY <1>15, <1>16, <1>17, <1>18, <1>19 DEF Rest
<1>21. \A l \in Logins : Due(l) => session'[l].n = 1
  <2>1. ~ Due(login)
    BY <1>4, NotDue
  <2>. QED
    BY <1>1, <1>2, <2>1, DueFresh
<1>22. lease' \in Tabs \cup {"none", "gone"}
  BY <1>8 DEF IInv, TypeInv
<1>23. j.phase # "settled" /\ j.sent.login = login
  BY <1>2, <1>5
<1>. QED
  BY <1>4, <1>6, <1>10, <1>20, <1>21, <1>22, <1>23, JobStep

LEMMA UnavailableInv ==
    ASSUME IInv, NEW t \in Tabs, Unavailable(t)
    PROVE  IInv'
<1>1. /\ job[t].phase = "calling"
      /\ Answer(t, "unavailable")
      /\ UNCHANGED <<session, logins, stored, tab, line, handed, req, lease,
                     last, over, lost, lapsed, reused>>
  BY DEF Unavailable, server, history
<1>2. left' \in [lock : {left.lock}, signIns : {left.signIns}, requests : Nat,
                 closes : Nat, failures : Nat]
  <2>1. left \in [lock : {"web", "lease"}, signIns : Nat, requests : Nat, closes : Nat,
                  failures : Nat]
    BY DEF IInv, TypeInv
  <2>2. left.failures > 0 /\ left' = [left EXCEPT !.failures = @ - 1]
    BY DEF Unavailable, Fail
  <2>. QED
    BY <2>1, <2>2
<1>3. session \in [Logins -> Sessions] /\ (lapsed \/ reused \subseteq lost)
  BY DEF IInv, TypeInv, SpentOnlyAfterLoss
<1>4. session' = session /\ reused' = reused /\ over' = over
  BY <1>1
<1>5. /\ session' \in [Logins -> Sessions] /\ over \subseteq over' /\ (lapsed \/ reused' \subseteq lost)
      /\ session'[job[t].sent.login].n = session[job[t].sent.login].n
      /\ \A l \in Logins : l # job[t].sent.login => session'[l].n = session[l].n
  BY <1>3, <1>4
<1>6. UNCHANGED <<logins, stored, tab, line, handed, req, lease, last, lost, lapsed>>
  BY <1>1
<1>. QED
  BY <1>1, <1>2, <1>5, <1>6, AnswerStep

LEMMA ServeInv ==
    ASSUME IInv, NEW t \in Tabs, Serve(t)
    PROVE  IInv'
<1>1. PICK s : s = job[t].sent
  OBVIOUS
<1>2. PICK login, n : login = s.login /\ n = s.n
  OBVIOUS
<1>3. /\ job[t].phase = "calling" /\ Doing(t)
      /\ UNCHANGED <<logins, stored, tab, line, handed, req, lease, left, last, lost, lapsed>>
  BY DEF Serve, Doing
<1>4. login \in Logins /\ n \in 1..MaxTokens
  BY <1>1, <1>2, <1>3, SentIs
<1>5. /\ session \in [Logins -> Sessions] /\ (lapsed \/ reused \subseteq lost)
      /\ TokenInv /\ LockInv
  BY DEF IInv, TypeInv, SpentOnlyAfterLoss
<1>6. CASE /\ FirstTask(t).kind = "signOut"
           /\ session' = [session EXCEPT ![login].alive = @ /\ n # session[login].n]
           /\ Answer(t, "done")
           /\ UNCHANGED <<over, reused>>
  <2> DEFINE alive == session[login].alive /\ n # session[login].n
  <2>0. session' = [session EXCEPT ![login].alive = alive] /\ alive \in BOOLEAN
    BY <1>6
  <2>. HIDE DEF alive
  <2>1. session' \in [Logins -> Sessions] /\ \A l \in Logins : session'[l].n = session[l].n
    BY <1>4, <1>5, <2>0 DEF Sessions
  <2>. QED
    BY <1>1, <1>2, <1>3, <1>4, <1>5, <1>6, <2>1, SameLeft, AnswerStep
<1>7. CASE /\ FirstTask(t).kind = "refresh"
           /\ session[login].alive /\ n = session[login].n /\ n < MaxTokens
           /\ session' = [session EXCEPT ![login].n = n + 1]
           /\ Answer(t, "tokens")
           /\ UNCHANGED <<over, reused>>
  <2>1. n + 1 \in 1..MaxTokens
    BY <1>4, <1>7, Bounds
  <2>2. /\ session' \in [Logins -> Sessions] /\ session'[login].n = n + 1
        /\ \A l \in Logins : l # login => session'[l].n = session[l].n
    BY <1>4, <1>5, <1>7, <2>1 DEF Sessions
  <2>. QED
    BY <1>1, <1>2, <1>3, <1>4, <1>5, <1>7, <2>2, SameLeft, AnswerStep
<1>8. CASE /\ FirstTask(t).kind = "refresh"
           /\ session' = [session EXCEPT ![login].alive = FALSE]
           /\ over' = over \cup {login}
           /\ reused' = IF n < session[login].n THEN reused \cup {login} ELSE reused
           /\ Answer(t, "unauthorized")
  <2>1. session' \in [Logins -> Sessions] /\ \A l \in Logins : session'[l].n = session[l].n
    BY <1>4, <1>5, <1>8 DEF Sessions
  <2>2. lapsed \/ reused' \subseteq lost
    <3>1. SUFFICES ASSUME ~ lapsed, n < session[login].n
                   PROVE  login \in lost
      BY <1>5, <1>8
    <3>2. s = record /\ s # NoToken
      BY <1>1, <1>3, <1>5, <3>1, SentIs DEF LockInv
    <3>3. session[login].n # n
      BY <1>4, <1>5, <3>1, Bounds DEF Sessions
    <3>4. \A u \in Tabs : job[u].answer # "tokens"
      <4>1. SUFFICES ASSUME NEW u \in Tabs, job[u].answer = "tokens"
                     PROVE  FALSE
        OBVIOUS
      <4>2. t = u
        BY <1>3, <3>1, <4>1, TokensAreOfADoer, OneDoes
      <4>. QED
        BY <1>3, <4>1, <4>2 DEF IInv, JobInv
    <3>. QED
      BY <1>2, <1>5, <3>1, <3>2, <3>3, <3>4 DEF LockInv
  <2>. QED
    BY <1>1, <1>2, <1>3, <1>4, <1>5, <1>8, <2>1, <2>2, SameLeft, AnswerStep
<1>. QED
  BY <1>1, <1>2, <1>6, <1>7, <1>8 DEF Serve

-----------------------------------------------------------------------------
(* Tasks leave the line                                                      *)

\* pick says where the tasks in line were before; none but tasks of t left.
Picks(pick, t) ==
    /\ line' \in Seq(Tasks) /\ pick \in [DOMAIN line' -> DOMAIN line]
    /\ \A i \in DOMAIN line' : line'[i] = line[pick[i]]
    /\ \A i, j \in DOMAIN line' : i # j => pick[i] # pick[j]
    /\ \A u : u # t /\ HasTask(u) => HasTask(u)' /\ FirstTask(u)' = FirstTask(u)
    /\ \A u : ~ HasTask(u) => ~ HasTask(u)'
    /\ line # <<>> /\ line[1].tab # t =>
           line'[1] = line[1] /\ \A i \in DOMAIN line' : pick[i] = 1 => i = 1

LEMMA LineType ==
    ASSUME IInv
    PROVE  /\ line \in Seq(Tasks) /\ DOMAIN line = 1..Len(line) /\ Len(line) \in Nat
           /\ \A i \in DOMAIN line : line[i] \in Tasks /\ line[i].tab \in Tabs /\ line[i].login \in Logins
<1>1. line \in Seq(Tasks)
  BY DEF IInv, TypeInv
<1>2. DOMAIN line = 1..Len(line) /\ Len(line) \in Nat /\ \A i \in DOMAIN line : line[i] \in Tasks
  BY <1>1
<1>3. \A k \in Tasks : k.tab \in Tabs /\ k.login \in Logins
  BY DEF Tasks
<1>. QED
  BY <1>1, <1>2, <1>3

\* The first task of t is in line, and it is t's.
LEMMA FirstTaskIs ==
    ASSUME IInv, NEW t \in Tabs, HasTask(t)
    PROVE  /\ First(line, t) \in DOMAIN line /\ FirstTask(t) = line[First(line, t)]
           /\ FirstTask(t) \in Tasks /\ FirstTask(t).tab = t
           /\ line # <<>> /\ (line[1].tab = t => First(line, t) = 1)
<1>1. IsFirst(line, t, First(line, t))
  BY LineType, FirstIs DEF HasTask
<1>2. First(line, t) \in DOMAIN line /\ line[First(line, t)].tab = t
  BY <1>1 DEF IsFirst
<1>3. line # <<>> /\ 1 \in DOMAIN line
  BY <1>2, LineType
<1>4. line[1].tab = t => IsFirst(line, t, 1)
  BY <1>3 DEF IsFirst
<1>5. line[1].tab = t => First(line, t) = 1
  BY <1>4, LineType, FirstIs
<1>. QED
  BY <1>2, <1>3, <1>5, LineType DEF FirstTask

LEMMA PickedFromLine ==
    ASSUME IInv, NEW t, NEW n \in Nat, NEW pick \in [1..n -> DOMAIN line],
           \A i, j \in 1..n : i < j => pick[i] < pick[j],
           \A i \in DOMAIN line : line[i].tab # t => \E j \in 1..n : pick[j] = i,
           line' = [i \in 1..n |-> line[pick[i]]]
    PROVE  DOMAIN line' = 1..n /\ Picks(pick, t)
<1>1. PICK q : q = line
  OBVIOUS
<1>2. PICK r : r = line'
  OBVIOUS
<1>3. /\ q \in Seq(Tasks) /\ pick \in [1..n -> DOMAIN q]
      /\ \A i \in DOMAIN q : q[i].tab # t => \E j \in 1..n : pick[j] = i
      /\ r = [i \in 1..n |-> q[pick[i]]]
  BY <1>1, <1>2, LineType
<1>4. /\ r \in Seq(Tasks) /\ DOMAIN r = 1..n
      /\ \A i \in DOMAIN r : pick[i] \in DOMAIN q /\ r[i] = q[pick[i]]
      /\ \A i, j \in DOMAIN r : i # j => pick[i] # pick[j]
      /\ \A u : u # t /\ Has(q, u) => Has(r, u) /\ r[First(r, u)] = q[First(q, u)]
      /\ \A u : ~ Has(q, u) => ~ Has(r, u)
      /\ Len(q) > 0 /\ q[1].tab # t => Len(r) > 0 /\ r[1] = q[1] /\ pick[1] = 1
  <2>1. WhatStays([i \in 1..n |-> q[pick[i]]], q, pick, t)
    BY <1>3, Picked
  <2>2. WhatStays(r, q, pick, t)
    BY <1>3, <2>1
  <2>. QED
    BY <1>3, <2>2 DEF WhatStays
<1>5. /\ \A u : u # t /\ HasTask(u) => HasTask(u)' /\ FirstTask(u)' = FirstTask(u)
      /\ \A u : ~ HasTask(u) => ~ HasTask(u)'
  BY <1>1, <1>2, <1>4 DEF HasTask, FirstTask
<1>6. ASSUME line # <<>>, line[1].tab # t
      PROVE  line'[1] = line[1] /\ \A i \in DOMAIN line' : pick[i] = 1 => i = 1
  <2>1. Len(q) > 0
    BY <1>1, <1>6, LineType
  <2>2. Len(r) > 0 /\ r[1] = q[1] /\ pick[1] = 1 /\ 1 \in DOMAIN r
    BY <1>1, <1>4, <1>6, <2>1, LenProperties
  <2>. QED
    BY <1>1, <1>2, <1>4, <2>2
<1>7. /\ line' \in Seq(Tasks) /\ pick \in [DOMAIN line' -> DOMAIN line] /\ DOMAIN line' = 1..n
      /\ \A i \in DOMAIN line' : line'[i] = line[pick[i]]
      /\ \A i, j \in DOMAIN line' : i # j => pick[i] # pick[j]
  BY <1>1, <1>2, <1>4
<1>. QED
  BY <1>5, <1>6, <1>7 DEF Picks

\* The first task of t leaves.
LEMMA ShorterPicks ==
    ASSUME IInv, NEW t \in Tabs, HasTask(t), line' = Shorter(t)
    PROVE  \E pick : Picks(pick, t) /\ \A i \in DOMAIN line' : pick[i] # First(line, t)
<1>1. PICK q : q = line
  OBVIOUS
<1>2. PICK r : r = line'
  OBVIOUS
<1>3. q \in Seq(Tasks) /\ Has(q, t) /\ r = RemoveAt(q, First(q, t))
  BY <1>1, <1>2, LineType DEF Shorter, HasTask
<1>4. PICK n \in Nat : \E pick \in [1..n -> DOMAIN q] :
         /\ \A i, j \in 1..n : i < j => pick[i] < pick[j]
         /\ \A i \in DOMAIN q : q[i].tab # t => \E j \in 1..n : pick[j] = i
         /\ RemoveAt(q, First(q, t)) = [i \in 1..n |-> q[pick[i]]]
         /\ \A i \in 1..n : pick[i] # First(q, t)
  BY <1>3, Shortened, Zenon
<1>5. PICK pick \in [1..n -> DOMAIN line] :
         /\ \A i, j \in 1..n : i < j => pick[i] < pick[j]
         /\ \A i \in DOMAIN line : line[i].tab # t => \E j \in 1..n : pick[j] = i
         /\ line' = [i \in 1..n |-> line[pick[i]]]
         /\ \A i \in 1..n : pick[i] # First(line, t)
  BY <1>1, <1>2, <1>3, <1>4
<1>6. DOMAIN line' = 1..n /\ Picks(pick, t)
  BY <1>5, PickedFromLine
<1>. QED
  BY <1>5, <1>6

\* No login comes due when tasks leave.
LEMMA PicksDue ==
    ASSUME IInv, NEW t, NEW pick, Picks(pick, t), logins' = logins,
           \A i \in DOMAIN line' : Through(pick[i]) => Through(i)'
    PROVE  /\ \A l : Due(l)' =>
                 /\ Due(l)
                 /\ \/ l > logins
                    \/ \E i \in DOMAIN line' : line'[i].kind = "signIn" /\ line'[i].login = l /\ ~ Through(i)'
           /\ \A i, j \in DOMAIN line' :
                 i # j /\ line'[i].kind = "signIn" /\ line'[j].kind = "signIn" => line'[i].login # line'[j].login
           /\ \A i \in DOMAIN line' : line'[i].kind = "signIn" => line'[i].login <= logins'
<1>1. /\ \A i \in DOMAIN line' : pick[i] \in DOMAIN line /\ line'[i] = line[pick[i]]
      /\ \A i, j \in DOMAIN line' : i # j => pick[i] # pick[j]
  BY DEF Picks
<1>2. LoginInv
  BY DEF IInv
<1>3. ASSUME NEW l, Due(l)'
      PROVE  /\ Due(l)
             /\ \/ l > logins
                \/ \E i \in DOMAIN line' : line'[i].kind = "signIn" /\ line'[i].login = l /\ ~ Through(i)'
  <2>1. CASE l > logins
    BY <2>1 DEF Due
  <2>2. CASE ~ (l > logins)
    <3>1. PICK i \in DOMAIN line' : line'[i].kind = "signIn" /\ line'[i].login = l /\ ~ Through(i)'
      BY <1>3, <2>2 DEF Due
    <3>2. ~ Through(pick[i]) /\ line[pick[i]].kind = "signIn" /\ line[pick[i]].login = l
      BY <1>1, <3>1
    <3>. QED
      BY <1>1, <3>1, <3>2 DEF Due
  <2>. QED
    BY <2>1, <2>2
<1>4. \A i, j \in DOMAIN line' :
         i # j /\ line'[i].kind = "signIn" /\ line'[j].kind = "signIn" => line'[i].login # line'[j].login
  BY <1>1, <1>2 DEF LoginInv
<1>5. \A i \in DOMAIN line' : line'[i].kind = "signIn" => line'[i].login <= logins'
  BY <1>1, <1>2 DEF LoginInv
<1>. QED
  BY <1>3, <1>4, <1>5

\* Nor does a tab get to do with another login, when the first task of t at
\* most is handed out.
LEMMA PicksKnown ==
    ASSUME IInv, NEW t, NEW pick, Picks(pick, t), NEW u \in Tabs, NEW X,
           {tab'[u].login, tab'[u].refreshing, tab'[u].first, req'[u].login, job'[u].sent.login}
              \subseteq Known(u) \cup X \cup {None},
           \A h \in handed' : h \in handed \/ (h.tab = t /\ t \in Tabs /\ HasTask(t) /\ h.task = FirstTask(t))
    PROVE  Known(u)' \subseteq Known(u) \cup X
<1>1. SUFFICES ASSUME NEW l \in Known(u)'
               PROVE  l \in Known(u) \cup X
  OBVIOUS
<1>2. l # None
  BY DEF Known
<1>3. CASE l \in {tab'[u].login, tab'[u].refreshing, tab'[u].first, req'[u].login, job'[u].sent.login}
  BY <1>2, <1>3
<1>4. CASE \E i \in DOMAIN line' : line'[i].tab = u /\ line'[i].kind # "signIn" /\ l = line'[i].login
  <2>1. PICK i \in DOMAIN line' : line'[i].tab = u /\ line'[i].kind # "signIn" /\ l = line'[i].login
    BY <1>4
  <2>2. pick[i] \in DOMAIN line /\ line'[i] = line[pick[i]]
    BY DEF Picks
  <2>. QED
    BY <1>2, <2>1, <2>2 DEF Known
<1>5. CASE \E h \in handed' : h.tab = u /\ h.task.kind # "signIn" /\ l = h.task.login
  <2>1. PICK h \in handed' : h.tab = u /\ h.task.kind # "signIn" /\ l = h.task.login
    BY <1>5
  <2>2. CASE h \in handed
    BY <1>2, <2>1, <2>2 DEF Known
  <2>3. CASE h \notin handed
    <3>1. t = u /\ HasTask(u) /\ h.task = FirstTask(u)
      BY <2>1, <2>3
    <3>2. PICK i : i = First(line, u)
      OBVIOUS
    <3>3. i \in DOMAIN line /\ line[i] = h.task /\ line[i].tab = u
      BY <3>1, <3>2, FirstTaskIs
    <3>. QED
      BY <1>2, <2>1, <3>3 DEF Known
  <2>. QED
    BY <2>2, <2>3
<1>6. \/ l \in {tab'[u].login, tab'[u].refreshing, tab'[u].first, req'[u].login, job'[u].sent.login}
      \/ \E i \in DOMAIN line' : line'[i].tab = u /\ line'[i].kind # "signIn" /\ l = line'[i].login
      \/ \E h \in handed' : h.tab = u /\ h.task.kind # "signIn" /\ l = h.task.login
  BY <1>1 DEF Known
<1>. QED
  BY <1>3, <1>4, <1>5, <1>6

\* Whatever a tab sees yet, it is in the record's login if it has to do with it.
LEMMA InRecordsLogin ==
    ASSUME IInv, NEW t \in Tabs, record.login \in Known(t)
    PROVE  tab[t].login = record.login
BY DEF IInv, SeenInv, Seen

LEMMA ReachInv ==
    ASSUME IInv, NEW t \in Tabs, Reach(t)
    PROVE  IInv'
<1>1. TypeInv /\ HandedInv /\ BehindInv /\ LoginInv /\ TokenInv /\ OverInv /\ LockInv
  BY DEF IInv
<1>2. \A u \in Tabs : TabInv(u) /\ JobInv(u) /\ SeenInv(u)
  BY DEF IInv
<1>3. /\ UNCHANGED <<session, logins, record, tab, line, job, handed, req, lease, left,
                     last, over, lost, lapsed, reused>>
      /\ behind' = behind \ {t} /\ before' = IF behind' = {} THEN NoToken ELSE before
      /\ news' = news \cup ({t} \cap Open)
  BY DEF Reach, server, history
<1>4. \A u : HasTask(u)' = HasTask(u) /\ FirstTask(u)' = FirstTask(u)
  BY <1>3 DEF HasTask, FirstTask
<1>5. \A u \in Tabs : Known(u)' = Known(u) /\ Doing(u)' = Doing(u)
  BY <1>3 DEF Known, Doing
<1>6. Open' = Open
  BY <1>3 DEF Open
<1>7. TypeInv'
  BY <1>1, <1>3, <1>6, FreshToken DEF TypeInv
<1>8. HandedInv' /\ BehindInv' /\ TokenInv' /\ OverInv' /\ LockInv'
  <2>1. HandedInv' /\ OverInv'
    BY <1>1, <1>3, <1>6 DEF HandedInv, OverInv
  <2>2. BehindInv'
    BY <1>1, <1>3 DEF BehindInv
  <2>3. TokenInv'
    BY <1>1, <1>3, <1>5 DEF TokenInv
  <2>4. LockInv'
    BY <1>1, <1>3, <1>5 DEF LockInv
  <2>. QED
    BY <2>1, <2>2, <2>3, <2>4
<1>9. LoginInv'
  <2>1. \A l : Due(l)' = Due(l)
    BY <1>3 DEF Due, Through
  <2>2. ASSUME NEW l \in Logins, Unknown(l)
        PROVE  Unknown(l)'
    <3>1. l # NoToken.login
      BY FreshToken, Bounds
    <3>. QED
      BY <1>3, <1>5, <2>2, <3>1 DEF Unknown
  <2>. QED
    BY <1>1, <1>3, <2>1, <2>2 DEF LoginInv
<1>10. ASSUME NEW u \in Tabs
       PROVE  TabInv(u)' /\ JobInv(u)' /\ SeenInv(u)'
  <2>1. TabInv(u)' /\ JobInv(u)'
    BY <1>2, <1>3, <1>4, <1>5, <1>6 DEF TabInv, JobInv
  <2>2. CASE u \in behind'
    <3>1. u \in behind /\ before' = before
      BY <1>3, <2>2
    <3>. QED
      BY <1>2, <1>3, <1>5, <2>1, <2>2, <3>1 DEF SeenInv, Seen
  <2>3. CASE u \notin behind'
    BY <1>3, <1>5, <2>1, <2>3, InRecordsLogin DEF SeenInv, Seen
  <2>. QED
    BY <2>2, <2>3
<1>11. SpentOnlyAfterLoss'
  BY <1>3 DEF IInv, SpentOnlyAfterLoss
<1>. QED
  BY <1>7, <1>8, <1>9, <1>10, <1>11 DEF IInv

\* The places in line of the tasks of others, in order.
LEMMA InOrderIs ==
    ASSUME IInv, NEW t, NEW kept \in InOrder({i \in DOMAIN line : line[i].tab # t})
    PROVE  \E n \in Nat :
              /\ DOMAIN kept = 1..n /\ kept \in [1..n -> DOMAIN line]
              /\ \A i, j \in 1..n : i < j => kept[i] < kept[j]
              /\ \A i \in DOMAIN line : line[i].tab # t => \E j \in 1..n : kept[j] = i
              /\ \A i \in 1..n : line[kept[i]].tab # t
<1>1. PICK S : S = {i \in DOMAIN line : line[i].tab # t}
  OBVIOUS
<1>2. S \in SUBSET (1..Len(line)) /\ Len(line) \in Nat
  BY <1>1, LineType
<1>3. IsFiniteSet(1..Len(line))
  BY <1>2, FS_Interval
<1>4. IsFiniteSet(S)
  BY <1>2, <1>3, FS_Subset
<1>5. PICK n \in Nat : n = Cardinality(S)
  BY <1>4, FS_CardinalityType
<1>6. kept \in Bijection(1..n, S) /\ \A i, j \in DOMAIN kept : i < j => kept[i] < kept[j]
  BY <1>1, <1>5 DEF InOrder
<1>7. kept \in [1..n -> S] /\ \A i \in S : \E j \in 1..n : kept[j] = i
  BY <1>6 DEF Bijection, Surjection
<1>. QED
  BY <1>1, <1>6, <1>7

LEMMA ClosePicks ==
    ASSUME IInv, NEW t \in Tabs, Close(t)
    PROVE  \E pick : Picks(pick, t) /\ \A i \in DOMAIN line' : line'[i].tab # t
<1>1. PICK kept \in InOrder({i \in DOMAIN line : line[i].tab # t}) :
         line' = [i \in DOMAIN kept |-> line[kept[i]]]
  BY DEF Close
<1>2. PICK n \in Nat :
         /\ DOMAIN kept = 1..n /\ kept \in [1..n -> DOMAIN line]
         /\ \A i, j \in 1..n : i < j => kept[i] < kept[j]
         /\ \A i \in DOMAIN line : line[i].tab # t => \E j \in 1..n : kept[j] = i
         /\ \A i \in 1..n : line[kept[i]].tab # t
  BY InOrderIs
<1>3. line' = [i \in 1..n |-> line[kept[i]]]
  BY <1>1, <1>2
<1>4. DOMAIN line' = 1..n /\ Picks(kept, t)
  BY <1>2, <1>3, PickedFromLine
<1>. QED
  BY <1>2, <1>3, <1>4

LEMMA CloseInv ==
    ASSUME IInv, NEW t \in Tabs, Close(t)
    PROVE  IInv'
<1>1. TypeInv /\ HandedInv /\ BehindInv /\ LoginInv /\ TokenInv /\ OverInv /\ LockInv
  BY DEF IInv
<1>2. \A u \in Tabs : TabInv(u) /\ JobInv(u) /\ SeenInv(u)
  BY DEF IInv
<1>3. /\ UNCHANGED <<session, logins, record, last, over, lapsed, reused>>
      /\ handed' = {h \in handed : h.tab # t} /\ lease' = IF lease = t THEN "gone" ELSE lease
      /\ behind' = (IF job[t].phase = "settled" THEN {} ELSE behind)
      /\ before' = IF behind' = {} THEN NoToken ELSE before
      /\ news' = (news \cup ((behind \ behind') \cap Open)) \ {t}
      /\ lost' = IF job[t].answer = "tokens" THEN lost \cup {job[t].sent.login} ELSE lost
  BY DEF Close, server
<1>4. /\ left' \in [lock : {"web", "lease"}, signIns : Nat, requests : Nat, closes : Nat,
                    failures : Nat]
      /\ left'.lock = left.lock /\ left'.signIns = left.signIns
  <2>1. left \in [lock : {"web", "lease"}, signIns : Nat, requests : Nat, closes : Nat,
                  failures : Nat]
    BY <1>1 DEF TypeInv
  <2>. QED
    BY <2>1 DEF Close
<1>5. /\ tab'[t] = ClosedTab /\ job'[t] = NoJob /\ req'[t] = NoRequest
      /\ tab' \in [Tabs -> TabStates] /\ job' \in [Tabs -> Jobs] /\ req' \in [Tabs -> Reqs]
      /\ \A u \in Tabs \ {t} : tab'[u] = tab[u] /\ job'[u] = job[u] /\ req'[u] = req[u]
  <2>1. ClosedTab \in TabStates /\ NoJob \in Jobs /\ NoRequest \in Reqs
    BY FreshToken, Bounds DEF ClosedTab, TabStates, NoJob, Jobs, NoRequest, Reqs
  <2>. QED
    BY <1>1, <2>1 DEF Close, TypeInv
<1>6. PICK pick : Picks(pick, t) /\ \A i \in DOMAIN line' : line'[i].tab # t
  BY ClosePicks
<1>7. Open' = Open \ {t}
  BY <1>5 DEF Open, ClosedTab
<1>8. /\ \A u : u # t /\ HasTask(u) => HasTask(u)' /\ FirstTask(u)' = FirstTask(u)
      /\ \A u : ~ HasTask(u) => ~ HasTask(u)'
      /\ ~ HasTask(t)'
  BY <1>6 DEF Picks, HasTask, Has
<1>9. /\ NoJob.phase = "none" /\ NoJob.answer = "none" /\ NoJob.sent.login = None
      /\ NoRequest.phase = "none" /\ NoRequest.login = None
      /\ ClosedTab.login = None /\ ClosedTab.refreshing = None /\ ClosedTab.first = None
      /\ ClosedTab.status = "closed" /\ ClosedTab.access = NoToken
  BY FreshToken DEF NoJob, NoRequest, ClosedTab
<1>10. ~ Doing(t)' /\ \A u \in Tabs \ {t} : Doing(u)' = Doing(u)
  BY <1>5, <1>9 DEF Doing
<1>11. \A u \in Tabs : Known(u)' \subseteq Known(u)
  <2>1. ASSUME NEW u \in Tabs
        PROVE  {tab'[u].login, tab'[u].refreshing, tab'[u].first, req'[u].login, job'[u].sent.login}
                  \subseteq Known(u) \cup {} \cup {None}
    <3>1. CASE u = t
      BY <1>5, <1>9, <3>1
    <3>2. CASE u # t
      BY <1>5, <3>2 DEF Known
    <3>. QED
      BY <3>1, <3>2
  <2>2. \A h \in handed' : h \in handed
    BY <1>3
  <2>3. ASSUME NEW u \in Tabs
        PROVE  Known(u)' \subseteq Known(u) \cup {}
    BY <1>6, <2>1, <2>2, PicksKnown
  <2>. QED
    BY <2>3
<1>12. Known(t)' = {}
  BY <1>3, <1>5, <1>6, <1>9 DEF Known
<1>13. \A i \in DOMAIN line' : Through(pick[i]) => Through(i)'
  <2>1. SUFFICES ASSUME NEW i \in DOMAIN line', Through(pick[i])
                 PROVE  Through(i)'
    OBVIOUS
  <2>2. pick[i] = 1 /\ left.lock = "web" /\ job[line[1].tab].phase = "settled"
    BY <2>1 DEF Through
  <2>3. line'[i] = line[1] /\ 1 \in DOMAIN line /\ line[1].tab # t
    BY <1>6, <2>1, <2>2 DEF Picks
  <2>4. line # <<>>
    BY <2>3
  <2>5. i = 1
    BY <1>6, <2>2, <2>3, <2>4 DEF Picks
  <2>6. line[1].tab \in Tabs
    BY <2>3, LineType
  <2>. QED
    BY <1>4, <1>5, <2>2, <2>3, <2>5, <2>6 DEF Through
<1>14. TypeInv'
  <2>1. logins' + left'.signIns <= MaxLogins
    BY <1>1, <1>3, <1>4 DEF TypeInv
  <2>2. line' \in Seq(Tasks)
    BY <1>6 DEF Picks
  <2>3. news' \subseteq Open'
    BY <1>1, <1>3, <1>7 DEF TypeInv
  <2>4. behind' \subseteq Tabs /\ handed' \subseteq HandedTasks /\ lease' \in Tabs \cup {"none", "gone"}
    BY <1>1, <1>3 DEF TypeInv
  <2>5. before' \in Token /\ RealToken(before')
    BY <1>1, <1>3, FreshToken DEF TypeInv
  <2>. QED
    BY <1>1, <1>3, <1>4, <1>5, <2>1, <2>2, <2>3, <2>4, <2>5 DEF TypeInv
<1>15. HandedInv'
  BY <1>1, <1>3, <1>7 DEF HandedInv
<1>16. BehindInv'
  <2>1. SUFFICES ASSUME behind' # {}
                 PROVE  left'.lock = "web" /\ \E u \in Tabs : job'[u].phase = "settled"
    BY DEF BehindInv
  <2>2. job[t].phase # "settled" /\ behind # {}
    BY <1>3, <2>1
  <2>3. PICK u \in Tabs : job[u].phase = "settled"
    BY <1>1, <2>2 DEF BehindInv
  <2>. QED
    BY <1>1, <1>4, <1>5, <2>2, <2>3 DEF BehindInv
<1>17. ASSUME NEW u \in Tabs
       PROVE  TabInv(u)'
  <2>1. CASE u = t
    BY <1>5, <1>7, <1>8, <1>9, <2>1 DEF TabInv
  <2>2. CASE u # t
    BY <1>2, <1>5, <1>7, <1>8, <2>2 DEF TabInv
  <2>. QED
    BY <2>1, <2>2
<1>18. ASSUME NEW u \in Tabs
       PROVE  JobInv(u)'
  <2>1. CASE u = t
    <3>1. job'[u] = [NoJob EXCEPT !.phase = job'[u].phase]
      BY <1>5, <2>1 DEF NoJob
    <3>. QED
      BY <1>5, <1>9, <1>10, <2>1, <3>1 DEF JobInv
  <2>2. CASE u # t /\ job[u].phase = "none"
    BY <1>2, <1>4, <1>5, <2>2 DEF JobInv, Doing
  <2>3. CASE u # t /\ job[u].phase # "none"
    <3>1. HasTask(u) /\ HasTask(u)' /\ FirstTask(u)' = FirstTask(u)
      BY <1>2, <1>8, <2>3 DEF JobInv
    <3>2. line # <<>>
      BY <3>1, FirstTaskIs
    <3>3. left.lock = "web" => line'[1] = line[1]
      BY <1>2, <1>6, <2>3, <3>2 DEF JobInv, Picks
    <3>4. job'[u] = job[u] /\ Doing(u)' = Doing(u)
      BY <1>5, <1>10, <2>3
    <3>. QED
      BY <1>2, <1>4, <2>3, <3>1, <3>3, <3>4 DEF JobInv
  <2>. QED
    BY <2>1, <2>2, <2>3
<1>19. LoginInv'
  <2>1. /\ \A l : Due(l)' => Due(l)
        /\ \A i, j \in DOMAIN line' :
              i # j /\ line'[i].kind = "signIn" /\ line'[j].kind = "signIn" => line'[i].login # line'[j].login
        /\ \A i \in DOMAIN line' : line'[i].kind = "signIn" => line'[i].login <= logins'
    BY <1>3, <1>6, <1>13, PicksDue
  <2>2. ASSUME NEW l \in Logins, Unknown(l)
        PROVE  Unknown(l)'
    <3>1. l # NoToken.login
      BY FreshToken, Bounds
    <3>. QED
      BY <1>3, <1>11, <2>2, <3>1 DEF Unknown
  <2>. QED
    BY <1>1, <2>1, <2>2 DEF LoginInv
<1>20. ASSUME NEW u \in Tabs
       PROVE  SeenInv(u)'
  <2>1. CASE u = t
    BY <1>12, <2>1 DEF SeenInv
  <2>2. CASE u # t /\ u \in behind'
    <3>1. u \in behind /\ before' = before
      BY <1>3, <2>2
    <3>2. tab'[u] = tab[u] /\ Known(u)' \subseteq Known(u)
      BY <1>5, <1>11, <2>2
    <3>. QED
      BY <1>2, <1>3, <2>2, <3>1, <3>2 DEF SeenInv, Seen
  <2>3. CASE u # t /\ u \notin behind'
    <3>1. tab'[u] = tab[u] /\ Known(u)' \subseteq Known(u)
      BY <1>5, <1>11, <2>3
    <3>. QED
      BY <1>3, <2>3, <3>1, InRecordsLogin DEF SeenInv, Seen
  <2>. QED
    BY <2>1, <2>2, <2>3
<1>21. TokenInv'
  <2>1. \A u \in Tabs : job'[u].answer = "tokens" => u # t /\ job[u].answer = "tokens"
    BY <1>5, <1>9
  <2>. QED
    BY <1>1, <1>3, <1>5, <1>10, <2>1 DEF TokenInv
<1>22. OverInv'
  <2>1. \A i \in DOMAIN line' : line'[i].kind \in {"signOut", "end"} => line'[i].login \in over'
    BY <1>1, <1>3, <1>6 DEF OverInv, Picks
  <2>2. \A u \in Tabs : job'[u].answer = "unauthorized" => job'[u].sent.login \in over'
    BY <1>1, <1>3, <1>5, <1>9 DEF OverInv
  <2>. QED
    BY <2>1, <2>2 DEF OverInv
<1>23. LockInv'
  <2>1. SUFFICES ASSUME ~ lapsed
                 PROVE  LockInv'
    <3>1. ~ lapsed' => ~ lapsed
      BY <1>3
    <3>. QED
      BY <3>1, Zenon DEF LockInv
  <2>2. ASSUME NEW u \in Tabs, Doing(u)'
        PROVE  /\ job'[u].sent = record'
               /\ left'.lock = "lease" => lease' = u /\ \A v \in Tabs \ {u} : job'[v].phase # "taking"
    <3>1. u # t /\ Doing(u) /\ job'[u] = job[u]
      BY <1>5, <1>10, <2>2
    <3>2. /\ job[u].sent = record
          /\ left.lock = "lease" => lease = u /\ \A v \in Tabs \ {u} : job[v].phase # "taking"
      BY <1>1, <2>1, <3>1 DEF LockInv
    <3>3. \A v \in Tabs \ {u} : job'[v].phase = "taking" => job[v].phase = "taking"
      BY <1>5, <1>9
    <3>. QED
      BY <1>3, <1>4, <3>1, <3>2, <3>3
  <2>3. ASSUME record' # NoToken, record'.login \notin lost'
        PROVE  \/ session'[record'.login].n = record'.n
               \/ \E u \in Tabs : job'[u].answer = "tokens"
    <3>1. record # NoToken /\ record.login \notin lost
      BY <1>3, <2>3
    <3>2. CASE session[record.login].n = record.n
      BY <1>3, <3>2
    <3>3. CASE session[record.login].n # record.n
      <4>1. PICK u \in Tabs : job[u].answer = "tokens"
        BY <1>1, <2>1, <3>1, <3>3 DEF LockInv
      <4>2. job[u].sent = record
        BY <1>1, <2>1, <4>1, TokensAreOfADoer DEF LockInv
      <4>3. u # t
        BY <1>3, <2>3, <4>1, <4>2
      <4>. QED
        BY <1>5, <4>1, <4>3
    <3>. QED
      BY <3>2, <3>3
  <2>. QED
    BY <2>2, <2>3 DEF LockInv
<1>24. SpentOnlyAfterLoss'
  BY <1>3 DEF IInv, SpentOnlyAfterLoss
<1>. QED
  BY <1>14, <1>15, <1>16, <1>17, <1>18, <1>19, <1>20, <1>21, <1>22, <1>23, <1>24 DEF IInv

-----------------------------------------------------------------------------
(* A task settles                                                            *)

LEMMA HandIs ==
    ASSUME IInv, NEW t \in Tabs, HasTask(t), NEW result \in Results, Hand(t, result),
           result = "tokens" => job[t].sent.login = FirstTask(t).login /\ job[t].sent.n \in 1..(MaxTokens - 1)
    PROVE  \A h \in handed' :
              \/ h \in handed
              \/ /\ h \in HandedTasks /\ h.tab = t /\ h.task = FirstTask(t)
                 /\ h.result = "tokens" => h.token.login = h.task.login
<1>1. PICK s \in Token : s = job[t].sent
  BY JobIs DEF Jobs
<1>2. PICK k : k = IF result = "tokens" THEN [s EXCEPT !.n = @ + 1] ELSE NoToken
  OBVIOUS
<1>3. k \in Token /\ (result = "tokens" => k.login = FirstTask(t).login)
  <2>1. CASE result = "tokens"
    <3>1. s.n \in 1..(MaxTokens - 1) /\ s.login = FirstTask(t).login
      BY <1>1, <2>1
    <3>2. s.n + 1 \in 0..MaxTokens
      BY <3>1, Bounds
    <3>3. k = [s EXCEPT !.n = @ + 1]
      BY <1>2, <2>1
    <3>. QED
      BY <1>1, <3>1, <3>2, <3>3 DEF Token
  <2>2. CASE result # "tokens"
    BY <1>2, <2>2, FreshToken
  <2>. QED
    BY <2>1, <2>2
<1>4. PICK h : h = [tab |-> t, task |-> FirstTask(t), result |-> result, token |-> k]
  OBVIOUS
<1>5. /\ h \in HandedTasks /\ h.tab = t /\ h.task = FirstTask(t) /\ h.result = result
      /\ h.token = k
  BY <1>3, <1>4, FirstTaskIs DEF HandedTasks
<1>6. handed' = handed \cup {h}
  BY <1>1, <1>2, <1>4 DEF Hand
<1>. QED
  BY <1>3, <1>5, <1>6

LEMMA ReleaseInv ==
    ASSUME IInv, NEW t \in Tabs, Release(t)
    PROVE  IInv'
<1>1. TypeInv /\ HandedInv /\ BehindInv /\ LoginInv /\ TokenInv /\ OverInv /\ LockInv
  BY DEF IInv
<1>2. \A u \in Tabs : TabInv(u) /\ JobInv(u) /\ SeenInv(u)
  BY DEF IInv
<1>3. /\ UNCHANGED <<session, logins, record, before, behind, news, tab, req, lease, left,
                     last, over, lost, lapsed, reused>>
      /\ line' = Shorter(t) /\ Hand(t, job[t].result) /\ job' = [job EXCEPT ![t] = NoJob]
      /\ job[t].phase = "settled" /\ behind = {}
  BY DEF Release, MayRelease, server, stored, history
<1>4. /\ left.lock = "web" /\ HasTask(t) /\ line[1].tab = t /\ job[t].result \in Results
      /\ job[t].result = "tokens" => /\ job[t].sent.login = FirstTask(t).login
                                     /\ job[t].sent.n \in 1..(MaxTokens - 1)
      /\ job[t].answer = "none" /\ ~ Doing(t)
  BY <1>1, <1>2, <1>3 DEF JobInv, TypeInv, Doing
<1>5. /\ \A u \in Tabs \ {t} : job[u].phase = "none" /\ job'[u] = job[u] /\ ~ Doing(u)'
      /\ job'[t] = NoJob /\ job' \in [Tabs -> Jobs] /\ ~ Doing(t)'
      /\ NoJob.phase = "none" /\ NoJob.answer = "none" /\ NoJob.sent.login = None
  <2>1. \A u \in Tabs \ {t} : job[u].phase = "none"
    BY <1>2, <1>4 DEF JobInv
  <2>2. NoJob \in Jobs /\ NoJob.phase = "none" /\ NoJob.answer = "none" /\ NoJob.sent.login = None
    BY FreshToken DEF NoJob, Jobs
  <2>. QED
    BY <1>1, <1>3, <2>1, <2>2 DEF TypeInv, Doing
<1>6. PICK pick : Picks(pick, t) /\ \A i \in DOMAIN line' : pick[i] # First(line, t)
  BY <1>3, <1>4, ShorterPicks
<1>7. First(line, t) = 1
  BY <1>4, FirstTaskIs
<1>8. \A h \in handed' :
         \/ h \in handed
         \/ /\ h \in HandedTasks /\ h.tab = t /\ h.task = FirstTask(t)
            /\ h.result = "tokens" => h.token.login = h.task.login
  BY <1>3, <1>4, HandIs
<1>9. Open' = Open /\ t \in Open
  BY <1>2, <1>3, <1>4 DEF Open, TabInv
<1>10. \A u \in Tabs : Known(u)' \subseteq Known(u)
  <2>1. ASSUME NEW u \in Tabs
        PROVE  {tab'[u].login, tab'[u].refreshing, tab'[u].first, req'[u].login, job'[u].sent.login}
                  \subseteq Known(u) \cup {} \cup {None}
    <3>1. job'[u].sent.login \in Known(u) \cup {None}
      BY <1>5 DEF Known
    <3>. QED
      BY <1>3, <3>1 DEF Known
  <2>2. ASSUME NEW u \in Tabs
        PROVE  Known(u)' \subseteq Known(u) \cup {}
    BY <1>4, <1>6, <1>8, <2>1, PicksKnown
  <2>. QED
    BY <2>2
<1>11. TypeInv'
  <2>1. line' \in Seq(Tasks)
    BY <1>6 DEF Picks
  <2>2. handed' \subseteq HandedTasks
    BY <1>1, <1>8 DEF TypeInv
  <2>. QED
    BY <1>1, <1>3, <1>5, <1>9, <2>1, <2>2 DEF TypeInv
<1>12. HandedInv'
  BY <1>1, <1>8, <1>9 DEF HandedInv
<1>13. BehindInv'
  BY <1>3 DEF BehindInv
<1>14. ASSUME NEW u \in Tabs
       PROVE  TabInv(u)' /\ JobInv(u)' /\ SeenInv(u)'
  <2>1. TabInv(u)'
    <3>1. u \notin Open => u # t
      BY <1>9
    <3>. QED
      BY <1>2, <1>3, <1>5, <1>6, <1>9, <3>1 DEF TabInv, Picks
  <2>2. JobInv(u)'
    <3>1. job'[u] = NoJob
      <4>1. CASE u # t
        <5>1. job[u] = [NoJob EXCEPT !.phase = "none"]
          BY <1>2, <1>5, <4>1 DEF JobInv
        <5>2. [NoJob EXCEPT !.phase = "none"] = NoJob
          BY DEF NoJob
        <5>. QED
          BY <1>5, <4>1, <5>1, <5>2
      <4>. QED
        BY <1>5, <4>1
    <3>2. job'[u] = [NoJob EXCEPT !.phase = job'[u].phase]
      BY <3>1 DEF NoJob
    <3>3. ~ Doing(u)'
      BY <1>5
    <3>. QED
      BY <1>5, <3>1, <3>2, <3>3 DEF JobInv
  <2>3. SeenInv(u)'
    BY <1>2, <1>3, <1>10 DEF SeenInv, Seen
  <2>. QED
    BY <2>1, <2>2, <2>3
<1>15. LoginInv'
  <2>1. \A i \in DOMAIN line' : Through(pick[i]) => Through(i)'
    BY <1>6, <1>7 DEF Through
  <2>2. /\ \A l : Due(l)' => Due(l)
        /\ \A i, j \in DOMAIN line' :
              i # j /\ line'[i].kind = "signIn" /\ line'[j].kind = "signIn" => line'[i].login # line'[j].login
        /\ \A i \in DOMAIN line' : line'[i].kind = "signIn" => line'[i].login <= logins'
    BY <1>3, <1>6, <2>1, PicksDue
  <2>3. ASSUME NEW l \in Logins, Unknown(l)
        PROVE  Unknown(l)'
    BY <1>3, <1>10, <2>3 DEF Unknown
  <2>. QED
    BY <1>1, <2>2, <2>3 DEF LoginInv
<1>16. TokenInv'
  BY <1>1, <1>3, <1>5 DEF TokenInv
<1>17. OverInv'
  <2>1. \A i \in DOMAIN line' : line'[i].kind \in {"signOut", "end"} => line'[i].login \in over'
    BY <1>1, <1>3, <1>6 DEF OverInv, Picks
  <2>2. \A u \in Tabs : job'[u].answer = "unauthorized" => job'[u].sent.login \in over'
    BY <1>1, <1>3, <1>5 DEF OverInv
  <2>. QED
    BY <2>1, <2>2 DEF OverInv
<1>18. LockInv'
  <2>1. \A u \in Tabs : ~ Doing(u)' /\ (job[u].answer = "tokens" => job'[u].answer = "tokens")
    BY <1>4, <1>5
  <2>. QED
    BY <1>1, <1>3, <2>1 DEF LockInv
<1>19. SpentOnlyAfterLoss'
  BY <1>3 DEF IInv, SpentOnlyAfterLoss
<1>. QED
  BY <1>11, <1>12, <1>13, <1>14, <1>15, <1>16, <1>17, <1>18, <1>19 DEF IInv

\* The task that has the lock, at its start or after its request.
Active(t) == Granted(t) \/ Doing(t)

LEMMA ActiveIs ==
    ASSUME IInv, NEW t \in Tabs, Active(t)
    PROVE  /\ HasTask(t) /\ job[t].phase # "settled" /\ behind = {} /\ Seen(t) = record
           /\ left.lock = "web" => line[1].tab = t
           /\ ~ lapsed => \A u \in Tabs \ {t} : ~ Doing(u)
<1>1. HasTask(t) /\ job[t].phase # "settled" /\ (left.lock = "web" => line[1].tab = t)
  <2>1. CASE Granted(t)
    <3>1. HasTask(t)
      BY <2>1 DEF Granted
    <3>2. line # <<>> /\ line \in Seq(Tasks)
      BY <3>1, FirstTaskIs, LineType
    <3>3. Head(line) = line[1]
      BY <3>2
    <3>4. job[t].phase \in {"none", "settling"} /\ (left.lock = "web" => Head(line).tab = t)
      BY <2>1 DEF Granted
    <3>. QED
      BY <3>1, <3>3, <3>4
  <2>2. CASE Doing(t)
    BY <2>2, SentIs
  <2>. QED
    BY <2>1, <2>2 DEF Active
<1>2. behind = {}
  <2>1. SUFFICES ASSUME behind # {}
                 PROVE  FALSE
    OBVIOUS
  <2>2. left.lock = "web" /\ \E u \in Tabs : job[u].phase = "settled"
    BY <2>1 DEF IInv, BehindInv
  <2>3. PICK u \in Tabs : job[u].phase = "settled"
    BY <2>2
  <2>4. line[1].tab = u
    BY <2>2, <2>3 DEF IInv, JobInv
  <2>. QED
    BY <1>1, <2>2, <2>3, <2>4
<1>3. ASSUME ~ lapsed, NEW u \in Tabs \ {t}, Doing(u)
      PROVE  FALSE
  <2>1. CASE left.lock = "web"
    BY <1>1, <1>3, <2>1, SentIs
  <2>2. CASE left.lock = "lease"
    <3>1. lease = u
      BY <1>3, <2>2, LeaseOfTheJob
    <3>2. CASE Granted(t)
      BY <1>3, <2>2, <3>1, <3>2 DEF Granted
    <3>3. CASE Doing(t)
      BY <1>3, <3>3, OneDoes
    <3>. QED
      BY <3>2, <3>3 DEF Active
  <2>. QED
    BY <2>1, <2>2 DEF IInv, TypeInv
<1>. QED
  BY <1>1, <1>2, <1>3 DEF Seen

\* A sign-in whose turn it is has a login nobody has to do with yet.
LEMMA SignInIsFresh ==
    ASSUME IInv, NEW t \in Tabs, Active(t), FirstTask(t).kind = "signIn"
    PROVE  /\ FirstTask(t).login \in Logins /\ Unknown(FirstTask(t).login)
           /\ FirstTask(t).login <= logins
<1>1. PICK i : i = First(line, t)
  OBVIOUS
<1>2. HasTask(t) /\ job[t].phase # "settled"
  BY ActiveIs
<1>3. i \in DOMAIN line /\ line[i] = FirstTask(t) /\ line[i].tab = t /\ FirstTask(t).login \in Logins
  BY <1>1, <1>2, FirstTaskIs, LineType
<1>4. ~ Through(i)
  BY <1>2, <1>3 DEF Through
<1>5. Due(FirstTask(t).login)
  BY <1>3, <1>4 DEF Due
<1>. QED
  BY <1>3, <1>5 DEF IInv, LoginInv

\* A job that settles: t's is j now, and under the lease its task is handed
\* out.
Settles(t, j, pick) ==
    /\ j \in Jobs /\ job' = [job EXCEPT ![t] = j]
    /\ j.answer = "none" /\ j.sent \in {job[t].sent, NoToken}
    /\ Picks(pick, t) /\ lease' \in Tabs \cup {"none", "gone"}
    /\ left.lock = "web" =>
           /\ line' = line /\ j.phase = "settled" /\ j.result \in Results
           /\ j.result = "tokens" => /\ j.sent.login = FirstTask(t).login
                                     /\ j.sent.n \in 1..(MaxTokens - 1)
    /\ left.lock = "lease" => j = NoJob /\ \A i \in DOMAIN line' : pick[i] # First(line, t)
    /\ \A h \in handed' :
           \/ h \in handed
           \/ /\ h \in HandedTasks /\ h.tab = t /\ h.task = FirstTask(t)
              /\ h.result = "tokens" => h.token.login = h.task.login

LEMMA SettleIs ==
    ASSUME IInv, NEW t \in Tabs, Active(t), NEW result \in Results, Settle(t, result),
           result = "tokens" => job[t].sent.login = FirstTask(t).login /\ job[t].sent.n \in 1..(MaxTokens - 1)
    PROVE  \E j, pick : Settles(t, j, pick)
<1>1. HasTask(t) /\ (left.lock = "web" => line[1].tab = t)
  BY ActiveIs
<1>2. left.lock \in {"web", "lease"} /\ lease \in Tabs \cup {"none", "gone"}
  BY DEF IInv, TypeInv
<1>3. CASE left.lock = "web"
  <2>1. PICK j0 \in Jobs : j0 = job[t]
    BY JobIs
  <2>2. PICK j : j = [j0 EXCEPT !.phase = "settled", !.result = result, !.answer = "none"]
    OBVIOUS
  <2>3. /\ j \in Jobs /\ j.phase = "settled" /\ j.result = result /\ j.answer = "none"
        /\ j.sent = job[t].sent
    BY <2>1, <2>2 DEF Jobs, Results
  <2>4. /\ job' = [job EXCEPT ![t] = [@ EXCEPT !.phase = "settled", !.result = result,
                                              !.answer = "none"]]
        /\ line' = line /\ handed' = handed /\ lease' = lease
    BY <1>3 DEF Settle
  <2>5. job' = [job EXCEPT ![t] = j]
    BY <2>1, <2>2, <2>4
  <2>6. PICK pick : pick = [i \in DOMAIN line |-> i]
    OBVIOUS
  <2>7. Picks(pick, t)
    BY <2>4, <2>6, LineType DEF Picks, HasTask, FirstTask
  <2>. QED
    BY <1>2, <1>3, <2>3, <2>4, <2>5, <2>7 DEF Settles
<1>4. CASE left.lock = "lease"
  <2>1. /\ job' = [job EXCEPT ![t] = NoJob] /\ line' = Shorter(t) /\ Hand(t, result)
        /\ lease' = IF lease = t THEN "none" ELSE lease
    BY <1>4 DEF Settle
  <2>2. PICK pick : Picks(pick, t) /\ \A i \in DOMAIN line' : pick[i] # First(line, t)
    BY <1>1, <2>1, ShorterPicks
  <2>3. \A h \in handed' :
           \/ h \in handed
           \/ /\ h \in HandedTasks /\ h.tab = t /\ h.task = FirstTask(t)
              /\ h.result = "tokens" => h.token.login = h.task.login
    BY <1>1, <2>1, HandIs
  <2>4. PICK j : j = NoJob
    OBVIOUS
  <2>5. j \in Jobs /\ j.answer = "none" /\ j.sent = NoToken
    BY <2>4, FreshToken DEF NoJob, Jobs
  <2>6. Settles(t, j, pick)
    BY <1>2, <1>4, <2>1, <2>2, <2>3, <2>4, <2>5 DEF Settles
  <2>. QED
    BY <2>6
<1>. QED
  BY <1>2, <1>3, <1>4

\* What a task leaves in the record, for a tab that goes on as s: nothing new,
\* no record, the next token of its session, or a sign-in.
LeavesIt(t, s) ==
    /\ UNCHANGED <<stored, last>>
    /\ s.login \in {tab[t].login, record.login}
    /\ ~ lapsed /\ job[t].answer = "tokens" => job[t].sent.login \in lost'
Removes(t, s) ==
    /\ Write(t, NoToken) /\ last' = last
    /\ s.login = None /\ record.login \in over
Renews(t, s) ==
    /\ \E k : /\ k.login = job[t].sent.login /\ k.n = job[t].sent.n + 1
              /\ k \in Token /\ RealToken(k) /\ Write(t, k)
    /\ last' = last /\ job[t].answer = "tokens"
    /\ s.login = job[t].sent.login /\ record.login = job[t].sent.login
SignsIn(t, s) ==
    /\ FirstTask(t).kind = "signIn"
    /\ \E k : /\ k.login = FirstTask(t).login /\ k.n = 1
              /\ k \in Token /\ RealToken(k) /\ Write(t, k)
    /\ last' = FirstTask(t).login /\ s.login = FirstTask(t).login
Stores(t, s) == LeavesIt(t, s) \/ Removes(t, s) \/ Renews(t, s) \/ SignsIn(t, s)

MovesOn ==
    record' # record =>
        \/ last' # last /\ record'.login = last'
        \/ record' # NoToken /\ record'.login = record.login /\ record'.n > record.n
        \/ record' = NoToken /\ record.login \in over

\* What follows for the record, whichever it was.
Recorded(t, s) ==
    /\ record' \in Token /\ RealToken(record') /\ before' \in Token /\ RealToken(before')
    /\ last' \in 0..MaxLogins /\ news' \subseteq Open
    /\ \/ behind' = {}
       \/ left.lock = "web" /\ behind' = Tabs \ {t} /\ before' = record
    /\ \A u \in Tabs \ {t} : record'.login = record.login \/ record'.login \notin Known(u)
    /\ s.login = record'.login \/ (s.login = tab[t].login /\ record' = record)
    /\ \A l \in Logins :
          Unknown(l) /\ (FirstTask(t).kind = "signIn" => l # FirstTask(t).login) =>
             l \notin {record'.login, before'.login, last', s.login}
    /\ record' # NoToken => record'.n <= session[record'.login].n
    /\ \A u \in Tabs \ {t} : job[u].answer = "tokens" /\ record'.login = job[u].sent.login =>
          record'.n <= job[u].sent.n
    /\ ~ lapsed /\ record' # NoToken /\ record'.login \notin lost' =>
          \/ session[record'.login].n = record'.n
          \/ \E u \in Tabs \ {t} : job[u].answer = "tokens"
    /\ MovesOn

LEMMA WriteIs ==
    ASSUME IInv, NEW t \in Tabs, NEW k, Write(t, k)
    PROVE  /\ record' = k /\ before' \in Token /\ RealToken(before')
           /\ news' \subseteq Open /\ before'.login \in {record.login, None}
           /\ \/ behind' = {}
              \/ left.lock = "web" /\ behind' = Tabs \ {t} /\ before' = record
<1>1. record \in Token /\ RealToken(record) /\ news \subseteq Open
  BY DEF IInv, TypeInv
<1>2. /\ record' = k
      /\ before' = (IF left.lock = "web" THEN record ELSE NoToken)
      /\ behind' = (IF left.lock = "web" THEN Tabs \ {t} ELSE {})
      /\ news' = (IF left.lock = "web" THEN news ELSE news \cup (Open \ {t}))
  BY DEF Write
<1>. QED
  BY <1>1, <1>2, FreshToken

LEMMA StoresIs ==
    ASSUME IInv, NEW t \in Tabs, Active(t), NEW s, Stores(t, s), lost \subseteq lost'
    PROVE  Recorded(t, s)
<1>1. TypeInv /\ TokenInv /\ LockInv
  BY DEF IInv
<1>2. /\ record \in Token /\ RealToken(record) /\ before \in Token /\ RealToken(before)
      /\ last \in 0..MaxLogins /\ news \subseteq Open
      /\ record.login \in 0..MaxLogins /\ record.n \in Nat
  BY <1>1, Bounds DEF TypeInv, Token
<1>3. behind = {} /\ (~ lapsed => \A u \in Tabs \ {t} : ~ Doing(u))
  BY ActiveIs
<1>4. /\ \A l \in Logins : Unknown(l) =>
            /\ l \notin {record.login, before.login, last, None} /\ session[l].n = 1
            /\ \A u \in Tabs : l \notin Known(u) /\ l # tab[u].login
  BY Bounds, InLogin DEF Unknown
<1>5. CASE LeavesIt(t, s)
  <2>1. record' = record /\ before' = before /\ behind' = {} /\ news' = news /\ last' = last
    BY <1>3, <1>5 DEF LeavesIt, stored
  <2>2. s.login \in {tab[t].login, record.login}
    BY <1>5 DEF LeavesIt
  <2>3. \A l \in Logins : Unknown(l) => l \notin {record'.login, before'.login, last', s.login}
    BY <1>4, <2>1, <2>2
  <2>4. /\ record' # NoToken => record'.n <= session[record'.login].n
        /\ \A u \in Tabs \ {t} : job[u].answer = "tokens" /\ record'.login = job[u].sent.login =>
              record'.n <= job[u].sent.n
    BY <1>1, <2>1 DEF TokenInv
  <2>5. ASSUME ~ lapsed, record' # NoToken, record'.login \notin lost'
        PROVE  \/ session[record'.login].n = record'.n
               \/ \E u \in Tabs \ {t} : job[u].answer = "tokens"
    <3>1. record.login \notin lost
      BY <2>1, <2>5
    <3>2. session[record.login].n = record.n \/ \E u \in Tabs : job[u].answer = "tokens"
      BY <1>1, <2>1, <2>5, <3>1 DEF LockInv
    <3>3. job[t].answer = "tokens" => job[t].sent = record
      BY <1>1, <2>5, TokensAreOfADoer DEF LockInv
    <3>4. job[t].answer = "tokens" => job[t].sent.login \in lost'
      BY <1>5, <2>5 DEF LeavesIt
    <3>5. job[t].answer # "tokens"
      BY <2>1, <2>5, <3>3, <3>4
    <3>. QED
      BY <2>1, <3>2, <3>5
  <2>. QED
    BY <1>2, <2>1, <2>2, <2>3, <2>4, <2>5 DEF Recorded, MovesOn
<1>6. CASE Removes(t, s)
  <2>1. /\ record' = NoToken /\ before' \in Token /\ RealToken(before')
        /\ news' \subseteq Open /\ before'.login \in {record.login, None}
        /\ \/ behind' = {}
           \/ left.lock = "web" /\ behind' = Tabs \ {t} /\ before' = record
    BY <1>6, WriteIs DEF Removes
  <2>2. last' = last /\ s.login = None /\ record.login \in over
    BY <1>6 DEF Removes
  <2>3. /\ record'.login = None /\ record' \in Token /\ RealToken(record')
    BY <2>1, FreshToken
  <2>4. \A l \in Logins : Unknown(l) => l \notin {record'.login, before'.login, last', s.login}
    BY <1>4, <2>1, <2>2, <2>3
  <2>5. \A u \in Tabs : None \notin Known(u)
    BY InLogin
  <2>6. \A u \in Tabs : job[u].answer = "tokens" => job[u].sent.login # None
    BY TokensAreOfADoer, SentIs, Bounds
  <2>. QED
    BY <1>2, <2>1, <2>2, <2>3, <2>4, <2>5, <2>6 DEF Recorded, MovesOn
<1>7. CASE Renews(t, s)
  <2>1. PICK k : /\ k.login = job[t].sent.login /\ k.n = job[t].sent.n + 1
                 /\ k \in Token /\ RealToken(k) /\ Write(t, k)
    BY <1>7 DEF Renews
  <2>2. PICK login, n : login = job[t].sent.login /\ n = job[t].sent.n
    OBVIOUS
  <2>3. /\ last' = last /\ job[t].answer = "tokens" /\ s.login = login /\ record.login = login
        /\ k.login = login /\ k.n = n + 1
    BY <1>7, <2>1, <2>2 DEF Renews
  <2>4. Doing(t)
    BY <2>3, TokensAreOfADoer
  <2>5. login \in Logins /\ n \in 1..MaxTokens /\ login \in Known(t) /\ login # None
    BY <2>2, <2>4, SentIs, Bounds
  <2>6. /\ record' = k /\ before' \in Token /\ RealToken(before')
        /\ news' \subseteq Open /\ before'.login \in {record.login, None}
        /\ \/ behind' = {}
           \/ left.lock = "web" /\ behind' = Tabs \ {t} /\ before' = record
    BY <2>1, WriteIs
  <2>7. /\ session[login].n = n + 1 /\ record.n <= n
        /\ \A u \in Tabs \ {t} : job[u].answer = "tokens" => job[u].sent.login # login
    BY <1>1, <2>2, <2>3 DEF TokenInv
  <2>8. k # NoToken
    BY <2>3, <2>5, FreshToken
  <2>9. \A l \in Logins : Unknown(l) => l \notin {record'.login, before'.login, last', s.login}
    BY <1>4, <2>3, <2>6
  <2>10. MovesOn
    <3>1. record'.n > record.n
      BY <1>2, <2>3, <2>5, <2>6, <2>7, Bounds
    <3>. QED
      BY <2>3, <2>6, <2>8, <3>1 DEF MovesOn
  <2>11. record'.n <= session[record'.login].n /\ session[record'.login].n = record'.n
    BY <2>3, <2>5, <2>6, <2>7, Bounds
  <2>. QED
    BY <1>2, <2>1, <2>3, <2>6, <2>7, <2>9, <2>10, <2>11 DEF Recorded
<1>8. CASE SignsIn(t, s)
  <2>1. PICK k : /\ k.login = FirstTask(t).login /\ k.n = 1
                 /\ k \in Token /\ RealToken(k) /\ Write(t, k)
    BY <1>8 DEF SignsIn
  <2>2. PICK login : login = FirstTask(t).login
    OBVIOUS
  <2>3. /\ FirstTask(t).kind = "signIn" /\ last' = login /\ s.login = login
        /\ k.login = login /\ k.n = 1
    BY <1>8, <2>1, <2>2 DEF SignsIn
  <2>4. login \in Logins /\ Unknown(login)
    BY <2>2, <2>3, SignInIsFresh
  <2>5. /\ login \notin {record.login, before.login, last, None} /\ session[login].n = 1
        /\ \A u \in Tabs : login \notin Known(u)
    BY <1>4, <2>4
  <2>6. /\ record' = k /\ before' \in Token /\ RealToken(before')
        /\ news' \subseteq Open /\ before'.login \in {record.login, None}
        /\ \/ behind' = {}
           \/ left.lock = "web" /\ behind' = Tabs \ {t} /\ before' = record
    BY <2>1, WriteIs
  <2>7. \A l \in Logins : Unknown(l) /\ l # login => l \notin {record'.login, before'.login, last', s.login}
    BY <1>4, <2>3, <2>6
  <2>8. \A u \in Tabs : job[u].answer = "tokens" => job[u].sent.login \in Known(u)
    BY TokensAreOfADoer, SentIs
  <2>9. last' \in 0..MaxLogins
    BY <2>3, <2>4, Bounds
  <2>10. MovesOn
    BY <2>3, <2>5, <2>6 DEF MovesOn
  <2>11. record'.n <= session[record'.login].n /\ session[record'.login].n = record'.n
    BY <2>3, <2>5, <2>6
  <2>. QED
    BY <2>1, <2>2, <2>3, <2>5, <2>6, <2>7, <2>8, <2>9, <2>10, <2>11 DEF Recorded
<1>. QED
  BY <1>5, <1>6, <1>7, <1>8 DEF Stores

\* The step as a whole: the task settles, and its tab goes on as s.
SettleStep(t, j, pick, s) ==
    /\ Settles(t, j, pick) /\ Recorded(t, s)
    /\ GoodTab(s) /\ tab' = [tab EXCEPT ![t] = s]
    /\ s.refreshing = tab[t].refreshing /\ s.first = tab[t].first
    /\ lapsed => lapsed'
    /\ lost \subseteq lost'
    /\ left' \in [lock : {left.lock}, signIns : {left.signIns}, requests : Nat,
                  closes : Nat, failures : Nat]
    /\ UNCHANGED <<session, logins, req, over, reused>>

\* What the other tabs, and the tasks in line, see of it.
LEMMA SettleFrame ==
    ASSUME IInv, NEW t \in Tabs, Active(t), NEW j, NEW pick, NEW s, SettleStep(t, j, pick, s)
    PROVE  /\ job'[t] = j /\ tab'[t] = s /\ ~ Doing(t)' /\ job' \in [Tabs -> Jobs]
           /\ tab' \in [Tabs -> TabStates] /\ Open' = Open /\ t \in Open
           /\ \A u \in Tabs \ {t} : job'[u] = job[u] /\ tab'[u] = tab[u] /\ Doing(u)' = Doing(u)
           /\ \A u \in Tabs \ {t} : Known(u)' \subseteq Known(u)
           /\ Known(t)' \subseteq (Known(t) \cup {s.login}) \ {None}
           /\ left'.lock = left.lock /\ left'.signIns = left.signIns
           /\ left.lock \in {"web", "lease"}
<1>1. Settles(t, j, pick) /\ GoodTab(s) /\ tab' = [tab EXCEPT ![t] = s] /\ req' = req
  BY DEF SettleStep
<1>2. TypeInv /\ HasTask(t) /\ TabInv(t)
  BY ActiveIs DEF IInv
<1>3. /\ job' = [job EXCEPT ![t] = j] /\ j \in Jobs /\ j.sent \in {job[t].sent, NoToken}
      /\ j.phase \in {"none", "settled"} /\ Picks(pick, t)
  BY <1>1, <1>2 DEF Settles, TypeInv, NoJob
<1>4. job'[t] = j /\ job' \in [Tabs -> Jobs] /\ \A u \in Tabs \ {t} : job'[u] = job[u]
  BY <1>2, <1>3 DEF TypeInv
<1>5. tab'[t] = s /\ tab' \in [Tabs -> TabStates] /\ \A u \in Tabs \ {t} : tab'[u] = tab[u]
  BY <1>1, <1>2 DEF TypeInv, GoodTab
<1>6. ~ Doing(t)' /\ \A u \in Tabs \ {t} : Doing(u)' = Doing(u)
  BY <1>3, <1>4 DEF Doing
<1>7. t \in Open /\ Open' = Open
  <2>1. t \in Open
    BY <1>2 DEF TabInv
  <2>2. s.status # "closed"
    BY <1>1 DEF GoodTab
  <2>. QED
    BY <1>5, <2>1, <2>2 DEF Open
<1>8. \A h \in handed' : h \in handed \/ (h.tab = t /\ t \in Tabs /\ HasTask(t) /\ h.task = FirstTask(t))
  BY <1>1, <1>2 DEF Settles
<1>9. ASSUME NEW u \in Tabs \ {t}
      PROVE  Known(u)' \subseteq Known(u)
  <2>1. {tab'[u].login, tab'[u].refreshing, tab'[u].first, req'[u].login, job'[u].sent.login}
           \subseteq Known(u) \cup {} \cup {None}
    BY <1>1, <1>4, <1>5 DEF Known
  <2>2. Known(u)' \subseteq Known(u) \cup {}
    BY <1>3, <1>8, <2>1, PicksKnown
  <2>. QED
    BY <2>2
<1>10. Known(t)' \subseteq (Known(t) \cup {s.login}) \ {None}
  <2>1. s.refreshing = tab[t].refreshing /\ s.first = tab[t].first
    BY DEF SettleStep
  <2>2. j.sent.login \in Known(t) \cup {None}
    BY <1>3, FreshToken DEF Known
  <2>3. {tab'[t].refreshing, tab'[t].first, req'[t].login} \subseteq Known(t) \cup {None}
    BY <1>1, <1>5, <2>1, LoginsKnown
  <2>4. {tab'[t].login, tab'[t].refreshing, tab'[t].first, req'[t].login, job'[t].sent.login}
           \subseteq Known(t) \cup {s.login} \cup {None}
    BY <1>4, <1>5, <2>2, <2>3
  <2>5. Known(t)' \subseteq Known(t) \cup {s.login}
    BY <1>3, <1>8, <2>4, PicksKnown
  <2>6. None \notin Known(t)'
    BY DEF Known
  <2>. QED
    BY <2>5, <2>6
<1>11. left'.lock = left.lock /\ left'.signIns = left.signIns /\ left.lock \in {"web", "lease"}
  BY <1>2 DEF SettleStep, TypeInv
<1>. QED
  BY <1>4, <1>5, <1>6, <1>7, <1>9, <1>10, <1>11

\* Of the line.
LEMMA SettleLogins ==
    ASSUME IInv, NEW t \in Tabs, Active(t), NEW j, NEW pick, NEW s, SettleStep(t, j, pick, s)
    PROVE  LoginInv'
<1>1. Settles(t, j, pick) /\ Recorded(t, s) /\ session' = session /\ logins' = logins
  BY DEF SettleStep
<1>2. LoginInv /\ TypeInv
  BY DEF IInv
<1>3. HasTask(t) /\ job[t].phase # "settled" /\ (left.lock = "web" => line[1].tab = t)
  BY ActiveIs
<1>4. /\ job'[t] = j /\ left.lock \in {"web", "lease"} /\ left'.lock = left.lock
      /\ \A u \in Tabs \ {t} : Known(u)' \subseteq Known(u)
      /\ Known(t)' \subseteq (Known(t) \cup {s.login}) \ {None}
  BY SettleFrame
<1>5. Picks(pick, t)
  BY <1>1 DEF Settles
<1>6. PICK f : f = First(line, t)
  OBVIOUS
<1>7. f \in DOMAIN line /\ line[f] = FirstTask(t) /\ (line[1].tab = t => f = 1)
  BY <1>3, <1>6, FirstTaskIs
<1>8. \A i \in DOMAIN line' : ~ Through(pick[i])
  BY <1>3 DEF Through
<1>9. /\ \A l : Due(l)' =>
            /\ Due(l)
            /\ \/ l > logins
               \/ \E i \in DOMAIN line' : line'[i].kind = "signIn" /\ line'[i].login = l /\ ~ Through(i)'
      /\ \A i, j2 \in DOMAIN line' :
            i # j2 /\ line'[i].kind = "signIn" /\ line'[j2].kind = "signIn" => line'[i].login # line'[j2].login
      /\ \A i \in DOMAIN line' : line'[i].kind = "signIn" => line'[i].login <= logins'
  BY <1>1, <1>5, <1>8, PicksDue
<1>10. ASSUME NEW l \in Logins, Due(l)', FirstTask(t).kind = "signIn", l = FirstTask(t).login
       PROVE  FALSE
  <2>1. ~ (l > logins)
    <3>1. l <= logins /\ l \in Nat /\ logins \in Nat
      BY <1>2, <1>7, <1>10, Bounds DEF LoginInv, TypeInv, Logins
    <3>. QED
      BY <3>1
  <2>2. PICK i \in DOMAIN line' : line'[i].kind = "signIn" /\ line'[i].login = l /\ ~ Through(i)'
    BY <1>9, <1>10, <2>1
  <2>3. pick[i] \in DOMAIN line /\ line'[i] = line[pick[i]]
    BY <1>5 DEF Picks
  <2>4. CASE left.lock = "web"
    <3>1. line' = line /\ j.phase = "settled"
      BY <1>1, <2>4 DEF Settles
    <3>2. f = 1 /\ line[1].tab = t
      BY <1>3, <1>7, <2>4
    <3>3. Through(1)'
      BY <1>4, <2>4, <3>1, <3>2 DEF Through
    <3>4. i # 1
      BY <2>2, <3>3
    <3>. QED
      BY <1>2, <1>7, <1>10, <2>2, <3>1, <3>2, <3>4 DEF LoginInv
  <2>5. CASE left.lock = "lease"
    <3>1. pick[i] # f
      BY <1>1, <1>6, <2>5 DEF Settles
    <3>. QED
      BY <1>2, <1>7, <1>10, <2>2, <2>3, <3>1 DEF LoginInv
  <2>. QED
    BY <1>4, <2>4, <2>5
<1>11. ASSUME NEW l \in Logins, Due(l)'
       PROVE  Unknown(l)'
  <2>1. Unknown(l)
    BY <1>2, <1>9, <1>11 DEF LoginInv
  <2>2. FirstTask(t).kind = "signIn" => l # FirstTask(t).login
    BY <1>10, <1>11
  <2>3. l \notin {record'.login, before'.login, last', s.login}
    BY <1>1, <2>1, <2>2 DEF Recorded
  <2>4. \A u \in Tabs : l \notin Known(u) /\ session[l].n = 1
    BY <2>1 DEF Unknown
  <2>. QED
    BY <1>1, <1>4, <2>3, <2>4 DEF Unknown
<1>. QED
  BY <1>9, <1>11 DEF LoginInv

LEMMA SettleInv ==
    ASSUME IInv, NEW t \in Tabs, Active(t), NEW j, NEW pick, NEW s, SettleStep(t, j, pick, s)
    PROVE  IInv'
<1>1. TypeInv /\ HandedInv /\ BehindInv /\ LoginInv /\ TokenInv /\ OverInv /\ LockInv
  BY DEF IInv
<1>2. \A u \in Tabs : TabInv(u) /\ JobInv(u) /\ SeenInv(u)
  BY DEF IInv
<1>3. /\ Settles(t, j, pick) /\ Recorded(t, s) /\ GoodTab(s)
      /\ (lapsed => lapsed') /\ lost \subseteq lost'
      /\ UNCHANGED <<session, logins, req, over, reused>>
      /\ left' \in [lock : {left.lock}, signIns : {left.signIns}, requests : Nat,
                    closes : Nat, failures : Nat]
  BY DEF SettleStep
<1>4. /\ HasTask(t) /\ job[t].phase # "settled" /\ behind = {} /\ Seen(t) = record
      /\ left.lock = "web" => line[1].tab = t
      /\ ~ lapsed => \A u \in Tabs \ {t} : ~ Doing(u)
  BY ActiveIs
<1>5. /\ job'[t] = j /\ tab'[t] = s /\ ~ Doing(t)' /\ job' \in [Tabs -> Jobs]
      /\ tab' \in [Tabs -> TabStates] /\ Open' = Open /\ t \in Open
      /\ \A u \in Tabs \ {t} : job'[u] = job[u] /\ tab'[u] = tab[u] /\ Doing(u)' = Doing(u)
      /\ \A u \in Tabs \ {t} : Known(u)' \subseteq Known(u)
      /\ Known(t)' \subseteq (Known(t) \cup {s.login}) \ {None}
      /\ left'.lock = left.lock /\ left'.signIns = left.signIns
      /\ left.lock \in {"web", "lease"}
  BY SettleFrame
<1>6. /\ j.answer = "none" /\ Picks(pick, t) /\ lease' \in Tabs \cup {"none", "gone"}
      /\ left.lock = "web" =>
             /\ line' = line /\ j.phase = "settled" /\ j.result \in Results
             /\ j.result = "tokens" => /\ j.sent.login = FirstTask(t).login
                                       /\ j.sent.n \in 1..(MaxTokens - 1)
      /\ left.lock = "lease" => j = NoJob
      /\ \A h \in handed' :
             \/ h \in handed
             \/ /\ h \in HandedTasks /\ h.tab = t /\ h.task = FirstTask(t)
                /\ h.result = "tokens" => h.token.login = h.task.login
  BY <1>3 DEF Settles
<1>7. TypeInv'
  <2>1. logins' + left'.signIns <= MaxLogins
    BY <1>1, <1>3, <1>5 DEF TypeInv
  <2>2. line' \in Seq(Tasks)
    BY <1>6 DEF Picks
  <2>3. /\ record' \in Token /\ RealToken(record') /\ before' \in Token /\ RealToken(before')
        /\ last' \in 0..MaxLogins /\ news' \subseteq Open' /\ behind' \subseteq Tabs
    BY <1>3, <1>5 DEF Recorded
  <2>4. handed' \subseteq HandedTasks
    BY <1>1, <1>6 DEF TypeInv
  <2>5. left' \in [lock : {"web", "lease"}, signIns : Nat, requests : Nat, closes : Nat,
                   failures : Nat]
    BY <1>1, <1>3 DEF TypeInv
  <2>. QED
    BY <1>1, <1>3, <1>5, <1>6, <2>1, <2>2, <2>3, <2>4, <2>5 DEF TypeInv
<1>8. HandedInv'
  BY <1>1, <1>5, <1>6 DEF HandedInv
<1>9. BehindInv'
  BY <1>3, <1>5, <1>6 DEF BehindInv, Recorded
<1>10. LoginInv'
  BY SettleLogins
<1>11. \A u \in Tabs : TabInv(u)'
  <2>1. TabInv(t)'
    BY <1>2, <1>3, <1>5 DEF TabInv, GoodTab
  <2>2. ASSUME NEW u \in Tabs \ {t}
        PROVE  TabInv(u)'
    BY <1>2, <1>3, <1>5, <1>6, <2>2 DEF TabInv, Picks
  <2>. QED
    BY <2>1, <2>2
<1>12. \A u \in Tabs : JobInv(u)'
  <2>1. CASE left.lock = "web"
    <3>1. \A u : HasTask(u)' = HasTask(u) /\ FirstTask(u)' = FirstTask(u)
      BY <1>6, <2>1 DEF HasTask, FirstTask
    <3>2. line' = line
      BY <1>6, <2>1
    <3>3. ASSUME NEW u \in Tabs \ {t}
          PROVE  JobInv(u)'
      <4>1. JobInv(u) /\ job'[u] = job[u] /\ Doing(u)' = Doing(u) /\ left'.lock = left.lock
        BY <1>2, <1>5, <3>3
      <4>. QED
        BY <3>1, <3>2, <4>1 DEF JobInv
    <3>4. JobInv(t)'
      BY <1>4, <1>5, <1>6, <2>1, <3>1, <3>2 DEF JobInv
    <3>. QED
      BY <3>3, <3>4
  <2>2. CASE left.lock = "lease"
    <3>1. ASSUME NEW u \in Tabs \ {t}
          PROVE  JobInv(u)'
      <4>1. JobInv(u) /\ job'[u] = job[u] /\ Doing(u)' = Doing(u) /\ left'.lock = left.lock
        BY <1>2, <1>5, <3>1
      <4>2. CASE job[u].phase = "none"
        BY <2>2, <4>1, <4>2 DEF JobInv, Doing
      <4>3. CASE job[u].phase # "none"
        <5>1. HasTask(u) /\ HasTask(u)' /\ FirstTask(u)' = FirstTask(u)
          BY <1>2, <1>6, <3>1, <4>3 DEF JobInv, Picks
        <5>. QED
          BY <2>2, <4>1, <5>1 DEF JobInv
      <4>. QED
        BY <4>2, <4>3
    <3>2. JobInv(t)'
      <4>1. job'[t] = NoJob
        BY <1>5, <1>6, <2>2
      <4>2. NoJob.phase = "none" /\ NoJob.answer = "none" /\ NoJob = [NoJob EXCEPT !.phase = "none"]
        BY DEF NoJob
      <4>. QED
        BY <1>5, <2>2, <4>1, <4>2 DEF JobInv
    <3>. QED
      BY <3>1, <3>2
  <2>. QED
    BY <1>5, <2>1, <2>2
<1>13. \A u \in Tabs : SeenInv(u)'
  <2>1. ASSUME NEW u \in Tabs \ {t}
        PROVE  SeenInv(u)'
    <3>1. Known(u)' \subseteq Known(u) /\ tab'[u] = tab[u]
      BY <1>5
    <3>2. record'.login = record.login \/ record'.login \notin Known(u)
      BY <1>3 DEF Recorded
    <3>3. record.login \in Known(u) => tab[u].login = record.login
      BY InRecordsLogin
    <3>4. CASE u \in behind'
      <4>1. before' = record
        BY <1>3, <3>4 DEF Recorded
      <4>. QED
        BY <3>1, <3>2, <3>3, <3>4, <4>1 DEF SeenInv, Seen
    <3>5. CASE u \notin behind'
      BY <3>1, <3>2, <3>3, <3>5 DEF SeenInv, Seen
    <3>. QED
      BY <3>4, <3>5
  <2>2. SeenInv(t)'
    <3>1. t \notin behind'
      BY <1>3 DEF Recorded
    <3>2. s.login = record'.login \/ (s.login = tab[t].login /\ record' = record)
      BY <1>3 DEF Recorded
    <3>3. record'.login \in Known(t)' => s.login = record'.login
      <4>1. CASE s.login = record'.login
        BY <4>1
      <4>2. CASE s.login = tab[t].login /\ record' = record
        BY <1>5, <4>2, InLogin, InRecordsLogin
      <4>. QED
        BY <3>2, <4>1, <4>2
    <3>. QED
      BY <1>5, <3>1, <3>3 DEF SeenInv, Seen
  <2>. QED
    BY <2>1, <2>2
<1>14. \A u \in Tabs : job'[u].answer # "none" => u # t /\ job'[u] = job[u]
  BY <1>5, <1>6
<1>15. TokenInv'
  <2>1. record' # NoToken => record'.n <= session'[record'.login].n
    BY <1>3 DEF Recorded
  <2>2. ASSUME NEW u \in Tabs, Doing(u)'
        PROVE  job'[u].sent.n <= session'[job'[u].sent.login].n
    BY <1>1, <1>3, <1>5, <2>2 DEF TokenInv
  <2>3. ASSUME NEW u \in Tabs, job'[u].answer = "tokens"
        PROVE  /\ session'[job'[u].sent.login].n = job'[u].sent.n + 1
               /\ record'.login = job'[u].sent.login => record'.n <= job'[u].sent.n
               /\ \A v \in Tabs : Doing(v)' /\ job'[v].sent.login = job'[u].sent.login =>
                     job'[v].sent.n <= job'[u].sent.n
               /\ \A v \in Tabs \ {u} :
                     job'[v].answer = "tokens" => job'[v].sent.login # job'[u].sent.login
    <3>1. u # t /\ job'[u] = job[u] /\ job[u].answer = "tokens"
      BY <1>14, <2>3
    <3>2. session'[job'[u].sent.login].n = job'[u].sent.n + 1
      BY <1>1, <1>3, <3>1 DEF TokenInv
    <3>3. record'.login = job'[u].sent.login => record'.n <= job'[u].sent.n
      BY <1>3, <3>1 DEF Recorded
    <3>4. ASSUME NEW v \in Tabs, Doing(v)', job'[v].sent.login = job'[u].sent.login
          PROVE  job'[v].sent.n <= job'[u].sent.n
      <4>1. v # t /\ Doing(v) /\ job'[v] = job[v]
        BY <1>5, <3>4
      <4>. QED
        BY <1>1, <3>1, <3>4, <4>1 DEF TokenInv
    <3>5. ASSUME NEW v \in Tabs \ {u}, job'[v].answer = "tokens"
          PROVE  job'[v].sent.login # job'[u].sent.login
      BY <1>1, <1>14, <3>1, <3>5 DEF TokenInv
    <3>. QED
      BY <3>2, <3>3, <3>4, <3>5
  <2>. QED
    BY <2>1, <2>2, <2>3 DEF TokenInv
<1>16. OverInv'
  <2>1. \A i \in DOMAIN line' : line'[i].kind \in {"signOut", "end"} => line'[i].login \in over'
    BY <1>1, <1>3, <1>6 DEF OverInv, Picks
  <2>2. \A u \in Tabs : job'[u].answer = "unauthorized" => job'[u].sent.login \in over'
    BY <1>1, <1>3, <1>14 DEF OverInv
  <2>. QED
    BY <2>1, <2>2 DEF OverInv
<1>17. LockInv'
  <2>1. SUFFICES ASSUME ~ lapsed
                 PROVE  LockInv'
    <3>1. ~ lapsed' => ~ lapsed
      BY <1>3
    <3>. QED
      BY <3>1, Zenon DEF LockInv
  <2>2. \A u \in Tabs : ~ Doing(u)'
    BY <1>4, <1>5, <2>1
  <2>3. ASSUME record' # NoToken, record'.login \notin lost'
        PROVE  \/ session'[record'.login].n = record'.n
               \/ \E u \in Tabs : job'[u].answer = "tokens"
    <3>1. \/ session[record'.login].n = record'.n
          \/ \E u \in Tabs \ {t} : job[u].answer = "tokens"
      BY <1>3, <2>1, <2>3 DEF Recorded
    <3>. QED
      BY <1>3, <1>5, <3>1
  <2>. QED
    BY <2>2, <2>3 DEF LockInv
<1>18. SpentOnlyAfterLoss'
  <2>1. lapsed \/ reused \subseteq lost
    BY DEF IInv, SpentOnlyAfterLoss
  <2>2. CASE lapsed
    BY <1>3, <2>2 DEF SpentOnlyAfterLoss
  <2>3. CASE reused \subseteq lost
    BY <1>3, <2>3 DEF SpentOnlyAfterLoss
  <2>. QED
    BY <2>1, <2>2, <2>3
<1>. QED
  BY <1>7, <1>8, <1>9, <1>10, <1>11, <1>12, <1>13, <1>15, <1>16, <1>17, <1>18 DEF IInv

-----------------------------------------------------------------------------
(* The tasks under the lock                                                  *)

\* What the actions of a task that settles leave alone.
Around ==
    /\ lapsed => lapsed'
    /\ lost \subseteq lost'
    /\ left' \in [lock : {left.lock}, signIns : {left.signIns}, requests : Nat,
                  closes : Nat, failures : Nat]
    /\ UNCHANGED <<session, logins, req, over, reused>>

\* New tokens of which a task keeps nothing are lost, unless two are in.
NothingForgotten(t) == ~ lapsed /\ job[t].answer = "tokens" => job[t].sent.login \in lost'

LEMMA ActiveTab ==
    ASSUME IInv, NEW t \in Tabs, Active(t)
    PROVE  GoodTab(tab[t]) /\ tab[t] \in TabStates
<1>1. HasTask(t)
  BY ActiveIs
<1>2. t \in Open
  BY <1>1 DEF IInv, TabInv
<1>3. tab[t].status # "closed"
  BY <1>2 DEF Open
<1>. QED
  BY <1>3, OpenIsGood DEF GoodTab

LEMMA SettlesWell ==
    ASSUME IInv, NEW t \in Tabs, Active(t), Around, NEW result \in Results, Settle(t, result),
           result = "tokens" => job[t].sent.login = FirstTask(t).login /\ job[t].sent.n \in 1..(MaxTokens - 1),
           NEW s, GoodTab(s), tab' = [tab EXCEPT ![t] = s],
           s.refreshing = tab[t].refreshing, s.first = tab[t].first,
           Stores(t, s)
    PROVE  IInv' /\ MovesOn
<1>1. PICK j, pick : Settles(t, j, pick)
  BY SettleIs
<1>2. Recorded(t, s)
  BY StoresIs DEF Around
<1>3. SettleStep(t, j, pick, s)
  BY <1>1, <1>2 DEF SettleStep, Around
<1>. QED
  BY <1>2, <1>3, SettleInv DEF Recorded

LEMMA FollowStep ==
    ASSUME IInv, NEW t \in Tabs, Active(t), Around, NothingForgotten(t),
           Follow(t, Seen(t), "changed")
    PROVE  IInv' /\ MovesOn
<1>1. Seen(t) = record /\ record \in Token /\ RealToken(record)
  BY ActiveIs DEF IInv, TypeInv
<1>2. PICK s : s = SwitchTo(tab[t], record)
  OBVIOUS
<1>3. /\ tab' = [tab EXCEPT ![t] = s] /\ Settle(t, "changed") /\ UNCHANGED <<stored, last>>
  BY <1>1, <1>2 DEF Follow
<1>4. GoodTab(s) /\ s.login = record.login /\ s.refreshing = tab[t].refreshing /\ s.first = tab[t].first
  BY <1>1, <1>2, ActiveTab, SwitchGood
<1>5. Stores(t, s)
  BY <1>3, <1>4 DEF Stores, LeavesIt, NothingForgotten
<1>6. "changed" \in Results
  BY DEF Results
<1>. QED
  BY <1>3, <1>4, <1>5, <1>6, SettlesWell

LEMMA RemoveStep ==
    ASSUME IInv, NEW t \in Tabs, Active(t), Around, record.login \in over,
           Write(t, NoToken), tab' = [tab EXCEPT ![t] = SignedOut(tab[t])],
           Settle(t, "ended"), last' = last
    PROVE  IInv' /\ MovesOn
<1>1. PICK s : s = SignedOut(tab[t])
  OBVIOUS
<1>2. GoodTab(s) /\ s.login = None /\ s.refreshing = tab[t].refreshing /\ s.first = tab[t].first
  BY <1>1, ActiveTab, SignedOutGood
<1>3. Stores(t, s)
  BY <1>2 DEF Stores, Removes
<1>4. "ended" \in Results
  BY DEF Results
<1>. QED
  BY <1>1, <1>2, <1>3, <1>4, SettlesWell

LEMMA EndStep ==
    ASSUME IInv, NEW t \in Tabs, Active(t), Around, NothingForgotten(t),
           NEW login \in over, End(t, login)
    PROVE  IInv' /\ MovesOn
<1>1. Seen(t) = record
  BY ActiveIs
<1>2. CASE IsRecordOf(Seen(t), login)
  <2>1. /\ Write(t, NoToken) /\ tab' = [tab EXCEPT ![t] = SignedOut(tab[t])]
        /\ Settle(t, "ended") /\ last' = last
    BY <1>2 DEF End
  <2>2. record.login \in over
    BY <1>1, <1>2 DEF IsRecordOf
  <2>. QED
    BY <2>1, <2>2, RemoveStep
<1>3. CASE ~ IsRecordOf(Seen(t), login)
  <2>1. Follow(t, Seen(t), "changed")
    BY <1>3 DEF End
  <2>. QED
    BY <2>1, FollowStep
<1>. QED
  BY <1>2, <1>3

\* What the first task in line signs out of, or ends, is over.
LEMMA TaskIsOver ==
    ASSUME IInv, NEW t \in Tabs, HasTask(t), FirstTask(t).kind \in {"signOut", "end"}
    PROVE  FirstTask(t).login \in over
<1>1. PICK i : i = First(line, t)
  OBVIOUS
<1>2. i \in DOMAIN line /\ FirstTask(t) = line[i]
  BY <1>1, FirstTaskIs
<1>. QED
  BY <1>2 DEF IInv, OverInv

LEMMA KeepSignInStep ==
    ASSUME IInv, NEW t \in Tabs, Active(t), Around, FirstTask(t).kind = "signIn",
           KeepSignIn(t, FirstTask(t).login)
    PROVE  IInv' /\ MovesOn
<1>1. PICK login : login = FirstTask(t).login
  OBVIOUS
<1>2. login \in Logins /\ login # None /\ login \in 0..MaxLogins
  BY <1>1, SignInIsFresh, Bounds
<1>3. PICK k : k = [login |-> login, n |-> 1]
  OBVIOUS
<1>4. k.login = login /\ k.n = 1 /\ k \in Token /\ RealToken(k)
  BY <1>2, <1>3, Bounds DEF Token, RealToken
<1>5. PICK s0 \in TabStates : s0 = tab[t]
  BY ActiveTab
<1>6. PICK s : s = [Keep(s0, k) EXCEPT !.status = "signed-in", !.login = login]
  OBVIOUS
<1>7. /\ GoodTab(s) /\ s.login = login /\ s.refreshing = tab[t].refreshing /\ s.first = tab[t].first
  <2>1. PICK u : u = Keep(s0, k)
    OBVIOUS
  <2>2. u \in TabStates /\ u.access = k /\ u.refreshing = s0.refreshing /\ u.first = s0.first
    BY <1>4, <2>1 DEF Keep, TabStates
  <2>3. s = [u EXCEPT !.status = "signed-in", !.login = login]
    BY <1>6, <2>1
  <2>4. /\ s \in TabStates /\ s.status = "signed-in" /\ s.login = login /\ s.access = k
        /\ s.refreshing = s0.refreshing /\ s.first = s0.first
    BY <1>2, <2>2, <2>3 DEF TabStates
  <2>. QED
    BY <1>2, <1>4, <1>5, <2>4 DEF GoodTab
<1>8. /\ Write(t, k) /\ tab' = [tab EXCEPT ![t] = s] /\ last' = login /\ Settle(t, "done")
  BY <1>1, <1>3, <1>5, <1>6 DEF KeepSignIn
<1>9. SignsIn(t, s)
  BY <1>1, <1>4, <1>7, <1>8 DEF SignsIn
<1>10. Stores(t, s) /\ "done" \in Results
  BY <1>9 DEF Stores, Results
<1>. QED
  BY <1>7, <1>8, <1>10, SettlesWell

\* The outcome of a refresh; the tokens of one that got none may be lost.
LEMMA RefreshedStep ==
    ASSUME IInv, NEW t \in Tabs, Doing(t), Around, FirstTask(t).kind = "refresh",
           NEW outcome \in {"tokens", "unauthorized", "unavailable"}, Refreshed(t, outcome),
           outcome = "unavailable" \/ outcome = job[t].answer,
           outcome = "unavailable" => NothingForgotten(t)
    PROVE  IInv' /\ MovesOn
<1>1. Active(t)
  BY DEF Active
<1>2. Seen(t) = record
  BY <1>1, ActiveIs
<1>3. PICK login, n : login = job[t].sent.login /\ n = job[t].sent.n
  OBVIOUS
<1>4. /\ login \in Logins /\ n \in 1..MaxTokens /\ login \in Known(t)
      /\ login = FirstTask(t).login /\ job[t].sent \in Token
  BY <1>3, SentIs
<1>5. PICK s0 \in TabStates : s0 = tab[t]
  BY <1>1, ActiveTab
<1>6. GoodTab(s0)
  BY <1>1, <1>5, ActiveTab
<1>7. CASE ~ StillThere(t)
  <2>1. Follow(t, Seen(t), "changed")
    BY <1>7 DEF Refreshed
  <2>2. NothingForgotten(t)
    <3>1. lapsed
      BY <1>2, <1>7 DEF StillThere, IInv, LockInv
    <3>. QED
      BY <3>1 DEF NothingForgotten
  <2>. QED
    BY <1>1, <2>1, <2>2, FollowStep
<1>8. CASE StillThere(t) /\ outcome = "tokens"
  <2>1. record.login = login
    BY <1>2, <1>3, <1>8 DEF StillThere
  <2>2. job[t].answer = "tokens" /\ session[login].n = n + 1
    BY <1>3, <1>8 DEF IInv, TokenInv
  <2>3. n + 1 \in 1..MaxTokens /\ n \in 1..(MaxTokens - 1)
    <3>1. session[login].n \in 1..MaxTokens
      BY <1>4 DEF IInv, TypeInv, Sessions
    <3>. QED
      BY <1>4, <2>2, <3>1, Bounds
  <2>4. PICK k : k = [job[t].sent EXCEPT !.n = @ + 1]
    OBVIOUS
  <2>5. k.login = login /\ k.n = n + 1 /\ k \in Token /\ RealToken(k)
    <3>1. PICK s \in Token : s = job[t].sent
      BY <1>4
    <3>2. k = [s EXCEPT !.n = @ + 1] /\ s.login = login /\ s.n = n
      BY <1>3, <2>4, <3>1
    <3>3. k.login = login /\ k.n = n + 1 /\ k \in Token
      BY <2>3, <3>1, <3>2, Bounds DEF Token
    <3>. QED
      BY <1>4, <2>3, <3>3 DEF RealToken
  <2>6. PICK s : s = IF s0.status = "signed-in" THEN Keep(s0, k)
                     ELSE [Keep(s0, k) EXCEPT !.status = "signed-in", !.login = login]
    OBVIOUS
  <2>7. /\ Write(t, k) /\ tab' = [tab EXCEPT ![t] = s] /\ Settle(t, "tokens") /\ last' = last
    BY <1>3, <1>5, <1>8, <2>4, <2>6 DEF Refreshed
  <2>8. PICK u : u = Keep(s0, k)
    OBVIOUS
  <2>9. /\ u \in TabStates /\ u.access = k /\ u.refreshing = s0.refreshing /\ u.first = s0.first
        /\ u.login = s0.login /\ u.status = s0.status
    BY <2>5, <2>8 DEF Keep, TabStates
  <2>10. /\ GoodTab(s) /\ s.login = login /\ s.refreshing = tab[t].refreshing /\ s.first = tab[t].first
    <3>1. CASE s0.status = "signed-in"
      <4>1. s = u
        BY <2>6, <2>8, <3>1
      <4>2. s0.login = login
        BY <1>4, <1>5, <2>1, InRecordsLogin
      <4>. QED
        BY <1>5, <1>6, <2>5, <2>9, <3>1, <4>1, <4>2 DEF GoodTab
    <3>2. CASE s0.status # "signed-in"
      <4>1. s = [u EXCEPT !.status = "signed-in", !.login = login]
        BY <2>6, <2>8, <3>2
      <4>2. login \in 0..MaxLogins /\ login # None
        BY <1>4, Bounds
      <4>3. /\ s \in TabStates /\ s.status = "signed-in" /\ s.login = login /\ s.access = k
            /\ s.refreshing = s0.refreshing /\ s.first = s0.first
        BY <2>9, <4>1, <4>2 DEF TabStates
      <4>. QED
        BY <1>5, <2>5, <4>2, <4>3 DEF GoodTab
    <3>. QED
      BY <3>1, <3>2
  <2>11. Renews(t, s)
    BY <1>3, <2>1, <2>2, <2>5, <2>7, <2>10 DEF Renews
  <2>12. Stores(t, s) /\ "tokens" \in Results
    BY <2>11 DEF Stores, Results
  <2>. QED
    BY <1>1, <1>3, <1>4, <2>3, <2>7, <2>10, <2>12, SettlesWell
<1>9. CASE StillThere(t) /\ outcome = "unauthorized"
  <2>1. /\ Write(t, NoToken) /\ tab' = [tab EXCEPT ![t] = SignedOut(tab[t])]
        /\ Settle(t, "ended") /\ last' = last
    BY <1>9 DEF Refreshed
  <2>2. record.login = login
    BY <1>2, <1>3, <1>9 DEF StillThere
  <2>3. login \in over
    BY <1>3, <1>9 DEF IInv, OverInv
  <2>. QED
    BY <1>1, <2>1, <2>2, <2>3, RemoveStep
<1>10. CASE StillThere(t) /\ outcome = "unavailable"
  <2>1. PICK s : s = [s0 EXCEPT !.backOff = TRUE]
    OBVIOUS
  <2>2. /\ GoodTab(s) /\ s.login = s0.login /\ s.refreshing = s0.refreshing /\ s.first = s0.first
    BY <1>6, <2>1 DEF GoodTab, TabStates
  <2>3. tab' = [tab EXCEPT ![t] = s]
    <3>1. tab' = [tab EXCEPT ![t].backOff = TRUE]
      BY <1>10 DEF Refreshed
    <3>2. tab \in [Tabs -> TabStates]
      BY DEF IInv, TypeInv
    <3>. QED
      BY <1>5, <2>1, <3>1, <3>2
  <2>4. Settle(t, "unavailable") /\ UNCHANGED <<stored, last>>
    BY <1>10 DEF Refreshed
  <2>5. LeavesIt(t, s)
    BY <1>5, <1>10, <2>2, <2>4 DEF LeavesIt, NothingForgotten
  <2>6. Stores(t, s) /\ "unavailable" \in Results
    BY <2>5 DEF Stores, Results
  <2>. QED
    BY <1>1, <1>5, <2>2, <2>3, <2>4, <2>6, SettlesWell
<1>. QED
  BY <1>7, <1>8, <1>9, <1>10

LEMMA AnsweredInv ==
    ASSUME IInv, NEW t \in Tabs, Answered(t)
    PROVE  IInv' /\ MovesOn
<1>1. /\ job[t].phase = "answered" /\ GoOn(t, job[t].answer) /\ left' = left
      /\ UNCHANGED <<session, logins, req, over, lost, lapsed, reused>>
  BY DEF Answered, server
<1>2. Doing(t) /\ Active(t)
  BY <1>1 DEF Doing, Active
<1>3. Around
  BY <1>1, SameLeft DEF Around
<1>4. /\ HasTask(t) /\ FirstTask(t).kind \in {"refresh", "signOut"}
      /\ job[t].answer \in IF FirstTask(t).kind = "refresh"
                           THEN {"tokens", "unauthorized", "unavailable"} ELSE {"done", "unavailable"}
  BY <1>1, <1>2, SentIs DEF IInv, JobInv
<1>5. CASE FirstTask(t).kind = "refresh"
  <2>1. Refreshed(t, job[t].answer)
    BY <1>1, <1>5 DEF GoOn
  <2>2. job[t].answer \in {"tokens", "unauthorized", "unavailable"}
    BY <1>4, <1>5
  <2>3. job[t].answer = "unavailable" => NothingForgotten(t)
    BY DEF NothingForgotten
  <2>. QED
    BY <1>2, <1>3, <1>5, <2>1, <2>2, <2>3, RefreshedStep
<1>6. CASE FirstTask(t).kind # "refresh"
  <2>1. End(t, FirstTask(t).login)
    BY <1>1, <1>6 DEF GoOn
  <2>2. NothingForgotten(t)
    BY <1>4, <1>6 DEF NothingForgotten
  <2>3. FirstTask(t).login \in over
    BY <1>4, <1>6, TaskIsOver
  <2>. QED
    BY <1>2, <1>3, <2>1, <2>2, <2>3, EndStep
<1>. QED
  BY <1>5, <1>6

LEMMA NoAnswerInv ==
    ASSUME IInv, NEW t \in Tabs, NoAnswer(t)
    PROVE  IInv' /\ MovesOn
<1>1. /\ job[t].phase \in {"calling", "answered"} /\ Fail /\ GoOn(t, "unavailable")
      /\ lost' = (IF job[t].answer = "tokens" THEN lost \cup {job[t].sent.login} ELSE lost)
      /\ UNCHANGED <<session, logins, req, over, lapsed, reused>>
  BY DEF NoAnswer, server
<1>2. Doing(t) /\ Active(t)
  BY <1>1 DEF Doing, Active
<1>3. Around
  <2>1. left \in [lock : {"web", "lease"}, signIns : Nat, requests : Nat, closes : Nat,
                  failures : Nat]
    BY DEF IInv, TypeInv
  <2>2. left.failures > 0 /\ left' = [left EXCEPT !.failures = @ - 1]
    BY <1>1 DEF Fail
  <2>3. left' \in [lock : {left.lock}, signIns : {left.signIns}, requests : Nat,
                   closes : Nat, failures : Nat]
    BY <2>1, <2>2
  <2>4. lost \subseteq lost'
    BY <1>1
  <2>. QED
    BY <1>1, <2>3, <2>4 DEF Around
<1>4. NothingForgotten(t)
  BY <1>1 DEF NothingForgotten
<1>5. HasTask(t) /\ FirstTask(t).kind \in {"refresh", "signOut"}
  BY <1>2, SentIs
<1>6. CASE FirstTask(t).kind = "refresh"
  <2>1. Refreshed(t, "unavailable")
    BY <1>1, <1>6 DEF GoOn
  <2>. QED
    BY <1>2, <1>3, <1>4, <1>6, <2>1, RefreshedStep
<1>7. CASE FirstTask(t).kind # "refresh"
  <2>1. End(t, FirstTask(t).login)
    BY <1>1, <1>7 DEF GoOn
  <2>2. FirstTask(t).login \in over
    BY <1>5, <1>7, TaskIsOver
  <2>. QED
    BY <1>2, <1>3, <1>4, <2>1, <2>2, EndStep
<1>. QED
  BY <1>6, <1>7

\* A task that has the lock sends the record's token.
LEMMA CallInv ==
    ASSUME IInv, NEW t \in Tabs, Granted(t), Call(t, Seen(t)),
           FirstTask(t).kind \in {"refresh", "signOut"},
           IsRecordOf(Seen(t), FirstTask(t).login),
           lapsed' = (lapsed \/ (left.lock = "lease" /\ ~ Settled(t))),
           UNCHANGED <<session, logins, stored, tab, req, left, last, over, lost, reused>>
    PROVE  IInv'
<1>1. Active(t) /\ job[t].phase \in {"none", "settling"}
  BY DEF Active, Granted
<1>2. /\ HasTask(t) /\ Seen(t) = record /\ (left.lock = "web" => line[1].tab = t)
      /\ ~ lapsed => \A u \in Tabs \ {t} : ~ Doing(u)
  BY <1>1, ActiveIs
<1>3. /\ job[t] \in Jobs /\ job[t].sent = NoToken /\ job[t].answer = "none" /\ job[t].result = "none"
  BY <1>1, IdleJobIs
<1>4. /\ job' = [job EXCEPT ![t].phase = "calling", ![t].sent = record]
      /\ UNCHANGED <<line, handed, lease>>
  BY <1>2 DEF Call
<1>5. record # NoToken /\ record.login = FirstTask(t).login
  BY <1>2 DEF IsRecordOf
<1>6. TypeInv /\ TokenInv /\ OverInv /\ LockInv /\ SpentOnlyAfterLoss
  BY DEF IInv
<1>7. record \in Token /\ RealToken(record) /\ record.login \in Known(t)
  <2>1. PICK i : i = First(line, t)
    OBVIOUS
  <2>2. i \in DOMAIN line /\ line[i] = FirstTask(t) /\ line[i].tab = t /\ line[i].login \in Logins
    BY <1>2, <2>1, FirstTaskIs, LineType
  <2>. QED
    BY <1>5, <1>6, <2>2, Bounds DEF Known, TypeInv
<1>8. PICK j : /\ j \in Jobs /\ j.phase = "calling" /\ j.sent = record /\ j.answer = "none"
               /\ j.result = "none" /\ job' = [job EXCEPT ![t] = j]
  <2>1. PICK j0 \in Jobs : j0 = job[t]
    BY <1>3
  <2>2. PICK j1 : j1 = [j0 EXCEPT !.phase = "calling", !.sent = record]
    OBVIOUS
  <2>3. /\ j1 \in Jobs /\ j1.phase = "calling" /\ j1.sent = record /\ j1.answer = j0.answer
        /\ j1.result = j0.result
    BY <1>7, <2>2 DEF Jobs
  <2>4. job \in [Tabs -> Jobs]
    BY <1>6 DEF TypeInv
  <2>5. job' = [job EXCEPT ![t] = j1]
    BY <1>4, <2>1, <2>2, <2>4
  <2>. QED
    BY <1>3, <2>1, <2>3, <2>5
<1>9. job'[t] = j /\ \A u \in Tabs \ {t} : job'[u] = job[u]
  BY <1>6, <1>8 DEF TypeInv
<1>10. /\ UNCHANGED <<session, logins, record, tab, line, handed, req, lease, left,
                      last, over, lost, reused>>
       /\ \A u : HasTask(u)' = HasTask(u) /\ FirstTask(u)' = FirstTask(u)
  BY <1>4 DEF stored, HasTask, FirstTask
<1>11. \A u \in Tabs \ {t} : Doing(u)' = Doing(u)
  BY <1>9 DEF Doing
<1>12. Doing(t)'
  BY <1>8, <1>9 DEF Doing
<1>13. JobInv(t)'
  BY <1>2, <1>5, <1>7, <1>8, <1>9, <1>10 DEF JobInv
<1>14. \A u \in Tabs : job'[u].answer # "none" => u # t /\ job'[u] = job[u]
  BY <1>8, <1>9
<1>15. TokenInv'
  <2>1. record' # NoToken => record'.n <= session'[record'.login].n
    BY <1>6, <1>10 DEF TokenInv
  <2>2. ASSUME NEW u \in Tabs, Doing(u)'
        PROVE  job'[u].sent.n <= session'[job'[u].sent.login].n
    <3>1. CASE u = t
      BY <1>5, <1>8, <1>9, <1>10, <2>1, <3>1
    <3>2. CASE u # t
      <4>1. Doing(u) /\ job'[u] = job[u] /\ session' = session
        BY <1>9, <1>10, <1>11, <2>2, <3>2
      <4>. QED
        BY <1>6, <4>1 DEF TokenInv
    <3>. QED
      BY <3>1, <3>2
  <2>3. ASSUME NEW u \in Tabs, job'[u].answer = "tokens"
        PROVE  /\ session'[job'[u].sent.login].n = job'[u].sent.n + 1
               /\ record'.login = job'[u].sent.login => record'.n <= job'[u].sent.n
               /\ \A v \in Tabs : Doing(v)' /\ job'[v].sent.login = job'[u].sent.login =>
                     job'[v].sent.n <= job'[u].sent.n
               /\ \A v \in Tabs \ {u} :
                     job'[v].answer = "tokens" => job'[v].sent.login # job'[u].sent.login
    <3>1. u # t /\ job'[u] = job[u] /\ job[u].answer = "tokens"
      BY <1>14, <2>3
    <3>2. session'[job'[u].sent.login].n = job'[u].sent.n + 1
      BY <1>6, <1>10, <3>1 DEF TokenInv
    <3>3. record'.login = job'[u].sent.login => record'.n <= job'[u].sent.n
      BY <1>6, <1>10, <3>1 DEF TokenInv
    <3>4. ASSUME NEW v \in Tabs, Doing(v)', job'[v].sent.login = job'[u].sent.login
          PROVE  job'[v].sent.n <= job'[u].sent.n
      <4>1. CASE v = t
        BY <1>8, <1>9, <1>10, <3>3, <3>4, <4>1
      <4>2. CASE v # t
        <5>1. Doing(v) /\ job'[v] = job[v]
          BY <1>9, <1>11, <3>4, <4>2
        <5>. QED
          BY <1>6, <3>1, <3>4, <5>1 DEF TokenInv
      <4>. QED
        BY <4>1, <4>2
    <3>5. ASSUME NEW v \in Tabs \ {u}, job'[v].answer = "tokens"
          PROVE  job'[v].sent.login # job'[u].sent.login
      BY <1>6, <1>14, <3>1, <3>5 DEF TokenInv
    <3>. QED
      BY <3>2, <3>3, <3>4, <3>5
  <2>. QED
    BY <2>1, <2>2, <2>3 DEF TokenInv
<1>16. LockInv'
  <2>1. SUFFICES ASSUME ~ lapsed, left.lock = "lease" => Settled(t)
                 PROVE  LockInv'
    <3>1. ~ lapsed' => ~ lapsed /\ (left.lock = "lease" => Settled(t))
      OBVIOUS
    <3>. QED
      BY <3>1, Zenon DEF LockInv
  <2>2. ASSUME NEW u \in Tabs, Doing(u)'
        PROVE  /\ job'[u].sent = record'
               /\ left'.lock = "lease" => lease' = u /\ \A v \in Tabs \ {u} : job'[v].phase # "taking"
    <3>1. u = t
      BY <1>2, <1>11, <2>1, <2>2
    <3>2. ASSUME left.lock = "lease"
          PROVE  lease = t /\ \A v \in Tabs \ {t} : job'[v].phase # "taking"
      BY <1>9, <2>1, <3>2 DEF Granted, Settled
    <3>. QED
      BY <1>8, <1>9, <1>10, <3>1, <3>2
  <2>3. ASSUME record' # NoToken, record'.login \notin lost'
        PROVE  \/ session'[record'.login].n = record'.n
               \/ \E u \in Tabs : job'[u].answer = "tokens"
    <3>1. \/ session[record.login].n = record.n
          \/ \E u \in Tabs : job[u].answer = "tokens"
      BY <1>6, <1>10, <2>1, <2>3 DEF LockInv
    <3>. QED
      BY <1>3, <1>9, <1>10, <3>1
  <2>. QED
    BY <2>2, <2>3 DEF LockInv
<1>17. \A u \in Tabs : job'[u].answer = "unauthorized" => job'[u].sent.login \in over'
  BY <1>6, <1>10, <1>14 DEF OverInv
<1>18. SpentOnlyAfterLoss'
  <2>1. lapsed => lapsed'
    OBVIOUS
  <2>2. reused' = reused /\ lost' = lost
    BY <1>10
  <2>. QED
    BY <1>6, <2>1, <2>2, Zenon DEF SpentOnlyAfterLoss
<1>19. Rest(t)'
  BY <1>13, <1>15, <1>16, <1>17, <1>18 DEF Rest
<1>20. /\ session' \in [Logins -> Sessions] /\ \A l \in Logins : Due(l) => session'[l].n = 1
       /\ lease' \in Tabs \cup {"none", "gone"} /\ over \subseteq over' /\ left' = left
  BY <1>6, <1>10, DueFresh DEF TypeInv
<1>21. job[t].phase # "settled" /\ j.phase # "settled" /\ j.sent.login \in Known(t) \cup {None}
  BY <1>1, <1>7, <1>8
<1>. QED
  BY <1>2, <1>8, <1>10, <1>19, <1>20, <1>21, SameLeft, JobStep

LEMMA RunInv ==
    ASSUME IInv, NEW t \in Tabs, Run(t)
    PROVE  IInv' /\ MovesOn
<1>1. /\ Granted(t) /\ lapsed' = (lapsed \/ (left.lock = "lease" /\ ~ Settled(t)))
      /\ UNCHANGED <<session, logins, req, left, over, lost, reused>>
  BY DEF Run, server
<1>2. Active(t) /\ HasTask(t)
  BY <1>1 DEF Active, Granted
<1>3. Around
  <2>1. lapsed => lapsed'
    BY <1>1
  <2>2. left' \in [lock : {left.lock}, signIns : {left.signIns}, requests : Nat,
                   closes : Nat, failures : Nat]
    BY <1>1, SameLeft
  <2>. QED
    BY <1>1, <2>1, <2>2 DEF Around
<1>4. NothingForgotten(t)
  <2>1. job[t].phase \in {"none", "settling"}
    BY <1>1 DEF Granted
  <2>2. job[t].answer = "none"
    BY <2>1, IdleJobIs
  <2>. QED
    BY <2>2 DEF NothingForgotten
<1>5. FirstTask(t).kind \in Kinds
  BY <1>2, FirstTaskIs DEF Tasks
<1>6. CASE FirstTask(t).kind = "signIn"
  <2>1. KeepSignIn(t, FirstTask(t).login)
    BY <1>6 DEF Run
  <2>. QED
    BY <1>2, <1>3, <1>6, <2>1, KeepSignInStep
<1>7. CASE FirstTask(t).kind = "end"
  <2>1. End(t, FirstTask(t).login)
    BY <1>7 DEF Run
  <2>2. FirstTask(t).login \in over
    BY <1>2, <1>7, TaskIsOver
  <2>. QED
    BY <1>2, <1>3, <1>4, <2>1, <2>2, EndStep
<1>8. CASE /\ FirstTask(t).kind \in {"refresh", "signOut"}
           /\ IsRecordOf(Seen(t), FirstTask(t).login)
  <2>1. Call(t, Seen(t)) /\ UNCHANGED <<stored, tab, last>>
    BY <1>8 DEF Run
  <2>2. IInv'
    BY <1>1, <1>8, <2>1, CallInv
  <2>3. MovesOn
    BY <2>1 DEF MovesOn, stored
  <2>. QED
    BY <2>2, <2>3
<1>9. CASE /\ FirstTask(t).kind \in {"refresh", "signOut"}
           /\ ~ IsRecordOf(Seen(t), FirstTask(t).login)
  <2>1. Follow(t, Seen(t), "changed")
    BY <1>9 DEF Run
  <2>. QED
    BY <1>2, <1>3, <1>4, <2>1, FollowStep
<1>. QED
  BY <1>5, <1>6, <1>7, <1>8, <1>9 DEF Kinds

-----------------------------------------------------------------------------
(* The steps together                                                        *)

LEMMA StutterInv ==
    ASSUME IInv, UNCHANGED vars
    PROVE  IInv'
<1>1. UNCHANGED <<session, logins, record, before, behind, news, tab, line, job, handed, req, lease,
                  left, last, over, lost, lapsed, reused>>
  BY DEF vars, server, stored, history
<1>2. Open' = Open /\ \A t : Seen(t)' = Seen(t) /\ Doing(t)' = Doing(t)
  BY <1>1 DEF Open, Seen, Doing
<1>3. \A t : HasTask(t)' = HasTask(t) /\ FirstTask(t)' = FirstTask(t) /\ Known(t)' = Known(t)
  BY <1>1 DEF HasTask, FirstTask, Known
<1>4. \A l : Due(l)' = Due(l)
  BY <1>1 DEF Due, Through
<1>5. TypeInv' /\ HandedInv' /\ BehindInv'
  BY <1>1, <1>2 DEF IInv, TypeInv, HandedInv, BehindInv
<1>6. LoginInv'
  BY <1>1, <1>3, <1>4 DEF IInv, LoginInv, Unknown
<1>7. TokenInv' /\ OverInv'
  BY <1>1, <1>2 DEF IInv, TokenInv, OverInv
<1>8. LockInv' /\ SpentOnlyAfterLoss'
  BY <1>1, <1>2 DEF IInv, LockInv, SpentOnlyAfterLoss
<1>9. \A t \in Tabs : TabInv(t)' /\ SeenInv(t)'
  BY <1>1, <1>2, <1>3 DEF IInv, TabInv, SeenInv
<1>10. \A t \in Tabs : JobInv(t)'
  BY <1>1, <1>2, <1>3 DEF IInv, JobInv
<1>. QED
  BY <1>5, <1>6, <1>7, <1>8, <1>9, <1>10 DEF IInv

LEMMA StepInv ==
    ASSUME IInv, NEW t \in Tabs, Step(t)
    PROVE  IInv'
<1>1. CASE Start(t) \/ Retry(t) \/ BackOffEnds(t) \/ HandleStorageChange(t) \/ SignIn(t) \/ SignOut(t)
  BY <1>1, StartInv, RetryInv, BackOffEndsInv, HandleStorageChangeInv, SignInInv, SignOutInv
<1>2. CASE Close(t) \/ Reach(t) \/ ReadLease(t) \/ WriteLease(t) \/ LeaseLost(t) \/ Release(t)
  BY <1>2, CloseInv, ReachInv, ReadLeaseInv, WriteLeaseInv, LeaseLostInv, ReleaseInv
<1>3. CASE Run(t) \/ Serve(t) \/ Unavailable(t) \/ Answered(t) \/ NoAnswer(t)
  BY <1>3, RunInv, ServeInv, UnavailableInv, AnsweredInv, NoAnswerInv
<1>4. CASE Request(t) \/ Accepted(t) \/ Refused(t) \/ RefusedAgain(t)
  BY <1>4, RequestInv, AcceptedInv, RefusedInv, RefusedAgainInv
<1>. QED
  BY <1>1, <1>2, <1>3, <1>4 DEF Step

LEMMA NextInv ==
    ASSUME IInv, [Next]_vars
    PROVE  IInv'
BY StutterInv, StepInv, DeliverInv, LeaseEndsInv DEF Next

LEMMA NextMoves ==
    ASSUME IInv, [Next]_vars
    PROVE  MovesOn
<1>1. CASE UNCHANGED record
  BY <1>1 DEF MovesOn
<1>2. ASSUME NEW t \in Tabs, Run(t) \/ Answered(t) \/ NoAnswer(t)
      PROVE  MovesOn
  BY <1>2, RunInv, AnsweredInv, NoAnswerInv
<1>3. ASSUME NEW t \in Tabs, Step(t), ~ (Run(t) \/ Answered(t) \/ NoAnswer(t))
      PROVE  UNCHANGED record
  <2>1. CASE Start(t) \/ Retry(t) \/ BackOffEnds(t) \/ SignIn(t) \/ SignOut(t)
    BY <2>1 DEF Start, Retry, BackOffEnds, SignIn, SignOut, stored
  <2>2. CASE HandleStorageChange(t) \/ Close(t) \/ Reach(t)
    BY <2>2 DEF HandleStorageChange, Close, Reach
  <2>3. CASE ReadLease(t) \/ WriteLease(t) \/ LeaseLost(t) \/ Release(t)
    BY <2>3 DEF ReadLease, WriteLease, LeaseLost, Release, stored
  <2>4. CASE Serve(t) \/ Unavailable(t)
    BY <2>4 DEF Serve, Unavailable, stored
  <2>5. CASE Request(t) \/ Accepted(t) \/ Refused(t) \/ RefusedAgain(t)
    BY <2>5 DEF Request, Accepted, Refused, RefusedAgain, stored
  <2>. QED
    BY <1>3, <2>1, <2>2, <2>3, <2>4, <2>5 DEF Step
<1>4. ASSUME NEW h \in handed, Deliver(h)
      PROVE  UNCHANGED record
  BY <1>4 DEF Deliver, stored
<1>5. ASSUME LeaseEnds \/ UNCHANGED vars
      PROVE  UNCHANGED record
  BY <1>5 DEF LeaseEnds, vars, stored
<1>. QED
  BY <1>1, <1>2, <1>3, <1>4, <1>5 DEF Next

-----------------------------------------------------------------------------
(* The theorems                                                              *)

\* The tabs, the line, the lock and the server's sessions fit together at
\* every moment (token-manager.ts, refresh-lock.ts).
THEOREM Invariance == Spec => []IInv
<1>1. Init => IInv
  BY InitInv
<1>2. IInv /\ [Next]_vars => IInv'
  BY NextInv
<1>. QED
  BY <1>1, <1>2, PTL DEF Spec

\* Every variable has its type, the tasks in line are those of open tabs,
\* and a job is that of a task (token-manager.ts, refresh-lock.ts).
THEOREM TypeCorrect == Spec => []TypeOK
<1>1. IInv => TypeOK
  <2>. SUFFICES ASSUME IInv
                PROVE  TypeOK
    OBVIOUS
  <2>1. TypeInv
    BY DEF IInv
  <2>2. \A t \in Open : tab[t].status = "signed-out" <=> tab[t].login = None
    BY DEF IInv, TabInv, Open
  <2>3. ASSUME NEW i \in DOMAIN line
        PROVE  line[i] \in [tab : Open, kind : {"refresh", "signIn", "signOut", "end"},
                            login : Logins]
    <3>1. line[i] \in Tasks /\ line[i].tab \in Tabs
      BY LineType
    <3>2. HasTask(line[i].tab)
      BY DEF HasTask, Has
    <3>3. line[i].tab \in Open
      BY <3>1, <3>2 DEF IInv, TabInv
    <3>. QED
      BY <3>1, <3>3 DEF Tasks, Kinds
  <2>4. /\ \A t \in Tabs : job[t].phase # "none" => HasTask(t)
        /\ \A h \in handed : h.tab \in Open
    BY DEF IInv, JobInv, HandedInv
  <2>5. session \in [Logins -> [n : 1..MaxTokens, alive : BOOLEAN]]
    BY <2>1 DEF TypeInv, Sessions
  <2>6. {behind, news} \in SUBSET SUBSET Tabs
    BY <2>1 DEF TypeInv, Open
  <2>. QED
    BY <2>1, <2>2, <2>3, <2>4, <2>5, <2>6 DEF TypeOK, TypeInv, TabStates, Jobs, Reqs
<1>. QED
  BY <1>1, Invariance, PTL

\* A tab keeps no access token but that of the session it is in, and a
\* request never leaves with a token of another session than its own
\* (auth-middleware.ts:34-35, token-manager.ts:242-245).
THEOREM OwnTokensOnly == Spec => []TokensStayInSession
<1>1. IInv => TokensStayInSession
  BY DEF IInv, TabInv, TokensStayInSession
<1>. QED
  BY <1>1, Invariance, PTL

\* No tab sends a refresh token that was exchanged already, unless the answer
\* with the new one never came, or the lease let two tabs in
\* (refresh-lock.ts:6-8, 22-25).
THEOREM TokensAreSentOnce == Spec => []SpentOnlyAfterLoss
<1>1. IInv => SpentOnlyAfterLoss
  BY DEF IInv
<1>. QED
  BY <1>1, Invariance, PTL

\* Whatever the tabs do side by side, and even with two of them under the
\* lease, the record goes to the next token of its session, to a new sign-in,
\* or away once its session was signed out of or refused
\* (token-manager.ts:12-18, refresh-lock.ts:8).
THEOREM RecordOnlyMovesOn == Spec => RecordMovesOn
<1>1. IInv /\ [Next]_vars
      => [record' # record =>
             \/ last' # last /\ record'.login = last'
             \/ record' # NoToken /\ record'.login = record.login /\ record'.n > record.n
             \/ record' = NoToken /\ record.login \in over]_vars
  BY NextMoves DEF MovesOn
<1>. QED
  BY <1>1, Invariance, PTL DEF Spec, RecordMovesOn
=============================================================================
