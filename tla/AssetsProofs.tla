----------------------------- MODULE AssetsProofs -----------------------------
(***************************************************************************)
(* Theorems about the uploaded files, for any number of files, requests,   *)
(* contents and moments, and any plan.                                     *)
(***************************************************************************)
EXTENDS Assets, TLAPS, FiniteSetTheorems, WellFoundedInduction

-----------------------------------------------------------------------------
(* The inductive invariant                                                   *)

Finals == [n : 0..MaxKeys, phase : Phases, lease : 0..(MaxTime + Lease), sha : Contents \cup {"none"}]
Rows == [purpose : AllPurposes, host : Parents, created : Moments, bound : BOOLEAN,
         deleted : Moments \cup {Never}, uploaded : BOOLEAN, staging : Phases \cup {"none"},
         final : Finals, candidates : SUBSET Records]
Objects == [content : Contents, stored : Moments]
Sources == [asset : Assets, host : Parents, bound : BOOLEAN, final : Finals]
Calls == [stage : {"reserved", "asked", "sealed"}, asset : Assets, host : Parents,
          n : 1..MaxKeys, lease : 0..(MaxTime + Lease), from : Key,
          source : {NoSource} \cup Sources, sha : Contents \cup {"none"}]
Jobs == [state : {"none", "queued", "done"}, after : 0..ids, saved : 0..ids]
Cursors == [stage : {"none", "rows", "objects", "done"}, cutoff : Moments,
            after : 0..ids, token : Key \cup {Start}, objectAfter : Key \cup {Start}]

\* The variables, each by itself.
TypeInv ==
    /\ plan \in Plans /\ now \in Moments /\ there \subseteq Parents
    /\ ended \in [Parents -> Moments \cup {Never}] /\ cover \in 0..ids
    /\ ids \in 0..plan.assets /\ made \in [Assets -> 0..MaxKeys]
    /\ DOMAIN rows \subseteq 1..ids /\ rows \in [DOMAIN rows -> Rows]
    /\ DOMAIN store \subseteq Key /\ store \in [DOMAIN store -> Objects]
    /\ puts \subseteq [key : Key, content : Contents]
    /\ copies \subseteq [from : Key, match : Contents, to : Key]
    /\ call \in [Callers -> {NoCall} \cup Calls]
    /\ job \in Jobs
    /\ cursor \in Cursors /\ at \in Cursors
    /\ step \in {"none", "look", "listed", "rows", "reclaim", "drop", "objects", "orphans"}
    /\ keys \subseteq Key /\ due \subseteq Key

\* A key that was handed out.
Known(k) ==
    /\ k \in Key /\ k.asset <= ids
    /\ IF k.kind = "o" THEN k.n \in 1..made[k.asset] ELSE k.n = 0

StoreInv ==
    /\ \A k \in DOMAIN store : Known(k)
    /\ \A put \in puts : put.key.kind = "u" /\ Known(put.key)
    /\ \A copy \in copies : copy.to.kind = "o" /\ Known(copy.to)

\* No key is named twice.
NamedOnce(row) ==
    /\ IsFiniteSet(row.candidates) /\ Cardinality(row.candidates) <= MaxCandidates
    /\ \A k, l \in row.candidates : k.n = l.n => k = l
    /\ \A k \in row.candidates : k.n # row.final.n

\* An object with this content stands at the file's key.
Stands(a, n, content) ==
    SealedKey(a, n) \in DOMAIN store /\ store[SealedKey(a, n)].content = content

\* A published row's object stands; an uploaded row is published until it was
\* deleted long enough ago.
RowInv(a) ==
    /\ rows[a].host \in there /\ rows[a].host \in HostsFor(rows[a].purpose)
    /\ rows[a].final.n <= made[a]
    /\ \A k \in rows[a].candidates : k.n <= made[a]
    /\ NamedOnce(rows[a])
    /\ ~ rows[a].uploaded => rows[a].final = NoFinal
    /\ rows[a].uploaded /\ ~ Published(rows[a]) => rows[a].deleted < now - PurgeAfter
    /\ Published(rows[a]) =>
           Stands(a, rows[a].final.n, rows[a].final.sha) /\ rows[a].final.sha \in Good

\* A row names the key, and not to reclaim it.
Active(k) ==
    /\ k.asset \in DOMAIN rows
    /\ \/ k.kind = "u" /\ rows[k.asset].staging = "active"
       \/ /\ k.kind = "o" /\ k.n # 0
          /\ rows[k.asset].final.n = k.n /\ rows[k.asset].final.phase = "active"
       \/ k.kind = "o" /\ \E l \in rows[k.asset].candidates : l.n = k.n /\ l.phase = "active"

\* A copy that was checked stands for as long as its candidate is reserved.
CallInv(c) ==
    call[c].stage # "idle" =>
        /\ call[c].asset <= ids /\ call[c].n <= made[call[c].asset]
        /\ call[c].stage \in {"asked", "sealed"} => call[c].sha \in Good
        /\ call[c].stage = "sealed" /\ Active(SealedKey(call[c].asset, call[c].n)) =>
               Stands(call[c].asset, call[c].n, call[c].sha)

\* The sweep deletes what no row needs.
SweepInv ==
    /\ at.cutoff <= now /\ cursor.cutoff <= now
    /\ \A p \in facts \cap Parents : ended[p] # Never
    /\ step \in {"none", "look", "listed", "rows"} => keys = {}
    /\ step \in {"reclaim", "drop", "orphans"} => keys # {}
    /\ step \in {"listed", "rows", "reclaim", "drop"} => DOMAIN page \subseteq 1..ids /\ Left # {}
    /\ \A k \in keys : Known(k)
    /\ step \in {"reclaim", "drop"} => \A k \in keys : ~ Active(k)
    /\ step = "drop" => dropping \in keys
    /\ step = "orphans" => keys \cap Referenced = {}
    /\ step \in {"objects", "orphans"} => page.next \in Key \cup {Start} /\ page.objects \subseteq Key

\* What is shown stands where nothing may delete it.
Shown(a) ==
    /\ rows[a].bound /\ rows[a].purpose # "attachment" /\ HostStands(rows[a].host)
    /\ rows[a].purpose = "cover" => cover = a

HostInv ==
    /\ cover # Nothing => cover \in DOMAIN rows /\ rows[cover].purpose = "cover"
    /\ \A a \in DOMAIN rows : Shown(a) => ~ Deleted(rows[a]) /\ Published(rows[a])

\* The job has marked every file up to its cursors.
JobInv ==
    /\ job.state # "none" <=> ended["project"] # Never
    /\ job.state = "none" => job.after = 0 /\ job.saved = 0
    /\ \A a \in DOMAIN rows :
          \/ job.state = "done"
          \/ job.state = "queued" /\ (a <= job.after \/ a <= job.saved)
          => rows[a].deleted <= ended["project"]

IInv ==
    /\ TypeInv /\ StoreInv /\ SweepInv /\ HostInv /\ JobInv
    /\ \A a \in DOMAIN rows : RowInv(a)
    /\ \A c \in Callers : CallInv(c)

-----------------------------------------------------------------------------
(* Numbers, rows and keys                                                    *)

LEMMA Bounds ==
    /\ {MaxTime, MaxKeys, UploadTTL, Lease, Settle, KeepUnbound, PurgeAfter, OrphanAge} \subseteq Nat
    /\ MaxCandidates \in Nat /\ MaxCandidates > 0 /\ Never \in Nat /\ Moments \subseteq Nat
    /\ \A m \in Moments : m < Never
    /\ \A a \in Assets : a \in Nat /\ a > 0
    /\ Good \subseteq Contents
<1>1. {MaxTime, MaxKeys, UploadTTL, Lease, Settle, KeepUnbound, PurgeAfter, OrphanAge} \subseteq Nat
  BY AssetsAssumption
<1>2. MaxCandidates \in Nat /\ MaxCandidates > 0 /\ Good \subseteq Contents
  BY AssetsAssumption
<1>3. PICK n : n = Cardinality(Assets)
  OBVIOUS
<1>4. Assets = 1..n /\ n \in Nat
  BY <1>3, AssetsAssumption, FS_CardinalityType
<1>5. \A a \in Assets : a \in Nat /\ a > 0
  BY <1>4
<1>6. Never \in Nat /\ Moments \subseteq Nat /\ \A m \in Moments : m < Never
  BY <1>1 DEF Never, Moments
<1>. QED
  BY <1>1, <1>2, <1>5, <1>6

LEMMA IdsBound ==
    ASSUME TypeInv
    PROVE  ids \in Nat /\ 1..ids \subseteq Assets /\ plan.assets \in Nat /\ 1..plan.assets \subseteq Assets
<1>1. PICK p \in Plans : p = plan
  BY DEF TypeInv
<1>2. PICK n : n = Cardinality(Assets)
  OBVIOUS
<1>3. p.assets \in 0..n /\ Assets = 1..n
  BY <1>2, AssetsAssumption
<1>4. n \in Nat
  BY <1>2, AssetsAssumption, FS_CardinalityType
<1>. QED
  BY <1>1, <1>3, <1>4 DEF TypeInv

LEMMA RowIs ==
    ASSUME TypeInv, NEW a \in DOMAIN rows
    PROVE  rows[a] \in Rows /\ a \in 1..ids /\ a \in Assets /\ a \in Nat
BY IdsBound DEF TypeInv

LEMMA Fields ==
    ASSUME NEW r \in Rows
    PROVE  /\ r.purpose \in AllPurposes /\ r.host \in Parents /\ r.created \in Moments
           /\ r.bound \in BOOLEAN /\ r.deleted \in Moments \cup {Never} /\ r.uploaded \in BOOLEAN
           /\ r.staging \in Phases \cup {"none"} /\ r.final \in Finals /\ r.candidates \subseteq Records
           /\ r.deleted \in Nat /\ r.created \in Nat /\ r.deleted <= Never
           /\ r.final.n \in Nat /\ r.final.n \in 0..MaxKeys /\ r.final.phase \in Phases
           /\ r.final.lease \in 0..(MaxTime + Lease) /\ r.final.sha \in Contents \cup {"none"}
           /\ \A k \in r.candidates : /\ k.n \in 1..MaxKeys /\ k.n \in Nat /\ k.n # 0
                                      /\ k.phase \in Phases /\ k.lease \in 0..(MaxTime + Lease)
<1>1. /\ r.purpose \in AllPurposes /\ r.host \in Parents /\ r.created \in Moments
      /\ r.bound \in BOOLEAN /\ r.deleted \in Moments \cup {Never} /\ r.uploaded \in BOOLEAN
      /\ r.staging \in Phases \cup {"none"} /\ r.final \in Finals /\ r.candidates \subseteq Records
  BY DEF Rows
<1>2. r.deleted \in Nat /\ r.created \in Nat /\ r.deleted <= Never
  BY <1>1, Bounds
<1>3. /\ r.final.n \in 0..MaxKeys /\ r.final.phase \in Phases
      /\ r.final.lease \in 0..(MaxTime + Lease) /\ r.final.sha \in Contents \cup {"none"}
  BY <1>1 DEF Finals
<1>4. \A k \in r.candidates : /\ k.n \in 1..MaxKeys /\ k.phase \in Phases
                              /\ k.lease \in 0..(MaxTime + Lease)
  BY <1>1 DEF Records
<1>5. \A n \in 0..MaxKeys : n \in Nat
  BY Bounds
<1>6. \A n \in 1..MaxKeys : n \in Nat /\ n # 0
  BY Bounds
<1>. QED
  BY <1>1, <1>2, <1>3, <1>4, <1>5, <1>6

LEMMA NoFinalIs ==
    /\ NoFinal \in Finals /\ NoFinal.n = 0 /\ NoFinal.phase = "active" /\ NoFinal.sha = "none"
    /\ \A f \in Finals : f.n # 0 => f # NoFinal
BY Bounds DEF NoFinal, Finals, Phases

LEMMA KeyIs ==
    ASSUME NEW k \in Key
    PROVE  /\ k.kind \in {"o", "u"} /\ k.asset \in Assets /\ k.n \in 0..MaxKeys /\ k.n \in Nat
           /\ k.kind = "o" => k = SealedKey(k.asset, k.n)
           /\ k.kind = "u" /\ k.n = 0 => k = StagingKey(k.asset)
<1>1. k.kind \in {"o", "u"} /\ k.asset \in Assets /\ k.n \in 0..MaxKeys
  BY DEF Key
<1>2. k = [kind |-> k.kind, asset |-> k.asset, n |-> k.n]
  BY DEF Key
<1>3. k.n \in Nat
  BY <1>1, Bounds
<1>. QED
  BY <1>1, <1>2, <1>3 DEF SealedKey, StagingKey

LEMMA KeyParts ==
    ASSUME NEW a, NEW n
    PROVE  /\ SealedKey(a, n).kind = "o" /\ SealedKey(a, n).asset = a /\ SealedKey(a, n).n = n
           /\ StagingKey(a).kind = "u" /\ StagingKey(a).asset = a /\ StagingKey(a).n = 0
           /\ a \in Assets /\ n \in 0..MaxKeys => SealedKey(a, n) \in Key
           /\ a \in Assets => StagingKey(a) \in Key
BY Bounds DEF SealedKey, StagingKey, Key

\* The row of the file a names the key, or is about to delete it.
Names(row, a, k) ==
    \/ k = StagingKey(a) /\ row.staging # "none"
    \/ k = SealedKey(a, row.final.n) /\ row.final.n # 0
    \/ \E l \in row.candidates : k = SealedKey(a, l.n)

LEMMA NamesItsOwn ==
    ASSUME NEW row, NEW a, NEW k, Names(row, a, k)
    PROVE  k.asset = a
BY KeyParts DEF Names

LEMMA ReferencedIs ==
    ASSUME NEW k
    PROVE  /\ k \in Referenced <=> k.asset \in DOMAIN rows /\ Names(rows[k.asset], k.asset, k)
           /\ k \in Referenced' <=> k.asset \in DOMAIN rows' /\ Names(rows'[k.asset], k.asset, k)
<1>1. \A a : k \in KeysOf(a) <=> Names(rows[a], a, k)
  BY DEF KeysOf, Names
<1>2. \A a : k \in KeysOf(a)' <=> Names(rows'[a], a, k)
  BY DEF KeysOf, Names
<1>. QED
  BY <1>1, <1>2, NamesItsOwn DEF Referenced

\* A known key that is active is named.
LEMMA ActiveIsNamed ==
    ASSUME NEW k \in Key, Known(k), Active(k)
    PROVE  k \in Referenced
<1>1. k.asset \in DOMAIN rows
  BY DEF Active
<1>2. k.kind \in {"o", "u"} /\ (k.kind = "o" => k = SealedKey(k.asset, k.n) /\ k.n # 0)
      /\ (k.kind = "u" => k = StagingKey(k.asset))
  <2>1. k.kind \in {"o", "u"}
    BY KeyIs
  <2>2. CASE k.kind = "o"
    BY <2>2, KeyIs DEF Known
  <2>3. CASE k.kind = "u"
    BY <2>3, KeyIs DEF Known
  <2>. QED
    BY <2>1, <2>2, <2>3
<1>3. Names(rows[k.asset], k.asset, k)
  <2>1. CASE k.kind = "u"
    BY <1>2, <2>1 DEF Active, Names
  <2>2. CASE k.kind = "o"
    BY <1>2, <2>2 DEF Active, Names
  <2>. QED
    BY <1>2, <2>1, <2>2
<1>. QED
  BY <1>1, <1>3, ReferencedIs

-----------------------------------------------------------------------------
(* Rows that nobody publishes and no request reserves anything on            *)

\* The row r became q.
Aged(r, q) ==
    /\ q.purpose = r.purpose /\ q.created = r.created /\ q.uploaded = r.uploaded
    /\ q.staging = "active" => r.staging = "active"
    /\ r.staging = "none" => q.staging = "none"
    /\ q.final # NoFinal =>
           /\ r.final # NoFinal
           /\ q.final.n = r.final.n /\ q.final.sha = r.final.sha /\ q.final.lease = r.final.lease
           /\ q.final.phase = "active" => r.final.phase = "active"
    /\ \A k \in q.candidates : \E l \in r.candidates :
           l.n = k.n /\ (k.phase = "active" => l.phase = "active")
    /\ q.deleted <= r.deleted

AgedRows ==
    /\ rows' \in [DOMAIN rows' -> Rows] /\ DOMAIN rows' \subseteq DOMAIN rows
    /\ \A a \in DOMAIN rows' :
          /\ Aged(rows[a], rows'[a]) /\ NamedOnce(rows'[a])
          /\ rows'[a].host \in there' /\ rows'[a].host \in HostsFor(rows'[a].purpose)
          /\ rows'[a].uploaded /\ ~ Published(rows'[a]) => rows'[a].deleted < now' - PurgeAfter

LEMMA SameRows ==
    ASSUME IInv, rows' = rows, there \subseteq there', now' \in Moments, now <= now'
    PROVE  AgedRows
<1>1. TypeInv /\ \A a \in DOMAIN rows : RowInv(a)
  BY DEF IInv
<1>2. rows \in [DOMAIN rows -> Rows]
  BY <1>1 DEF TypeInv
<1>3. ASSUME NEW a \in DOMAIN rows
      PROVE  Aged(rows[a], rows[a]) /\ rows[a].deleted \in Nat
  BY <1>1, RowIs, Fields DEF Aged
<1>4. now \in Nat /\ now' \in Nat /\ PurgeAfter \in Nat
  BY <1>1, Bounds DEF TypeInv
<1>. QED
  BY <1>1, <1>2, <1>3, <1>4 DEF AgedRows, RowInv

LEMMA AgedKeys ==
    ASSUME IInv, AgedRows, NEW k
    PROVE  (Active(k)' => Active(k)) /\ (k \in Referenced' => k \in Referenced)
<1>1. TypeInv
  BY DEF IInv
<1>2. ASSUME NEW a \in DOMAIN rows'
      PROVE  /\ a \in DOMAIN rows /\ Aged(rows[a], rows'[a])
             /\ rows[a] \in Rows /\ rows'[a] \in Rows
  BY <1>1, RowIs DEF AgedRows
<1>3. PICK a : a = k.asset
  OBVIOUS
<1>4. ASSUME Active(k)'
      PROVE  Active(k)
  <2>1. a \in DOMAIN rows' /\ a \in DOMAIN rows /\ Aged(rows[a], rows'[a])
    BY <1>2, <1>3, <1>4 DEF Active
  <2>2. CASE k.kind = "u" /\ rows'[a].staging = "active"
    BY <1>3, <2>1, <2>2 DEF Active, Aged
  <2>3. CASE k.kind = "o" /\ k.n # 0 /\ rows'[a].final.n = k.n /\ rows'[a].final.phase = "active"
    BY <1>3, <2>1, <2>3, NoFinalIs DEF Active, Aged
  <2>4. CASE k.kind = "o" /\ \E l \in rows'[a].candidates : l.n = k.n /\ l.phase = "active"
    BY <1>3, <2>1, <2>4 DEF Active, Aged
  <2>. QED
    BY <1>3, <1>4, <2>2, <2>3, <2>4 DEF Active
<1>5. ASSUME k \in Referenced'
      PROVE  k \in Referenced
  <2>1. a \in DOMAIN rows' /\ Names(rows'[a], a, k)
    BY <1>3, <1>5, ReferencedIs
  <2>2. a \in DOMAIN rows /\ Aged(rows[a], rows'[a])
    BY <1>2, <2>1
  <2>3. Names(rows[a], a, k)
    <3>1. CASE k = StagingKey(a) /\ rows'[a].staging # "none"
      BY <2>2, <3>1 DEF Names, Aged
    <3>2. CASE k = SealedKey(a, rows'[a].final.n) /\ rows'[a].final.n # 0
      BY <2>2, <3>2, NoFinalIs DEF Names, Aged
    <3>3. CASE \E l \in rows'[a].candidates : k = SealedKey(a, l.n)
      BY <2>2, <3>3 DEF Names, Aged
    <3>. QED
      BY <2>1, <3>1, <3>2, <3>3 DEF Names
  <2>. QED
    BY <1>3, <2>2, <2>3, ReferencedIs
<1>. QED
  BY <1>4, <1>5

\* What a candidate or a final object has, the storage keeps.
StoreKeeps ==
    \A k \in DOMAIN store : k.kind = "o" /\ Active(k) =>
        k \in DOMAIN store' /\ store'[k].content = store[k].content

LEMMA StandsOn ==
    ASSUME StoreKeeps, NEW a, NEW n, NEW content, Stands(a, n, content), Active(SealedKey(a, n))
    PROVE  Stands(a, n, content)'
BY KeyParts DEF StoreKeeps, Stands

LEMMA AgedStep ==
    ASSUME IInv, AgedRows, StoreKeeps, UNCHANGED <<ids, made>>
    PROVE  /\ \A a \in DOMAIN rows' : RowInv(a)'
           /\ \A c \in Callers : call'[c] = call[c] => CallInv(c)'
<1>1. TypeInv
  BY DEF IInv
<1>2. ASSUME NEW a \in DOMAIN rows'
      PROVE  RowInv(a)'
  <2>1. PICK r, q : r = rows[a] /\ q = rows'[a]
    OBVIOUS
  <2>2. a \in DOMAIN rows /\ Aged(r, q) /\ r \in Rows /\ q \in Rows /\ RowInv(a)
    BY <1>1, <2>1, RowIs DEF AgedRows, IInv
  <2>3. /\ NamedOnce(q) /\ q.host \in there' /\ q.host \in HostsFor(q.purpose)
        /\ q.uploaded /\ ~ Published(q) => q.deleted < now' - PurgeAfter
    BY <2>1 DEF AgedRows
  <2>4. made[a] \in Nat
    BY <1>1, <2>2, RowIs, Bounds DEF TypeInv
  <2>5. q.final.n <= made[a]
    BY <2>1, <2>2, <2>4, NoFinalIs DEF Aged, RowInv
  <2>6. \A k \in q.candidates : k.n <= made[a]
    BY <2>1, <2>2 DEF Aged, RowInv
  <2>7. ~ q.uploaded => q.final = NoFinal
    BY <2>1, <2>2 DEF Aged, RowInv
  <2>8. ASSUME Published(q)
        PROVE  Stands(a, q.final.n, q.final.sha)' /\ q.final.sha \in Good
    <3>1. q.final # NoFinal
      BY <2>8, NoFinalIs DEF Published
    <3>2. Published(r) /\ q.final.n = r.final.n /\ q.final.sha = r.final.sha
      BY <2>2, <2>8, <3>1 DEF Published, Aged
    <3>3. Stands(a, r.final.n, r.final.sha) /\ r.final.sha \in Good
      BY <2>1, <2>2, <3>2 DEF RowInv
    <3>4. Active(SealedKey(a, r.final.n))
      BY <2>1, <2>2, <3>2, KeyParts DEF Active, Published
    <3>. QED
      BY <3>2, <3>3, <3>4, StandsOn
  <2>. QED
    BY <2>1, <2>3, <2>5, <2>6, <2>7, <2>8 DEF RowInv, Stands
<1>3. ASSUME NEW c \in Callers, call'[c] = call[c]
      PROVE  CallInv(c)'
  <2>1. CallInv(c)
    BY DEF IInv
  <2>2. PICK a, n, sha : a = call[c].asset /\ n = call[c].n /\ sha = call[c].sha
    OBVIOUS
  <2>3. PICK k : k = SealedKey(a, n)
    OBVIOUS
  <2>4. Active(k)' => Active(k)
    BY AgedKeys
  <2>5. ASSUME call[c].stage = "sealed", Active(k)'
        PROVE  Stands(a, n, sha)'
    BY <2>1, <2>2, <2>3, <2>4, <2>5, StandsOn DEF CallInv
  <2>6. call'[c].asset = a /\ call'[c].n = n /\ call'[c].sha = sha /\ call'[c].stage = call[c].stage
    BY <1>3, <2>2
  <2>7. /\ call[c].stage # "idle" => a <= ids /\ n <= made[a]
        /\ call[c].stage \in {"asked", "sealed"} => sha \in Good
    BY <2>1, <2>2 DEF CallInv
  <2>. QED
    BY <2>3, <2>5, <2>6, <2>7 DEF CallInv
<1>. QED
  BY <1>2, <1>3

-----------------------------------------------------------------------------
(* What goes on beside the sweep                                             *)

\* The ids and the sealed keys only become more.
Grows ==
    /\ ids' \in Nat /\ ids <= ids' /\ made' \in [Assets -> 0..MaxKeys]
    /\ \A a \in Assets : made[a] <= made'[a]

\* Once deleted, a parent stays deleted.
StaysEnded == \A p \in Parents : ended[p] # Never => ended'[p] # Never

LEMMA SameGrows ==
    ASSUME TypeInv, UNCHANGED <<ids, made>>
    PROVE  Grows
<1>1. ids \in Nat /\ made \in [Assets -> 0..MaxKeys]
  BY IdsBound DEF TypeInv
<1>2. \A a \in Assets : made[a] \in Nat
  BY <1>1, Bounds
<1>. QED
  BY <1>1, <1>2 DEF Grows

LEMMA KnownStays ==
    ASSUME TypeInv, Grows, NEW k, Known(k)
    PROVE  Known(k)'
<1>1. /\ k \in Key /\ k.asset \in Assets /\ k.asset \in Nat /\ k.n \in Nat
      /\ ids \in Nat /\ made[k.asset] \in Nat /\ made'[k.asset] \in Nat
  BY KeyIs, Bounds, IdsBound DEF TypeInv, Known, Grows
<1>. QED
  BY <1>1 DEF Known, Grows

LEMMA StoreStays ==
    ASSUME IInv, Grows, UNCHANGED storage
    PROVE  StoreInv'
<1>1. TypeInv /\ StoreInv /\ UNCHANGED <<store, puts, copies>>
  BY DEF IInv, storage
<1>. QED
  BY <1>1, KnownStays DEF StoreInv

LEMMA SweepStays ==
    ASSUME IInv, Grows, StaysEnded, now' \in Moments, now <= now',
           UNCHANGED <<cursor, step, at, page, facts, keys, dropping>>,
           \A k \in Key : Known(k) /\ Active(k)' => Active(k),
           \A k \in Key : Known(k) /\ k \in Referenced' => k \in Referenced
    PROVE  SweepInv'
<1>1. TypeInv /\ SweepInv
  BY DEF IInv
<1>2. at.cutoff <= now' /\ cursor.cutoff <= now'
  <2>1. at.cutoff \in Nat /\ cursor.cutoff \in Nat /\ now \in Nat /\ now' \in Nat
    BY <1>1, Bounds DEF TypeInv, Cursors
  <2>. QED
    BY <1>1, <2>1 DEF SweepInv
<1>3. \A p \in facts \cap Parents : ended'[p] # Never
  BY <1>1 DEF SweepInv, StaysEnded
<1>4. \A k \in keys : k \in Key /\ Known(k) /\ Known(k)'
  BY <1>1, KnownStays DEF SweepInv, TypeInv
<1>5. Left' = Left /\ 1..ids \subseteq 1..ids'
  BY <1>1, IdsBound DEF Left, Grows
<1>6. step \in {"reclaim", "drop"} => \A k \in keys : ~ Active(k)'
  BY <1>1, <1>4 DEF SweepInv
<1>7. step = "orphans" => keys \cap Referenced' = {}
  BY <1>1, <1>4 DEF SweepInv
<1>. QED
  BY <1>1, <1>2, <1>3, <1>4, <1>5, <1>6, <1>7 DEF SweepInv

\* The row r became q, which has the same keys.
Kept(r, q) ==
    /\ q \in Rows
    /\ q.purpose = r.purpose /\ q.created = r.created /\ q.uploaded = r.uploaded
    /\ q.staging = r.staging /\ q.final = r.final /\ q.candidates = r.candidates
    /\ q.deleted <= r.deleted

KeptRows ==
    /\ rows' = [a \in DOMAIN rows' |-> rows'[a]] /\ DOMAIN rows' \subseteq DOMAIN rows
    /\ \A a \in DOMAIN rows' : /\ Kept(rows[a], rows'[a])
                               /\ rows'[a].host \in there'
                               /\ rows'[a].host \in HostsFor(rows'[a].purpose)

LEMMA KeptIsAged ==
    ASSUME IInv, KeptRows, now' = now
    PROVE  AgedRows
<1>1. TypeInv
  BY DEF IInv
<1>2. rows' \in [DOMAIN rows' -> Rows] /\ DOMAIN rows' \subseteq DOMAIN rows
  BY DEF KeptRows, Kept
<1>3. ASSUME NEW a \in DOMAIN rows'
      PROVE  /\ Aged(rows[a], rows'[a]) /\ NamedOnce(rows'[a])
             /\ rows'[a].host \in there' /\ rows'[a].host \in HostsFor(rows'[a].purpose)
             /\ rows'[a].uploaded /\ ~ Published(rows'[a]) => rows'[a].deleted < now' - PurgeAfter
  <2>1. PICK r, q : r = rows[a] /\ q = rows'[a]
    OBVIOUS
  <2>2. Kept(r, q) /\ r \in Rows /\ q \in Rows /\ RowInv(a)
    BY <1>1, <1>2, <2>1, RowIs DEF KeptRows, Kept, IInv
  <2>3. Aged(r, q)
    BY <2>2, Fields DEF Kept, Aged
  <2>4. NamedOnce(q)
    BY <2>1, <2>2 DEF NamedOnce, Kept, RowInv
  <2>5. ASSUME q.uploaded, ~ Published(q)
        PROVE  q.deleted < now' - PurgeAfter
    <3>1. r.uploaded /\ ~ Published(r)
      BY <2>2, <2>5 DEF Kept, Published
    <3>2. r.deleted < now - PurgeAfter /\ q.deleted <= r.deleted
      BY <2>1, <2>2, <3>1 DEF RowInv, Kept
    <3>3. r.deleted \in Nat /\ q.deleted \in Nat /\ now \in Nat /\ PurgeAfter \in Nat
      BY <1>1, <2>2, Fields, Bounds DEF TypeInv
    <3>. QED
      BY <3>2, <3>3
  <2>. QED
    BY <2>1, <2>3, <2>4, <2>5 DEF KeptRows
<1>. QED
  BY <1>2, <1>3 DEF AgedRows

\* What was published stays so until it is collected, and what was deleted
\* stays deleted (the step of PublishedOnce).
KeepsPublished ==
    \A a \in DOMAIN rows \cap DOMAIN rows' :
        /\ rows[a].uploaded =>
               /\ rows'[a].uploaded
               /\ [rows'[a].final EXCEPT !.phase = "active"]
                      \in {[rows[a].final EXCEPT !.phase = "active"], NoFinal}
        /\ rows'[a].deleted <= rows[a].deleted

\* No step names a key that was handed out before, unless a row does.
KeepsNames == \A k \in Key : Known(k) /\ k \in Referenced' => k \in Referenced

Keeps == KeepsPublished /\ KeepsNames

LEMMA AgedKeeps ==
    ASSUME IInv, AgedRows
    PROVE  Keeps
<1>1. TypeInv
  BY DEF IInv
<1>2. SUFFICES ASSUME NEW a \in DOMAIN rows'
               PROVE  /\ rows[a].uploaded =>
                            /\ rows'[a].uploaded
                            /\ [rows'[a].final EXCEPT !.phase = "active"]
                                   \in {[rows[a].final EXCEPT !.phase = "active"], NoFinal}
                      /\ rows'[a].deleted <= rows[a].deleted
  BY AgedKeys DEF Keeps, KeepsPublished, KeepsNames
<1>3. PICK r, q : r = rows[a] /\ q = rows'[a]
  OBVIOUS
<1>4. r \in Rows /\ q \in Rows /\ Aged(r, q)
  BY <1>1, <1>3, RowIs DEF AgedRows
<1>5. PICK f, g : f = r.final /\ g = q.final
  OBVIOUS
<1>6. f \in Finals /\ g \in Finals
  BY <1>4, <1>5, Fields
<1>7. CASE g = NoFinal
  <2>1. [g EXCEPT !.phase = "active"] = NoFinal
    BY <1>6, <1>7, NoFinalIs DEF Finals
  <2>. QED
    BY <1>3, <1>4, <1>5, <2>1 DEF Aged
<1>8. CASE g # NoFinal
  <2>1. g.n = f.n /\ g.sha = f.sha /\ g.lease = f.lease
    BY <1>4, <1>5, <1>8 DEF Aged
  <2>2. [g EXCEPT !.phase = "active"] = [f EXCEPT !.phase = "active"]
    BY <1>6, <2>1 DEF Finals
  <2>. QED
    BY <1>3, <1>4, <1>5, <2>2 DEF Aged
<1>. QED
  BY <1>7, <1>8

\* A step of the contents and their hosts.
LEMMA HostingStep ==
    ASSUME IInv, KeptRows, StaysEnded, TypeInv', HostInv', JobInv',
           UNCHANGED <<plan, now, counts, storage, call, sweep>>
    PROVE  IInv' /\ Keeps
<1>1. TypeInv /\ UNCHANGED <<ids, made>>
  BY DEF IInv, counts
<1>2. AgedRows /\ Grows
  BY <1>1, KeptIsAged, SameGrows
<1>3. StoreKeeps
  BY DEF storage, StoreKeeps
<1>4. StoreInv'
  BY <1>2, StoreStays
<1>5. now \in Moments /\ now <= now
  BY <1>1, Bounds DEF TypeInv
<1>6. \A k : (Active(k)' => Active(k)) /\ (k \in Referenced' => k \in Referenced)
  BY <1>2, AgedKeys
<1>7. SweepInv'
  BY <1>2, <1>5, <1>6, SweepStays DEF sweep
<1>8. (\A a \in DOMAIN rows' : RowInv(a)') /\ \A c \in Callers : CallInv(c)'
  BY <1>1, <1>2, <1>3, AgedStep
<1>9. Keeps
  BY <1>2, AgedKeeps
<1>10. IInv'
  BY <1>4, <1>7, <1>8 DEF IInv
<1>. QED
  BY <1>9, <1>10

\* What the job has marked stays marked.
LEMMA JobStays ==
    ASSUME IInv, job' = job, ended'["project"] = ended["project"], DOMAIN rows' \subseteq DOMAIN rows,
           \A a \in DOMAIN rows' : rows'[a] \in Rows /\ rows'[a].deleted <= rows[a].deleted
    PROVE  JobInv'
<1>1. TypeInv /\ JobInv
  BY DEF IInv
<1>2. \A a \in DOMAIN rows' : /\ a \in DOMAIN rows /\ rows'[a].deleted <= rows[a].deleted
                              /\ rows'[a].deleted \in Nat /\ rows[a].deleted \in Nat
  BY <1>1, RowIs, Fields
<1>3. ended["project"] \in Nat
  BY <1>1, Bounds DEF TypeInv, Parents
<1>. QED
  BY <1>1, <1>2, <1>3 DEF JobInv

LEMMA MarkDeletedIs ==
    ASSUME NEW r \in Rows, NEW moment \in Moments
    PROVE  /\ Kept(r, MarkDeleted(r, moment)) /\ MarkDeleted(r, moment).host = r.host
           /\ MarkDeleted(r, moment).bound = r.bound /\ MarkDeleted(r, moment).deleted <= moment
           /\ Published(MarkDeleted(r, moment)) = Published(r)
<1>1. PICK q : q = MarkDeleted(r, moment)
  OBVIOUS
<1>2. r.deleted \in Nat /\ moment \in Nat
  BY Fields, Bounds
<1>3. CASE moment < r.deleted
  <2>1. q = [r EXCEPT !.deleted = moment]
    BY <1>1, <1>3 DEF MarkDeleted
  <2>2. q \in Rows
    BY <2>1 DEF Rows
  <2>3. /\ q.purpose = r.purpose /\ q.created = r.created /\ q.uploaded = r.uploaded
        /\ q.staging = r.staging /\ q.final = r.final /\ q.candidates = r.candidates
        /\ q.host = r.host /\ q.bound = r.bound /\ q.deleted = moment
    BY <2>1 DEF Rows
  <2>. QED
    BY <1>1, <1>2, <1>3, <2>2, <2>3 DEF Kept, Published
<1>4. CASE ~ (moment < r.deleted)
  BY <1>1, <1>2, <1>4 DEF MarkDeleted, Kept
<1>. QED
  BY <1>3, <1>4

LEMMA BindingIs ==
    ASSUME NEW r \in Rows
    PROVE  /\ Kept(r, [r EXCEPT !.bound = TRUE]) /\ [r EXCEPT !.bound = TRUE].host = r.host
           /\ [r EXCEPT !.bound = TRUE].deleted = r.deleted
           /\ Published([r EXCEPT !.bound = TRUE]) = Published(r)
<1>1. PICK q : q = [r EXCEPT !.bound = TRUE]
  OBVIOUS
<1>2. q \in Rows
  BY <1>1 DEF Rows
<1>3. /\ q.purpose = r.purpose /\ q.created = r.created /\ q.uploaded = r.uploaded
      /\ q.staging = r.staging /\ q.final = r.final /\ q.candidates = r.candidates
      /\ q.host = r.host /\ q.deleted = r.deleted
  BY <1>1 DEF Rows
<1>4. r.deleted \in Nat
  BY Fields
<1>. QED
  BY <1>1, <1>2, <1>3, <1>4 DEF Kept, Published

LEMMA HostingType ==
    ASSUME IInv, KeptRows, UNCHANGED <<plan, now, counts, storage, call, sweep>>,
           there' \subseteq Parents, ended' \in [Parents -> Moments \cup {Never}],
           cover' \in 0..ids, job' \in Jobs
    PROVE  TypeInv'
<1>1. TypeInv /\ UNCHANGED <<ids, made, store, puts, copies, cursor, at, step, keys, due>>
  BY DEF IInv, counts, storage, sweep
<1>2. rows' \in [DOMAIN rows' -> Rows] /\ DOMAIN rows' \subseteq 1..ids
  BY <1>1 DEF KeptRows, Kept, TypeInv
<1>3. Jobs' = Jobs /\ Cursors' = Cursors
  BY <1>1 DEF Jobs, Cursors
<1>. QED
  BY <1>1, <1>2, <1>3 DEF TypeInv

\* A step that changes no more than the rows.
LEMMA RowsStep ==
    ASSUME IInv, KeptRows, UNCHANGED <<world, counts, storage, call, job, sweep>>,
           DOMAIN rows' = DOMAIN rows,
           \A a \in DOMAIN rows : /\ rows'[a].purpose = rows[a].purpose
                                  /\ Shown(a)' => ~ Deleted(rows'[a]) /\ Published(rows'[a])
    PROVE  IInv' /\ Keeps
<1>1. TypeInv /\ HostInv /\ UNCHANGED <<plan, now, there, ended, cover>>
  BY DEF IInv, world
<1>2. TypeInv'
  BY <1>1, HostingType DEF TypeInv
<1>3. HostInv'
  BY <1>1 DEF HostInv
<1>4. JobInv'
  BY <1>1, JobStays DEF KeptRows, Kept
<1>. QED
  BY <1>1, <1>2, <1>3, <1>4, HostingStep DEF StaysEnded

\* What is shown, as the invariant says.
LEMMA ShownStands ==
    ASSUME IInv, NEW a \in DOMAIN rows, Shown(a)
    PROVE  ~ Deleted(rows[a]) /\ Published(rows[a])
BY DEF IInv, HostInv

LEMMA HostIs ==
    ASSUME IInv, NEW a \in DOMAIN rows
    PROVE  rows[a].host \in there /\ rows[a].host \in HostsFor(rows[a].purpose) /\ rows[a] \in Rows
BY RowIs DEF IInv, RowInv

LEMMA DeleteInv ==
    ASSUME IInv, NEW a \in Assets, Delete(a)
    PROVE  IInv' /\ Keeps
<1>1. /\ a \in DOMAIN rows /\ (rows[a].bound => rows[a].purpose = "attachment")
      /\ rows' = [rows EXCEPT ![a] = MarkDeleted(@, now)]
      /\ UNCHANGED <<world, counts, storage, call, job, sweep>>
  BY DEF Delete, Accessible, Ordinary
<1>2. TypeInv /\ now \in Moments
  BY DEF IInv, TypeInv
<1>3. PICK q : q = MarkDeleted(rows[a], now)
  OBVIOUS
<1>4. Kept(rows[a], q) /\ q.host = rows[a].host /\ q.bound = rows[a].bound
  BY <1>1, <1>2, <1>3, RowIs, MarkDeletedIs
<1>5. /\ DOMAIN rows' = DOMAIN rows /\ rows' = [b \in DOMAIN rows' |-> rows'[b]]
      /\ rows'[a] = q /\ \A b \in DOMAIN rows : b # a => rows'[b] = rows[b]
  BY <1>1, <1>3
<1>6. \A b \in DOMAIN rows : b # a => Kept(rows[b], rows'[b])
  BY <1>2, <1>5, RowIs, Fields DEF Kept
<1>7. \A b \in DOMAIN rows : rows'[b].host = rows[b].host /\ rows'[b].purpose = rows[b].purpose
  BY <1>4, <1>5 DEF Kept
<1>8. KeptRows
  BY <1>1, <1>4, <1>5, <1>6, <1>7, HostIs DEF KeptRows, world
<1>9. ASSUME NEW b \in DOMAIN rows, Shown(b)'
      PROVE  ~ Deleted(rows'[b]) /\ Published(rows'[b])
  <2>1. UNCHANGED <<there, ended, cover>>
    BY <1>1 DEF world
  <2>2. b # a
    BY <1>1, <1>4, <1>5, <1>7, <1>9 DEF Shown
  <2>3. Shown(b)
    BY <1>5, <1>9, <2>1, <2>2 DEF Shown, HostStands, Standing
  <2>. QED
    BY <1>5, <2>2, <2>3, ShownStands
<1>. QED
  BY <1>1, <1>5, <1>7, <1>8, <1>9, RowsStep

\* Files that are published and not deleted get bound.
Binds(shown) ==
    /\ shown \subseteq DOMAIN rows /\ \A a \in shown : ~ Deleted(rows[a]) /\ Published(rows[a])
    /\ rows' = [a \in DOMAIN rows |->
                   IF a \in shown THEN [rows[a] EXCEPT !.bound = TRUE] ELSE rows[a]]
    /\ UNCHANGED <<world, counts, storage, call, job, sweep>>

LEMMA BindsInv ==
    ASSUME IInv, NEW shown, Binds(shown)
    PROVE  IInv' /\ Keeps
<1>1. TypeInv
  BY DEF IInv
<1>2. DOMAIN rows' = DOMAIN rows /\ rows' = [b \in DOMAIN rows' |-> rows'[b]]
  BY DEF Binds
<1>3. ASSUME NEW b \in DOMAIN rows
      PROVE  /\ Kept(rows[b], rows'[b]) /\ rows'[b].host = rows[b].host
             /\ Published(rows'[b]) = Published(rows[b]) /\ rows'[b].deleted = rows[b].deleted
  <2>1. PICK q : q = [rows[b] EXCEPT !.bound = TRUE]
    OBVIOUS
  <2>2. rows'[b] \in {q, rows[b]}
    BY <2>1 DEF Binds
  <2>3. Kept(rows[b], rows[b])
    BY <1>1, RowIs, Fields DEF Kept
  <2>. QED
    BY <1>1, <2>1, <2>2, <2>3, RowIs, BindingIs
<1>4. UNCHANGED <<there, ended, cover>>
  BY DEF Binds, world
<1>5. KeptRows
  BY <1>2, <1>3, <1>4, HostIs DEF KeptRows, Kept
<1>6. ASSUME NEW b \in DOMAIN rows, Shown(b)'
      PROVE  ~ Deleted(rows'[b]) /\ Published(rows'[b])
  <2>1. CASE b \in shown
    BY <1>3, <2>1 DEF Binds, Deleted
  <2>2. CASE b \notin shown
    <3>1. rows'[b] = rows[b]
      BY <2>2 DEF Binds
    <3>2. Shown(b)
      BY <1>4, <1>6, <3>1 DEF Shown, HostStands, Standing
    <3>. QED
      BY <3>1, <3>2, ShownStands
  <2>. QED
    BY <2>1, <2>2
<1>7. \A b \in DOMAIN rows : rows'[b].purpose = rows[b].purpose
  BY <1>3 DEF Kept
<1>. QED
  BY <1>2, <1>5, <1>6, <1>7, RowsStep DEF Binds

LEMMA BindContentInv ==
    ASSUME IInv, NEW shown, BindContent(shown)
    PROVE  IInv' /\ Keeps
<1>1. Binds(shown)
  BY DEF BindContent, Binds, Undeleted, InHost
<1>. QED
  BY <1>1, BindsInv

LEMMA SaveDraftInv ==
    ASSUME IInv, NEW shown, SaveDraft(shown)
    PROVE  IInv' /\ Keeps
<1>1. Binds(shown)
  BY DEF SaveDraft, Binds, Images, Undeleted, InHost
<1>. QED
  BY <1>1, BindsInv

LEMMA CreateIssueInv ==
    ASSUME IInv, CreateIssue
    PROVE  IInv' /\ Keeps
<1>1. TypeInv /\ HostInv /\ "issue" \notin there
  BY DEF IInv, CreateIssue
<1>2. /\ there' = there \cup {"issue"} /\ rows' = rows
      /\ UNCHANGED <<plan, now, ended, cover, rows, counts, storage, call, job, sweep>>
  BY DEF CreateIssue
<1>3. KeptRows
  <2>1. rows = [b \in DOMAIN rows |-> rows[b]]
    BY <1>1 DEF TypeInv
  <2>2. \A b \in DOMAIN rows : Kept(rows[b], rows[b])
    BY <1>1, RowIs, Fields DEF Kept
  <2>. QED
    BY <1>2, <2>1, <2>2, HostIs DEF KeptRows
<1>4. HostInv'
  <2>1. ASSUME NEW b \in DOMAIN rows, Shown(b)'
        PROVE  Shown(b)
    BY <1>1, <1>2, <2>1, HostIs DEF Shown, HostStands, Standing
  <2>. QED
    BY <1>1, <1>2, <2>1 DEF HostInv
<1>5. there' \subseteq Parents
  BY <1>1, <1>2 DEF TypeInv, Parents
<1>6. TypeInv'
  BY <1>1, <1>2, <1>3, <1>5, HostingType DEF TypeInv
<1>7. JobInv'
  BY <1>2, <1>3, JobStays DEF KeptRows, Kept
<1>. QED
  BY <1>2, <1>3, <1>4, <1>6, <1>7, HostingStep DEF StaysEnded

LEMMA DeleteHostInv ==
    ASSUME IInv, NEW h \in Parents, DeleteHost(h)
    PROVE  IInv' /\ Keeps
<1>1. TypeInv /\ HostInv
  BY DEF IInv
<1>2. /\ h \in {"draft", "issue"} /\ ended' = [ended EXCEPT ![h] = now]
      /\ rows' = [a \in DOMAIN rows |->
                     IF rows[a].host = h THEN MarkDeleted(rows[a], now) ELSE rows[a]]
      /\ UNCHANGED <<plan, now, there, cover, counts, storage, call, job, sweep>>
  BY DEF DeleteHost
<1>3. now \in Moments /\ now # Never /\ ended'[h] = now /\ \A p \in Parents \ {h} : ended'[p] = ended[p]
  BY <1>1, <1>2, Bounds DEF TypeInv
<1>4. DOMAIN rows' = DOMAIN rows /\ rows' = [b \in DOMAIN rows' |-> rows'[b]]
  BY <1>2
<1>5. ASSUME NEW b \in DOMAIN rows
      PROVE  /\ Kept(rows[b], rows'[b]) /\ rows'[b].host = rows[b].host
             /\ rows'[b].purpose = rows[b].purpose
             /\ rows[b].host # h => rows'[b] = rows[b]
  <2>1. rows'[b] \in {rows[b], MarkDeleted(rows[b], now)} /\ (rows[b].host # h => rows'[b] = rows[b])
    BY <1>2
  <2>2. Kept(rows[b], rows[b])
    BY <1>1, RowIs, Fields DEF Kept
  <2>3. Kept(rows[b], rows'[b]) /\ rows'[b].host = rows[b].host
    BY <1>1, <1>3, <2>1, <2>2, RowIs, MarkDeletedIs
  <2>. QED
    BY <2>1, <2>3 DEF Kept
<1>6. KeptRows
  BY <1>2, <1>4, <1>5, HostIs DEF KeptRows
<1>7. HostInv'
  <2>1. ASSUME NEW b \in DOMAIN rows, Shown(b)'
        PROVE  Shown(b) /\ rows'[b] = rows[b]
    <3>1. rows'[b].host # h
      BY <1>3, <2>1 DEF Shown, HostStands, Standing
    <3>2. rows'[b] = rows[b] /\ rows[b].host # h /\ rows[b].host \in Parents
      BY <1>5, <3>1, HostIs, Fields
    <3>3. "project" \in Parents /\ "project" # h
      BY <1>2 DEF Parents
    <3>. QED
      BY <1>2, <1>3, <2>1, <3>2, <3>3 DEF Shown, HostStands, Standing
  <2>2. cover # Nothing => cover \in DOMAIN rows' /\ rows'[cover].purpose = "cover"
    BY <1>1, <1>4, <1>5 DEF HostInv
  <2>. QED
    BY <1>2, <1>4, <2>1, <2>2, ShownStands DEF HostInv
<1>8. ended' \in [Parents -> Moments \cup {Never}]
  BY <1>1, <1>2, <1>3 DEF TypeInv
<1>9. TypeInv'
  BY <1>1, <1>2, <1>6, <1>8, HostingType DEF TypeInv
<1>10. "project" \in Parents /\ "project" # h
  BY <1>2 DEF Parents
<1>11. JobInv'
  BY <1>2, <1>3, <1>6, <1>10, JobStays DEF KeptRows, Kept
<1>12. StaysEnded
  BY <1>3 DEF StaysEnded
<1>. QED
  BY <1>2, <1>6, <1>7, <1>9, <1>11, <1>12, HostingStep

LEMMA DeleteProjectInv ==
    ASSUME IInv, DeleteProject
    PROVE  IInv' /\ Keeps
<1>1. TypeInv /\ HostInv /\ JobInv
  BY DEF IInv
<1>2. /\ ended["project"] = Never /\ ended' = [ended EXCEPT !["project"] = now]
      /\ job' = [job EXCEPT !.state = "queued"] /\ rows' = rows
      /\ UNCHANGED <<plan, now, there, cover, rows, counts, storage, call, sweep>>
  BY DEF DeleteProject, Standing
<1>3. "project" \in Parents
  BY DEF Parents
<1>4. /\ now \in Moments /\ now # Never /\ ended'["project"] = now
      /\ \A p \in Parents \ {"project"} : ended'[p] = ended[p]
  BY <1>1, <1>2, <1>3, Bounds DEF TypeInv
<1>5. KeptRows
  <2>1. rows = [b \in DOMAIN rows |-> rows[b]]
    BY <1>1 DEF TypeInv
  <2>2. \A b \in DOMAIN rows : Kept(rows[b], rows[b])
    BY <1>1, RowIs, Fields DEF Kept
  <2>. QED
    BY <1>2, <2>1, <2>2, HostIs DEF KeptRows
<1>6. \A b : ~ Shown(b)'
  BY <1>4 DEF Shown, HostStands, Standing
<1>7. HostInv'
  BY <1>1, <1>2, <1>6 DEF HostInv
<1>8. job' \in Jobs /\ job'.state = "queued" /\ job'.after = 0 /\ job'.saved = 0
  <2>1. job.state = "none" /\ job.after = 0 /\ job.saved = 0 /\ job \in Jobs
    BY <1>1, <1>2 DEF JobInv, TypeInv
  <2>. QED
    BY <1>2, <2>1 DEF Jobs
<1>9. ended' \in [Parents -> Moments \cup {Never}]
  BY <1>1, <1>2, <1>4 DEF TypeInv
<1>10. TypeInv'
  BY <1>1, <1>2, <1>5, <1>8, <1>9, HostingType DEF TypeInv
<1>11. JobInv'
  <2>1. \A b \in DOMAIN rows : ~ (b <= 0)
    BY <1>1, IdsBound, Bounds DEF TypeInv
  <2>. QED
    BY <1>2, <1>4, <1>8, <2>1 DEF JobInv
<1>12. StaysEnded
  BY <1>4 DEF StaysEnded
<1>. QED
  BY <1>2, <1>5, <1>7, <1>10, <1>11, <1>12, HostingStep

LEMMA PublishDraftInv ==
    ASSUME IInv, NEW shown, PublishDraft(shown)
    PROVE  IInv' /\ Keeps
<1>1. TypeInv /\ HostInv
  BY DEF IInv
<1>2. PICK moving : moving = Undeleted(InHost("draft"))
  OBVIOUS
<1>3. /\ "issue" \notin there /\ there' = there \cup {"issue"}
      /\ ended' = [ended EXCEPT !["draft"] = now]
      /\ UNCHANGED <<plan, now, cover, counts, storage, call, job, sweep>>
  BY DEF PublishDraft
<1>4. {"draft", "issue", "project"} \subseteq Parents
  BY DEF Parents
<1>5. /\ now \in Moments /\ now # Never /\ ended'["draft"] = now
      /\ \A p \in Parents \ {"draft"} : ended'[p] = ended[p]
  <2>1. now \in Moments /\ ended \in [Parents -> Moments \cup {Never}]
    BY <1>1 DEF TypeInv
  <2>2. now # Never
    BY <2>1, Bounds
  <2>3. "draft" \in Parents
    BY DEF Parents
  <2>. QED
    BY <1>3, <2>1, <2>2, <2>3
<1>6. \A a \in moving : a \in DOMAIN rows /\ rows[a].host = "draft" /\ ~ Deleted(rows[a])
  BY <1>2 DEF Undeleted, InHost
<1>7. /\ DOMAIN rows' = DOMAIN rows /\ rows' = [b \in DOMAIN rows' |-> rows'[b]]
      /\ \A b \in DOMAIN rows : b \notin moving => rows'[b] = rows[b]
  BY <1>2 DEF PublishDraft
<1>8. ASSUME NEW b \in moving
      PROVE  /\ Kept(rows[b], rows'[b]) /\ rows'[b].host = "issue"
             /\ ~ Deleted(rows'[b]) /\ Published(rows'[b])
             /\ rows'[b].host \in HostsFor(rows'[b].purpose)
  <2>1. PICK r : r = rows[b]
    OBVIOUS
  <2>2. PICK bound : bound = (r.bound \/ b \in shown \/ Ordinary(r))
    OBVIOUS
  <2>3. PICK q : q = [r EXCEPT !.host = "issue", !.bound = bound]
    OBVIOUS
  <2>4. rows'[b] = [r EXCEPT !.host = "issue", !.bound = @ \/ b \in shown \/ Ordinary(r)]
    BY <1>2, <1>6, <2>1 DEF PublishDraft
  <2>5. r \in Rows
    BY <1>1, <1>6, <2>1, RowIs
  <2>6. bound \in BOOLEAN
    BY <2>2
  <2>7. rows'[b] = q
    BY <2>2, <2>3, <2>4
  <2>8. q \in Rows
    BY <1>4, <2>3, <2>5, <2>6 DEF Rows
  <2>9. /\ q.purpose = r.purpose /\ q.created = r.created /\ q.uploaded = r.uploaded
        /\ q.staging = r.staging /\ q.final = r.final /\ q.candidates = r.candidates
        /\ q.host = "issue" /\ q.deleted = r.deleted
    BY <2>3, <2>5 DEF Rows
  <2>10. r.deleted <= r.deleted
    BY <2>5, Fields
  <2>11. "issue" \in HostsFor(r.purpose)
    BY <1>6, <2>1, HostIs DEF HostsFor
  <2>12. ~ Deleted(r) /\ Published(r)
    BY <1>2, <1>6, <2>1 DEF PublishDraft
  <2>13. ~ Deleted(q) /\ Published(q)
    BY <2>9, <2>12 DEF Deleted, Published
  <2>14. Kept(r, q)
    BY <2>8, <2>9, <2>10 DEF Kept
  <2>. QED
    BY <2>1, <2>7, <2>9, <2>11, <2>13, <2>14
<1>9. ASSUME NEW b \in DOMAIN rows, b \notin moving
      PROVE  rows'[b] = rows[b] /\ Kept(rows[b], rows[b])
  <2>1. rows'[b] = rows[b]
    BY <1>7, <1>9
  <2>2. Kept(rows[b], rows[b])
    BY <1>1, RowIs, Fields DEF Kept
  <2>. QED
    BY <2>1, <2>2
<1>10. KeptRows
  <2>1. ASSUME NEW b \in DOMAIN rows
        PROVE  /\ Kept(rows[b], rows'[b])
               /\ rows'[b].host \in there'
               /\ rows'[b].host \in HostsFor(rows'[b].purpose)
    <3>1. CASE b \in moving
      <4>1. "issue" \in there'
        BY <1>3
      <4>. QED
        BY <1>8, <3>1, <4>1
    <3>2. CASE b \notin moving
      BY <1>3, <1>9, <3>2, HostIs
    <3>. QED
      BY <3>1, <3>2
  <2>. QED
    BY <1>7, <2>1 DEF KeptRows
<1>11. HostInv'
  <2>1. ASSUME NEW b \in DOMAIN rows, Shown(b)', b \notin moving
        PROVE  ~ Deleted(rows'[b]) /\ Published(rows'[b])
    <3>1. rows'[b] = rows[b] /\ rows[b].host \in Parents /\ rows[b].host \in there
      BY <1>9, <2>1, HostIs, Fields
    <3>2. rows[b].host # "draft" /\ rows[b].host # "issue"
      BY <1>3, <1>5, <2>1, <3>1 DEF Shown, HostStands, Standing
    <3>3. Shown(b)
      BY <1>3, <1>4, <1>5, <2>1, <3>1, <3>2 DEF Shown, HostStands, Standing
    <3>. QED
      BY <3>1, <3>3, ShownStands
  <2>2. \A b \in DOMAIN rows : rows'[b].purpose = rows[b].purpose
    BY <1>8, <1>9 DEF Kept
  <2>3. cover # Nothing => cover \in DOMAIN rows' /\ rows'[cover].purpose = "cover"
    BY <1>1, <1>7, <2>2 DEF HostInv
  <2>. QED
    BY <1>3, <1>7, <1>8, <2>1, <2>3 DEF HostInv
<1>12. ended' \in [Parents -> Moments \cup {Never}]
  BY <1>1, <1>3, <1>5 DEF TypeInv
<1>13. there' \subseteq Parents
  BY <1>1, <1>3, <1>4 DEF TypeInv
<1>14. TypeInv'
  BY <1>1, <1>3, <1>10, <1>12, <1>13, HostingType DEF TypeInv
<1>15. JobInv'
  BY <1>3, <1>4, <1>5, <1>10, JobStays DEF KeptRows, Kept
<1>16. StaysEnded
  BY <1>5 DEF StaysEnded
<1>. QED
  BY <1>3, <1>10, <1>11, <1>14, <1>15, <1>16, HostingStep

-----------------------------------------------------------------------------
(* Least and greatest                                                        *)

\* A nonempty set of numbers has a least one, and a greatest if it has a bound.
LEMMA Least ==
    ASSUME NEW S, S \subseteq Nat, S # {}
    PROVE  \E x \in S : \A y \in S : x <= y
<1>. DEFINE R == OpToRel(<, Nat)
<1>1. IsWellFoundedOn(R, Nat)
  BY NatLessThanWellFounded
<1>2. \A x, y \in Nat : <<y, x>> \in R <=> y < x
  BY DEF OpToRel
<1>. HIDE DEF R
<1>3. PICK x \in S : \A y \in S : ~ (<<y, x>> \in R)
  BY <1>1, WFMin
<1>4. ASSUME NEW y \in S
      PROVE  x <= y
  <2>1. x \in Nat /\ y \in Nat
    OBVIOUS
  <2>2. ~ (y < x)
    BY <1>2, <1>3, <2>1
  <2>. QED
    BY <2>1, <2>2
<1>. QED
  BY <1>4

LEMMA MinIs ==
    ASSUME NEW S, S \subseteq Nat, S # {}
    PROVE  Min(S) \in S /\ \A y \in S : Min(S) <= y
BY Least DEF Min

LEMMA MaxIs ==
    ASSUME NEW S, S \subseteq Nat, S # {}, NEW n \in Nat, \A x \in S : x <= n
    PROVE  Max(S) \in S /\ \A y \in S : y <= Max(S)
<1>1. PICK T : T = {m \in Nat : \A x \in S : x <= m}
  OBVIOUS
<1>2. PICK m \in T : \A y \in T : m <= y
  BY <1>1, Least
<1>3. m \in Nat /\ \A x \in S : x \in Nat /\ x <= m
  BY <1>1, <1>2
<1>4. m \in S
  <2>1. SUFFICES ASSUME m \notin S
                 PROVE  FALSE
    OBVIOUS
  <2>2. \A x \in S : x < m
    BY <1>3, <2>1
  <2>3. m > 0
    <3>1. PICK x \in S : TRUE
      OBVIOUS
    <3>2. x \in Nat /\ m \in Nat /\ x < m
      BY <1>3, <2>2
    <3>. QED
      BY <3>2
  <2>4. m - 1 \in T
    BY <1>1, <1>3, <2>2, <2>3
  <2>. QED
    BY <1>2, <1>3, <2>4
<1>5. \E x \in S : \A y \in S : x >= y
  BY <1>3, <1>4
<1>6. Max(S) \in S /\ \A y \in S : Max(S) >= y
  BY <1>5 DEF Max
<1>. QED
  BY <1>3, <1>6

LEMMA RowsAreFinite ==
    ASSUME TypeInv
    PROVE  IsFiniteSet(DOMAIN rows) /\ DOMAIN rows \subseteq Nat /\ \A a \in DOMAIN rows : a <= ids
<1>1. ids \in Nat /\ DOMAIN rows \subseteq 1..ids
  BY IdsBound DEF TypeInv
<1>2. \A a \in DOMAIN rows : a \in Nat /\ a <= ids
  BY <1>1
<1>. QED
  BY <1>1, <1>2, FS_BoundedSetOfNaturals

\* The next rows are the first ones after x: there is one if any is left, and
\* before the last of them none is passed over.
LEMMA NextOfIs ==
    ASSUME TypeInv, NEW x \in Nat, plan.batch \in Nat \ {0}
    PROVE  /\ NextOf(x) \subseteq DOMAIN rows /\ \A a \in NextOf(x) : x < a
           /\ NextOf(x) = {} => \A a \in DOMAIN rows : a <= x
           /\ \A a \in DOMAIN rows, b \in NextOf(x) : x < a /\ a <= b => a \in NextOf(x)
<1>1. NextOf(x) \subseteq DOMAIN rows /\ \A a \in NextOf(x) : x < a
  BY DEF NextOf
<1>2. ASSUME NEW a \in DOMAIN rows, x < a
      PROVE  NextOf(x) # {}
  <2>1. PICK S : S = {b \in DOMAIN rows : x < b}
    OBVIOUS
  <2>2. S \subseteq Nat /\ S # {}
    BY <1>2, <2>1, RowsAreFinite
  <2>3. PICK m \in S : \A b \in S : m <= b
    BY <2>2, Least
  <2>4. {b \in DOMAIN rows : x < b /\ b < m} = {}
    BY <2>1, <2>2, <2>3
  <2>5. m \in NextOf(x)
    BY <2>1, <2>3, <2>4, FS_EmptySet DEF NextOf
  <2>. QED
    BY <2>5
<1>3. ASSUME NEW a \in DOMAIN rows, NEW b \in NextOf(x), x < a, a <= b
      PROVE  a \in NextOf(x)
  <2>1. PICK A, B : /\ A = {c \in DOMAIN rows : x < c /\ c < a}
                    /\ B = {c \in DOMAIN rows : x < c /\ c < b}
    OBVIOUS
  <2>2. \A c \in DOMAIN rows : c \in Nat
    BY RowsAreFinite
  <2>3. A \subseteq B
    BY <1>1, <1>3, <2>1, <2>2
  <2>4. IsFiniteSet(B)
    BY <2>1, RowsAreFinite, FS_Subset
  <2>5. Cardinality(A) <= Cardinality(B) /\ Cardinality(A) \in Nat /\ Cardinality(B) \in Nat
    BY <2>3, <2>4, FS_Subset, FS_CardinalityType
  <2>6. Cardinality(B) < plan.batch
    BY <2>1 DEF NextOf
  <2>7. Cardinality(A) < plan.batch
    BY <2>5, <2>6
  <2>. QED
    BY <1>3, <2>1, <2>7 DEF NextOf
<1>4. \A a \in DOMAIN rows : a \in Nat
  BY RowsAreFinite
<1>. QED
  BY <1>1, <1>2, <1>3, <1>4

LEMMA BatchIs ==
    ASSUME TypeInv
    PROVE  plan.batch \in Nat \ {0}
<1>1. PICK p \in Plans : p = plan
  BY DEF TypeInv
<1>. QED
  BY <1>1, AssetsAssumption

LEMMA ReplaceCoverInv ==
    ASSUME IInv, NEW next \in Assets \cup {Nothing}, ReplaceCover(next)
    PROVE  IInv' /\ Keeps
<1>1. TypeInv /\ HostInv /\ now \in Moments
  BY DEF IInv, TypeInv
<1>2. /\ next # cover /\ cover' = next
      /\ next # Nothing => /\ next \in DOMAIN rows /\ ~ Deleted(rows[next])
                           /\ rows[next].purpose = "cover" /\ Published(rows[next])
      /\ UNCHANGED <<plan, now, there, ended, counts, storage, call, job, sweep>>
  BY DEF ReplaceCover, Accessible
<1>3. DOMAIN rows' = DOMAIN rows /\ rows' = [b \in DOMAIN rows' |-> rows'[b]]
  BY DEF ReplaceCover
<1>4. ASSUME NEW b \in DOMAIN rows
      PROVE  /\ b = next => rows'[b] = [rows[b] EXCEPT !.bound = TRUE]
             /\ b # next /\ b = cover => rows'[b] = MarkDeleted(rows[b], now)
             /\ b # next /\ b # cover => rows'[b] = rows[b]
  BY DEF ReplaceCover
<1>5. ASSUME NEW b \in DOMAIN rows
      PROVE  Kept(rows[b], rows'[b]) /\ rows'[b].host = rows[b].host
  <2>1. rows[b] \in Rows /\ Kept(rows[b], rows[b])
    BY <1>1, RowIs, Fields DEF Kept
  <2>2. CASE b = next
    BY <1>4, <2>1, <2>2, BindingIs
  <2>3. CASE b # next /\ b = cover
    BY <1>1, <1>4, <2>1, <2>3, MarkDeletedIs
  <2>4. CASE b # next /\ b # cover
    BY <1>4, <2>1, <2>4
  <2>. QED
    BY <2>2, <2>3, <2>4
<1>6. \A b \in DOMAIN rows : rows'[b].purpose = rows[b].purpose
  BY <1>5 DEF Kept
<1>7. KeptRows
  BY <1>2, <1>3, <1>5, <1>6, HostIs DEF KeptRows
<1>8. ASSUME NEW b \in DOMAIN rows, Shown(b)'
      PROVE  ~ Deleted(rows'[b]) /\ Published(rows'[b])
  <2>1. CASE b = next
    <3>1. b # Nothing /\ rows[b] \in Rows
      BY <1>1, RowIs, Bounds DEF Nothing
    <3>2. ~ Deleted(rows[b]) /\ Published(rows[b])
      BY <1>2, <2>1, <3>1
    <3>3. rows'[b].deleted = rows[b].deleted /\ Published(rows'[b]) = Published(rows[b])
      BY <1>4, <2>1, <3>1, BindingIs
    <3>. QED
      BY <3>2, <3>3 DEF Deleted
  <2>2. CASE b # next
    <3>1. rows'[b].purpose # "cover"
      BY <1>2, <1>8, <2>2 DEF Shown
    <3>2. b # cover
      <4>1. b # Nothing
        BY <1>1, RowIs, Bounds DEF Nothing
      <4>. QED
        BY <1>1, <1>6, <3>1, <4>1 DEF HostInv
    <3>3. rows'[b] = rows[b]
      BY <1>4, <2>2, <3>2
    <3>4. Shown(b)
      BY <1>2, <1>8, <3>1, <3>3 DEF Shown, HostStands, Standing
    <3>. QED
      BY <3>3, <3>4, ShownStands
  <2>. QED
    BY <2>1, <2>2
<1>9. HostInv'
  BY <1>2, <1>3, <1>6, <1>8 DEF HostInv
<1>10. cover' \in 0..ids
  BY <1>1, <1>2, IdsBound DEF Nothing, TypeInv
<1>11. TypeInv'
  BY <1>1, <1>2, <1>7, <1>10, HostingType DEF TypeInv
<1>12. JobInv'
  BY <1>2, <1>7, JobStays DEF KeptRows, Kept
<1>. QED
  BY <1>2, <1>7, <1>9, <1>11, <1>12, HostingStep DEF StaysEnded

\* The purge of a row, and the reference to it, with it.
LEMMA PurgeRowInv ==
    ASSUME IInv, NEW a \in Assets, PurgeRow(a)
    PROVE  IInv' /\ Keeps
<1>1. TypeInv /\ HostInv
  BY DEF IInv
<1>2. /\ a \in DOMAIN rows /\ rows' = Restrict(rows, DOMAIN rows \ {a})
      /\ cover' = (IF cover = a THEN Nothing ELSE cover)
      /\ UNCHANGED <<plan, now, there, ended, counts, storage, call, job, sweep>>
  BY DEF PurgeRow
<1>3. /\ DOMAIN rows' = DOMAIN rows \ {a} /\ rows' = [b \in DOMAIN rows' |-> rows'[b]]
      /\ \A b \in DOMAIN rows' : b \in DOMAIN rows /\ rows'[b] = rows[b]
  BY <1>2 DEF Restrict
<1>4. \A b \in DOMAIN rows : Kept(rows[b], rows[b])
  BY <1>1, RowIs, Fields DEF Kept
<1>5. KeptRows
  BY <1>2, <1>3, <1>4, HostIs DEF KeptRows
<1>6. ASSUME NEW b \in DOMAIN rows', Shown(b)'
      PROVE  ~ Deleted(rows'[b]) /\ Published(rows'[b])
  <2>1. b \in DOMAIN rows /\ rows'[b] = rows[b] /\ b # Nothing
    BY <1>1, <1>3, RowIs, Bounds DEF Nothing
  <2>2. Shown(b)
    BY <1>2, <1>6, <2>1 DEF Shown, HostStands, Standing
  <2>. QED
    BY <2>1, <2>2, ShownStands
<1>7. HostInv'
  <2>1. cover' # Nothing => cover' = cover /\ cover \in DOMAIN rows'
    BY <1>1, <1>2, <1>3 DEF HostInv
  <2>. QED
    BY <1>1, <1>3, <1>6, <2>1 DEF HostInv
<1>8. cover' \in 0..ids
  BY <1>1, <1>2, IdsBound DEF TypeInv, Nothing
<1>9. TypeInv'
  BY <1>1, <1>2, <1>5, <1>8, HostingType DEF TypeInv
<1>10. JobInv'
  BY <1>2, <1>5, JobStays DEF KeptRows, Kept
<1>. QED
  BY <1>2, <1>5, <1>7, <1>9, <1>10, HostingStep DEF StaysEnded

\* A page of the files of the deleted project.
LEMMA MarkScopePageInv ==
    ASSUME IInv, MarkScopePage
    PROVE  IInv' /\ Keeps
<1>1. TypeInv /\ HostInv /\ JobInv /\ job.state = "queued"
  BY DEF IInv, MarkScopePage
<1>2. UNCHANGED <<world, counts, storage, call, sweep>> /\ UNCHANGED <<plan, now, there, ended, cover>>
  BY DEF MarkScopePage, world
<1>3. PICK ps : ps = NextOf(job.after)
  OBVIOUS
<1>4. job.after \in Nat /\ job.saved \in Nat /\ job \in Jobs
  BY <1>1, IdsBound DEF TypeInv, Jobs
<1>5. /\ ps \subseteq DOMAIN rows /\ \A a \in ps : job.after < a
      /\ ps = {} => \A a \in DOMAIN rows : a <= job.after
      /\ \A a \in DOMAIN rows, b \in ps : job.after < a /\ a <= b => a \in ps
  BY <1>1, <1>3, <1>4, NextOfIs, BatchIs
<1>6. ended["project"] \in Moments /\ ended["project"] # Never /\ ended["project"] \in Nat
  BY <1>1, Bounds DEF TypeInv, JobInv, Parents
<1>7. /\ DOMAIN rows' = DOMAIN rows /\ rows' = [b \in DOMAIN rows' |-> rows'[b]]
      /\ \A b \in DOMAIN rows :
            rows'[b] = IF b \in ps THEN MarkDeleted(rows[b], ended["project"]) ELSE rows[b]
  <2>1. CASE ps = {}
    BY <1>1, <1>3, <2>1 DEF MarkScopePage, TypeInv
  <2>2. CASE ps # {}
    BY <1>3, <2>2 DEF MarkScopePage
  <2>. QED
    BY <2>1, <2>2
<1>8. ASSUME NEW b \in DOMAIN rows
      PROVE  /\ Kept(rows[b], rows'[b]) /\ rows'[b].host = rows[b].host
             /\ b \in ps => rows'[b].deleted <= ended["project"]
             /\ rows'[b].deleted \in Nat /\ rows[b].deleted \in Nat
  <2>1. rows[b] \in Rows /\ Kept(rows[b], rows[b])
    BY <1>1, RowIs, Fields DEF Kept
  <2>2. CASE b \in ps
    <3>1. rows'[b] = MarkDeleted(rows[b], ended["project"])
      BY <1>7, <2>2
    <3>2. Kept(rows[b], rows'[b]) /\ rows'[b].host = rows[b].host /\ rows'[b].deleted <= ended["project"]
      BY <1>6, <2>1, <3>1, MarkDeletedIs
    <3>. QED
      BY <2>1, <3>2, Fields DEF Kept
  <2>3. CASE b \notin ps
    BY <1>7, <2>1, <2>3, Fields
  <2>. QED
    BY <2>2, <2>3
<1>9. KeptRows /\ \A b \in DOMAIN rows : rows'[b].purpose = rows[b].purpose
  <2>1. \A b \in DOMAIN rows : rows'[b].purpose = rows[b].purpose
    BY <1>8 DEF Kept
  <2>. QED
    BY <1>2, <1>7, <1>8, <2>1, HostIs DEF KeptRows
<1>10. HostInv'
  <2>1. \A b : ~ Shown(b)'
    BY <1>2, <1>6 DEF Shown, HostStands, Standing
  <2>. QED
    BY <1>1, <1>2, <1>7, <1>9, <2>1 DEF HostInv
<1>11. ps = {} => job' = [job EXCEPT !.state = "done"]
  BY <1>3 DEF MarkScopePage
<1>12. PICK last : last = Max(ps)
  OBVIOUS
<1>13. ps # {} => last \in ps /\ last \in Nat /\ \A b \in ps : b <= last
  BY <1>1, <1>5, <1>12, RowsAreFinite, IdsBound, MaxIs
<1>14. ps # {} =>
          \/ job' = [job EXCEPT !.after = last]
          \/ job' = [job EXCEPT !.after = last, !.saved = last]
          \/ job' = [job EXCEPT !.after = job.saved]
  <2>1. CASE ps # {}
    <3>1. PICK on : on = [job EXCEPT !.after = last]
      OBVIOUS
    <3>2. job' \in {on, [on EXCEPT !.saved = on.after], [job EXCEPT !.after = job.saved]}
      BY <1>3, <1>12, <2>1, <3>1 DEF MarkScopePage
    <3>3. [on EXCEPT !.saved = on.after] = [job EXCEPT !.after = last, !.saved = last]
      BY <1>4, <3>1 DEF Jobs
    <3>. QED
      BY <3>1, <3>2, <3>3
  <2>. QED
    BY <2>1
<1>15. ps # {} => last \in 0..ids
  BY <1>1, <1>5, <1>13, RowsAreFinite, IdsBound
<1>16. /\ job' \in Jobs
       /\ ps = {} => job'.state = "done"
       /\ ps # {} => /\ job'.state = "queued" /\ job'.after \in {last, job.saved}
                     /\ job'.saved \in {last, job.saved}
  <2>1. CASE ps = {}
    BY <1>4, <1>11, <2>1 DEF Jobs
  <2>2. CASE ps # {}
    <3>1. CASE job' = [job EXCEPT !.after = last]
      BY <1>1, <1>4, <1>15, <2>2, <3>1 DEF Jobs
    <3>2. CASE job' = [job EXCEPT !.after = last, !.saved = last]
      BY <1>1, <1>4, <1>15, <2>2, <3>2 DEF Jobs
    <3>3. CASE job' = [job EXCEPT !.after = job.saved]
      BY <1>1, <1>4, <1>15, <2>2, <3>3 DEF Jobs
    <3>. QED
      BY <1>14, <2>2, <3>1, <3>2, <3>3
  <2>. QED
    BY <2>1, <2>2
<1>17. ASSUME NEW b \in DOMAIN rows, b <= job.after \/ b <= job.saved
       PROVE  rows'[b].deleted <= ended["project"]
  <2>1. rows[b].deleted <= ended["project"] /\ rows'[b].deleted <= rows[b].deleted
    BY <1>1, <1>8, <1>17 DEF JobInv, Kept
  <2>. QED
    BY <1>6, <1>8, <2>1
<1>18. ASSUME NEW b \in DOMAIN rows, ps # {}, b <= last
       PROVE  rows'[b].deleted <= ended["project"]
  <2>1. CASE job.after < b
    BY <1>5, <1>8, <1>13, <1>18, <2>1
  <2>2. CASE ~ (job.after < b)
    <3>1. b \in Nat
      BY <1>1, RowIs
    <3>2. b <= job.after
      BY <1>4, <2>2, <3>1
    <3>. QED
      BY <1>17, <3>2
  <2>. QED
    BY <2>1, <2>2
<1>19. JobInv'
  <2>1. job'.state # "none" /\ ended'["project"] # Never
    BY <1>2, <1>6, <1>16
  <2>2. ASSUME NEW b \in DOMAIN rows,
               job'.state = "done" \/ (job'.state = "queued" /\ (b <= job'.after \/ b <= job'.saved))
        PROVE  rows'[b].deleted <= ended["project"]
    <3>1. CASE ps = {}
      BY <1>5, <1>17, <3>1
    <3>2. CASE ps # {}
      <4>1. b <= last \/ b <= job.saved
        BY <1>16, <2>2, <3>2
      <4>. QED
        BY <1>17, <1>18, <3>2, <4>1
    <3>. QED
      BY <3>1, <3>2
  <2>3. \A b \in DOMAIN rows' :
           job'.state = "done" \/ (job'.state = "queued" /\ (b <= job'.after \/ b <= job'.saved))
               => rows'[b].deleted <= ended'["project"]
    BY <1>2, <1>7, <2>2
  <2>. QED
    BY <2>1, <2>3 DEF JobInv
<1>20. UNCHANGED <<plan, now, counts, storage, call, sweep>>
  BY <1>2
<1>21. TypeInv'
  BY <1>1, <1>2, <1>9, <1>16, <1>20, HostingType DEF TypeInv
<1>. QED
  BY <1>2, <1>9, <1>10, <1>19, <1>20, <1>21, HostingStep DEF StaysEnded

-----------------------------------------------------------------------------
(* Requests, uploads and the clock                                           *)

LEMMA JobAndCursors ==
    ASSUME TypeInv, Grows, UNCHANGED <<job, cursor, at>>
    PROVE  job' \in Jobs' /\ cursor' \in Cursors' /\ at' \in Cursors' /\ 0..ids \subseteq 0..ids'
<1>1. 0..ids \subseteq 0..ids'
  BY IdsBound DEF Grows
<1>2. job \in Jobs /\ cursor \in Cursors /\ at \in Cursors
  BY DEF TypeInv
<1>3. Jobs \subseteq Jobs'
  BY <1>1 DEF Jobs
<1>4. Cursors \subseteq Cursors'
  BY <1>1 DEF Cursors
<1>. QED
  BY <1>1, <1>2, <1>3, <1>4

\* A step that leaves the rows as they are.
LEMMA QuietStep ==
    ASSUME IInv, UNCHANGED <<plan, there, ended, cover, rows, ids, made, job>>,
           UNCHANGED <<cursor, step, at, page, facts, keys, dropping>>,
           now' \in Moments, now <= now', due' \subseteq Key,
           StoreKeeps, StoreInv',
           DOMAIN store' \subseteq Key, store' \in [DOMAIN store' -> Objects],
           puts' \subseteq [key : Key, content : Contents],
           copies' \subseteq [from : Key, match : Contents, to : Key],
           call' \in [Callers -> {NoCall} \cup Calls],
           \A c \in Callers : call'[c] = call[c] \/ CallInv(c)'
    PROVE  IInv' /\ Keeps
<1>1. TypeInv /\ HostInv /\ JobInv
  BY DEF IInv
<1>2. AgedRows /\ Grows /\ StaysEnded
  BY <1>1, SameRows, SameGrows DEF StaysEnded
<1>3. \A k : (Active(k)' => Active(k)) /\ (k \in Referenced' => k \in Referenced)
  BY <1>2, AgedKeys
<1>4. SweepInv'
  BY <1>2, <1>3, SweepStays
<1>5. (\A a \in DOMAIN rows' : RowInv(a)') /\ \A c \in Callers : CallInv(c)'
  BY <1>2, AgedStep
<1>6. TypeInv'
  BY <1>1, <1>2, JobAndCursors DEF TypeInv
<1>7. HostInv'
  BY <1>1 DEF HostInv, Shown, HostStands, Standing
<1>8. JobInv'
  BY <1>1 DEF JobInv
<1>9. Keeps
  BY <1>2, AgedKeeps
<1>10. IInv'
  BY <1>4, <1>5, <1>6, <1>7, <1>8 DEF IInv
<1>. QED
  BY <1>9, <1>10

LEMMA SameStore ==
    ASSUME UNCHANGED store
    PROVE  StoreKeeps
BY DEF StoreKeeps

LEMMA StartUploadInv ==
    ASSUME IInv, NEW a \in Assets, NEW content \in Contents, StartUpload(a, content)
    PROVE  IInv' /\ Keeps
<1>1. TypeInv /\ StoreInv /\ now \in Moments
  BY DEF IInv, TypeInv
<1>2. /\ a \in DOMAIN rows /\ puts' = puts \cup {[key |-> StagingKey(a), content |-> content]}
      /\ UNCHANGED <<plan, now, there, ended, cover, rows, ids, made, store, copies, call, job>>
      /\ UNCHANGED <<cursor, step, at, page, facts, keys, dropping, due>>
  BY DEF StartUpload, world, sweep
<1>3. StagingKey(a) \in Key /\ StagingKey(a).kind = "u" /\ Known(StagingKey(a))
  <2>1. a <= ids
    BY <1>1, <1>2, RowsAreFinite
  <2>. QED
    BY <2>1, KeyParts DEF Known
<1>4. \A k : Known(k) => Known(k)'
  BY <1>2 DEF Known
<1>5. StoreInv'
  BY <1>1, <1>2, <1>3, <1>4 DEF StoreInv
<1>6. puts' \subseteq [key : Key, content : Contents]
  BY <1>1, <1>2, <1>3 DEF TypeInv
<1>7. now <= now'
  BY <1>1, <1>2, Bounds
<1>8. StoreKeeps
  BY <1>2, SameStore
<1>. QED
  BY <1>1, <1>2, <1>5, <1>6, <1>7, <1>8, QuietStep DEF TypeInv

\* Something is stored under the key.
LEMMA StoredIs ==
    ASSUME TypeInv, NEW k \in Key, NEW content \in Contents,
           store' = With(store, k, [content |-> content, stored |-> now])
    PROVE  /\ DOMAIN store' = DOMAIN store \cup {k} /\ store' \in [DOMAIN store' -> Objects]
           /\ store'[k].content = content /\ \A l \in DOMAIN store \ {k} : store'[l] = store[l]
<1>1. PICK o : o = [content |-> content, stored |-> now]
  OBVIOUS
<1>2. o \in Objects /\ o.content = content
  BY <1>1 DEF Objects, TypeInv
<1>3. store' = [l \in DOMAIN store \cup {k} |-> IF l = k THEN o ELSE store[l]]
  BY <1>1 DEF With
<1>4. store \in [DOMAIN store -> Objects]
  BY DEF TypeInv
<1>. QED
  BY <1>2, <1>3, <1>4

LEMMA UploadLandsInv ==
    ASSUME IInv, NEW put \in puts, UploadLands(put)
    PROVE  IInv' /\ Keeps
<1>1. TypeInv /\ StoreInv /\ now \in Moments
  BY DEF IInv, TypeInv
<1>2. /\ puts' = puts \ {put} /\ due' = due \ {put.key}
      /\ store' = With(store, put.key, [content |-> put.content, stored |-> now])
      /\ UNCHANGED <<plan, now, there, ended, cover, rows, ids, made, copies, call, job>>
      /\ UNCHANGED <<cursor, step, at, page, facts, keys, dropping>>
  BY DEF UploadLands, world, counts
<1>3. put.key \in Key /\ put.content \in Contents /\ put.key.kind = "u" /\ Known(put.key)
  BY <1>1 DEF TypeInv, StoreInv
<1>4. /\ DOMAIN store' = DOMAIN store \cup {put.key} /\ store' \in [DOMAIN store' -> Objects]
      /\ \A l \in DOMAIN store \ {put.key} : store'[l] = store[l]
  BY <1>1, <1>2, <1>3, StoredIs
<1>5. StoreKeeps
  BY <1>3, <1>4 DEF StoreKeeps
<1>6. \A k : Known(k) => Known(k)'
  BY <1>2 DEF Known
<1>7. StoreInv'
  BY <1>1, <1>2, <1>3, <1>4, <1>6 DEF StoreInv
<1>8. puts' \subseteq [key : Key, content : Contents] /\ DOMAIN store' \subseteq Key /\ due' \subseteq Key
  BY <1>1, <1>2, <1>3, <1>4 DEF TypeInv
<1>9. now <= now'
  BY <1>1, <1>2, Bounds
<1>. QED
  BY <1>1, <1>2, <1>4, <1>5, <1>7, <1>8, <1>9, QuietStep DEF TypeInv

LEMMA CopyLandsInv ==
    ASSUME IInv, NEW copy \in copies, CopyLands(copy)
    PROVE  IInv' /\ Keeps
<1>1. TypeInv /\ StoreInv /\ now \in Moments
  BY DEF IInv, TypeInv
<1>2. /\ copies' = copies \ {copy}
      /\ UNCHANGED <<plan, now, there, ended, cover, rows, ids, made, puts, call, job>>
      /\ UNCHANGED <<cursor, step, at, page, facts, keys, dropping>>
  BY DEF CopyLands, world, counts
<1>3. copy.to \in Key /\ copy.match \in Contents /\ Known(copy.to)
  BY <1>1 DEF TypeInv, StoreInv
<1>4. /\ DOMAIN store' \subseteq DOMAIN store \cup {copy.to} /\ store' \in [DOMAIN store' -> Objects]
      /\ \A l \in DOMAIN store : l \in DOMAIN store' /\ store'[l] = store[l]
      /\ due' \subseteq due
  <2>1. CASE /\ copy.to \notin DOMAIN store /\ due' = due \ {copy.to}
             /\ store' = With(store, copy.to, [content |-> copy.match, stored |-> now])
    BY <1>1, <1>3, <2>1, StoredIs
  <2>2. CASE UNCHANGED <<store, due>>
    BY <1>1, <2>2 DEF TypeInv
  <2>. QED
    BY <2>1, <2>2 DEF CopyLands
<1>5. StoreKeeps
  BY <1>4 DEF StoreKeeps
<1>6. \A k : Known(k) => Known(k)'
  BY <1>2 DEF Known
<1>7. StoreInv'
  BY <1>1, <1>2, <1>3, <1>4, <1>6 DEF StoreInv
<1>8. /\ copies' \subseteq [from : Key, match : Contents, to : Key]
      /\ DOMAIN store' \subseteq Key /\ due' \subseteq Key
  BY <1>1, <1>2, <1>3, <1>4 DEF TypeInv
<1>9. now <= now'
  BY <1>1, <1>2, Bounds
<1>. QED
  BY <1>1, <1>2, <1>4, <1>5, <1>7, <1>8, <1>9, QuietStep DEF TypeInv

LEMMA TickInv ==
    ASSUME IInv, Tick
    PROVE  IInv' /\ Keeps
<1>1. TypeInv /\ StoreInv /\ now \in Moments /\ now \in Nat
  BY Bounds DEF IInv, TypeInv
<1>2. /\ now < plan.time /\ now' = now + 1
      /\ UNCHANGED <<plan, there, ended, cover, rows, ids, made, store, puts, copies, call, job>>
      /\ UNCHANGED <<cursor, step, at, page, facts, keys, dropping, due>>
  BY DEF Tick, counts, storage, sweep
<1>3. now' \in Moments /\ now <= now'
  <2>1. PICK p \in Plans : p = plan
    BY <1>1 DEF TypeInv
  <2>2. plan.time \in 0..MaxTime
    BY <2>1, AssetsAssumption
  <2>. QED
    BY <1>1, <1>2, <2>2, Bounds DEF Moments
<1>4. StoreInv'
  BY <1>1, <1>2 DEF StoreInv, Known
<1>5. StoreKeeps
  BY <1>2, SameStore
<1>. QED
  BY <1>1, <1>2, <1>3, <1>4, <1>5, QuietStep DEF TypeInv

\* What a request is doing.
LEMMA CallIs ==
    ASSUME TypeInv, NEW c \in Callers, call[c].stage # "idle"
    PROVE  /\ call[c] \in Calls /\ call[c].asset \in Assets /\ call[c].host \in Parents
           /\ call[c].n \in 1..MaxKeys /\ call[c].n \in 0..MaxKeys /\ call[c].n \in Nat /\ call[c].n # 0
           /\ call[c].lease \in 0..(MaxTime + Lease) /\ call[c].from \in Key
           /\ call[c].sha \in Contents \cup {"none"}
           /\ call[c].stage \in {"reserved", "asked", "sealed"}
<1>1. call[c] \in Calls
  BY DEF TypeInv, NoCall
<1>2. \A n \in 1..MaxKeys : n \in 0..MaxKeys /\ n \in Nat /\ n # 0
  BY Bounds
<1>. QED
  BY <1>1, <1>2 DEF Calls

LEMMA NoCallIs == NoCall.stage = "idle"
BY DEF NoCall

\* A step that changes nothing but what one request is doing, and the copies
\* the storage was asked for.
CallTo(c, v, asked) ==
    /\ v \in {NoCall} \cup Calls /\ call' = [call EXCEPT ![c] = v]
    /\ copies' = copies \cup asked
    /\ asked \subseteq [from : Key, match : Contents, to : Key]
    /\ \A copy \in asked : copy.to.kind = "o" /\ Known(copy.to)
    /\ UNCHANGED <<world, rows, counts, store, puts, job, sweep>>

LEMMA CallStep ==
    ASSUME IInv, NEW c \in Callers, NEW v, NEW asked, CallTo(c, v, asked),
           v.stage # "idle" => CallInv(c)'
    PROVE  IInv' /\ Keeps
<1>1. TypeInv /\ StoreInv /\ now \in Moments
  BY DEF IInv, TypeInv
<1>2. /\ UNCHANGED <<plan, now, there, ended, cover, rows, ids, made, store, puts, job>>
      /\ UNCHANGED <<cursor, step, at, page, facts, keys, dropping, due>>
  BY DEF CallTo, world, counts, sweep
<1>3. call' \in [Callers -> {NoCall} \cup Calls] /\ call'[c] = v
      /\ \A d \in Callers \ {c} : call'[d] = call[d]
  BY <1>1 DEF CallTo, TypeInv
<1>4. \A d \in Callers : call'[d] = call[d] \/ CallInv(d)'
  BY <1>3 DEF CallInv
<1>5. StoreInv'
  BY <1>1, <1>2 DEF CallTo, StoreInv, Known
<1>6. copies' \subseteq [from : Key, match : Contents, to : Key]
  BY <1>1 DEF CallTo, TypeInv
<1>7. now <= now'
  BY <1>1, <1>2, Bounds
<1>8. StoreKeeps
  BY <1>2, SameStore
<1>. QED
  BY <1>1, <1>2, <1>3, <1>4, <1>5, <1>6, <1>7, <1>8, QuietStep DEF TypeInv

LEMMA GiveUpInv ==
    ASSUME IInv, NEW c \in Callers, GiveUp(c)
    PROVE  IInv' /\ Keeps
<1>1. CallTo(c, NoCall, {})
  BY DEF GiveUp, storage, CallTo
<1>. QED
  BY <1>1, NoCallIs, CallStep

LEMMA AskCopyInv ==
    ASSUME IInv, NEW c \in Callers, AskCopy(c)
    PROVE  IInv' /\ Keeps
<1>1. TypeInv /\ call[c].stage = "reserved" /\ call[c].from \in DOMAIN store
  BY DEF AskCopy, IInv
<1>2. PICK content : content = store[call[c].from].content
  OBVIOUS
<1>3. PICK v : v = [call[c] EXCEPT !.stage = "asked", !.sha = content]
  OBVIOUS
<1>4. PICK copy : copy = [from |-> call[c].from, match |-> content,
                          to |-> SealedKey(call[c].asset, call[c].n)]
  OBVIOUS
<1>5. /\ content \in Good /\ copies' = copies \cup {copy}
      /\ UNCHANGED <<world, rows, counts, store, puts, job, sweep>>
  BY <1>2, <1>4 DEF AskCopy
<1>6. call' = [call EXCEPT ![c] = v]
  <2>1. call' = [call EXCEPT ![c].stage = "asked", ![c].sha = content]
    BY <1>2 DEF AskCopy
  <2>2. call[c] \in Calls /\ DOMAIN call = Callers /\ call = [d \in Callers |-> call[d]]
    BY <1>1, CallIs DEF TypeInv
  <2>. QED
    BY <1>3, <2>1, <2>2 DEF Calls
<1>7. content \in Contents
  BY <1>5, Bounds
<1>8. call[c] \in Calls /\ call[c].asset \in Assets /\ call[c].n \in 0..MaxKeys /\ call[c].from \in Key
      /\ call[c].n \in Nat /\ call[c].n # 0
  BY <1>1, CallIs
<1>9. v \in Calls /\ v.stage = "asked" /\ v.sha = content
      /\ v.asset = call[c].asset /\ v.n = call[c].n
  BY <1>3, <1>7, <1>8 DEF Calls
<1>10. call[c].asset <= ids /\ call[c].n <= made[call[c].asset] /\ made[call[c].asset] \in Nat
  BY <1>1, <1>8, Bounds DEF IInv, CallInv, TypeInv
<1>11. copy.to = SealedKey(call[c].asset, call[c].n) /\ copy \in [from : Key, match : Contents, to : Key]
  BY <1>4, <1>7, <1>8, KeyParts
<1>12. copy.to.kind = "o" /\ Known(copy.to)
  <2>1. call[c].n \in 1..made[call[c].asset]
    BY <1>8, <1>10
  <2>. QED
    BY <1>8, <1>10, <1>11, <2>1, KeyParts DEF Known
<1>13. CallInv(c)'
  <2>1. call'[c] = v /\ ids' = ids /\ made' = made
    BY <1>1, <1>5, <1>6 DEF TypeInv, counts
  <2>. QED
    BY <1>5, <1>9, <1>10, <2>1 DEF CallInv
<1>14. CallTo(c, v, {copy})
  BY <1>5, <1>6, <1>9, <1>11, <1>12 DEF CallTo
<1>. QED
  BY <1>13, <1>14, CallStep

LEMMA CheckCopyInv ==
    ASSUME IInv, NEW c \in Callers, CheckCopy(c)
    PROVE  IInv' /\ Keeps
<1>1. TypeInv /\ call[c].stage = "asked"
  BY DEF CheckCopy, IInv
<1>2. PICK v : v = [call[c] EXCEPT !.stage = "sealed"]
  OBVIOUS
<1>3. /\ Stands(call[c].asset, call[c].n, call[c].sha) /\ copies' = copies \cup {}
      /\ UNCHANGED <<world, rows, counts, store, puts, job, sweep>>
  BY DEF CheckCopy, Stands, storage
<1>4. call[c] \in Calls /\ DOMAIN call = Callers /\ call = [d \in Callers |-> call[d]]
  BY <1>1, CallIs DEF TypeInv
<1>5. call' = [call EXCEPT ![c] = v]
  BY <1>2, <1>4 DEF CheckCopy, Calls
<1>6. /\ v \in Calls /\ v.stage = "sealed" /\ v.sha = call[c].sha
      /\ v.asset = call[c].asset /\ v.n = call[c].n
  BY <1>2, <1>4 DEF Calls
<1>7. CallInv(c)'
  <2>1. call'[c] = v /\ ids' = ids /\ made' = made /\ store' = store
    BY <1>1, <1>3, <1>5 DEF TypeInv, counts
  <2>2. call[c].asset <= ids /\ call[c].n <= made[call[c].asset] /\ call[c].sha \in Good
    BY <1>1 DEF IInv, CallInv
  <2>. QED
    BY <1>3, <1>6, <2>1, <2>2 DEF CallInv, Stands
<1>8. CallTo(c, v, {})
  BY <1>3, <1>5, <1>6 DEF CallTo
<1>. QED
  BY <1>7, <1>8, CallStep

\* A request changes the row of the file a, or adds it.
RowChanges(a) ==
    /\ Standing("project") /\ a \in 1..ids'
    /\ rows' \in [DOMAIN rows' -> Rows] /\ DOMAIN rows' = DOMAIN rows \cup {a}
    /\ \A b \in DOMAIN rows \ {a} : rows'[b] = rows[b]
    /\ a \in DOMAIN rows =>
           /\ rows'[a].purpose = rows[a].purpose /\ rows'[a].deleted = rows[a].deleted
           /\ rows[a].uploaded => rows'[a].uploaded /\ rows'[a].final = rows[a].final
    /\ Shown(a)' => ~ Deleted(rows'[a]) /\ Published(rows'[a])
    /\ Grows /\ ids' <= plan.assets
    /\ UNCHANGED <<world, storage, job, sweep>>

\* It makes no key active that was handed out before, and names none.
NoOldKey(a) ==
    \A k \in Key : Known(k) /\ k.asset = a =>
        /\ Active(k)' => Active(k)
        /\ Names(rows'[a], a, k) => a \in DOMAIN rows /\ Names(rows[a], a, k)

LEMMA OtherKeys ==
    ASSUME IInv, NEW a, RowChanges(a), NoOldKey(a), NEW k \in Key, Known(k)
    PROVE  (Active(k)' => Active(k)) /\ (k \in Referenced' => k \in Referenced)
<1>1. CASE k.asset = a
  BY <1>1, ReferencedIs DEF NoOldKey
<1>2. CASE k.asset # a
  <2>1. k.asset \in DOMAIN rows' => k.asset \in DOMAIN rows /\ rows'[k.asset] = rows[k.asset]
    BY <1>2 DEF RowChanges
  <2>. QED
    BY <2>1, ReferencedIs DEF Active
<1>. QED
  BY <1>1, <1>2

LEMMA RowChangesInv ==
    ASSUME IInv, NEW a, RowChanges(a), NoOldKey(a), RowInv(a)',
           call' \in [Callers -> {NoCall} \cup Calls],
           \A c \in Callers : call'[c] = call[c] \/ CallInv(c)'
    PROVE  IInv' /\ Keeps
<1>1. TypeInv /\ HostInv /\ JobInv
  BY DEF IInv
<1>2. /\ Grows /\ StaysEnded /\ UNCHANGED <<plan, now, there, ended, cover, store, puts, copies, job>>
      /\ UNCHANGED <<cursor, step, at, page, facts, keys, dropping, due>>
      /\ UNCHANGED storage
  BY DEF RowChanges, world, storage, sweep, StaysEnded
<1>3. StoreInv'
  BY <1>2, StoreStays
<1>4. now \in Moments /\ now <= now'
  BY <1>1, <1>2, Bounds DEF TypeInv
<1>5. \A k \in Key : Known(k) => (Active(k)' => Active(k)) /\ (k \in Referenced' => k \in Referenced)
  BY OtherKeys
<1>6. SweepInv'
  BY <1>2, <1>4, <1>5, SweepStays
<1>7. ASSUME NEW b \in DOMAIN rows'
      PROVE  RowInv(b)'
  <2>1. CASE b = a
    BY <2>1
  <2>2. CASE b # a
    <3>1. b \in DOMAIN rows /\ rows'[b] = rows[b] /\ RowInv(b) /\ rows[b] \in Rows
      BY <1>1, <2>2, RowIs DEF RowChanges, IInv
    <3>2. made[b] \in Nat /\ made'[b] \in Nat /\ made[b] <= made'[b]
      BY <1>1, <1>2, <3>1, RowIs, Bounds DEF TypeInv, Grows
    <3>3. rows[b].final.n \in Nat /\ \A k \in rows[b].candidates : k.n \in Nat
      BY <3>1, Fields
    <3>4. rows[b].final.n <= made'[b] /\ \A k \in rows[b].candidates : k.n <= made'[b]
      BY <3>1, <3>2, <3>3 DEF RowInv
    <3>. QED
      BY <1>2, <3>1, <3>4 DEF RowInv, Stands
  <2>. QED
    BY <2>1, <2>2
<1>8. ASSUME NEW c \in Callers, call'[c] = call[c]
      PROVE  CallInv(c)'
  <2>1. CASE call[c].stage = "idle"
    BY <1>8, <2>1 DEF CallInv
  <2>2. CASE call[c].stage # "idle"
    <3>1. PICK b, n, sha : b = call[c].asset /\ n = call[c].n /\ sha = call[c].sha
      OBVIOUS
    <3>2. b \in Assets /\ n \in Nat /\ n # 0 /\ n \in 0..MaxKeys /\ b \in Nat
      BY <1>1, <2>2, <3>1, CallIs, Bounds
    <3>3. /\ b <= ids /\ n <= made[b]
          /\ call[c].stage \in {"asked", "sealed"} => sha \in Good
          /\ call[c].stage = "sealed" /\ Active(SealedKey(b, n)) => Stands(b, n, sha)
      BY <2>2, <3>1 DEF CallInv, IInv
    <3>4. ids \in Nat /\ ids' \in Nat /\ made[b] \in Nat /\ made'[b] \in Nat
      BY <1>1, <1>2, <3>2, IdsBound, Bounds DEF TypeInv, Grows
    <3>5. b <= ids' /\ n <= made'[b]
      BY <1>2, <3>2, <3>3, <3>4 DEF Grows
    <3>6. SealedKey(b, n) \in Key /\ Known(SealedKey(b, n))
      <4>1. n \in 1..made[b]
        BY <3>2, <3>3, <3>4
      <4>. QED
        BY <3>2, <3>3, <4>1, KeyParts DEF Known
    <3>7. Active(SealedKey(b, n))' => Active(SealedKey(b, n))
      BY <1>5, <3>6
    <3>8. Stands(b, n, sha)' <=> Stands(b, n, sha)
      BY <1>2 DEF Stands
    <3>9. PICK k : k = SealedKey(b, n)
      OBVIOUS
    <3>10. Active(k)' => Stands(b, n, sha)' \/ call[c].stage # "sealed"
      BY <3>3, <3>7, <3>8, <3>9
    <3>11. /\ call'[c].asset = b /\ call'[c].n = n /\ call'[c].sha = sha
           /\ call'[c].stage = call[c].stage
      BY <1>8, <3>1
    <3>. QED
      BY <3>3, <3>5, <3>11, <3>9, <3>10 DEF CallInv
  <2>. QED
    BY <2>1, <2>2
<1>9. TypeInv'
  <2>1. DOMAIN rows' \subseteq 1..ids'
    <3>1. DOMAIN rows \subseteq 1..ids /\ 1..ids \subseteq 1..ids'
      BY <1>1, <1>2, IdsBound DEF TypeInv, Grows
    <3>. QED
      BY <3>1 DEF RowChanges
  <2>2. rows' \in [DOMAIN rows' -> Rows]
    BY DEF RowChanges
  <2>3. cover' \in 0..ids' /\ ids' \in 0..plan'.assets
    BY <1>1, <1>2, IdsBound, JobAndCursors DEF TypeInv, Grows, RowChanges
  <2>4. made' \in [Assets -> 0..MaxKeys]
    BY <1>2 DEF Grows
  <2>5. job' \in Jobs' /\ cursor' \in Cursors' /\ at' \in Cursors'
    BY <1>1, <1>2, JobAndCursors
  <2>. QED
    BY <1>1, <1>2, <2>1, <2>2, <2>3, <2>4, <2>5 DEF TypeInv
<1>10. HostInv'
  <2>1. cover' # Nothing => cover' \in DOMAIN rows' /\ rows'[cover'].purpose = "cover"
    BY <1>1, <1>2 DEF HostInv, RowChanges
  <2>2. ASSUME NEW b \in DOMAIN rows', Shown(b)'
        PROVE  ~ Deleted(rows'[b]) /\ Published(rows'[b])
    <3>1. CASE b = a
      BY <2>2, <3>1 DEF RowChanges
    <3>2. CASE b # a
      <4>1. b \in DOMAIN rows /\ rows'[b] = rows[b]
        BY <3>2 DEF RowChanges
      <4>2. Shown(b)
        BY <1>2, <2>2, <4>1 DEF Shown, HostStands, Standing
      <4>. QED
        BY <4>1, <4>2, ShownStands
    <3>. QED
      BY <3>1, <3>2
  <2>. QED
    BY <2>1, <2>2 DEF HostInv
<1>11. JobInv'
  BY <1>1, <1>2 DEF JobInv, RowChanges, Standing
<1>12. KeepsPublished
  <2>1. \A b \in DOMAIN rows : rows[b].deleted <= rows[b].deleted
    BY <1>1, RowIs, Fields
  <2>. QED
    BY <2>1 DEF RowChanges, KeepsPublished
<1>13. IInv'
  BY <1>3, <1>6, <1>7, <1>8, <1>9, <1>10, <1>11 DEF IInv
<1>. QED
  BY <1>5, <1>12, <1>13 DEF Keeps, KeepsNames

LEMMA NewRowIs ==
    ASSUME TypeInv, NEW purpose \in AllPurposes, NEW host \in Parents,
           NEW staging \in Phases \cup {"none"}, NEW candidates \in SUBSET Records
    PROVE  LET row == NewRow(purpose, host, staging, candidates)
           IN  /\ row \in Rows /\ row.purpose = purpose /\ row.host = host /\ ~ row.bound
               /\ ~ Deleted(row) /\ row.deleted = Never /\ ~ row.uploaded /\ row.staging = staging
               /\ row.final = NoFinal /\ row.candidates = candidates /\ ~ Published(row)
               /\ row.final.n = 0 /\ row.created = now
<1>1. now \in Moments
  BY DEF TypeInv
<1>. QED
  BY <1>1, NoFinalIs DEF NewRow, Rows, Deleted, Published

LEMMA CandidateIs ==
    ASSUME TypeInv, NEW a \in Assets, made[a] < plan.keys
    PROVE  /\ Candidate(a) \in Records /\ Candidate(a).n = made[a] + 1
           /\ Candidate(a).phase = "active" /\ Candidate(a).lease = now + Lease
           /\ made[a] + 1 \in 1..MaxKeys /\ made[a] \in Nat
           /\ Candidate(a).lease \in 0..(MaxTime + Lease)
<1>1. PICK p \in Plans : p = plan
  BY DEF TypeInv
<1>2. plan.keys \in 0..MaxKeys
  BY <1>1, AssetsAssumption
<1>3. MaxKeys \in Nat /\ made[a] \in Nat /\ plan.keys \in Nat /\ plan.keys <= MaxKeys
  BY <1>2, Bounds DEF TypeInv
<1>4. made[a] + 1 \in 1..MaxKeys
  BY <1>3
<1>5. now + Lease \in 0..(MaxTime + Lease)
  <2>1. now \in 0..MaxTime /\ MaxTime \in Nat /\ Lease \in Nat
    BY Bounds DEF TypeInv, Moments
  <2>. QED
    BY <2>1
<1>. QED
  BY <1>3, <1>4, <1>5 DEF Candidate, Records, Phases

\* The counter of the file's sealed keys goes up.
LEMMA MadeIs ==
    ASSUME TypeInv, NEW a \in Assets, made[a] < plan.keys, made' = [made EXCEPT ![a] = @ + 1],
           ids' \in Nat, ids <= ids'
    PROVE  Grows /\ made'[a] = made[a] + 1
<1>1. made \in [Assets -> 0..MaxKeys] /\ made[a] + 1 \in 1..MaxKeys /\ \A b \in Assets : made[b] \in Nat
  BY CandidateIs, Bounds DEF TypeInv
<1>2. \A n \in 1..MaxKeys : n \in 0..MaxKeys
  BY Bounds
<1>3. made' \in [Assets -> 0..MaxKeys] /\ made'[a] = made[a] + 1
  BY <1>1, <1>2
<1>4. \A b \in Assets : made[b] <= made'[b]
  BY <1>1
<1>. QED
  BY <1>3, <1>4 DEF Grows

LEMMA NewAsset ==
    ASSUME IInv, NEW a, a = ids + 1, a <= plan.assets
    PROVE  /\ a \in Assets /\ a \notin DOMAIN rows /\ ids <= a /\ a \in 1..a /\ a \in Nat
           /\ \A k \in Key : Known(k) => k.asset # a
<1>1. TypeInv /\ ids \in Nat /\ 1..plan.assets \subseteq Assets /\ plan.assets \in Nat
  BY IdsBound DEF IInv
<1>2. a \in 1..plan.assets /\ a \in Nat /\ ~ (a <= ids) /\ ids <= a /\ a \in 1..a
  BY <1>1
<1>. QED
  BY <1>1, <1>2, RowsAreFinite DEF Known

LEMMA EmptyNamedOnce ==
    ASSUME NEW row, row.candidates = {}
    PROVE  NamedOnce(row)
BY Bounds, FS_EmptySet DEF NamedOnce

LEMMA PrepareInv ==
    ASSUME IInv, NEW a \in Assets, NEW purpose \in Purposes, NEW host \in Parents,
           Prepare(a, purpose, host)
    PROVE  IInv' /\ Keeps
<1>1. PICK row : row = NewRow(purpose, host, "active", {})
  OBVIOUS
<1>2. /\ a = ids + 1 /\ a <= plan.assets /\ host \in HostsFor(purpose) /\ HostStands(host)
      /\ rows' = With(rows, a, row) /\ ids' = a
      /\ UNCHANGED <<world, made, storage, call, job, sweep>>
  BY <1>1 DEF Prepare
<1>3. TypeInv
  BY DEF IInv
<1>4. /\ row \in Rows /\ row.purpose = purpose /\ row.host = host /\ ~ row.bound /\ ~ row.uploaded
      /\ row.final = NoFinal /\ row.candidates = {} /\ ~ Published(row) /\ row.final.n = 0
  <2>1. purpose \in AllPurposes /\ {} \in SUBSET Records /\ "active" \in Phases \cup {"none"}
    BY AssetsAssumption DEF Phases
  <2>. QED
    BY <1>1, <1>3, <2>1, NewRowIs
<1>5. /\ a \in Assets /\ a \notin DOMAIN rows /\ ids <= a /\ a \in 1..a /\ a \in Nat
      /\ \A k \in Key : Known(k) => k.asset # a
  BY <1>2, NewAsset
<1>6. rows' = [b \in DOMAIN rows \cup {a} |-> IF b = a THEN row ELSE rows[b]]
  BY <1>2 DEF With
<1>7. /\ DOMAIN rows' = DOMAIN rows \cup {a} /\ rows'[a] = row
      /\ \A b \in DOMAIN rows \ {a} : rows'[b] = rows[b]
  BY <1>6
<1>8. rows' \in [DOMAIN rows' -> Rows]
  BY <1>3, <1>4, <1>6 DEF TypeInv
<1>9. Grows
  <2>1. made \in [Assets -> 0..MaxKeys] /\ \A b \in Assets : made[b] \in Nat
    BY <1>3, Bounds DEF TypeInv
  <2>. QED
    BY <1>2, <1>5, <2>1 DEF Grows
<1>10. RowChanges(a)
  BY <1>2, <1>4, <1>5, <1>7, <1>8, <1>9 DEF RowChanges, Shown, HostStands
<1>11. NoOldKey(a)
  BY <1>5 DEF NoOldKey
<1>12. RowInv(a)'
  <2>1. made'[a] \in Nat /\ host \in there'
    BY <1>2, <1>3, <1>5, Bounds DEF TypeInv, HostStands, Standing, world
  <2>2. row.final.n <= made'[a]
    BY <1>4, <2>1
  <2>. QED
    BY <1>2, <1>4, <1>7, <2>1, <2>2, EmptyNamedOnce DEF RowInv
<1>13. call' \in [Callers -> {NoCall} \cup Calls] /\ call' = call
  BY <1>2, <1>3 DEF TypeInv
<1>. QED
  BY <1>10, <1>11, <1>12, <1>13, RowChangesInv

LEMMA ReservedIs ==
    ASSUME TypeInv, NEW a \in Assets, made[a] < plan.keys, NEW host \in Parents, NEW from \in Key,
           NEW source \in {NoSource} \cup Sources
    PROVE  LET v == Reserved(a, host, Candidate(a), from, source)
           IN  v \in Calls /\ v.stage = "reserved" /\ v.asset = a /\ v.n = made[a] + 1
<1>1. Candidate(a).n \in 1..MaxKeys /\ Candidate(a).n = made[a] + 1
      /\ Candidate(a).lease \in 0..(MaxTime + Lease)
  BY CandidateIs
<1>. QED
  BY <1>1 DEF Reserved, Calls

\* A request reserved a candidate.
LEMMA ReservedCall ==
    ASSUME TypeInv, NEW c \in Callers, NEW v \in Calls, call' = [call EXCEPT ![c] = v],
           v.stage = "reserved", v.asset <= ids', v.n <= made'[v.asset]
    PROVE  /\ call' \in [Callers -> {NoCall} \cup Calls]
           /\ \A d \in Callers : call'[d] = call[d] \/ CallInv(d)'
<1>1. call' \in [Callers -> {NoCall} \cup Calls] /\ call'[c] = v
      /\ \A d \in Callers \ {c} : call'[d] = call[d]
  BY DEF TypeInv
<1>2. CallInv(c)'
  BY <1>1 DEF CallInv
<1>. QED
  BY <1>1, <1>2

LEMMA ReserveCompleteInv ==
    ASSUME IInv, NEW c \in Callers, NEW a \in Assets, ReserveComplete(c, a)
    PROVE  IInv' /\ Keeps
<1>1. TypeInv
  BY DEF IInv
<1>2. PICK r, k : r = rows[a] /\ k = Candidate(a)
  OBVIOUS
<1>3. PICK q : q = [r EXCEPT !.candidates = @ \cup {k}]
  OBVIOUS
<1>4. /\ a \in DOMAIN rows /\ HostStands(r.host) /\ ~ Published(r)
      /\ Cardinality(r.candidates) < MaxCandidates /\ made[a] < plan.keys
      /\ made' = [made EXCEPT ![a] = @ + 1]
      /\ UNCHANGED <<world, ids, uploads, storage, job, sweep>>
  BY <1>2 DEF ReserveComplete, Accessible
<1>5. rows' = [rows EXCEPT ![a] = q]
  <2>1. rows' = [rows EXCEPT ![a].candidates = @ \cup {k}]
    BY <1>2 DEF ReserveComplete
  <2>. QED
    BY <1>2, <1>3, <2>1
<1>6. r \in Rows /\ RowInv(a) /\ a \in 1..ids /\ ids \in Nat /\ ids <= plan.assets
  BY <1>1, <1>2, <1>4, RowIs, IdsBound DEF IInv, TypeInv
<1>7. /\ k \in Records /\ k.n = made[a] + 1 /\ made[a] \in Nat
  BY <1>1, <1>2, <1>4, CandidateIs
<1>8. Grows /\ made'[a] = made[a] + 1
  <2>1. ids' \in Nat /\ ids <= ids'
    BY <1>4, <1>6
  <2>. QED
    BY <1>1, <1>4, <2>1, MadeIs
<1>9. /\ q \in Rows /\ q.candidates = r.candidates \cup {k}
      /\ q.purpose = r.purpose /\ q.host = r.host /\ q.bound = r.bound /\ q.deleted = r.deleted
      /\ q.uploaded = r.uploaded /\ q.staging = r.staging /\ q.final = r.final
  BY <1>3, <1>6, <1>7 DEF Rows
<1>10. /\ DOMAIN rows' = DOMAIN rows /\ rows'[a] = q
       /\ \A b \in DOMAIN rows \ {a} : rows'[b] = rows[b]
  BY <1>4, <1>5
<1>11. rows' \in [DOMAIN rows' -> Rows]
  BY <1>1, <1>5, <1>9 DEF TypeInv
<1>12. UNCHANGED <<plan, now, there, ended, cover, store>>
  BY <1>4 DEF world, storage
<1>13. ~ Shown(a)'
  <2>1. Shown(a)' => Shown(a)
    BY <1>2, <1>9, <1>10, <1>12 DEF Shown, HostStands, Standing
  <2>. QED
    BY <1>2, <1>4, <2>1, ShownStands
<1>14. RowChanges(a)
  BY <1>2, <1>4, <1>6, <1>8, <1>9, <1>10, <1>11, <1>13 DEF RowChanges, HostStands
<1>15. /\ \A l \in r.candidates : l.n \in Nat /\ l.n <= made[a] /\ l.n # r.final.n
       /\ r.final.n \in Nat /\ r.final.n <= made[a]
  BY <1>2, <1>6, Fields DEF RowInv, NamedOnce
<1>16. NoOldKey(a)
  <2>1. ASSUME NEW l \in Key, Known(l), l.asset = a, l.kind = "o"
        PROVE  l.n # k.n
    BY <1>7, <2>1 DEF Known
  <2>2. ASSUME NEW l \in Key, Known(l), l.asset = a
        PROVE  Active(l)' => Active(l)
    BY <1>2, <1>4, <1>9, <1>10, <2>1, <2>2 DEF Active
  <2>3. ASSUME NEW l \in Key, Known(l), l.asset = a
        PROVE  Names(q, a, l) => Names(r, a, l)
    <3>1. l # SealedKey(a, k.n)
      BY <2>1, <2>3, KeyParts
    <3>. QED
      BY <1>9, <3>1 DEF Names
  <2>. QED
    BY <1>2, <1>4, <1>10, <2>2, <2>3 DEF NoOldKey
<1>17. NamedOnce(q)
  <2>1. NamedOnce(r)
    BY <1>2, <1>6 DEF RowInv
  <2>2. IsFiniteSet(r.candidates) /\ Cardinality(r.candidates) \in Nat
    BY <2>1, FS_CardinalityType DEF NamedOnce
  <2>3. IsFiniteSet(q.candidates) /\ Cardinality(q.candidates) <= Cardinality(r.candidates) + 1
        /\ Cardinality(q.candidates) \in Nat
    <3>1. PICK S : S = r.candidates
      OBVIOUS
    <3>2. IsFiniteSet(S) /\ Cardinality(S) \in Nat
      BY <2>2, <3>1
    <3>3. IsFiniteSet(S \cup {k})
      BY <3>2, FS_AddElement
    <3>4. Cardinality(S \cup {k}) \in {Cardinality(S), Cardinality(S) + 1}
      BY <3>2, FS_AddElement
    <3>. QED
      BY <1>9, <3>1, <3>2, <3>3, <3>4
  <2>4. Cardinality(q.candidates) <= MaxCandidates
    BY <1>4, <2>2, <2>3, Bounds
  <2>5. \A l \in r.candidates : l.n # k.n
    BY <1>7, <1>15
  <2>6. k.n # q.final.n
    BY <1>7, <1>9, <1>15
  <2>. QED
    BY <1>9, <2>1, <2>3, <2>4, <2>5, <2>6 DEF NamedOnce
<1>18. RowInv(a)'
  <2>1. q.final.n <= made'[a] /\ \A l \in q.candidates : l.n <= made'[a]
    BY <1>7, <1>8, <1>9, <1>15
  <2>2. Published(q) = Published(r)
    BY <1>9 DEF Published
  <2>. QED
    BY <1>2, <1>4, <1>6, <1>9, <1>10, <1>12, <1>17, <2>1, <2>2 DEF RowInv, Stands
<1>19. PICK v : v = Reserved(a, r.host, k, StagingKey(a), NoSource)
  OBVIOUS
<1>20. call' = [call EXCEPT ![c] = v]
  BY <1>2, <1>19 DEF ReserveComplete
<1>21. v \in Calls /\ v.stage = "reserved" /\ v.asset = a /\ v.n = made[a] + 1
  <2>1. r.host \in Parents /\ StagingKey(a) \in Key /\ NoSource \in {NoSource} \cup Sources
    BY <1>6, Fields, KeyParts
  <2>. QED
    BY <1>1, <1>2, <1>4, <1>19, <2>1, ReservedIs
<1>22. v.asset <= ids' /\ v.n <= made'[v.asset]
  BY <1>4, <1>6, <1>7, <1>8, <1>21
<1>23. /\ call' \in [Callers -> {NoCall} \cup Calls]
       /\ \A d \in Callers : call'[d] = call[d] \/ CallInv(d)'
  BY <1>1, <1>20, <1>21, <1>22, ReservedCall
<1>. QED
  BY <1>14, <1>16, <1>18, <1>23, RowChangesInv

LEMMA ReserveDuplicateInv ==
    ASSUME IInv, NEW c \in Callers, NEW source \in Assets, NEW a \in Assets,
           NEW purpose \in Purposes, NEW host \in Parents,
           ReserveDuplicate(c, source, a, purpose, host)
    PROVE  IInv' /\ Keeps
<1>1. TypeInv
  BY DEF IInv
<1>2. PICK k : k = Candidate(a)
  OBVIOUS
<1>3. PICK row : row = NewRow(purpose, host, "none", {k})
  OBVIOUS
<1>4. /\ source \in DOMAIN rows /\ Published(rows[source])
      /\ a = ids + 1 /\ a <= plan.assets /\ made[a] < plan.keys
      /\ host \in HostsFor(purpose) /\ HostStands(host)
      /\ rows' = With(rows, a, row) /\ ids' = a /\ made' = [made EXCEPT ![a] = @ + 1]
      /\ UNCHANGED <<world, uploads, storage, job, sweep>>
  BY <1>2, <1>3 DEF ReserveDuplicate, Accessible
<1>5. k \in Records /\ k.n = made[a] + 1 /\ made[a] \in Nat
  BY <1>1, <1>2, <1>4, CandidateIs
<1>6. /\ row \in Rows /\ row.purpose = purpose /\ row.host = host /\ ~ row.bound /\ ~ row.uploaded
      /\ row.final = NoFinal /\ row.candidates = {k} /\ ~ Published(row) /\ row.final.n = 0
  <2>1. purpose \in AllPurposes /\ {k} \in SUBSET Records /\ "none" \in Phases \cup {"none"}
    BY <1>5, AssetsAssumption
  <2>. QED
    BY <1>1, <1>3, <2>1, NewRowIs
<1>7. /\ a \notin DOMAIN rows /\ ids <= a /\ a \in 1..a /\ a \in Nat
      /\ \A l \in Key : Known(l) => l.asset # a
  BY <1>4, NewAsset
<1>8. rows' = [b \in DOMAIN rows \cup {a} |-> IF b = a THEN row ELSE rows[b]]
  BY <1>4 DEF With
<1>9. /\ DOMAIN rows' = DOMAIN rows \cup {a} /\ rows'[a] = row
      /\ \A b \in DOMAIN rows \ {a} : rows'[b] = rows[b]
  BY <1>8
<1>10. rows' \in [DOMAIN rows' -> Rows]
  BY <1>1, <1>6, <1>8 DEF TypeInv
<1>11. Grows /\ made'[a] = made[a] + 1
  BY <1>1, <1>4, <1>7, MadeIs
<1>12. RowChanges(a)
  BY <1>4, <1>6, <1>7, <1>9, <1>10, <1>11 DEF RowChanges, Shown, HostStands
<1>13. NoOldKey(a)
  BY <1>7 DEF NoOldKey
<1>14. NamedOnce(row)
  <2>1. IsFiniteSet({k}) /\ Cardinality({k}) = 1
    BY FS_Singleton
  <2>2. 1 <= MaxCandidates
    BY Bounds
  <2>3. k.n # 0
    BY <1>5
  <2>. QED
    BY <1>6, <2>1, <2>2, <2>3 DEF NamedOnce
<1>15. RowInv(a)'
  <2>1. host \in there'
    BY <1>4 DEF HostStands, Standing, world
  <2>2. row.final.n <= made'[a] /\ \A l \in row.candidates : l.n <= made'[a]
    BY <1>5, <1>6, <1>11
  <2>. QED
    BY <1>4, <1>6, <1>9, <1>14, <2>1, <2>2 DEF RowInv
<1>16. PICK v : v = Reserved(a, host, k, SealedKey(source, rows[source].final.n), Seen(source))
  OBVIOUS
<1>17. call' = [call EXCEPT ![c] = v]
  BY <1>2, <1>16 DEF ReserveDuplicate
<1>18. v \in Calls /\ v.stage = "reserved" /\ v.asset = a /\ v.n = made[a] + 1
  <2>1. rows[source] \in Rows
    BY <1>1, <1>4, RowIs
  <2>2. SealedKey(source, rows[source].final.n) \in Key
    BY <2>1, Fields, KeyParts
  <2>3. Seen(source) \in {NoSource} \cup Sources
    BY <2>1, Fields DEF Seen, Sources
  <2>. QED
    BY <1>1, <1>2, <1>4, <1>16, <2>2, <2>3, ReservedIs
<1>19. v.asset <= ids' /\ v.n <= made'[v.asset]
  BY <1>4, <1>5, <1>7, <1>11, <1>18
<1>20. /\ call' \in [Callers -> {NoCall} \cup Calls]
       /\ \A d \in Callers : call'[d] = call[d] \/ CallInv(d)'
  BY <1>1, <1>17, <1>18, <1>19, ReservedCall
<1>. QED
  BY <1>12, <1>13, <1>15, <1>20, RowChangesInv

\* The row with the candidate n published.
PublishedFrom(r, q, n, lease, sha) ==
    /\ q \in Rows /\ q.purpose = r.purpose /\ q.host = r.host /\ q.created = r.created
    /\ q.deleted = r.deleted /\ q.staging = r.staging /\ q.uploaded
    /\ q.final = [n |-> n, phase |-> "active", lease |-> lease, sha |-> sha]
    /\ q.candidates = {k \in r.candidates : k.n # n}

LEMMA PublishCandidateIs ==
    ASSUME TypeInv, NEW c \in Callers, call[c].stage # "idle", NEW r \in Rows
    PROVE  PublishedFrom(r, PublishCandidate(r, c), call[c].n, call[c].lease, call[c].sha)
<1>1. PICK f : f = [n |-> call[c].n, phase |-> "active", lease |-> call[c].lease, sha |-> call[c].sha]
  OBVIOUS
<1>2. PICK S : S = {k \in r.candidates : k.n # call[c].n}
  OBVIOUS
<1>3. PICK p : p = [r EXCEPT !.final = f, !.candidates = S, !.uploaded = TRUE]
  OBVIOUS
<1>4. f \in Finals
  BY <1>1, CallIs DEF Finals, Phases
<1>5. S \subseteq Records
  BY <1>2, Fields
<1>6. /\ p \in Rows /\ p.purpose = r.purpose /\ p.host = r.host /\ p.created = r.created
      /\ p.deleted = r.deleted /\ p.staging = r.staging /\ p.uploaded /\ p.final = f
      /\ p.candidates = S
  BY <1>3, <1>4, <1>5 DEF Rows
<1>7. PublishCandidate(r, c) = Bound(p)
  BY <1>1, <1>2, <1>3 DEF PublishCandidate
<1>8. PICK q : q = [p EXCEPT !.bound = TRUE]
  OBVIOUS
<1>9. /\ q \in Rows /\ q.purpose = r.purpose /\ q.host = r.host /\ q.created = r.created
      /\ q.deleted = r.deleted /\ q.staging = r.staging /\ q.uploaded /\ q.final = f
      /\ q.candidates = S
  BY <1>6, <1>8 DEF Rows
<1>10. PublishCandidate(r, c) \in {p, q}
  BY <1>7, <1>8 DEF Bound
<1>. QED
  BY <1>1, <1>2, <1>6, <1>9, <1>10 DEF PublishedFrom

LEMMA FinishInv ==
    ASSUME IInv, NEW c \in Callers, Finish(c)
    PROVE  IInv' /\ Keeps
<1>1. TypeInv /\ call[c].stage = "sealed"
  BY DEF IInv, Finish
<1>2. PICK a, n, lease, sha : /\ a = call[c].asset /\ n = call[c].n
                              /\ lease = call[c].lease /\ sha = call[c].sha
  OBVIOUS
<1>3. PICK r, q : r = rows[a] /\ q = PublishCandidate(r, c)
  OBVIOUS
<1>4. /\ a \in DOMAIN rows /\ ~ Deleted(r) /\ HostStands(r.host)
      /\ \E k \in r.candidates : k.n = n /\ k.phase = "active" /\ k.lease = lease
      /\ rows' = [rows EXCEPT ![a] = q] /\ call' = [call EXCEPT ![c] = NoCall]
      /\ UNCHANGED <<world, counts, storage, job, sweep>>
  BY <1>2, <1>3 DEF Finish, Accessible, StillReserved
<1>5. r \in Rows /\ RowInv(a) /\ a \in 1..ids /\ a \in Assets /\ ids \in Nat /\ ids <= plan.assets
  BY <1>1, <1>3, <1>4, RowIs, IdsBound DEF IInv, TypeInv
<1>6. PublishedFrom(r, q, n, lease, sha)
  BY <1>1, <1>2, <1>3, <1>5, PublishCandidateIs
<1>7. /\ q \in Rows /\ q.purpose = r.purpose /\ q.host = r.host /\ q.deleted = r.deleted
      /\ q.staging = r.staging /\ q.uploaded /\ q.final.n = n /\ q.final.phase = "active"
      /\ q.final.sha = sha /\ q.candidates = {k \in r.candidates : k.n # n}
  BY <1>6 DEF PublishedFrom
<1>8. n \in Nat /\ n # 0 /\ n <= made[a] /\ made[a] \in Nat /\ sha \in Good
      /\ (Active(SealedKey(a, n)) => Stands(a, n, sha))
  BY <1>1, <1>2, <1>5, CallIs, Bounds DEF IInv, CallInv, TypeInv
<1>9. Active(SealedKey(a, n))
  BY <1>3, <1>4, KeyParts DEF Active
<1>10. Published(q)
  BY <1>7, <1>8 DEF Published
<1>11. /\ DOMAIN rows' = DOMAIN rows /\ rows'[a] = q
       /\ \A b \in DOMAIN rows \ {a} : rows'[b] = rows[b]
  BY <1>4
<1>12. rows' \in [DOMAIN rows' -> Rows]
  BY <1>1, <1>4, <1>7 DEF TypeInv
<1>13. Grows /\ UNCHANGED <<ids, made, there, now, store, cover, ended>>
  BY <1>1, <1>4, SameGrows DEF counts, world, storage
<1>14. RowChanges(a)
  <2>1. ~ Deleted(q)
    BY <1>4, <1>7 DEF Deleted
  <2>2. a \in 1..ids' /\ ids' <= plan.assets /\ Standing("project")
    BY <1>4, <1>5, <1>13 DEF HostStands
  <2>3. ~ r.uploaded
    <3>1. now \in Nat /\ PurgeAfter \in Nat /\ now < Never /\ Never \in Nat
      BY <1>1, Bounds DEF TypeInv
    <3>2. ~ Published(r) /\ r.deleted = Never
      BY <1>2, <1>3, <1>4 DEF Finish, AlreadyPublished, Deleted
    <3>. QED
      BY <1>3, <1>5, <3>1, <3>2 DEF RowInv
  <2>. QED
    BY <1>3, <1>4, <1>7, <1>10, <1>11, <1>12, <1>13, <2>1, <2>2, <2>3 DEF RowChanges
<1>15. NoOldKey(a)
  <2>1. ASSUME NEW k \in Key, Known(k), k.asset = a
        PROVE  Active(k)' => Active(k)
    <3>1. CASE k.kind = "u"
      BY <1>3, <1>4, <1>7, <1>11, <2>1, <3>1 DEF Active
    <3>2. CASE k.kind = "o" /\ k.n = n
      <4>1. k = SealedKey(a, n)
        BY <2>1, <3>2, KeyIs
      <4>. QED
        BY <1>9, <4>1
    <3>3. CASE k.kind = "o" /\ k.n # n
      BY <1>3, <1>4, <1>7, <1>11, <2>1, <3>3 DEF Active
    <3>. QED
      BY <3>1, <3>2, <3>3, KeyIs
  <2>2. ASSUME NEW k \in Key, k.asset = a, Names(q, a, k)
        PROVE  Names(r, a, k)
    BY <1>4, <1>7, <2>2 DEF Names
  <2>. QED
    BY <1>3, <1>4, <1>11, <2>1, <2>2 DEF NoOldKey
<1>16. NamedOnce(q)
  <2>1. NamedOnce(r)
    BY <1>3, <1>5 DEF RowInv
  <2>2. IsFiniteSet(r.candidates) /\ Cardinality(r.candidates) \in Nat
        /\ Cardinality(r.candidates) <= MaxCandidates
    BY <2>1, FS_CardinalityType DEF NamedOnce
  <2>3. q.candidates \subseteq r.candidates
    BY <1>7
  <2>4. IsFiniteSet(q.candidates) /\ Cardinality(q.candidates) <= Cardinality(r.candidates)
        /\ Cardinality(q.candidates) \in Nat
    BY <2>2, <2>3, FS_Subset, FS_CardinalityType
  <2>5. Cardinality(q.candidates) <= MaxCandidates
    BY <2>2, <2>4, Bounds
  <2>6. \A k, l \in q.candidates : k.n = l.n => k = l
    BY <2>1, <2>3 DEF NamedOnce
  <2>. QED
    BY <1>7, <2>4, <2>5, <2>6 DEF NamedOnce
<1>17. RowInv(a)'
  <2>1. \A l \in q.candidates : l.n <= made'[a]
    BY <1>3, <1>5, <1>7, <1>13 DEF RowInv
  <2>2. Stands(a, q.final.n, q.final.sha)'
    BY <1>7, <1>8, <1>9, <1>13 DEF Stands
  <2>3. q.final.n <= made'[a]
    BY <1>7, <1>8, <1>13
  <2>4. q.host \in there' /\ q.host \in HostsFor(q.purpose)
    BY <1>3, <1>5, <1>7, <1>13 DEF RowInv
  <2>. QED
    BY <1>7, <1>8, <1>10, <1>11, <1>16, <2>1, <2>2, <2>3, <2>4 DEF RowInv, Stands
<1>18. /\ call' \in [Callers -> {NoCall} \cup Calls]
       /\ \A d \in Callers : call'[d] = call[d] \/ CallInv(d)'
  <2>1. call' \in [Callers -> {NoCall} \cup Calls] /\ call'[c] = NoCall
        /\ \A d \in Callers \ {c} : call'[d] = call[d]
    BY <1>1, <1>4 DEF TypeInv
  <2>2. CallInv(c)'
    BY <2>1, NoCallIs DEF CallInv
  <2>. QED
    BY <2>1, <2>2
<1>. QED
  BY <1>14, <1>15, <1>17, <1>18, RowChangesInv

-----------------------------------------------------------------------------
(* The sweep                                                                 *)

LEMMA BeforeIs ==
    ASSUME NEW k \in Key, NEW l \in Key
    PROVE  /\ k.kind = "o" /\ l.kind = "u" => Before(k, l)
           /\ k.kind = l.kind /\ k.asset < l.asset => Before(k, l)
           /\ k.kind = l.kind /\ k.asset = l.asset /\ k.n < l.n => Before(k, l)
<1>1. k.kind \in {"o", "u"} /\ l.kind \in {"o", "u"}
  BY KeyIs
<1>2. CASE k.kind = "o" /\ l.kind = "u"
  BY <1>2 DEF Before
<1>3. CASE k.kind = "o" /\ l.kind = "o"
  BY <1>3 DEF Before
<1>4. CASE k.kind = "u" /\ l.kind = "u"
  BY <1>4 DEF Before
<1>. QED
  BY <1>1, <1>2, <1>3, <1>4

\* Among some keys one comes first.
LEMMA FirstKey ==
    ASSUME NEW S, S \subseteq Key, S # {}
    PROVE  \E k \in S : \A l \in S \ {k} : Before(k, l)
<1>1. \A k \in S : k \in Key /\ k.kind \in {"o", "u"} /\ k.asset \in Nat /\ k.n \in Nat
  BY KeyIs, Bounds
<1>2. PICK T : /\ T \subseteq S /\ T # {} /\ \A k, l \in T : k.kind = l.kind
               /\ \A k \in T, l \in S \ T : k.kind = "o" /\ l.kind = "u"
  <2>1. CASE \E k \in S : k.kind = "o"
    <3>1. PICK T : T = {k \in S : k.kind = "o"}
      OBVIOUS
    <3>. QED
      BY <1>1, <2>1, <3>1
  <2>2. CASE \A k \in S : k.kind # "o"
    BY <1>1, <2>2
  <2>. QED
    BY <2>1, <2>2
<1>3. PICK A : A = {k.asset : k \in T}
  OBVIOUS
<1>4. A \subseteq Nat /\ A # {}
  BY <1>1, <1>2, <1>3
<1>5. PICK a \in A : \A b \in A : a <= b
  BY <1>4, Least
<1>6. PICK N : N = {k.n : k \in {m \in T : m.asset = a}}
  OBVIOUS
<1>7. N \subseteq Nat /\ N # {}
  BY <1>1, <1>2, <1>3, <1>5, <1>6
<1>8. PICK n \in N : \A m \in N : n <= m
  BY <1>7, Least
<1>9. PICK k \in T : k.asset = a /\ k.n = n
  BY <1>6, <1>8
<1>10. ASSUME NEW l \in S \ {k}
       PROVE  Before(k, l)
  <2>1. k \in Key /\ l \in Key
    BY <1>1, <1>2
  <2>2. CASE l \notin T
    BY <1>2, <2>1, <2>2, BeforeIs
  <2>3. CASE l \in T
    <3>1. k.kind = l.kind /\ a <= l.asset /\ a \in Nat /\ l.asset \in Nat /\ l.n \in Nat /\ n \in Nat
      BY <1>1, <1>2, <1>3, <1>4, <1>5, <1>7, <1>9, <2>3
    <3>2. CASE l.asset = a
      <4>1. n <= l.n
        BY <1>6, <1>8, <2>3, <3>2
      <4>2. n # l.n
        BY <1>9, <2>1, <3>1, <3>2 DEF Key
      <4>. QED
        BY <1>9, <2>1, <3>1, <3>2, <4>1, <4>2, BeforeIs
    <3>3. CASE l.asset # a
      BY <1>9, <2>1, <3>1, <3>3, BeforeIs
    <3>. QED
      BY <3>2, <3>3
  <2>. QED
    BY <2>2, <2>3
<1>. QED
  BY <1>2, <1>10

LEMMA NextOrphanIs ==
    ASSUME TypeInv, keys # {}
    PROVE  NextOrphan \in keys
BY FirstKey DEF NextOrphan, TypeInv

LEMMA CursorIs ==
    ASSUME NEW k \in Cursors
    PROVE  /\ \A a \in 0..ids : /\ [k EXCEPT !.after = a] \in Cursors
                                /\ [k EXCEPT !.after = a].cutoff = k.cutoff
           /\ \A l \in Key \cup {Start} : /\ [k EXCEPT !.objectAfter = l] \in Cursors
                                          /\ [k EXCEPT !.objectAfter = l].cutoff = k.cutoff
           /\ k.cutoff \in Nat /\ k.cutoff \in Moments /\ k.after \in 0..ids
           /\ k.token \in Key \cup {Start} /\ k.objectAfter \in Key \cup {Start}
<1>1. \A m \in Moments : m \in Nat
  BY Bounds
<1>. QED
  BY <1>1 DEF Cursors

LEMMA NoCursorIs ==
    ASSUME TypeInv
    PROVE  NoCursor \in Cursors /\ NoCursor.cutoff = 0 /\ 0 \in Moments /\ 0 \in 0..ids
<1>1. 0 \in Moments /\ 0 \in 0..ids
  BY Bounds, IdsBound DEF Moments
<1>. QED
  BY <1>1 DEF NoCursor, Cursors, Nothing

\* The row the sweep is at.
LEMMA CurrentIs ==
    ASSUME TypeInv, DOMAIN page \subseteq 1..ids, Left # {}
    PROVE  /\ Current \in Left /\ Current \in DOMAIN page /\ Current \in 1..ids /\ Current \in 0..ids
           /\ Current \in Nat /\ \A a \in Left : Current <= a /\ a \in Nat
<1>1. ids \in Nat /\ \A a \in 1..ids : a \in Nat /\ a \in 0..ids
  BY IdsBound
<1>2. Left \subseteq DOMAIN page /\ Left \subseteq Nat
  BY <1>1 DEF Left
<1>3. Current \in Left /\ \A a \in Left : Current <= a
  BY <1>2, MinIs DEF Current
<1>. QED
  BY <1>1, <1>2, <1>3

LEMMA OnwardIs ==
    ASSUME TypeInv, SweepInv, Onward, DOMAIN page \subseteq 1..ids, Left # {}
    PROVE  /\ at' \in Cursors /\ at'.cutoff = at.cutoff /\ facts' \subseteq facts
           /\ keys' # {} => step' = "reclaim" /\ UNCHANGED <<at, page, facts>>
           /\ keys' = {} => step' \in {"look", "rows"}
           /\ step' = "rows" => DOMAIN page' \subseteq 1..ids /\ Left' # {}
<1>1. at \in Cursors /\ Current \in 0..ids /\ Current \in Left /\ Current \in Nat
      /\ \A a \in Left : Current <= a /\ a \in Nat
  BY CurrentIs DEF TypeInv
<1>2. CASE keys' # {}
  BY <1>1, <1>2 DEF Onward
<1>3. CASE keys' = {}
  <2>1. at' = [at EXCEPT !.after = Current]
    BY <1>3 DEF Onward
  <2>2. at' \in Cursors /\ at'.cutoff = at.cutoff /\ at'.after = Current
    BY <1>1, <2>1, CursorIs DEF Cursors
  <2>3. CASE Left = {Current}
    BY <1>3, <2>2, <2>3 DEF Onward
  <2>4. CASE Left # {Current}
    <3>1. step' = "rows" /\ UNCHANGED <<page, facts>>
      BY <1>3, <2>4 DEF Onward
    <3>2. PICK a \in Left : a # Current
      BY <1>1, <2>4
    <3>3. a \in Left'
      BY <1>1, <2>2, <3>1, <3>2 DEF Left
    <3>. QED
      BY <1>3, <2>2, <3>1, <3>3
  <2>. QED
    BY <2>3, <2>4
<1>. QED
  BY <1>2, <1>3

LEMMA PageOnwardIs ==
    ASSUME TypeInv, NEW key \in Key \cup {Start}, PageOnward(key),
           page.next \in Key \cup {Start}, page.objects \subseteq Key
    PROVE  /\ at' \in Cursors /\ at'.cutoff = at.cutoff
           /\ keys' # {} => step' = "orphans" /\ page' = page
           /\ keys' = {} => step' = "look"
<1>1. at \in Cursors
  BY DEF TypeInv
<1>2. CASE keys' # {}
  BY <1>1, <1>2, CursorIs DEF PageOnward
<1>3. CASE keys' = {}
  <2>1. at' = [at EXCEPT !.token = page.next, !.objectAfter = Start,
                         !.stage = IF page.next = Start THEN "done" ELSE "objects"]
        /\ step' = "look"
    BY <1>3 DEF PageOnward
  <2>2. PICK stage \in {"done", "objects"} :
           at' = [at EXCEPT !.token = page.next, !.objectAfter = Start, !.stage = stage]
    BY <2>1
  <2>3. at' \in Cursors /\ at'.cutoff = at.cutoff
    BY <1>1, <2>2 DEF Cursors
  <2>. QED
    BY <1>3, <2>1, <2>3
<1>. QED
  BY <1>2, <1>3

\* A step of the sweep: of the rows' keys it names no more, and of the
\* storage it deletes what no row needs.
Sweeps ==
    /\ AgedRows /\ StoreKeeps
    /\ DOMAIN rows' = DOMAIN rows /\ DOMAIN store' \subseteq DOMAIN store
    /\ store' \in [DOMAIN store' -> Objects]
    /\ \A a \in DOMAIN rows : rows'[a].host = rows[a].host /\ rows'[a].bound = rows[a].bound
    /\ \A a \in DOMAIN rows : Shown(a) => ~ Deleted(rows'[a]) /\ Published(rows'[a])
    /\ UNCHANGED <<world, counts, puts, copies, call, job>>

LEMMA SweepsInv ==
    ASSUME IInv, Sweeps, SweepInv', cursor' \in Cursors, at' \in Cursors,
           step' \in {"none", "look", "listed", "rows", "reclaim", "drop", "objects", "orphans"},
           keys' \subseteq Key, due' \subseteq Key
    PROVE  IInv' /\ Keeps
<1>1. TypeInv /\ StoreInv /\ HostInv
  BY DEF IInv
<1>2. UNCHANGED <<plan, now, there, ended, cover, ids, made, puts, copies, call, job>>
  BY DEF Sweeps, world, counts
<1>3. \A a \in DOMAIN rows : rows'[a] \in Rows /\ Aged(rows[a], rows'[a])
  BY DEF Sweeps, AgedRows
<1>4. StoreInv'
  BY <1>1, <1>2 DEF StoreInv, Known, Sweeps
<1>5. (\A a \in DOMAIN rows' : RowInv(a)') /\ \A c \in Callers : CallInv(c)'
  BY <1>2, AgedStep DEF Sweeps
<1>6. HostInv'
  <2>1. \A a \in DOMAIN rows : rows'[a].purpose = rows[a].purpose
    BY <1>3 DEF Aged
  <2>2. \A a \in DOMAIN rows : Shown(a)' => Shown(a)
    BY <1>2, <2>1 DEF Shown, HostStands, Standing, Sweeps
  <2>. QED
    BY <1>1, <1>2, <2>1, <2>2 DEF HostInv, Sweeps
<1>7. JobInv'
  <2>1. \A a \in DOMAIN rows : rows'[a].deleted <= rows[a].deleted
    BY <1>3 DEF Aged
  <2>2. DOMAIN rows' = DOMAIN rows
    BY DEF Sweeps
  <2>. QED
    BY <1>2, <1>3, <2>1, <2>2, JobStays
<1>8. TypeInv'
  <2>1. Jobs' = Jobs /\ Cursors' = Cursors
    BY <1>2 DEF Jobs, Cursors
  <2>2. rows' \in [DOMAIN rows' -> Rows] /\ DOMAIN rows' \subseteq 1..ids /\ DOMAIN store' \subseteq Key
    BY <1>1 DEF Sweeps, AgedRows, TypeInv
  <2>3. store' \in [DOMAIN store' -> Objects]
    BY DEF Sweeps
  <2>. QED
    BY <1>1, <1>2, <2>1, <2>2, <2>3 DEF TypeInv
<1>9. Keeps
  BY AgedKeeps DEF Sweeps
<1>10. IInv'
  BY <1>4, <1>5, <1>6, <1>7, <1>8 DEF IInv
<1>. QED
  BY <1>9, <1>10

\* The sweep leaves the rows and the objects as they are.
LEMMA SweepsNothing ==
    ASSUME IInv, UNCHANGED <<world, rows, counts, storage, call, job>>
    PROVE  Sweeps
<1>1. TypeInv /\ HostInv
  BY DEF IInv
<1>2. UNCHANGED <<there, now, store, puts, copies>>
  BY DEF world, storage
<1>3. now \in Moments /\ now <= now
  BY <1>1, Bounds DEF TypeInv
<1>4. AgedRows
  BY <1>2, <1>3, SameRows
<1>5. StoreKeeps
  BY <1>2, SameStore
<1>6. store' \in [DOMAIN store' -> Objects]
  BY <1>1, <1>2 DEF TypeInv
<1>. QED
  BY <1>1, <1>2, <1>4, <1>5, <1>6 DEF Sweeps, HostInv

\* No key comes before itself, nor before one that comes before it.
LEMMA BeforeOnce ==
    ASSUME NEW k \in Key, NEW l \in Key, Before(k, l)
    PROVE  k # l /\ ~ Before(l, k)
<1>1. /\ k.kind \in {"o", "u"} /\ l.kind \in {"o", "u"} /\ k.asset \in Nat /\ l.asset \in Nat
      /\ k.n \in Nat /\ l.n \in Nat
  BY KeyIs, Bounds
<1>2. CASE k.kind = "o" /\ l.kind = "u"
  <2>1. k # l
    BY <1>2
  <2>2. ~ Before(l, k)
    BY <1>2 DEF Before
  <2>. QED
    BY <2>1, <2>2
<1>3. CASE k.kind = "u" /\ l.kind = "o"
  <2>1. ~ Before(k, l)
    BY <1>3 DEF Before
  <2>. QED
    BY <2>1
<1>4. CASE k.kind = "o" /\ l.kind = "o"
  BY <1>1, <1>4 DEF Before
<1>5. CASE k.kind = "u" /\ l.kind = "u"
  BY <1>1, <1>5 DEF Before
<1>. QED
  BY <1>1, <1>2, <1>3, <1>4, <1>5

\* Among some keys one comes last.
LEMMA LastKey ==
    ASSUME NEW S, S \subseteq Key, S # {}
    PROVE  \E k \in S : \A l \in S \ {k} : Before(l, k)
<1>1. \A k \in S : /\ k \in Key /\ k.kind \in {"o", "u"} /\ k.asset \in Assets /\ k.asset \in Nat
                   /\ k.n \in Nat /\ k.n \in 0..MaxKeys
  BY KeyIs, Bounds
<1>2. PICK T : /\ T \subseteq S /\ T # {} /\ \A k, l \in T : k.kind = l.kind
               /\ \A k \in T, l \in S \ T : k.kind = "u" /\ l.kind = "o"
  <2>1. CASE \E k \in S : k.kind = "u"
    <3>1. PICK T : T = {k \in S : k.kind = "u"}
      OBVIOUS
    <3>. QED
      BY <1>1, <2>1, <3>1
  <2>2. CASE \A k \in S : k.kind # "u"
    BY <1>1, <2>2
  <2>. QED
    BY <2>1, <2>2
<1>3. PICK A : A = {k.asset : k \in T}
  OBVIOUS
<1>4. PICK bound \in Nat : Assets = 1..bound
  BY AssetsAssumption, FS_CardinalityType
<1>5. A \subseteq Nat /\ A # {} /\ \A b \in A : b <= bound
  BY <1>1, <1>2, <1>3, <1>4
<1>6. PICK a : a = Max(A)
  OBVIOUS
<1>7. a \in A /\ \A b \in A : b <= a
  BY <1>5, <1>6, MaxIs
<1>8. PICK N : N = {k.n : k \in {m \in T : m.asset = a}}
  OBVIOUS
<1>9. N \subseteq Nat /\ N # {} /\ \A m \in N : m <= MaxKeys
  <2>1. \A m \in 0..MaxKeys : m <= MaxKeys
    BY Bounds
  <2>. QED
    BY <1>1, <1>2, <1>3, <1>7, <1>8, <2>1
<1>10. PICK n : n = Max(N)
  OBVIOUS
<1>11. n \in N /\ \A m \in N : m <= n
  BY <1>9, <1>10, MaxIs, Bounds
<1>12. PICK k \in T : k.asset = a /\ k.n = n
  BY <1>8, <1>11
<1>13. ASSUME NEW l \in S \ {k}
       PROVE  Before(l, k)
  <2>1. k \in Key /\ l \in Key
    BY <1>1, <1>2
  <2>2. CASE l \notin T
    BY <1>2, <2>1, <2>2, BeforeIs
  <2>3. CASE l \in T
    <3>1. k.kind = l.kind /\ l.asset <= a /\ a \in Nat /\ l.asset \in Nat /\ l.n \in Nat /\ n \in Nat
      BY <1>1, <1>2, <1>3, <1>5, <1>7, <1>9, <1>11, <2>3
    <3>2. CASE l.asset = a
      <4>1. l.n <= n
        BY <1>8, <1>11, <2>3, <3>2
      <4>2. n # l.n
        BY <1>12, <2>1, <3>1, <3>2 DEF Key
      <4>. QED
        BY <1>12, <2>1, <3>1, <3>2, <4>1, <4>2, BeforeIs
    <3>3. CASE l.asset # a
      BY <1>12, <2>1, <3>1, <3>3, BeforeIs
    <3>. QED
      BY <3>2, <3>3
  <2>. QED
    BY <2>2, <2>3
<1>. QED
  BY <1>2, <1>13

\* A page of the inventory is not empty as long as objects are left.
LEMMA ListedIs ==
    ASSUME TypeInv
    PROVE  /\ Listed \subseteq DOMAIN store /\ Listed \subseteq Key
           /\ (\E k \in DOMAIN store : Before(at.token, k)) => Listed # {}
<1>1. Listed \subseteq DOMAIN store /\ DOMAIN store \subseteq Key
  BY DEF Listed, TypeInv
<1>2. ASSUME \E k \in DOMAIN store : Before(at.token, k)
      PROVE  Listed # {}
  <2>1. PICK S : S = {k \in DOMAIN store : Before(at.token, k)}
    OBVIOUS
  <2>2. S \subseteq Key /\ S # {}
    BY <1>1, <1>2, <2>1
  <2>3. PICK k \in S : \A l \in S \ {k} : Before(k, l)
    BY <2>2, FirstKey
  <2>4. {l \in DOMAIN store : Before(at.token, l) /\ Before(l, k)} = {}
    BY <2>1, <2>2, <2>3, BeforeOnce
  <2>5. Cardinality({l \in DOMAIN store : Before(at.token, l) /\ Before(l, k)}) < plan.batch
    BY <2>4, FS_EmptySet, BatchIs
  <2>6. k \in Listed
    BY <2>1, <2>5 DEF Listed
  <2>. QED
    BY <2>6
<1>. QED
  BY <1>1, <1>2

\* The sweep is between two pages, or stops.
LEMMA CalmSweep ==
    ASSUME IInv, UNCHANGED world, step' \in {"none", "look"}, keys' = {}, facts' \subseteq facts,
           at'.cutoff <= now, cursor'.cutoff <= now
    PROVE  SweepInv'
<1>1. SweepInv /\ UNCHANGED <<now, ended>>
  BY DEF IInv, world
<1>. QED
  BY <1>1 DEF SweepInv

LEMMA StoppedIs ==
    ASSUME TypeInv, Stopped
    PROVE  /\ step' = "none" /\ at' \in Cursors /\ at'.cutoff <= now /\ keys' = {} /\ facts' \subseteq facts
           /\ keys' \subseteq Key
<1>1. now \in Nat
  BY Bounds DEF TypeInv
<1>. QED
  BY <1>1, NoCursorIs DEF Stopped

LEMMA StartAttemptInv ==
    ASSUME IInv, StartAttempt
    PROVE  IInv' /\ Keeps
<1>1. TypeInv /\ SweepInv /\ now \in Nat /\ now \in Moments
  BY Bounds DEF IInv, TypeInv
<1>2. /\ step = "none" /\ step' = "look" /\ at' \in {FreshCursor, cursor} /\ due' \in {Due, due}
      /\ UNCHANGED <<world, rows, counts, storage, call, job, cursor, facts, keys>>
  BY DEF StartAttempt
<1>3. FreshCursor \in Cursors /\ FreshCursor.cutoff = now
  BY <1>1, NoCursorIs DEF FreshCursor, NoCursor, Cursors, Nothing
<1>4. cursor \in Cursors /\ cursor.cutoff <= now /\ keys = {}
  BY <1>1, <1>2 DEF TypeInv, SweepInv
<1>5. at' \in Cursors /\ at'.cutoff <= now
  BY <1>1, <1>2, <1>3, <1>4
<1>6. due' \subseteq Key
  BY <1>1, <1>2 DEF Due, TypeInv
<1>7. SweepInv'
  BY <1>2, <1>4, <1>5, CalmSweep
<1>8. Sweeps
  BY <1>2, SweepsNothing
<1>. QED
  BY <1>2, <1>4, <1>5, <1>6, <1>7, <1>8, SweepsInv

LEMMA ListRowsInv ==
    ASSUME IInv, ListRows
    PROVE  IInv' /\ Keeps
<1>1. TypeInv /\ SweepInv /\ step = "look" /\ keys = {} /\ at \in Cursors
  BY DEF IInv, ListRows, SweepInv, TypeInv
<1>2. /\ UNCHANGED <<world, rows, counts, storage, call, job>>
      /\ UNCHANGED <<cursor, facts, keys, dropping, due>>
      /\ UNCHANGED <<now, ended, ids, plan>>
  BY DEF ListRows, world, counts
<1>3. PICK ps : ps = NextOf(at.after)
  OBVIOUS
<1>4. ps \subseteq DOMAIN rows /\ \A a \in ps : at.after < a
  <2>1. at.after \in Nat
    BY <1>1, IdsBound, CursorIs
  <2>. QED
    BY <1>1, <1>3, <2>1, NextOfIs, BatchIs
<1>5. Sweeps
  BY <1>2, SweepsNothing
<1>6. at.cutoff <= now /\ cursor.cutoff <= now
  BY <1>1 DEF SweepInv
<1>7. CASE ps = {}
  <2>1. at' = [at EXCEPT !.stage = "objects", !.after = Nothing] /\ step' = step
    BY <1>3, <1>7 DEF ListRows
  <2>2. at' \in Cursors /\ at'.cutoff = at.cutoff
    BY <1>1, <2>1, NoCursorIs DEF Cursors, Nothing
  <2>3. SweepInv'
    BY <1>1, <1>2, <1>6, <2>1, <2>2, CalmSweep
  <2>. QED
    BY <1>1, <1>2, <1>5, <2>1, <2>2, <2>3, SweepsInv DEF TypeInv
<1>8. CASE ps # {}
  <2>1. step' = "listed" /\ page' = Restrict(rows, ps) /\ at' = at
    BY <1>3, <1>8 DEF ListRows
  <2>2. DOMAIN page' = ps /\ ps \subseteq 1..ids
    BY <1>1, <1>4, <2>1 DEF Restrict, TypeInv
  <2>3. Left' # {}
    BY <1>4, <1>8, <2>1, <2>2 DEF Left
  <2>4. SweepInv'
    BY <1>1, <1>2, <2>1, <2>2, <2>3 DEF SweepInv
  <2>. QED
    BY <1>1, <1>2, <1>5, <2>1, <2>4, SweepsInv DEF TypeInv
<1>. QED
  BY <1>7, <1>8

LEMMA ReadFactsInv ==
    ASSUME IInv, ReadFacts
    PROVE  IInv' /\ Keeps
<1>1. TypeInv /\ SweepInv /\ step = "listed" /\ step' = "rows"
  BY DEF IInv, ReadFacts
<1>2. /\ UNCHANGED <<world, rows, counts, storage, call, job>>
      /\ UNCHANGED <<cursor, at, page, keys, dropping, due>>
      /\ UNCHANGED <<now, ended, ids, plan>>
  BY DEF ReadFacts, world, counts
<1>3. \A p \in facts' : ended[p] # Never
  BY DEF ReadFacts
<1>4. Left' = Left
  BY <1>2 DEF Left
<1>5. SweepInv'
  BY <1>1, <1>2, <1>3, <1>4 DEF SweepInv, Known
<1>6. Sweeps
  BY <1>2, SweepsNothing
<1>. QED
  BY <1>1, <1>2, <1>5, <1>6, SweepsInv DEF TypeInv

LEMMA CompleteInv ==
    ASSUME IInv, Complete
    PROVE  IInv' /\ Keeps
<1>1. TypeInv /\ Stopped /\ cursor' = NoCursor /\ due' = {}
      /\ UNCHANGED <<world, rows, counts, storage, call, job>>
  BY DEF Complete, IInv
<1>2. cursor' \in Cursors /\ cursor'.cutoff <= now
  <2>1. now \in Nat
    BY <1>1, Bounds DEF TypeInv
  <2>. QED
    BY <1>1, <2>1, NoCursorIs
<1>3. Sweeps
  BY <1>1, SweepsNothing
<1>4. SweepInv'
  BY <1>1, <1>2, StoppedIs, CalmSweep
<1>. QED
  BY <1>1, <1>2, <1>3, <1>4, StoppedIs, SweepsInv

LEMMA CrashInv ==
    ASSUME IInv, Crash
    PROVE  IInv' /\ Keeps
<1>1. TypeInv /\ SweepInv /\ Stopped
      /\ UNCHANGED <<world, rows, counts, storage, call, job, cursor, due>>
  BY DEF Crash, IInv
<1>2. Sweeps
  BY <1>1, SweepsNothing
<1>3. SweepInv'
  BY <1>1, StoppedIs, CalmSweep DEF SweepInv
<1>. QED
  BY <1>1, <1>2, <1>3, StoppedIs, SweepsInv DEF TypeInv

LEMMA TimeOverInv ==
    ASSUME IInv, TimeOver
    PROVE  IInv' /\ Keeps
<1>1. TypeInv /\ SweepInv /\ Stopped
      /\ UNCHANGED <<world, rows, counts, storage, call, job, due>>
      /\ cursor' \in {at} \cup {[at EXCEPT !.objectAfter = k] : k \in Passed}
  BY DEF TimeOver, IInv
<1>2. Passed \subseteq Key
  BY <1>1 DEF Passed, SweepInv
<1>3. cursor' \in Cursors /\ cursor'.cutoff <= now
  <2>1. at \in Cursors /\ at.cutoff <= now
    BY <1>1 DEF TypeInv, SweepInv
  <2>2. ASSUME NEW k \in Passed
        PROVE  [at EXCEPT !.objectAfter = k] \in Cursors /\ [at EXCEPT !.objectAfter = k].cutoff = at.cutoff
    BY <1>2, <2>1, CursorIs
  <2>. QED
    BY <1>1, <2>1, <2>2
<1>4. Sweeps
  BY <1>1, SweepsNothing
<1>5. SweepInv'
  BY <1>1, <1>3, StoppedIs, CalmSweep
<1>. QED
  BY <1>1, <1>3, <1>4, <1>5, StoppedIs, SweepsInv DEF TypeInv

\* An object is deleted, or not, whose key no row needs.
LEMMA DeletesObject ==
    ASSUME IInv, NEW k, ~ Active(k), store' \in {store, Restrict(store, DOMAIN store \ {k})},
           UNCHANGED <<world, rows, counts, puts, copies, call, job>>
    PROVE  Sweeps
<1>1. TypeInv /\ HostInv
  BY DEF IInv
<1>2. UNCHANGED <<there, now>>
  BY DEF world
<1>3. now \in Moments /\ now <= now
  BY <1>1, Bounds DEF TypeInv
<1>4. AgedRows
  BY <1>2, <1>3, SameRows
<1>5. /\ DOMAIN store' \subseteq DOMAIN store /\ store' \in [DOMAIN store' -> Objects]
      /\ \A l \in DOMAIN store : l # k => l \in DOMAIN store' /\ store'[l] = store[l]
  <2>1. store \in [DOMAIN store -> Objects]
    BY <1>1 DEF TypeInv
  <2>. QED
    BY <2>1 DEF Restrict
<1>6. StoreKeeps
  BY <1>5 DEF StoreKeeps
<1>. QED
  BY <1>1, <1>4, <1>5, <1>6 DEF Sweeps, HostInv

\* A key the sweep took for an orphan is not active.
LEMMA OrphanIsIdle ==
    ASSUME IInv, step = "orphans"
    PROVE  NextOrphan \in keys /\ NextOrphan \in Key /\ ~ Active(NextOrphan)
<1>1. TypeInv /\ SweepInv
  BY DEF IInv
<1>2. keys # {} /\ keys \cap Referenced = {} /\ \A k \in keys : k \in Key /\ Known(k)
  BY <1>1 DEF SweepInv, TypeInv
<1>3. NextOrphan \in keys
  BY <1>1, <1>2, NextOrphanIs
<1>. QED
  BY <1>2, <1>3, ActiveIsNamed

LEMMA SameKeys ==
    ASSUME UNCHANGED rows, NEW k
    PROVE  (Active(k)' <=> Active(k)) /\ (k \in Referenced' <=> k \in Referenced)
BY ReferencedIs DEF Active

LEMMA DeleteClaimedInv ==
    ASSUME IInv, NEW k \in keys, DeleteClaimed(k)
    PROVE  IInv' /\ Keeps
<1>1. TypeInv /\ SweepInv /\ step = "reclaim"
  BY DEF IInv, DeleteClaimed
<1>2. /\ step' = "drop" /\ dropping' = k /\ store' = Restrict(store, DOMAIN store \ {k})
      /\ UNCHANGED <<world, rows, counts, puts, copies, call, job>>
      /\ UNCHANGED <<cursor, at, page, facts, keys, due>>
      /\ UNCHANGED <<now, ended, ids, made>>
  BY DEF DeleteClaimed, world, counts
<1>3. Sweeps
  <2>1. ~ Active(k)
    BY <1>1 DEF SweepInv
  <2>. QED
    BY <1>2, <2>1, DeletesObject
<1>4. Left' = Left
  BY <1>2 DEF Left
<1>5. \A l \in keys : ~ Active(l)'
  BY <1>1, <1>2, SameKeys DEF SweepInv
<1>6. \A l \in keys : Known(l)'
  BY <1>1, <1>2 DEF SweepInv, Known
<1>7. SweepInv'
  BY <1>1, <1>2, <1>4, <1>5, <1>6 DEF SweepInv
<1>. QED
  BY <1>1, <1>2, <1>3, <1>7, SweepsInv DEF TypeInv

\* A page of orphans goes on, or the inventory does.
LEMMA OrphansStep ==
    ASSUME IInv, Sweeps, step \in {"objects", "orphans"}, NEW key \in Key \cup {Start},
           PageOnward(key), keys' \subseteq keys, due' = due, keys' \cap Referenced = {},
           UNCHANGED <<rows, cursor, facts>>
    PROVE  IInv' /\ Keeps
<1>1. TypeInv /\ SweepInv /\ UNCHANGED <<now, ended, ids, made>> /\ UNCHANGED world
  BY DEF IInv, Sweeps, world, counts
<1>2. page.next \in Key \cup {Start} /\ page.objects \subseteq Key
  BY <1>1 DEF SweepInv
<1>3. /\ at' \in Cursors /\ at'.cutoff = at.cutoff
      /\ keys' # {} => step' = "orphans" /\ page' = page
      /\ keys' = {} => step' = "look"
  BY <1>1, <1>2, PageOnwardIs
<1>4. at.cutoff <= now /\ cursor.cutoff <= now
  BY <1>1 DEF SweepInv
<1>5. SweepInv'
  <2>1. CASE keys' = {}
    BY <1>1, <1>3, <1>4, <2>1, CalmSweep
  <2>2. CASE keys' # {}
    <3>1. keys' \cap Referenced' = {}
      BY SameKeys
    <3>2. \A l \in keys' : Known(l)'
      BY <1>1 DEF SweepInv, Known
    <3>. QED
      BY <1>1, <1>2, <1>3, <1>4, <2>2, <3>1, <3>2 DEF SweepInv
  <2>. QED
    BY <2>1, <2>2
<1>6. step' \in {"orphans", "look"} /\ keys' \subseteq Key /\ due' \subseteq Key /\ cursor' \in Cursors
  BY <1>1, <1>3 DEF TypeInv
<1>. QED
  BY <1>3, <1>5, <1>6, SweepsInv

LEMMA ReadReferencesInv ==
    ASSUME IInv, ReadReferences
    PROVE  IInv' /\ Keeps
<1>1. TypeInv /\ step = "objects"
  BY DEF IInv, ReadReferences
<1>2. /\ keys' = keys \ Referenced /\ PageOnward(at.objectAfter)
      /\ UNCHANGED <<world, rows, counts, storage, call, job>>
      /\ UNCHANGED <<cursor, facts, due>>
  BY DEF ReadReferences
<1>3. at.objectAfter \in Key \cup {Start}
  BY <1>1, CursorIs DEF TypeInv
<1>4. Sweeps
  BY <1>2, SweepsNothing
<1>. QED
  BY <1>1, <1>2, <1>3, <1>4, OrphansStep

LEMMA DeleteOrphanInv ==
    ASSUME IInv, DeleteOrphan
    PROVE  IInv' /\ Keeps
<1>1. SweepInv /\ step = "orphans"
  BY DEF IInv, DeleteOrphan
<1>2. PICK k : k = NextOrphan
  OBVIOUS
<1>3. /\ keys' = keys \ {k} /\ PageOnward(k) /\ store' = Restrict(store, DOMAIN store \ {k})
      /\ UNCHANGED <<world, rows, counts, puts, copies, call, job>>
      /\ UNCHANGED <<cursor, facts, due>>
  BY <1>2 DEF DeleteOrphan
<1>4. k \in Key /\ ~ Active(k)
  BY <1>1, <1>2, OrphanIsIdle
<1>5. Sweeps
  BY <1>3, <1>4, DeletesObject
<1>6. keys' \subseteq keys /\ keys' \cap Referenced = {}
  BY <1>1, <1>3 DEF SweepInv
<1>. QED
  BY <1>1, <1>3, <1>4, <1>5, <1>6, OrphansStep

LEMMA ListObjectsInv ==
    ASSUME IInv, ListObjects
    PROVE  IInv' /\ Keeps
<1>1. TypeInv /\ SweepInv /\ StoreInv
  BY DEF IInv
<1>2. PICK next : next = IF \E k \in DOMAIN store \ Listed : Before(at.token, k)
                         THEN CHOOSE k \in Listed : \A l \in Listed \ {k} : Before(l, k)
                         ELSE Start
  OBVIOUS
<1>3. /\ step' = "objects" /\ keys' \subseteq Listed /\ page' = [objects |-> Listed, next |-> next]
      /\ UNCHANGED <<world, rows, counts, storage, call, job>>
      /\ UNCHANGED <<cursor, at, facts, dropping, due>>
      /\ UNCHANGED <<now, ended, ids, made>>
  BY <1>2 DEF ListObjects, world, counts
<1>4. Listed \subseteq DOMAIN store /\ Listed \subseteq Key
  BY <1>1, ListedIs
<1>5. next \in Key \cup {Start}
  <2>1. CASE \E k \in DOMAIN store \ Listed : Before(at.token, k)
    <3>1. Listed # {}
      BY <1>1, <2>1, ListedIs
    <3>2. \E k \in Listed : \A l \in Listed \ {k} : Before(l, k)
      BY <1>4, <3>1, LastKey
    <3>3. next = CHOOSE k \in Listed : \A l \in Listed \ {k} : Before(l, k)
      BY <1>2, <2>1
    <3>4. next \in Listed
      BY <3>2, <3>3
    <3>. QED
      BY <1>4, <3>4
  <2>2. CASE ~ \E k \in DOMAIN store \ Listed : Before(at.token, k)
    BY <1>2, <2>2
  <2>. QED
    BY <2>1, <2>2
<1>6. \A k \in keys' : Known(k)'
  BY <1>1, <1>3, <1>4 DEF StoreInv, Known
<1>7. SweepInv'
  <2>1. page'.next \in Key \cup {Start} /\ page'.objects \subseteq Key
    BY <1>3, <1>4, <1>5
  <2>. QED
    BY <1>1, <1>3, <1>6, <2>1 DEF SweepInv
<1>8. Sweeps
  BY <1>3, SweepsNothing
<1>9. keys' \subseteq Key
  BY <1>3, <1>4
<1>. QED
  BY <1>1, <1>3, <1>7, <1>8, <1>9, SweepsInv DEF TypeInv

LEMMA DeletionFailsInv ==
    ASSUME IInv, DeletionFails
    PROVE  IInv' /\ Keeps
<1>1. TypeInv /\ SweepInv /\ at \in Cursors /\ at.cutoff <= now
  BY DEF IInv, TypeInv, SweepInv
<1>2. Stopped /\ UNCHANGED <<world, rows, counts, puts, copies, call, job>> /\ due' \subseteq due
  BY DEF DeletionFails
<1>3. \E k : ~ Active(k) /\ store' \in {store, Restrict(store, DOMAIN store \ {k})}
             /\ cursor' \in Cursors /\ cursor'.cutoff = at.cutoff
  <2>1. CASE step = "reclaim"
    <3>1. PICK k \in keys : store' \in {store, Restrict(store, DOMAIN store \ {k})}
      BY <2>1 DEF DeletionFails
    <3>2. ~ Active(k)
      BY <1>1, <2>1 DEF SweepInv
    <3>3. cursor' = [at EXCEPT !.after = Current]
      BY <2>1 DEF DeletionFails
    <3>4. Current \in 0..ids
      BY <1>1, <2>1, CurrentIs DEF SweepInv
    <3>. QED
      BY <1>1, <3>1, <3>2, <3>3, <3>4, CursorIs
  <2>2. CASE step = "orphans"
    <3>1. /\ store' \in {store, Restrict(store, DOMAIN store \ {NextOrphan})}
          /\ cursor' = [at EXCEPT !.objectAfter = NextOrphan]
      BY <2>2 DEF DeletionFails
    <3>2. NextOrphan \in Key /\ ~ Active(NextOrphan)
      BY <2>2, OrphanIsIdle
    <3>. QED
      BY <1>1, <3>1, <3>2, CursorIs
  <2>. QED
    BY <2>1, <2>2 DEF DeletionFails
<1>4. Sweeps
  BY <1>2, <1>3, DeletesObject
<1>5. cursor' \in Cursors /\ cursor'.cutoff <= now
  BY <1>1, <1>3
<1>6. SweepInv'
  BY <1>1, <1>2, <1>5, StoppedIs, CalmSweep
<1>. QED
  BY <1>1, <1>2, <1>4, <1>5, <1>6, StoppedIs, SweepsInv DEF TypeInv

\* A row that is deleted with its parents or for its age keeps its keys; a
\* file that is shown is not deleted.
LEMMA DeletedByIs ==
    ASSUME TypeInv, NEW r \in Rows, NEW gone, NEW cutoff \in Moments,
           \A p \in gone \cap Parents : ended[p] # Never
    PROVE  /\ Kept(r, DeletedBy(r, gone, cutoff))
           /\ DeletedBy(r, gone, cutoff).host = r.host /\ DeletedBy(r, gone, cutoff).bound = r.bound
           /\ r.bound /\ HostStands(r.host) => DeletedBy(r, gone, cutoff) = r
<1>1. PICK stamps : stamps = {ended[p] : p \in gone \cap ParentsOf(r)}
  OBVIOUS
<1>2. PICK d : d = DeletedBy(r, gone, cutoff)
  OBVIOUS
<1>3. ParentsOf(r) \subseteq Parents
  BY Fields DEF ParentsOf, Parents
<1>4. stamps \subseteq Moments
  BY <1>1, <1>3 DEF TypeInv
<1>5. Kept(r, r)
  BY Fields DEF Kept
<1>6. CASE stamps # {}
  <2>1. Min(stamps) \in Moments
    BY <1>4, <1>6, MinIs, Bounds
  <2>2. d = MarkDeleted(r, Min(stamps))
    BY <1>1, <1>2, <1>6 DEF DeletedBy
  <2>3. ~ HostStands(r.host)
    <3>1. PICK p \in gone \cap ParentsOf(r) : TRUE
      BY <1>1, <1>6
    <3>2. ended[p] # Never
      BY <1>3, <3>1
    <3>. QED
      BY <3>1, <3>2 DEF ParentsOf, HostStands, Standing
  <2>. QED
    BY <1>2, <2>1, <2>2, <2>3, MarkDeletedIs
<1>7. CASE stamps = {}
  <2>1. d \in {r, MarkDeleted(r, cutoff)} /\ (r.bound => d = r)
    BY <1>1, <1>2, <1>7 DEF DeletedBy
  <2>. QED
    BY <1>2, <1>5, <2>1, MarkDeletedIs
<1>. QED
  BY <1>6, <1>7

\* A candidate after the sweep looked at it.
Looked(k) == [k EXCEPT !.phase = IF CandidateClaimed(k) THEN "reclaiming" ELSE @]

LEMMA LookedIs ==
    ASSUME NEW k \in Records
    PROVE  /\ Looked(k) \in Records /\ Looked(k).n = k.n
           /\ Looked(k).phase = "active" => k.phase = "active" /\ ~ CandidateClaimed(k)
<1>1. k.phase \in Phases
  BY DEF Records
<1>2. CASE CandidateClaimed(k)
  <2>1. Looked(k) = [k EXCEPT !.phase = "reclaiming"]
    BY <1>2 DEF Looked
  <2>. QED
    BY <2>1 DEF Records, Phases
<1>3. CASE ~ CandidateClaimed(k)
  <2>1. Looked(k) = [k EXCEPT !.phase = k.phase]
    BY <1>3 DEF Looked
  <2>2. Looked(k) = k
    BY <2>1 DEF Records
  <2>. QED
    BY <1>3, <2>2
<1>. QED
  BY <1>2, <1>3

\* The row r became q, with the records it no longer needs marked.
Claimed(r, q, cutoff) ==
    /\ q \in Rows /\ q.purpose = r.purpose /\ q.host = r.host /\ q.created = r.created
    /\ q.bound = r.bound /\ q.deleted = r.deleted /\ q.uploaded = r.uploaded
    /\ q.staging = (IF StagingClaimed(r) THEN "reclaiming" ELSE r.staging)
    /\ q.final.n = r.final.n /\ q.final.lease = r.final.lease /\ q.final.sha = r.final.sha
    /\ FinalClaimed(r, cutoff) => q.final.phase = "reclaiming"
    /\ ~ FinalClaimed(r, cutoff) => q.final = r.final
    /\ q.candidates = {Looked(k) : k \in r.candidates}

LEMMA ClaimIs ==
    ASSUME NEW r \in Rows, NEW cutoff
    PROVE  Claimed(r, Claim(r, cutoff), cutoff)
<1>1. PICK staging : staging = IF StagingClaimed(r) THEN "reclaiming" ELSE r.staging
  OBVIOUS
<1>2. PICK phase : phase = IF FinalClaimed(r, cutoff) THEN "reclaiming" ELSE r.final.phase
  OBVIOUS
<1>3. PICK f : f = [r.final EXCEPT !.phase = phase]
  OBVIOUS
<1>4. PICK S : S = {Looked(k) : k \in r.candidates}
  OBVIOUS
<1>5. PICK q : q = [r EXCEPT !.staging = staging, !.final = f, !.candidates = S]
  OBVIOUS
<1>6. Claim(r, cutoff) = q
  BY <1>1, <1>2, <1>3, <1>4, <1>5 DEF Claim, Looked
<1>7. staging \in Phases \cup {"none"} /\ phase \in Phases /\ r.final \in Finals /\ r.candidates \subseteq Records
  BY <1>1, <1>2, Fields DEF Phases
<1>8. f \in Finals /\ f.n = r.final.n /\ f.lease = r.final.lease /\ f.sha = r.final.sha /\ f.phase = phase
  BY <1>3, <1>7 DEF Finals
<1>9. phase = r.final.phase => f = r.final
  BY <1>3, <1>7 DEF Finals
<1>10. S \subseteq Records
  BY <1>4, <1>7, LookedIs
<1>11. /\ q \in Rows /\ q.purpose = r.purpose /\ q.host = r.host /\ q.created = r.created
       /\ q.bound = r.bound /\ q.deleted = r.deleted /\ q.uploaded = r.uploaded
       /\ q.staging = staging /\ q.final = f /\ q.candidates = S
  BY <1>5, <1>7, <1>8, <1>10 DEF Rows
<1>12. /\ FinalClaimed(r, cutoff) => f.phase = "reclaiming"
       /\ ~ FinalClaimed(r, cutoff) => f = r.final
  BY <1>2, <1>8, <1>9
<1>. QED
  BY <1>1, <1>4, <1>6, <1>8, <1>11, <1>12 DEF Claimed

LEMMA ClaimedIsAged ==
    ASSUME NEW r \in Rows, NEW q, NEW cutoff, Claimed(r, q, cutoff), NamedOnce(r)
    PROVE  Aged(r, q) /\ NamedOnce(q)
<1>1. \A k \in r.candidates : k \in Records
  BY Fields
<1>2. ASSUME NEW k \in q.candidates
      PROVE  \E l \in r.candidates : k = Looked(l) /\ l \in Records
  BY <1>1, <1>2 DEF Claimed
<1>3. Aged(r, q)
  <2>1. q.staging = "active" => r.staging = "active"
    BY DEF Claimed
  <2>2. r.staging = "none" => q.staging = "none"
    BY DEF Claimed, StagingClaimed
  <2>3. ASSUME q.final # NoFinal
        PROVE  /\ r.final # NoFinal /\ q.final.n = r.final.n /\ q.final.sha = r.final.sha
               /\ q.final.lease = r.final.lease
               /\ q.final.phase = "active" => r.final.phase = "active"
    <3>1. q.final.n = r.final.n /\ q.final.sha = r.final.sha /\ q.final.lease = r.final.lease
      BY DEF Claimed
    <3>2. q.final.phase = "active" => q.final = r.final
      BY DEF Claimed
    <3>3. FinalClaimed(r, cutoff) => r.final # NoFinal
      BY NoFinalIs DEF FinalClaimed
    <3>. QED
      BY <2>3, <3>1, <3>2, <3>3 DEF Claimed
  <2>4. ASSUME NEW k \in q.candidates
        PROVE  \E l \in r.candidates : l.n = k.n /\ (k.phase = "active" => l.phase = "active")
    BY <1>2, LookedIs
  <2>5. q.deleted <= r.deleted
    BY Fields DEF Claimed
  <2>. QED
    BY <2>1, <2>2, <2>3, <2>4, <2>5 DEF Aged, Claimed
<1>4. NamedOnce(q)
  <2>1. PICK S, T : S = r.candidates /\ T = q.candidates
    OBVIOUS
  <2>2. PICK f : f = [k \in S |-> Looked(k)]
    OBVIOUS
  <2>3. f \in Surjection(S, T)
    BY <2>1, <2>2 DEF Surjection, Claimed
  <2>4. IsFiniteSet(S) /\ Cardinality(S) <= MaxCandidates /\ Cardinality(S) \in Nat
    BY <2>1, FS_CardinalityType DEF NamedOnce
  <2>5. IsFiniteSet(T) /\ Cardinality(T) <= Cardinality(S)
    BY <2>3, <2>4, FS_Surjection
  <2>6. Cardinality(T) <= MaxCandidates
    BY <2>4, <2>5, FS_CardinalityType, Bounds
  <2>7. ASSUME NEW k \in T, NEW l \in T, k.n = l.n
        PROVE  k = l
    <3>1. PICK x \in S : k = Looked(x) /\ x.n = k.n
      BY <1>2, <2>1, LookedIs
    <3>2. PICK y \in S : l = Looked(y) /\ y.n = l.n
      BY <1>2, <2>1, LookedIs
    <3>3. x = y
      BY <2>1, <2>7, <3>1, <3>2 DEF NamedOnce
    <3>. QED
      BY <3>1, <3>2, <3>3
  <2>8. ASSUME NEW k \in T
        PROVE  k.n # q.final.n
    BY <1>2, <2>1, LookedIs DEF NamedOnce, Claimed
  <2>. QED
    BY <2>1, <2>5, <2>6, <2>7, <2>8 DEF NamedOnce
<1>. QED
  BY <1>3, <1>4

\* Of the row that is claimed, no key that is to be deleted is active.
LEMMA ClaimedKeys ==
    ASSUME NEW a, NEW r \in Rows, NEW q, NEW cutoff, Claimed(r, q, cutoff), NamedOnce(r),
           NEW k \in Claims(a, r, cutoff)
    PROVE  /\ k.asset = a /\ Names(r, a, k)
           /\ k.kind = "u" => q.staging # "active"
           /\ k.kind = "o" => ~ (q.final.n = k.n /\ q.final.phase = "active")
           /\ k.kind = "o" => \A l \in q.candidates : l.n = k.n => l.phase # "active"
           /\ k.kind \in {"o", "u"}
<1>1. \A l \in r.candidates : l \in Records
  BY Fields
<1>2. \A l \in q.candidates : \E m \in r.candidates :
          l = Looked(m) /\ m \in Records /\ l.n = m.n
          /\ (l.phase = "active" => ~ CandidateClaimed(m))
  BY <1>1, LookedIs DEF Claimed
<1>3. CASE k = StagingKey(a) /\ StagingClaimed(r)
  BY <1>3, KeyParts DEF Claimed, Names, StagingClaimed
<1>4. CASE k = SealedKey(a, r.final.n) /\ FinalClaimed(r, cutoff)
  <2>1. k.asset = a /\ k.kind = "o" /\ k.n = r.final.n /\ Names(r, a, k)
    BY <1>4, KeyParts DEF Names, FinalClaimed
  <2>2. q.final.phase = "reclaiming"
    BY <1>4 DEF Claimed
  <2>3. \A l \in q.candidates : l.n # k.n
    BY <1>2, <2>1 DEF NamedOnce
  <2>. QED
    BY <2>1, <2>2, <2>3
<1>5. CASE \E l \in r.candidates : k = SealedKey(a, l.n) /\ CandidateClaimed(l)
  <2>1. PICK l \in r.candidates : k = SealedKey(a, l.n) /\ CandidateClaimed(l)
    BY <1>5
  <2>2. k.asset = a /\ k.kind = "o" /\ k.n = l.n /\ Names(r, a, k)
    BY <2>1, KeyParts DEF Names
  <2>3. q.final.n # k.n
    BY <2>2 DEF NamedOnce, Claimed
  <2>4. ASSUME NEW m \in q.candidates, m.n = k.n
        PROVE  m.phase # "active"
    <3>1. PICK x \in r.candidates : m.n = x.n /\ (m.phase = "active" => ~ CandidateClaimed(x))
      BY <1>2
    <3>2. x = l
      BY <2>2, <2>4, <3>1 DEF NamedOnce
    <3>. QED
      BY <2>1, <3>1, <3>2
  <2>. QED
    BY <2>2, <2>3, <2>4
<1>. QED
  BY <1>3, <1>4, <1>5 DEF Claims

\* The sweep saves one row, which it may.
Saves(a, q) ==
    /\ rows' = [rows EXCEPT ![a] = q] /\ q \in Rows
    /\ Aged(rows[a], q) /\ NamedOnce(q)
    /\ q.host = rows[a].host /\ q.bound = rows[a].bound
    /\ q.uploaded /\ ~ Published(q) => q.deleted < now - PurgeAfter
    /\ Shown(a) => ~ Deleted(q) /\ Published(q)
    /\ UNCHANGED <<world, counts, storage, call, job>>

LEMMA SavesRow ==
    ASSUME IInv, NEW a \in DOMAIN rows, NEW q, Saves(a, q)
    PROVE  Sweeps
<1>1. TypeInv /\ HostInv /\ UNCHANGED <<there, now, store, puts, copies>>
  BY DEF IInv, Saves, world, storage
<1>2. /\ DOMAIN rows' = DOMAIN rows /\ rows'[a] = q /\ q \in Rows
      /\ \A b \in DOMAIN rows \ {a} : rows'[b] = rows[b]
  BY DEF Saves
<1>3. rows' \in [DOMAIN rows' -> Rows]
  BY <1>1 DEF TypeInv, Saves
<1>4. q.purpose = rows[a].purpose
  BY DEF Saves, Aged
<1>5. ASSUME NEW b \in DOMAIN rows
      PROVE  /\ Aged(rows[b], rows'[b]) /\ NamedOnce(rows'[b])
             /\ rows'[b].host \in there' /\ rows'[b].host \in HostsFor(rows'[b].purpose)
             /\ rows'[b].uploaded /\ ~ Published(rows'[b]) => rows'[b].deleted < now' - PurgeAfter
             /\ rows'[b].host = rows[b].host /\ rows'[b].bound = rows[b].bound
             /\ Shown(b) => ~ Deleted(rows'[b]) /\ Published(rows'[b])
  <2>1. RowInv(b)
    BY DEF IInv
  <2>2. CASE b = a
    BY <1>1, <1>2, <1>4, <2>1, <2>2 DEF Saves, RowInv
  <2>3. CASE b # a
    <3>1. rows'[b] = rows[b] /\ rows[b] \in Rows
      BY <1>1, <1>2, <2>3, RowIs
    <3>2. Aged(rows[b], rows[b])
      BY <3>1, Fields DEF Aged
    <3>3. Shown(b) => ~ Deleted(rows[b]) /\ Published(rows[b])
      BY ShownStands
    <3>. QED
      BY <1>1, <2>1, <3>1, <3>2, <3>3 DEF RowInv
  <2>. QED
    BY <2>2, <2>3
<1>6. AgedRows
  BY <1>2, <1>3, <1>5 DEF AgedRows
<1>7. store' \in [DOMAIN store' -> Objects]
  BY <1>1 DEF TypeInv
<1>8. StoreKeeps
  BY <1>1, SameStore
<1>9. UNCHANGED <<world, counts, puts, copies, call, job>>
  BY <1>1 DEF Saves
<1>. QED
  BY <1>1, <1>2, <1>5, <1>6, <1>7, <1>8, <1>9 DEF Sweeps

\* What a row names was handed out.
LEMMA NamedIsKnown ==
    ASSUME IInv, NEW a \in DOMAIN rows, NEW k, Names(rows[a], a, k)
    PROVE  k \in Key /\ Known(k)
<1>1. PICK r : r = rows[a]
  OBVIOUS
<1>2. TypeInv /\ r \in Rows /\ RowInv(a) /\ a \in Assets /\ a <= ids
  BY <1>1, RowIs, RowsAreFinite DEF IInv
<1>3. made[a] \in Nat
  BY <1>2, Bounds DEF TypeInv
<1>4. CASE k = StagingKey(a)
  BY <1>2, <1>4, KeyParts DEF Known
<1>5. CASE k = SealedKey(a, r.final.n) /\ r.final.n # 0
  <2>1. r.final.n \in 0..MaxKeys /\ r.final.n \in 1..made[a]
    BY <1>1, <1>2, <1>3, <1>5, Fields DEF RowInv
  <2>. QED
    BY <1>2, <1>5, <2>1, KeyParts DEF Known
<1>6. CASE \E l \in r.candidates : k = SealedKey(a, l.n)
  <2>1. PICK l \in r.candidates : k = SealedKey(a, l.n)
    BY <1>6
  <2>2. l.n \in 1..MaxKeys /\ l.n \in Nat /\ l.n # 0 /\ l.n <= made[a]
    BY <1>1, <1>2, <2>1, Fields DEF RowInv
  <2>3. l.n \in 0..MaxKeys /\ l.n \in 1..made[a]
    BY <1>3, <2>2, Bounds
  <2>. QED
    BY <1>2, <2>1, <2>3, KeyParts DEF Known
<1>. QED
  BY <1>1, <1>4, <1>5, <1>6 DEF Names

\* A row's keys are done with, or the next ones are to be deleted.
LEMMA OnwardStep ==
    ASSUME IInv, Sweeps, step \in {"rows", "drop"}, Onward, due' \subseteq due, cursor' = cursor,
           keys' \subseteq Key, \A k \in keys' : Known(k) /\ ~ Active(k)'
    PROVE  IInv' /\ Keeps
<1>1. TypeInv /\ SweepInv /\ UNCHANGED <<now, ended, ids, made>>
  BY DEF IInv, Sweeps, world, counts
<1>2. DOMAIN page \subseteq 1..ids /\ Left # {}
  BY <1>1 DEF SweepInv
<1>3. /\ at' \in Cursors /\ at'.cutoff = at.cutoff /\ facts' \subseteq facts
      /\ keys' # {} => step' = "reclaim" /\ UNCHANGED <<at, page, facts>>
      /\ keys' = {} => step' \in {"look", "rows"}
      /\ step' = "rows" => DOMAIN page' \subseteq 1..ids /\ Left' # {}
  BY <1>1, <1>2, OnwardIs
<1>4. keys' # {} => Left' = Left
  BY <1>3 DEF Left
<1>5. \A k \in keys' : Known(k)'
  BY <1>1 DEF Known
<1>6. \A p \in facts' \cap Parents : ended'[p] # Never
  BY <1>1, <1>3 DEF SweepInv
<1>7. at'.cutoff <= now' /\ cursor'.cutoff <= now'
  BY <1>1, <1>3 DEF SweepInv
<1>8. SweepInv'
  <2>1. CASE keys' = {}
    BY <1>1, <1>3, <1>6, <1>7, <2>1 DEF SweepInv
  <2>2. CASE keys' # {}
    BY <1>1, <1>2, <1>3, <1>4, <1>5, <1>6, <1>7, <2>2 DEF SweepInv
  <2>. QED
    BY <2>1, <2>2
<1>9. /\ step' \in {"reclaim", "look", "rows"} /\ due' \subseteq Key /\ cursor' \in Cursors
  BY <1>1, <1>3 DEF TypeInv
<1>. QED
  BY <1>3, <1>8, <1>9, SweepsInv

LEMMA CleanRowInv ==
    ASSUME IInv, CleanRow
    PROVE  IInv' /\ Keeps
<1>1. TypeInv /\ SweepInv /\ step = "rows" /\ Onward
      /\ UNCHANGED <<world, counts, storage, call, job, cursor>>
  BY DEF IInv, CleanRow
<1>2. PICK a : a = Current
  OBVIOUS
<1>3. CASE ~ Unchanged(a)
  <2>1. keys' = {} /\ due' \subseteq due /\ rows' = rows
    BY <1>2, <1>3 DEF CleanRow
  <2>2. Sweeps
    BY <1>1, <2>1, SweepsNothing
  <2>. QED
    BY <1>1, <2>1, <2>2, OnwardStep
<1>4. CASE Unchanged(a)
  <2>1. PICK r, cutoff : r = rows[a] /\ cutoff = at.cutoff
    OBVIOUS
  <2>2. PICK d : d = DeletedBy(r, facts, cutoff)
    OBVIOUS
  <2>3. PICK q : q = Claim(d, cutoff)
    OBVIOUS
  <2>4. /\ a \in DOMAIN rows /\ rows' = [rows EXCEPT ![a] = q] /\ keys' = Claims(a, d, cutoff)
        /\ due' = due
    BY <1>2, <1>4, <2>1, <2>2, <2>3 DEF CleanRow, Unchanged, Cleaned, ClaimedOf
  <2>5. r \in Rows /\ RowInv(a) /\ NamedOnce(r) /\ (Shown(a) => ~ Deleted(r) /\ Published(r))
    BY <1>1, <2>1, <2>4, RowIs, ShownStands DEF IInv, RowInv
  <2>6. cutoff \in Moments /\ cutoff \in Nat /\ cutoff <= now /\ now \in Nat /\ PurgeAfter \in Nat
    BY <1>1, <2>1, CursorIs, Bounds DEF TypeInv, SweepInv
  <2>7. \A p \in facts \cap Parents : ended[p] # Never
    BY <1>1 DEF SweepInv
  <2>8. /\ Kept(r, d) /\ d.host = r.host /\ d.bound = r.bound
        /\ r.bound /\ HostStands(r.host) => d = r
    BY <1>1, <2>2, <2>5, <2>6, <2>7, DeletedByIs
  <2>9. d \in Rows /\ NamedOnce(d)
    BY <2>5, <2>8 DEF Kept, NamedOnce
  <2>10. Claimed(d, q, cutoff)
    BY <2>3, <2>9, ClaimIs
  <2>11. Aged(d, q) /\ NamedOnce(q)
    BY <2>9, <2>10, ClaimedIsAged
  <2>12. /\ q \in Rows /\ q.host = r.host /\ q.bound = r.bound /\ q.deleted = d.deleted
         /\ q.uploaded = r.uploaded /\ d.final = r.final /\ d.deleted <= r.deleted
         /\ q.deleted \in Nat /\ r.deleted \in Nat
    BY <2>5, <2>8, <2>9, <2>10, Fields DEF Claimed, Kept
  <2>13. Aged(r, q)
    BY <2>8, <2>11, <2>12 DEF Aged, Kept
  <2>14. ASSUME q.uploaded, ~ Published(q)
         PROVE  q.deleted < now - PurgeAfter
    <3>1. CASE FinalClaimed(d, cutoff)
      BY <2>6, <2>12, <3>1 DEF FinalClaimed
    <3>2. CASE ~ FinalClaimed(d, cutoff)
      <4>1. q.final = r.final
        BY <2>10, <2>12, <3>2 DEF Claimed
      <4>2. r.uploaded /\ ~ Published(r)
        BY <2>12, <2>14, <4>1 DEF Published
      <4>3. r.deleted < now - PurgeAfter
        BY <2>1, <2>5, <4>2 DEF RowInv
      <4>. QED
        BY <2>6, <2>12, <4>3
    <3>. QED
      BY <3>1, <3>2
  <2>15. ASSUME Shown(a)
         PROVE  ~ Deleted(q) /\ Published(q)
    <3>1. d = r /\ r.deleted = Never /\ Published(r)
      BY <2>1, <2>5, <2>8, <2>15 DEF Shown, Deleted
    <3>2. ~ FinalClaimed(d, cutoff)
      <4>1. cutoff < Never /\ Never \in Nat
        BY <2>6, Bounds
      <4>2. ~ (Never < cutoff - PurgeAfter)
        BY <2>6, <4>1
      <4>. QED
        BY <3>1, <4>2 DEF FinalClaimed
    <3>. QED
      BY <2>10, <2>12, <3>1, <3>2 DEF Claimed, Published, Deleted
  <2>16. Saves(a, q)
    BY <1>1, <2>1, <2>4, <2>11, <2>12, <2>13, <2>14, <2>15 DEF Saves
  <2>17. Sweeps
    BY <2>4, <2>16, SavesRow
  <2>18. rows'[a] = q
    BY <2>4
  <2>19. ASSUME NEW k \in keys'
         PROVE  k \in Key /\ Known(k) /\ ~ Active(k)'
    <3>1. /\ k.asset = a /\ Names(d, a, k)
          /\ k.kind = "u" => q.staging # "active"
          /\ k.kind = "o" => ~ (q.final.n = k.n /\ q.final.phase = "active")
          /\ k.kind = "o" => \A l \in q.candidates : l.n = k.n => l.phase # "active"
      BY <2>4, <2>9, <2>10, ClaimedKeys
    <3>2. Names(r, a, k)
      BY <2>8, <3>1 DEF Kept, Names
    <3>3. ~ Active(k)'
      BY <2>18, <3>1 DEF Active
    <3>. QED
      BY <2>1, <2>4, <3>2, <3>3, NamedIsKnown
  <2>20. keys' \subseteq Key /\ \A k \in keys' : Known(k) /\ ~ Active(k)'
    BY <2>19
  <2>. QED
    BY <1>1, <2>4, <2>17, <2>20, OnwardStep
<1>. QED
  BY <1>3, <1>4

\* The row without its record.
LEMMA RemoveReclaimedIs ==
    ASSUME NEW r \in Rows, NEW k, NamedOnce(r)
    PROVE  LET q == RemoveReclaimed(r, k)
           IN  /\ q \in Rows /\ Aged(r, q) /\ NamedOnce(q)
               /\ q.host = r.host /\ q.bound = r.bound /\ q.deleted = r.deleted
               /\ Published(q) = Published(r)
<1>1. PICK q : q = RemoveReclaimed(r, k)
  OBVIOUS
<1>2. PICK staging : staging = IF r.staging = "reclaiming" THEN "none" ELSE r.staging
  OBVIOUS
<1>3. PICK S : S = {l \in r.candidates : l.n # k.n \/ l.phase # "reclaiming"}
  OBVIOUS
<1>4. /\ r.staging \in Phases \cup {"none"} /\ r.final \in Finals /\ r.candidates \subseteq Records
      /\ r.deleted \in Nat /\ r.deleted <= r.deleted
  BY Fields
<1>5. CASE k.kind = "u"
  <2>1. q = [r EXCEPT !.staging = staging]
    BY <1>1, <1>2, <1>5 DEF RemoveReclaimed
  <2>2. staging \in Phases \cup {"none"}
    BY <1>2, <1>4
  <2>3. /\ q \in Rows /\ q.purpose = r.purpose /\ q.host = r.host /\ q.created = r.created
        /\ q.bound = r.bound /\ q.deleted = r.deleted /\ q.uploaded = r.uploaded
        /\ q.staging = staging /\ q.final = r.final /\ q.candidates = r.candidates
    BY <2>1, <2>2 DEF Rows
  <2>4. Aged(r, q)
    BY <1>2, <1>4, <2>3 DEF Aged
  <2>. QED
    BY <1>1, <2>3, <2>4 DEF NamedOnce, Published
<1>6. CASE k.kind # "u" /\ r.final.n = k.n /\ r.final.phase = "reclaiming"
  <2>1. q = [r EXCEPT !.final = NoFinal]
    BY <1>1, <1>6 DEF RemoveReclaimed
  <2>2. /\ q \in Rows /\ q.purpose = r.purpose /\ q.host = r.host /\ q.created = r.created
        /\ q.bound = r.bound /\ q.deleted = r.deleted /\ q.uploaded = r.uploaded
        /\ q.staging = r.staging /\ q.final = NoFinal /\ q.candidates = r.candidates
    BY <2>1, NoFinalIs DEF Rows
  <2>3. Aged(r, q)
    BY <1>4, <2>2 DEF Aged
  <2>4. \A l \in r.candidates : l.n # 0
    BY Fields
  <2>5. NamedOnce(q)
    BY <2>2, <2>4, NoFinalIs DEF NamedOnce
  <2>6. Published(q) = Published(r)
    BY <1>6, <2>2, NoFinalIs DEF Published
  <2>. QED
    BY <1>1, <2>2, <2>3, <2>5, <2>6
<1>7. CASE k.kind # "u" /\ ~ (r.final.n = k.n /\ r.final.phase = "reclaiming")
  <2>1. q = [r EXCEPT !.candidates = S]
    BY <1>1, <1>3, <1>7 DEF RemoveReclaimed
  <2>2. S \subseteq r.candidates
    BY <1>3
  <2>3. /\ q \in Rows /\ q.purpose = r.purpose /\ q.host = r.host /\ q.created = r.created
        /\ q.bound = r.bound /\ q.deleted = r.deleted /\ q.uploaded = r.uploaded
        /\ q.staging = r.staging /\ q.final = r.final /\ q.candidates = S
    BY <1>4, <2>1, <2>2 DEF Rows
  <2>4. Aged(r, q)
    BY <1>4, <2>2, <2>3 DEF Aged
  <2>5. NamedOnce(q)
    <3>1. IsFiniteSet(r.candidates) /\ Cardinality(r.candidates) <= MaxCandidates
          /\ Cardinality(r.candidates) \in Nat
      BY FS_CardinalityType DEF NamedOnce
    <3>2. IsFiniteSet(S) /\ Cardinality(S) <= Cardinality(r.candidates) /\ Cardinality(S) \in Nat
      BY <2>2, <3>1, FS_Subset, FS_CardinalityType
    <3>3. Cardinality(S) <= MaxCandidates
      BY <3>1, <3>2, Bounds
    <3>. QED
      BY <2>2, <2>3, <3>2, <3>3 DEF NamedOnce
  <2>6. Published(q) = Published(r)
    BY <2>3 DEF Published
  <2>. QED
    BY <1>1, <2>3, <2>4, <2>5, <2>6
<1>. QED
  BY <1>5, <1>6, <1>7

LEMMA DropRecordInv ==
    ASSUME IInv, DropRecord
    PROVE  IInv' /\ Keeps
<1>1. TypeInv /\ SweepInv /\ step = "drop" /\ Onward /\ keys' = keys \ {dropping}
      /\ UNCHANGED <<world, counts, storage, call, job, cursor, due>>
  BY DEF IInv, DropRecord
<1>2. Sweeps
  <2>1. CASE dropping.asset \notin DOMAIN rows
    <3>1. rows' = rows
      BY <2>1 DEF DropRecord
    <3>. QED
      BY <1>1, <3>1, SweepsNothing
  <2>2. CASE dropping.asset \in DOMAIN rows
    <3>1. PICK a, r, q : a = dropping.asset /\ r = rows[a] /\ q = RemoveReclaimed(r, dropping)
      OBVIOUS
    <3>2. a \in DOMAIN rows /\ rows' = [rows EXCEPT ![a] = q]
      BY <2>2, <3>1 DEF DropRecord
    <3>3. r \in Rows /\ RowInv(a) /\ NamedOnce(r) /\ (Shown(a) => ~ Deleted(r) /\ Published(r))
      BY <1>1, <3>1, <3>2, RowIs, ShownStands DEF IInv, RowInv
    <3>4. /\ q \in Rows /\ Aged(r, q) /\ NamedOnce(q)
          /\ q.host = r.host /\ q.bound = r.bound /\ q.deleted = r.deleted
          /\ Published(q) = Published(r)
      BY <3>1, <3>3, RemoveReclaimedIs
    <3>5. q.uploaded /\ ~ Published(q) => q.deleted < now - PurgeAfter
      BY <3>1, <3>3, <3>4 DEF RowInv, Aged
    <3>6. Shown(a) => ~ Deleted(q) /\ Published(q)
      BY <3>3, <3>4 DEF Deleted
    <3>7. Saves(a, q)
      BY <1>1, <3>1, <3>2, <3>4, <3>5, <3>6 DEF Saves
    <3>. QED
      BY <3>2, <3>7, SavesRow
  <2>. QED
    BY <2>1, <2>2
<1>3. \A k : Active(k)' => Active(k)
  BY <1>2, AgedKeys DEF Sweeps
<1>4. keys' \subseteq Key /\ \A k \in keys' : Known(k) /\ ~ Active(k)'
  BY <1>1, <1>3 DEF SweepInv, TypeInv
<1>. QED
  BY <1>1, <1>2, <1>4, OnwardStep

-----------------------------------------------------------------------------
(* The beginning                                                             *)

LEMMA PlanIs ==
    ASSUME NEW p \in Plans
    PROVE  /\ p.files \in Seq([purpose : AllPurposes, host : {"project", "draft"}])
           /\ \A a \in DOMAIN p.files : p.files[a].host \in HostsFor(p.files[a].purpose)
           /\ p.files # <<>> => Good # {} /\ p.keys > 0
           /\ Len(p.files) \in 0..p.assets
           /\ p.assets \in Nat /\ 1..p.assets \subseteq Assets
           /\ p.keys \in 0..MaxKeys
<1>1. /\ p.files \in Seq([purpose : AllPurposes, host : {"project", "draft"}])
      /\ \A a \in DOMAIN p.files : p.files[a].host \in HostsFor(p.files[a].purpose)
      /\ p.files # <<>> => Good # {} /\ p.keys > 0
      /\ Len(p.files) <= p.assets /\ p.keys \in 0..MaxKeys
  BY AssetsAssumption
<1>2. PICK n : n = Cardinality(Assets)
  OBVIOUS
<1>3. p.assets \in 0..n /\ Assets = 1..n
  BY <1>2, AssetsAssumption
<1>4. n \in Nat
  BY <1>2, AssetsAssumption, FS_CardinalityType
<1>5. Len(p.files) \in Nat
  BY <1>1
<1>. QED
  BY <1>1, <1>3, <1>4, <1>5

\* A row there is at first.
First(row, file) ==
    /\ row \in Rows /\ row.purpose = file.purpose /\ row.host = file.host
    /\ row.bound = Ordinary(row) /\ row.uploaded /\ row.candidates = {} /\ row.deleted = Never
    /\ row.final.n = 1 /\ row.final.phase = "active" /\ row.final.sha \in Good

LEMMA CompleteFileIs ==
    ASSUME now = 0, Good # {}, MaxKeys > 0,
           NEW file \in [purpose : AllPurposes, host : {"project", "draft"}]
    PROVE  First(CompleteFile(file), file)
<1>1. PICK row : row = NewRow(file.purpose, file.host, "active", {})
  OBVIOUS
<1>2. row \in Rows /\ row.purpose = file.purpose /\ row.host = file.host /\ row.bound = FALSE
      /\ row.candidates = {} /\ row.deleted = Never
  <2>1. 0 \in Moments
    BY Bounds DEF Moments
  <2>. QED
    BY <1>1, <2>1, NoFinalIs DEF NewRow, Rows, Phases, Parents
<1>3. PICK content : content = CHOOSE x \in Good : TRUE
  OBVIOUS
<1>4. content \in Good /\ content \in Contents
  BY <1>3, Bounds
<1>5. PICK f : f = [n |-> 1, phase |-> "active", lease |-> Lease, sha |-> content]
  OBVIOUS
<1>6. f \in Finals /\ f.n = 1 /\ f.phase = "active" /\ f.sha \in Good
  <2>1. 1 \in 0..MaxKeys /\ Lease \in 0..(MaxTime + Lease)
    BY Bounds
  <2>. QED
    BY <1>4, <1>5, <2>1 DEF Finals, Phases
<1>7. PICK p : p = [row EXCEPT !.uploaded = TRUE, !.final = f]
  OBVIOUS
<1>8. /\ p \in Rows /\ p.purpose = file.purpose /\ p.host = file.host /\ p.bound = FALSE
      /\ p.candidates = {} /\ p.deleted = Never /\ p.uploaded = TRUE /\ p.final = f
  BY <1>2, <1>6, <1>7 DEF Rows
<1>9. CompleteFile(file) = Bound(p)
  BY <1>1, <1>3, <1>5, <1>7 DEF CompleteFile
<1>10. CASE Ordinary(p)
  <2>1. CompleteFile(file) = [p EXCEPT !.bound = TRUE]
    BY <1>9, <1>10 DEF Bound
  <2>2. PICK q : q = [p EXCEPT !.bound = TRUE]
    OBVIOUS
  <2>3. /\ q \in Rows /\ q.purpose = file.purpose /\ q.host = file.host /\ q.bound = TRUE
        /\ q.candidates = {} /\ q.deleted = Never /\ q.uploaded = TRUE /\ q.final = f
    BY <1>8, <2>2 DEF Rows
  <2>. QED
    BY <1>6, <1>8, <1>10, <2>1, <2>2, <2>3 DEF First, Ordinary
<1>11. CASE ~ Ordinary(p)
  BY <1>6, <1>8, <1>9, <1>11 DEF Bound, First, Ordinary
<1>. QED
  BY <1>10, <1>11

LEMMA InitInv ==
    ASSUME Init
    PROVE  IInv
<1>1. PICK n : n = Len(plan.files)
  OBVIOUS
<1>2. /\ plan \in Plans /\ now = 0 /\ there = {"project", "draft"} /\ ended = [p \in Parents |-> Never]
      /\ cover = Nothing /\ ids = n /\ puts = {} /\ copies = {} /\ call = [c \in Callers |-> NoCall]
      /\ job = [state |-> "none", after |-> Nothing, saved |-> Nothing]
      /\ cursor = NoCursor /\ at = NoCursor /\ step = "none" /\ facts = {} /\ keys = {} /\ due = {}
  BY <1>1 DEF Init
<1>3. /\ plan.files \in Seq([purpose : AllPurposes, host : {"project", "draft"}])
      /\ DOMAIN plan.files = 1..n /\ n \in 0..plan.assets /\ n \in Nat /\ 1..n \subseteq Assets
      /\ \A a \in 1..n : /\ plan.files[a] \in [purpose : AllPurposes, host : {"project", "draft"}]
                         /\ plan.files[a].host \in HostsFor(plan.files[a].purpose)
                         /\ Good # {} /\ MaxKeys > 0
  <2>1. PICK p : p = plan
    OBVIOUS
  <2>2. /\ p.files \in Seq([purpose : AllPurposes, host : {"project", "draft"}])
        /\ \A a \in DOMAIN p.files : p.files[a].host \in HostsFor(p.files[a].purpose)
        /\ p.files # <<>> => Good # {} /\ p.keys > 0
        /\ Len(p.files) \in 0..p.assets
        /\ p.assets \in Nat /\ 1..p.assets \subseteq Assets
        /\ p.keys \in 0..MaxKeys
    BY <1>2, <2>1, PlanIs
  <2>3. DOMAIN p.files = 1..n /\ n \in 0..p.assets /\ n \in Nat /\ 1..n \subseteq 1..p.assets
    BY <1>1, <2>1, <2>2
  <2>4. ASSUME NEW a \in 1..n
        PROVE  /\ p.files[a] \in [purpose : AllPurposes, host : {"project", "draft"}]
               /\ p.files # <<>>
    <3>1. PICK T : T = [purpose : AllPurposes, host : {"project", "draft"}]
      OBVIOUS
    <3>2. PICK f : f = p.files
      OBVIOUS
    <3>3. f \in Seq(T) /\ a \in DOMAIN f /\ a \in 1..Len(f)
      BY <1>1, <2>1, <2>2, <2>3, <3>1, <3>2
    <3>4. f[a] \in T
      BY <3>3
    <3>5. f # <<>>
      BY <3>3
    <3>. QED
      BY <3>1, <3>2, <3>4, <3>5
  <2>5. p.files # <<>> => MaxKeys > 0
    BY <2>2, Bounds
  <2>. QED
    BY <2>1, <2>2, <2>3, <2>4, <2>5
<1>4. DOMAIN rows = 1..n /\ rows = [a \in 1..n |-> CompleteFile(plan.files[a])]
  BY <1>3 DEF Init
<1>5. ASSUME NEW a \in 1..n
      PROVE  First(rows[a], plan.files[a]) /\ a \in Nat /\ a \in Assets /\ a <= n
  BY <1>2, <1>3, <1>4, CompleteFileIs
<1>6. /\ made = [a \in Assets |-> IF a \in 1..n THEN 1 ELSE 0]
      /\ store = [k \in UNION {{StagingKey(a), SealedKey(a, 1)} : a \in 1..n}
                     |-> [content |-> rows[k.asset].final.sha, stored |-> 0]]
  BY <1>3 DEF Init
<1>7. \A k \in DOMAIN store : \E a \in 1..n : k \in {StagingKey(a), SealedKey(a, 1)}
  BY <1>6
<1>8. ASSUME NEW a \in 1..n
      PROVE  /\ MaxKeys > 0 /\ 0 \in 0..MaxKeys /\ 1 \in 0..MaxKeys /\ 1 \in 1..made[a] /\ made[a] = 1
             /\ StagingKey(a) \in Key /\ SealedKey(a, 1) \in Key
             /\ SealedKey(a, 1) \in DOMAIN store /\ store[SealedKey(a, 1)].content = rows[a].final.sha
  <2>1. MaxKeys > 0 /\ 0 \in 0..MaxKeys /\ 1 \in 0..MaxKeys /\ a \in Assets
    BY <1>3, <1>5, Bounds
  <2>2. made[a] = 1
    BY <1>6, <2>1
  <2>3. StagingKey(a) \in Key /\ SealedKey(a, 1) \in Key /\ SealedKey(a, 1).asset = a
    BY <2>1, KeyParts
  <2>4. SealedKey(a, 1) \in DOMAIN store /\ store[SealedKey(a, 1)].content = rows[a].final.sha
    BY <1>6, <2>3
  <2>. QED
    BY <2>1, <2>2, <2>3, <2>4
<1>9. rows \in [DOMAIN rows -> Rows]
  BY <1>4, <1>5 DEF First
<1>10. store \in [DOMAIN store -> Objects] /\ DOMAIN store \subseteq Key
  <2>1. ASSUME NEW k \in DOMAIN store
        PROVE  k \in Key /\ store[k] \in Objects
    <3>1. PICK a \in 1..n : k \in {StagingKey(a), SealedKey(a, 1)}
      BY <1>7
    <3>2. k \in Key /\ k.asset = a
      BY <1>8, <3>1, KeyParts
    <3>3. rows[a].final.sha \in Contents /\ 0 \in Moments
      BY <1>5, Bounds DEF First, Moments
    <3>4. store[k] = [content |-> rows[a].final.sha, stored |-> 0]
      BY <1>6, <3>2
    <3>. QED
      BY <3>2, <3>3, <3>4 DEF Objects
  <2>. QED
    BY <1>6, <2>1
<1>11. made \in [Assets -> 0..MaxKeys]
  <2>1. ASSUME NEW a \in Assets
        PROVE  (IF a \in 1..n THEN 1 ELSE 0) \in 0..MaxKeys
    BY <1>8, Bounds
  <2>. QED
    BY <1>6, <2>1
<1>12. TypeInv
  <2>1. now \in Moments /\ 0 \in 0..ids /\ ids \in 0..plan.assets
    BY <1>2, <1>3, Bounds DEF Moments
  <2>2. job \in Jobs
    BY <1>2, <2>1 DEF Jobs, Nothing
  <2>3. NoCursor \in Cursors
    BY <1>2, <2>1 DEF NoCursor, Cursors, Nothing
  <2>4. ended \in [Parents -> Moments \cup {Never}]
    BY <1>2
  <2>5. there \subseteq Parents
    BY <1>2 DEF Parents
  <2>6. call \in [Callers -> {NoCall} \cup Calls]
    BY <1>2
  <2>7. DOMAIN rows \subseteq 1..ids /\ cover \in 0..ids
    BY <1>2, <1>4, <2>1 DEF Nothing
  <2>. QED
    BY <1>2, <1>9, <1>10, <1>11, <2>1, <2>2, <2>3, <2>4, <2>5, <2>6, <2>7 DEF TypeInv
<1>13. StoreInv
  <2>1. ASSUME NEW k \in DOMAIN store
        PROVE  Known(k)
    <3>1. PICK a \in 1..n : k \in {StagingKey(a), SealedKey(a, 1)}
      BY <1>7
    <3>2. a <= ids /\ 1 \in 1..made[a]
      BY <1>2, <1>5, <1>8
    <3>. QED
      BY <1>8, <3>1, <3>2, KeyParts DEF Known
  <2>. QED
    BY <1>2, <2>1 DEF StoreInv
<1>14. SweepInv
  BY <1>2 DEF SweepInv, NoCursor
<1>15. HostInv
  <2>1. ASSUME NEW a \in DOMAIN rows
        PROVE  ~ Deleted(rows[a]) /\ Published(rows[a])
    BY <1>4, <1>5 DEF First, Deleted, Published
  <2>. QED
    BY <1>2, <2>1 DEF HostInv
<1>16. JobInv
  <2>1. ended["project"] = Never
    BY <1>2 DEF Parents
  <2>. QED
    BY <1>2, <2>1 DEF JobInv, Nothing
<1>17. ASSUME NEW a \in DOMAIN rows
       PROVE  RowInv(a)
  <2>1. PICK r : r = rows[a]
    OBVIOUS
  <2>2. First(r, plan.files[a]) /\ made[a] = 1
    BY <1>4, <1>5, <1>8, <2>1
  <2>3. Published(r) /\ Stands(a, r.final.n, r.final.sha)
    BY <1>4, <1>8, <2>1, <2>2 DEF First, Published, Stands
  <2>4. r.host \in there /\ r.host \in HostsFor(r.purpose)
    BY <1>2, <1>3, <1>4, <2>2 DEF First
  <2>5. NamedOnce(r)
    BY <2>2, EmptyNamedOnce DEF First
  <2>. QED
    BY <2>1, <2>2, <2>3, <2>4, <2>5 DEF RowInv, First
<1>18. \A c \in Callers : CallInv(c)
  BY <1>2, NoCallIs DEF CallInv
<1>. QED
  BY <1>12, <1>13, <1>14, <1>15, <1>16, <1>17, <1>18 DEF IInv

-----------------------------------------------------------------------------
(* The theorems                                                              *)

LEMMA NextInv ==
    ASSUME IInv, [Next]_vars
    PROVE  IInv' /\ Keeps
<1>1. CASE Uploading
  BY <1>1, PrepareInv, StartUploadInv, UploadLandsInv, CopyLandsInv DEF Uploading
<1>2. CASE Publishing
  <2>1. PICK c \in Callers :
           \/ \E a \in Assets : ReserveComplete(c, a)
           \/ \E source, a \in Assets, purpose \in Purposes, host \in Parents :
                  ReserveDuplicate(c, source, a, purpose, host)
           \/ AskCopy(c) \/ CheckCopy(c) \/ Finish(c)
           \/ GiveUp(c)
    BY <1>2 DEF Publishing
  <2>2. CASE \E a \in Assets : ReserveComplete(c, a)
    BY <2>2, ReserveCompleteInv
  <2>3. CASE \E source, a \in Assets, purpose \in Purposes, host \in Parents :
                 ReserveDuplicate(c, source, a, purpose, host)
    BY <2>3, ReserveDuplicateInv
  <2>. QED
    BY <2>1, <2>2, <2>3, AskCopyInv, CheckCopyInv, FinishInv, GiveUpInv
<1>3. CASE Hosting
  <2>1. CASE \E a \in Assets : Delete(a) \/ PurgeRow(a)
    BY <2>1, DeleteInv, PurgeRowInv
  <2>2. CASE \E shown : SaveDraft(shown) \/ PublishDraft(shown) \/ BindContent(shown)
    BY <2>2, SaveDraftInv, PublishDraftInv, BindContentInv
  <2>3. CASE CreateIssue \/ DeleteProject \/ MarkScopePage
    BY <2>3, CreateIssueInv, DeleteProjectInv, MarkScopePageInv
  <2>4. CASE \E next \in Assets \cup {Nothing} : ReplaceCover(next)
    BY <2>4, ReplaceCoverInv
  <2>5. CASE \E h \in Parents : DeleteHost(h)
    BY <2>5, DeleteHostInv
  <2>. QED
    BY <1>3, <2>1, <2>2, <2>3, <2>4, <2>5 DEF Hosting
<1>4. CASE Sweeping
  BY <1>4, StartAttemptInv, ListRowsInv, ReadFactsInv, CleanRowInv, DropRecordInv, DeleteClaimedInv,
     ListObjectsInv, ReadReferencesInv, DeleteOrphanInv, CompleteInv, DeletionFailsInv, TimeOverInv,
     CrashInv DEF Sweeping
<1>5. CASE Tick
  BY <1>5, TickInv
<1>6. CASE UNCHANGED vars
  <2>1. /\ UNCHANGED <<plan, there, ended, cover, rows, ids, made, job>>
        /\ UNCHANGED <<cursor, step, at, page, facts, keys, dropping>>
        /\ UNCHANGED <<now, due, store, puts, copies, call>>
    BY <1>6 DEF vars, world, counts, storage, sweep
  <2>2. TypeInv /\ StoreInv
    BY DEF IInv
  <2>3. now \in Moments /\ now <= now'
    BY <2>1, <2>2, Bounds DEF TypeInv
  <2>4. StoreInv'
    BY <2>1, <2>2 DEF StoreInv, Known
  <2>5. StoreKeeps
    BY <2>1, SameStore
  <2>. QED
    BY <2>1, <2>2, <2>3, <2>4, <2>5, QuietStep DEF TypeInv
<1>. QED
  BY <1>1, <1>2, <1>3, <1>4, <1>5, <1>6 DEF Next

\* The inductive invariant holds throughout.
THEOREM Invariance == Spec => []IInv
<1>1. Init => IInv
  BY InitInv
<1>2. IInv /\ [Next]_vars => IInv'
  BY NextInv
<1>. QED
  BY <1>1, <1>2, PTL DEF Spec

\* The rows, the storage and the cursors of the sweep have their shape
\* (TypeOK): no row has too many candidates or names a key twice.
THEOREM TypeCorrect == Spec => []TypeOK
<1>1. IInv => TypeOK
  <2>1. SUFFICES ASSUME IInv
                 PROVE  TypeOK
    OBVIOUS
  <2>2. TypeInv
    BY <2>1 DEF IInv
  <2>3. ASSUME NEW a \in DOMAIN rows
        PROVE  RowOk(rows[a])
    <3>1. PICK r : r = rows[a]
      OBVIOUS
    <3>2. r \in Rows /\ NamedOnce(r) /\ r.host \in HostsFor(r.purpose)
      BY <2>1, <2>2, <3>1, RowIs DEF IInv, RowInv
    <3>3. /\ r.purpose \in AllPurposes /\ r.created \in Moments /\ r.deleted \in Moments \cup {Never}
          /\ r.bound \in BOOLEAN /\ r.uploaded \in BOOLEAN /\ r.staging \in Phases \cup {"none"}
          /\ r.candidates \subseteq Records
      BY <3>2, Fields
    <3>4. PICK S, T : S = r.candidates /\ T = {k.n : k \in r.candidates}
      OBVIOUS
    <3>5. IsFiniteSet(S) /\ Cardinality(S) <= MaxCandidates /\ Cardinality(S) \in Nat
      BY <3>2, <3>4, FS_CardinalityType DEF NamedOnce
    <3>6. PICK f : f = [k \in S |-> k.n]
      OBVIOUS
    <3>7. f \in Surjection(S, T)
      BY <3>4, <3>6 DEF Surjection
    <3>8. f \in Injection(S, T)
      <4>1. \A k, l \in S : k.n = l.n => k = l
        BY <3>2, <3>4 DEF NamedOnce
      <4>. QED
        BY <3>7, <3>6, <4>1 DEF Injection, IsInjective, Surjection
    <3>9. IsFiniteSet(T) /\ Cardinality(T) = Cardinality(S)
      BY <3>5, <3>7, <3>8, FS_Surjection
    <3>10. r.final.n \notin T
      BY <3>2, <3>4 DEF NamedOnce
    <3>11. Cardinality(T \cup {r.final.n}) = Cardinality(S) + 1
      BY <3>9, <3>10, FS_AddElement
    <3>. QED
      BY <3>1, <3>2, <3>3, <3>4, <3>5, <3>11 DEF RowOk
  <2>4. cover \in Assets \cup {Nothing}
    <3>1. \A x \in 0..ids : x = 0 \/ x \in 1..ids
      BY <2>2, IdsBound
    <3>. QED
      BY <2>2, <3>1, IdsBound DEF TypeInv, Nothing
  <2>5. {cursor.stage, at.stage} \subseteq {"none", "rows", "objects", "done"}
    BY <2>2 DEF TypeInv, Cursors
  <2>. QED
    BY <2>2, <2>3, <2>4, <2>5 DEF TypeOK, TypeInv
<1>. QED
  BY <1>1, Invariance, PTL

\* What a published file promises is in the storage for as long as it is not
\* deleted, and for the time a deleted one is kept (KeptIsThere): the sweep
\* marks a final object only of a row that was deleted long enough ago, and
\* deletes none that is not marked.
THEOREM KeptStands == Spec => []KeptIsThere
<1>1. IInv => KeptIsThere
  <2>1. SUFFICES ASSUME IInv, NEW a \in DOMAIN rows,
                        rows[a].uploaded, rows[a].deleted >= now - PurgeAfter
                 PROVE  /\ rows[a].final.n # 0
                        /\ SealedKey(a, rows[a].final.n) \in DOMAIN store
                        /\ store[SealedKey(a, rows[a].final.n)].content = rows[a].final.sha
                        /\ rows[a].final.sha \in Good
    BY DEF KeptIsThere
  <2>2. TypeInv /\ RowInv(a)
    BY <2>1 DEF IInv
  <2>3. rows[a].deleted \in Nat /\ now \in Nat /\ PurgeAfter \in Nat
    BY <2>2, RowIs, Fields, Bounds DEF TypeInv
  <2>4. Published(rows[a])
    BY <2>1, <2>2, <2>3 DEF RowInv
  <2>. QED
    BY <2>2, <2>4 DEF RowInv, Stands, Published
<1>. QED
  BY <1>1, Invariance, PTL

\* An image a content shows, or the cover, is published and not deleted while
\* its host stands (ShownIsKept), though the sweep decides by facts it read
\* before it locked the row.
THEOREM ShownStays == Spec => []ShownIsKept
<1>1. IInv => ShownIsKept
  BY DEF IInv, HostInv, Shown, ShownIsKept
<1>. QED
  BY <1>1, Invariance, PTL

\* The sweep takes no object for an orphan that a row names or comes to name
\* (OrphansAreNobodys): a key is named only by the transaction that makes it.
THEOREM OrphansStayNobodys == Spec => []OrphansAreNobodys
<1>1. IInv => OrphansAreNobodys
  BY DEF IInv, SweepInv, OrphansAreNobodys
<1>. QED
  BY <1>1, Invariance, PTL

\* When the job is done, every file of the deleted project counts as deleted
\* (ScopeIsEmptied), from whichever of its cursors its attempts went on.
THEOREM ScopeEmpties == Spec => []ScopeIsEmptied
<1>1. IInv => ScopeIsEmptied
  BY DEF IInv, JobInv, ScopeIsEmptied
<1>. QED
  BY <1>1, Invariance, PTL

\* The final object of a file never changes until it is collected, and a
\* deleted file stays deleted, at no later moment (PublishedOnce).
THEOREM PublishesOnce == Spec => PublishedOnce
<1>1. IInv /\ [Next]_vars => KeepsPublished
  BY NextInv DEF Keeps
<1>2. KeepsPublished =>
         [\A a \in DOMAIN rows \cap DOMAIN rows' :
             /\ rows[a].uploaded =>
                    /\ rows'[a].uploaded
                    /\ [rows'[a].final EXCEPT !.phase = "active"]
                           \in {[rows[a].final EXCEPT !.phase = "active"], NoFinal}
             /\ rows'[a].deleted <= rows[a].deleted]_vars
  BY DEF KeepsPublished
<1>. QED
  BY <1>1, <1>2, Invariance, PTL DEF Spec, PublishedOnce
=============================================================================
