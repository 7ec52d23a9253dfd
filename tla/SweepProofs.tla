----------------------------- MODULE SweepProofs ------------------------------
(***************************************************************************)
(* A cycle of the sweep forgets nothing: when it is over, all objects that *)
(* were due when it began are deleted, but for those the storage would not *)
(* delete and the rows that were being changed, for any number of files,   *)
(* requests, moments and attempts, and any plan.                           *)
(*                                                                         *)
(* An object that is due is nobody's and old, or claimed by the row of its *)
(* file, and remains so as long as it is there. That row comes after the   *)
(* cursor, and that object after both cursors of the inventory: the        *)
(* recorded one's and the running attempt's, which passes only what it has *)
(* dealt with.                                                             *)
(***************************************************************************)
EXTENDS AssetsProofs

-----------------------------------------------------------------------------
(* The inductive invariant                                                   *)

\* What the cycle has still to delete.
Outstanding == due \cap DOMAIN store

\* An old object that no row names.
Orphan(k, cutoff) == k \notin Referenced /\ Old(k, cutoff)

\* An object that the row of its file would claim.
Owed(k, cutoff) == k.asset \in DOMAIN rows /\ k \in Claims(k.asset, rows[k.asset], cutoff)

\* All that is to be deleted is ahead of the cursor.
Ahead(c) ==
    /\ c.stage = "rows" =>
           /\ c.token = Start /\ c.objectAfter = Start
           /\ \A k \in Outstanding :
                  Orphan(k, c.cutoff) \/ (c.after < k.asset /\ Owed(k, c.cutoff))
    /\ c.stage = "objects" =>
           \A k \in Outstanding :
               Orphan(k, c.cutoff) /\ Before(c.token, k) /\ Before(c.objectAfter, k)
    /\ c.stage = "done" => Outstanding = {}

\* A page of rows leaves none out.
NoGap == \A a \in DOMAIN rows, b \in DOMAIN page : at.after < a /\ a <= b => a \in DOMAIN page

RowsWork ==
    step \in {"listed", "rows", "reclaim", "drop"} => at.stage = "rows" /\ NoGap

\* Of the row it is at, the keys are at hand.
KeysWork ==
    /\ step \in {"reclaim", "drop"} =>
           \A k \in Outstanding : k.asset = Current => Orphan(k, at.cutoff) \/ k \in keys
    /\ step = "drop" => dropping \notin Outstanding

\* An orphan is at hand, or on a later page.
ObjectsWork ==
    step \in {"objects", "orphans"} =>
        /\ at.stage = "objects" /\ keys \subseteq page.objects
        /\ page.next # Start => \A l \in page.objects : l = page.next \/ Before(l, page.next)
        /\ \A k \in Outstanding : k \in keys \/ (page.next # Start /\ Before(page.next, k))

DueInv == Ahead(at) /\ Ahead(cursor) /\ RowsWork /\ KeysWork /\ ObjectsWork

-----------------------------------------------------------------------------
(* The order of the inventory                                                *)

LEMMA BeforeMeans ==
    ASSUME NEW k \in Key, NEW l \in Key
    PROVE  Before(k, l) <=>
               \/ k.kind = "o" /\ l.kind = "u"
               \/ k.kind = l.kind /\ k.asset < l.asset
               \/ k.kind = l.kind /\ k.asset = l.asset /\ k.n < l.n
<1>1. k.kind \in {"o", "u"} /\ l.kind \in {"o", "u"}
  BY KeyIs
<1>2. CASE k.kind = "o" /\ l.kind = "u"
  BY <1>2 DEF Before
<1>3. CASE k.kind = "u" /\ l.kind = "o"
  BY <1>3 DEF Before
<1>4. CASE k.kind = "o" /\ l.kind = "o"
  BY <1>4 DEF Before
<1>5. CASE k.kind = "u" /\ l.kind = "u"
  BY <1>5 DEF Before
<1>. QED
  BY <1>1, <1>2, <1>3, <1>4, <1>5

LEMMA StartIsFirst ==
    ASSUME NEW k \in Key
    PROVE  Before(Start, k) /\ k # Start
<1>1. k.kind \in {"o", "u"} /\ Start.kind = ""
  BY KeyIs DEF Start
<1>2. CASE k.kind = "o"
  <2>1. Before(Start, k)
    BY <1>1, <1>2 DEF Before
  <2>. QED
    BY <1>1, <1>2, <2>1
<1>3. CASE k.kind = "u"
  <2>1. Before(Start, k)
    BY <1>1, <1>3 DEF Before
  <2>. QED
    BY <1>1, <1>3, <2>1
<1>. QED
  BY <1>1, <1>2, <1>3

LEMMA BeforeNext ==
    ASSUME NEW k \in Key, NEW l \in Key, NEW m \in Key, Before(k, l), Before(l, m)
    PROVE  Before(k, m)
<1>1. /\ k.kind \in {"o", "u"} /\ l.kind \in {"o", "u"} /\ m.kind \in {"o", "u"}
      /\ k.asset \in Nat /\ l.asset \in Nat /\ m.asset \in Nat
      /\ k.n \in Nat /\ l.n \in Nat /\ m.n \in Nat
  BY KeyIs, Bounds
<1>2. Before(k, l) /\ Before(l, m)
  OBVIOUS
<1>. QED
  BY <1>1, <1>2, BeforeMeans

LEMMA BeforeOrAfter ==
    ASSUME NEW k \in Key, NEW l \in Key
    PROVE  k = l \/ Before(k, l) \/ Before(l, k)
<1>1. /\ k.kind \in {"o", "u"} /\ l.kind \in {"o", "u"} /\ k.asset \in Nat /\ l.asset \in Nat
      /\ k.n \in Nat /\ l.n \in Nat
  BY KeyIs, Bounds
<1>2. k.kind = l.kind /\ k.asset = l.asset /\ k.n = l.n => k = l
  BY DEF Key
<1>. QED
  BY <1>1, <1>2, BeforeMeans

LEMMA KeysAreFinite == IsFiniteSet(Key)
<1>1. PICK n : n = MaxKeys /\ n \in Nat
  BY Bounds
<1>2. IsFiniteSet({"o", "u"})
  <2>1. IsFiniteSet({"o"})
    BY FS_Singleton
  <2>2. IsFiniteSet({"o"} \cup {"u"})
    BY <2>1, FS_AddElement
  <2>3. {"o"} \cup {"u"} = {"o", "u"}
    OBVIOUS
  <2>. QED
    BY <2>2, <2>3
<1>3. IsFiniteSet(Assets) /\ IsFiniteSet(0..n)
  BY <1>1, AssetsAssumption, FS_Interval
<1>4. PICK S : S = ({"o", "u"} \X Assets) \X (0..n)
  OBVIOUS
<1>5. IsFiniteSet(S)
  BY <1>2, <1>3, <1>4, FS_Product
<1>6. PICK f : f = [x \in S |-> [kind |-> x[1][1], asset |-> x[1][2], n |-> x[2]]]
  OBVIOUS
<1>7. f \in Surjection(S, Key)
  <2>1. ASSUME NEW x \in S
        PROVE  f[x] \in Key
    BY <1>1, <1>4, <1>6 DEF Key
  <2>2. ASSUME NEW k \in Key
        PROVE  \E x \in S : f[x] = k
    <3>1. k.kind \in {"o", "u"} /\ k.asset \in Assets /\ k.n \in 0..n
      BY <1>1 DEF Key
    <3>2. PICK x \in S : x = <<<<k.kind, k.asset>>, k.n>>
      BY <1>4, <3>1
    <3>3. k = [kind |-> k.kind, asset |-> k.asset, n |-> k.n]
      BY DEF Key
    <3>. QED
      BY <1>6, <3>2, <3>3
  <2>. QED
    BY <1>6, <2>1, <2>2 DEF Surjection
<1>. QED
  BY <1>5, <1>7, FS_Surjection

-----------------------------------------------------------------------------
(* What a row no longer needs                                                *)

LEMMA ClaimsIs ==
    ASSUME NEW a, NEW row, NEW cutoff, NEW k
    PROVE  /\ k \in Claims(a, row, cutoff) <=>
                  \/ k = StagingKey(a) /\ StagingClaimed(row)
                  \/ k = SealedKey(a, row.final.n) /\ FinalClaimed(row, cutoff)
                  \/ \E l \in row.candidates : k = SealedKey(a, l.n) /\ CandidateClaimed(l)
           /\ k \in Claims(a, row, cutoff)' <=>
                  \/ k = StagingKey(a) /\ StagingClaimed(row)'
                  \/ k = SealedKey(a, row.final.n) /\ FinalClaimed(row, cutoff)'
                  \/ \E l \in row.candidates : k = SealedKey(a, l.n) /\ CandidateClaimed(l)'
BY DEF Claims

LEMMA ClaimsAreNamed ==
    ASSUME NEW a, NEW row, NEW cutoff, NEW k \in Claims(a, row, cutoff)
    PROVE  Names(row, a, k) /\ k.asset = a
<1>1. Names(row, a, k)
  BY ClaimsIs DEF Names, StagingClaimed, FinalClaimed
<1>. QED
  BY <1>1, NamesItsOwn

\* The row r became q: what it no longer needed, it still does not.
Lasting(r, q) ==
    /\ q.created = r.created /\ q.deleted <= r.deleted
    /\ r.staging # "none" => q.staging # "none"
    /\ r.uploaded => q.uploaded
    /\ Deleted(r) => q.final.n = r.final.n /\ q.final.lease = r.final.lease
    /\ \A l \in r.candidates : CandidateClaimed(l) =>
           \E m \in q.candidates : m.n = l.n /\ m.lease = l.lease

LEMMA ClaimsLast ==
    ASSUME now \in Nat, now' \in Nat, now <= now', NEW r \in Rows, NEW q \in Rows, Lasting(r, q),
           NEW a, NEW cutoff \in Moments, NEW k \in Claims(a, r, cutoff)
    PROVE  k \in Claims(a, q, cutoff)'
<1>1. /\ r.deleted \in Nat /\ q.deleted \in Nat /\ r.deleted <= Never /\ Never \in Nat
      /\ r.created \in Nat /\ cutoff \in Nat /\ cutoff < Never
      /\ {UploadTTL, Lease, Settle, PurgeAfter} \subseteq Nat /\ MaxTime \in Nat
  BY Fields, Bounds
<1>2. Deleted(r) => Deleted(q)
  BY <1>1 DEF Lasting, Deleted
<1>3. CASE k = StagingKey(a) /\ StagingClaimed(r)
  <2>1. StagingClaimed(q)'
    BY <1>1, <1>2, <1>3 DEF StagingClaimed, StagingSafe, UploadEnds, Lasting
  <2>. QED
    BY <1>3, <2>1, ClaimsIs
<1>4. CASE k = SealedKey(a, r.final.n) /\ FinalClaimed(r, cutoff)
  <2>1. r.final.lease \in Nat
    BY <1>1, Fields
  <2>2. Deleted(r)
    BY <1>1, <1>4 DEF FinalClaimed, Deleted
  <2>3. q.final.n = r.final.n /\ q.final.lease = r.final.lease /\ q.deleted <= r.deleted
    BY <2>2 DEF Lasting
  <2>4. FinalClaimed(q, cutoff)'
    BY <1>1, <1>4, <2>1, <2>3 DEF FinalClaimed, SafeAfter
  <2>. QED
    BY <1>4, <2>3, <2>4, ClaimsIs
<1>5. CASE \E l \in r.candidates : k = SealedKey(a, l.n) /\ CandidateClaimed(l)
  <2>1. PICK l \in r.candidates : k = SealedKey(a, l.n) /\ CandidateClaimed(l)
    BY <1>5
  <2>2. PICK m \in q.candidates : m.n = l.n /\ m.lease = l.lease
    BY <2>1 DEF Lasting
  <2>3. l.lease \in Nat
    BY <1>1, Fields
  <2>4. CandidateClaimed(m)'
    BY <1>1, <2>1, <2>2, <2>3 DEF CandidateClaimed, SafeAfter
  <2>. QED
    BY <2>1, <2>2, <2>4, ClaimsIs
<1>. QED
  BY <1>3, <1>4, <1>5, ClaimsIs

\* A row that keeps its keys, deleted or not.
LEMMA KeptLasts ==
    ASSUME NEW r \in Rows, NEW q, Kept(r, q)
    PROVE  q \in Rows /\ Lasting(r, q)
BY DEF Kept, Lasting

LEMMA SameLasts ==
    ASSUME NEW r \in Rows
    PROVE  Kept(r, r) /\ Lasting(r, r)
BY Fields DEF Kept, Lasting

-----------------------------------------------------------------------------
(* What was to be deleted still is                                           *)

StillDue ==
    /\ Outstanding' \subseteq Outstanding
    /\ \A k \in Outstanding', cutoff \in Moments :
           /\ Orphan(k, cutoff) => Orphan(k, cutoff)'
           /\ Owed(k, cutoff) => Owed(k, cutoff)'

\* The storage has no new object among those that were due.
StoreOnly ==
    /\ due' \subseteq due
    /\ \A k \in due' \cap DOMAIN store' : k \in DOMAIN store /\ store'[k] = store[k]

LEMMA OrphansLast ==
    ASSUME IInv, KeepsNames, StoreOnly, NEW k \in Outstanding', NEW cutoff, Orphan(k, cutoff)
    PROVE  Orphan(k, cutoff)'
<1>1. k \in DOMAIN store /\ store'[k] = store[k] /\ k \in due' \cap DOMAIN store'
  BY DEF StoreOnly, Outstanding
<1>2. k \in Key /\ Known(k)
  BY <1>1 DEF IInv, StoreInv, Known
<1>3. k \notin Referenced'
  BY <1>2 DEF KeepsNames, Orphan
<1>. QED
  BY <1>1, <1>3 DEF Orphan, Old

LEMMA RowsLast ==
    ASSUME IInv, KeepsNames, StoreOnly, now' \in Moments, now <= now',
           \A a \in DOMAIN rows :
               \/ a \in DOMAIN rows' /\ rows'[a] \in Rows /\ Lasting(rows[a], rows'[a])
               \/ KeysOf(a) = {}
    PROVE  StillDue
<1>1. TypeInv /\ now \in Nat /\ now' \in Nat
  BY Bounds DEF IInv, TypeInv
<1>2. Outstanding' \subseteq Outstanding
  BY DEF Outstanding, StoreOnly
<1>3. ASSUME NEW k, NEW cutoff \in Moments, Owed(k, cutoff)
      PROVE  Owed(k, cutoff)'
  <2>1. PICK a, r : a = k.asset /\ r = rows[a]
    OBVIOUS
  <2>2. a \in DOMAIN rows /\ k \in Claims(a, r, cutoff) /\ r \in Rows
    BY <1>1, <1>3, <2>1, RowIs DEF Owed
  <2>3. KeysOf(a) # {}
    <3>1. Names(r, a, k)
      BY <2>2, ClaimsAreNamed
    <3>. QED
      BY <2>1, <3>1 DEF Names, KeysOf
  <2>4. PICK q : q = rows'[a] /\ a \in DOMAIN rows' /\ q \in Rows /\ Lasting(r, q)
    BY <2>1, <2>2, <2>3
  <2>5. k \in Claims(a, q, cutoff)'
    BY <1>1, <2>2, <2>4, ClaimsLast
  <2>. QED
    BY <2>1, <2>4, <2>5 DEF Owed
<1>. QED
  BY <1>2, <1>3, OrphansLast DEF StillDue

\* A cursor that stays has everything ahead.
LEMMA AheadStays ==
    ASSUME StillDue, NEW c, c \in Cursors, Ahead(c)
    PROVE  Ahead(c)'
<1>1. c.cutoff \in Moments
  BY DEF Cursors
<1>. QED
  BY <1>1 DEF Ahead, StillDue

LEMMA CursorsStay ==
    ASSUME IInv, DueInv, StillDue
    PROVE  /\ cursor' = cursor => Ahead(cursor)'
           /\ at' = at => Ahead(at)'
<1>1. PICK c, d : c = cursor /\ d = at
  OBVIOUS
<1>2. c \in Cursors /\ d \in Cursors /\ Ahead(c) /\ Ahead(d)
  BY <1>1 DEF IInv, TypeInv, DueInv, Ahead
<1>3. Ahead(c)' /\ Ahead(d)'
  BY <1>2, AheadStays
<1>. QED
  BY <1>1, <1>3 DEF Ahead

\* The work of an attempt that stays where it is, beside files that are new.
LEMMA WorkStays ==
    ASSUME IInv, DueInv, StillDue, UNCHANGED <<step, at, page, keys, dropping>>,
           \A a \in DOMAIN rows' : a \in DOMAIN rows \/ (a \in Nat /\ ids < a)
    PROVE  RowsWork' /\ KeysWork' /\ ObjectsWork'
<1>1. TypeInv /\ SweepInv /\ RowsWork /\ KeysWork /\ ObjectsWork /\ Outstanding' \subseteq Outstanding
  BY DEF IInv, DueInv, StillDue
<1>2. PICK cutoff : cutoff = at.cutoff
  OBVIOUS
<1>3. cutoff \in Moments
  BY <1>1, <1>2, CursorIs DEF TypeInv
<1>4. RowsWork'
  <2>1. SUFFICES ASSUME step \in {"listed", "rows", "reclaim", "drop"}
                 PROVE  at.stage = "rows" /\ NoGap'
    BY DEF RowsWork
  <2>2. DOMAIN page \subseteq 1..ids /\ ids \in Nat
    BY <1>1, <2>1, IdsBound DEF SweepInv
  <2>3. ASSUME NEW a \in DOMAIN rows', NEW b \in DOMAIN page, at.after < a, a <= b
        PROVE  a \in DOMAIN page
    <3>1. b \in Nat /\ b <= ids
      BY <2>2
    <3>2. CASE a \in DOMAIN rows
      BY <1>1, <2>1, <2>3, <3>2 DEF RowsWork, NoGap
    <3>3. CASE a \in Nat /\ ids < a
      BY <2>2, <2>3, <3>1, <3>3
    <3>. QED
      BY <3>2, <3>3
  <2>. QED
    BY <1>1, <2>1, <2>3 DEF RowsWork, NoGap
<1>5. KeysWork'
  <2>1. Current' = Current
    BY DEF Current, Left
  <2>2. ASSUME step \in {"reclaim", "drop"}, NEW k \in Outstanding', k.asset = Current
        PROVE  Orphan(k, cutoff)' \/ k \in keys
    BY <1>1, <1>2, <1>3, <2>2 DEF KeysWork, StillDue
  <2>. QED
    BY <1>1, <1>2, <2>1, <2>2 DEF KeysWork, Orphan
<1>6. ObjectsWork'
  BY <1>1 DEF ObjectsWork
<1>. QED
  BY <1>4, <1>5, <1>6

\* A step beside the sweep.
LEMMA DueStays ==
    ASSUME IInv, DueInv, StillDue, UNCHANGED <<cursor, step, at, page, keys, dropping>>,
           \A a \in DOMAIN rows' : a \in DOMAIN rows \/ (a \in Nat /\ ids < a)
    PROVE  DueInv'
BY CursorsStay, WorkStays DEF DueInv

-----------------------------------------------------------------------------
(* What goes on beside the sweep                                             *)

LEMMA SameStillDue ==
    ASSUME IInv, KeepsNames, StoreOnly, rows' = rows, now' \in Moments, now <= now'
    PROVE  StillDue
<1>1. TypeInv
  BY DEF IInv
<1>2. \A a \in DOMAIN rows : rows[a] \in Rows /\ Lasting(rows[a], rows[a])
  BY <1>1, RowIs, SameLasts
<1>. QED
  BY <1>2, RowsLast

LEMMA SameRowsDue ==
    ASSUME IInv, DueInv, KeepsNames, StoreOnly, rows' = rows, now' \in Moments, now <= now',
           UNCHANGED <<cursor, step, at, page, keys, dropping>>
    PROVE  DueInv'
BY SameStillDue, DueStays

LEMMA SameStoreOnly ==
    ASSUME UNCHANGED <<store, due>>
    PROVE  StoreOnly
BY DEF StoreOnly

LEMMA LandsDue ==
    ASSUME IInv, DueInv, KeepsNames, NEW k, NEW object,
           store' = With(store, k, object), due' = due \ {k}, rows' = rows, now' = now,
           UNCHANGED <<cursor, step, at, page, keys, dropping>>
    PROVE  DueInv'
<1>1. StoreOnly
  BY DEF StoreOnly, With
<1>2. now' \in Moments /\ now <= now'
  BY Bounds DEF IInv, TypeInv
<1>. QED
  BY <1>1, <1>2, SameRowsDue

LEMMA QuietDue ==
    ASSUME IInv, DueInv, KeepsNames, UNCHANGED <<rows, store, sweep>>, now' \in Moments, now <= now'
    PROVE  DueInv'
<1>1. UNCHANGED <<cursor, step, at, page, keys, dropping, due>>
  BY DEF sweep
<1>. QED
  BY <1>1, SameStoreOnly, SameRowsDue

LEMMA UploadLandsDue ==
    ASSUME IInv, DueInv, KeepsNames, NEW put \in puts, UploadLands(put)
    PROVE  DueInv'
BY LandsDue DEF UploadLands, world

LEMMA CopyLandsDue ==
    ASSUME IInv, DueInv, KeepsNames, NEW copy \in copies, CopyLands(copy)
    PROVE  DueInv'
<1>1. UNCHANGED <<rows, now, cursor, step, at, page, keys, dropping>>
  BY DEF CopyLands, world
<1>2. CASE UNCHANGED <<store, due>>
  <2>1. now' \in Moments /\ now <= now'
    BY <1>1, Bounds DEF IInv, TypeInv
  <2>. QED
    BY <1>1, <1>2, <2>1, SameStoreOnly, SameRowsDue
<1>3. CASE ~ UNCHANGED <<store, due>>
  BY <1>1, <1>3, LandsDue DEF CopyLands
<1>. QED
  BY <1>2, <1>3

\* Rows that keep their keys.
LEMMA KeptDue ==
    ASSUME IInv, DueInv, KeepsNames, UNCHANGED <<now, storage, sweep>>,
           DOMAIN rows' \subseteq DOMAIN rows,
           \A a \in DOMAIN rows : \/ a \in DOMAIN rows' /\ Kept(rows[a], rows'[a])
                                  \/ KeysOf(a) = {}
    PROVE  DueInv'
<1>1. TypeInv /\ now' \in Moments /\ now <= now'
  BY Bounds DEF IInv, TypeInv
<1>2. UNCHANGED <<cursor, step, at, page, keys, dropping>> /\ UNCHANGED <<store, due>>
  BY DEF storage, sweep
<1>3. ASSUME NEW a \in DOMAIN rows
      PROVE  \/ a \in DOMAIN rows' /\ rows'[a] \in Rows /\ Lasting(rows[a], rows'[a])
             \/ KeysOf(a) = {}
  BY <1>1, RowIs, KeptLasts
<1>4. StillDue
  BY <1>1, <1>2, <1>3, SameStoreOnly, RowsLast
<1>. QED
  BY <1>2, <1>4, DueStays

\* The rows of some files are marked deleted, or shown by a content.
LEMMA MarkedDue ==
    ASSUME IInv, DueInv, KeepsNames, UNCHANGED <<now, storage, sweep>>,
           DOMAIN rows' = DOMAIN rows, NEW moment \in Moments,
           \A a \in DOMAIN rows :
               rows'[a] \in {rows[a], MarkDeleted(rows[a], moment), [rows[a] EXCEPT !.bound = TRUE]}
    PROVE  DueInv'
<1>1. TypeInv
  BY DEF IInv
<1>2. ASSUME NEW a \in DOMAIN rows
      PROVE  Kept(rows[a], rows'[a])
  BY <1>1, RowIs, SameLasts, MarkDeletedIs, BindingIs
<1>. QED
  BY <1>2, KeptDue

LEMMA HostingDue ==
    ASSUME IInv, DueInv, KeepsNames, Hosting
    PROVE  DueInv'
<1>1. TypeInv /\ now \in Moments /\ now <= now
  BY Bounds DEF IInv, TypeInv
<1>2. CASE \E a \in Assets : Delete(a)
  <2>1. PICK a \in Assets : Delete(a)
    BY <1>2
  <2>. QED
    BY <1>1, <2>1, MarkedDue DEF Delete, world
<1>3. CASE \E shown : SaveDraft(shown) \/ BindContent(shown)
  <2>1. PICK shown : SaveDraft(shown) \/ BindContent(shown)
    BY <1>3
  <2>2. UNCHANGED <<now, storage, sweep>>
        /\ rows' = [a \in DOMAIN rows |->
                       IF a \in shown THEN [rows[a] EXCEPT !.bound = TRUE] ELSE rows[a]]
    BY <2>1 DEF SaveDraft, BindContent, world
  <2>. QED
    BY <1>1, <2>2, MarkedDue
<1>4. CASE CreateIssue \/ DeleteProject
  BY <1>1, <1>4, QuietDue DEF CreateIssue, DeleteProject, storage
<1>5. CASE \E shown : PublishDraft(shown)
  <2>1. PICK shown : PublishDraft(shown)
    BY <1>5
  <2>2. PICK moving : moving = Undeleted(InHost("draft"))
    OBVIOUS
  <2>3. UNCHANGED <<now, storage, sweep>> /\ DOMAIN rows' = DOMAIN rows
    BY <2>1 DEF PublishDraft
  <2>4. ASSUME NEW a \in DOMAIN rows
        PROVE  Kept(rows[a], rows'[a])
    <3>1. PICK r, bound : r = rows[a] /\ bound = (r.bound \/ a \in shown \/ Ordinary(r))
      OBVIOUS
    <3>2. r \in Rows /\ bound \in BOOLEAN
      BY <1>1, <3>1, RowIs
    <3>3. PICK q : q = [r EXCEPT !.host = "issue", !.bound = bound]
      OBVIOUS
    <3>4. rows'[a] \in {r, q}
      BY <2>1, <2>2, <3>1, <3>3 DEF PublishDraft
    <3>5. q \in Rows
      BY <3>2, <3>3 DEF Rows, Parents
    <3>6. /\ q.purpose = r.purpose /\ q.created = r.created /\ q.uploaded = r.uploaded
          /\ q.staging = r.staging /\ q.final = r.final /\ q.candidates = r.candidates
          /\ q.deleted = r.deleted
      BY <3>2, <3>3 DEF Rows
    <3>7. Kept(r, q)
      BY <3>2, <3>5, <3>6, Fields DEF Kept
    <3>. QED
      BY <3>1, <3>2, <3>4, <3>7, SameLasts
  <2>. QED
    BY <2>3, <2>4, KeptDue
<1>6. CASE \E next \in Assets \cup {Nothing} : ReplaceCover(next)
  <2>1. PICK next \in Assets \cup {Nothing} : ReplaceCover(next)
    BY <1>6
  <2>2. UNCHANGED <<now, storage, sweep>> /\ DOMAIN rows' = DOMAIN rows
    BY <2>1 DEF ReplaceCover
  <2>3. \A a \in DOMAIN rows :
            rows'[a] \in {rows[a], MarkDeleted(rows[a], now), [rows[a] EXCEPT !.bound = TRUE]}
    BY <2>1 DEF ReplaceCover
  <2>. QED
    BY <1>1, <2>2, <2>3, MarkedDue
<1>7. CASE \E h \in Parents : DeleteHost(h)
  <2>1. PICK h \in Parents : DeleteHost(h)
    BY <1>7
  <2>2. UNCHANGED <<now, storage, sweep>>
        /\ rows' = [a \in DOMAIN rows |->
                       IF rows[a].host = h THEN MarkDeleted(rows[a], now) ELSE rows[a]]
    BY <2>1 DEF DeleteHost
  <2>. QED
    BY <1>1, <2>2, MarkedDue
<1>8. CASE MarkScopePage
  <2>1. UNCHANGED <<now, storage, sweep>>
    BY <1>8 DEF MarkScopePage, world
  <2>2. PICK moment : moment = ended["project"]
    OBVIOUS
  <2>3. moment \in Moments
    BY <1>1, <1>8, <2>2 DEF MarkScopePage, IInv, TypeInv, JobInv, Parents
  <2>4. PICK ps : ps = NextOf(job.after)
    OBVIOUS
  <2>5. \/ rows' = rows
        \/ rows' = [a \in DOMAIN rows |-> IF a \in ps THEN MarkDeleted(rows[a], moment) ELSE rows[a]]
    BY <1>8, <2>2, <2>4 DEF MarkScopePage
  <2>. QED
    BY <2>1, <2>3, <2>5, MarkedDue
<1>9. CASE \E a \in Assets : PurgeRow(a)
  <2>1. PICK a \in Assets : PurgeRow(a)
    BY <1>9
  <2>2. UNCHANGED <<now, storage, sweep>> /\ rows' = Restrict(rows, DOMAIN rows \ {a}) /\ KeysOf(a) = {}
    BY <2>1 DEF PurgeRow
  <2>3. \A b \in DOMAIN rows : Kept(rows[b], rows[b])
    BY <1>1, RowIs, SameLasts
  <2>. QED
    BY <2>2, <2>3, KeptDue DEF Restrict
<1>. QED
  BY <1>2, <1>3, <1>4, <1>5, <1>6, <1>7, <1>8, <1>9 DEF Hosting

\* One row changes, or is new.
LEMMA OneRowDue ==
    ASSUME IInv, DueInv, KeepsNames, UNCHANGED <<now, storage, sweep>>,
           NEW a, a \in DOMAIN rows \/ (a \in Nat /\ ids < a),
           DOMAIN rows' = DOMAIN rows \cup {a}, \A b \in DOMAIN rows \ {a} : rows'[b] = rows[b],
           a \in DOMAIN rows => rows'[a] \in Rows /\ Lasting(rows[a], rows'[a])
    PROVE  DueInv'
<1>1. TypeInv /\ now' \in Moments /\ now <= now'
  BY Bounds DEF IInv, TypeInv
<1>2. UNCHANGED <<cursor, step, at, page, keys, dropping>> /\ UNCHANGED <<store, due>>
  BY DEF storage, sweep
<1>3. ASSUME NEW b \in DOMAIN rows
      PROVE  b \in DOMAIN rows' /\ rows'[b] \in Rows /\ Lasting(rows[b], rows'[b])
  BY <1>1, RowIs, SameLasts
<1>4. StillDue
  BY <1>1, <1>2, <1>3, SameStoreOnly, RowsLast
<1>. QED
  BY <1>2, <1>4, DueStays

LEMMA PrepareDue ==
    ASSUME IInv, DueInv, KeepsNames, NEW a, NEW purpose, NEW host, Prepare(a, purpose, host)
    PROVE  DueInv'
<1>1. a = ids + 1 /\ a <= plan.assets /\ UNCHANGED <<now, storage, sweep>>
  BY DEF Prepare, world
<1>2. a \notin DOMAIN rows /\ a \in Nat /\ ids < a
  BY <1>1, NewAsset, IdsBound DEF IInv
<1>3. DOMAIN rows' = DOMAIN rows \cup {a} /\ \A b \in DOMAIN rows \ {a} : rows'[b] = rows[b]
  BY DEF Prepare, With
<1>. QED
  BY <1>1, <1>2, <1>3, OneRowDue

LEMMA ReserveDuplicateDue ==
    ASSUME IInv, DueInv, KeepsNames, NEW c, NEW source, NEW a, NEW purpose, NEW host,
           ReserveDuplicate(c, source, a, purpose, host)
    PROVE  DueInv'
<1>1. a = ids + 1 /\ a <= plan.assets /\ UNCHANGED <<now, storage, sweep>>
  BY DEF ReserveDuplicate, world
<1>2. a \notin DOMAIN rows /\ a \in Nat /\ ids < a
  BY <1>1, NewAsset, IdsBound DEF IInv
<1>3. DOMAIN rows' = DOMAIN rows \cup {a} /\ \A b \in DOMAIN rows \ {a} : rows'[b] = rows[b]
  BY DEF ReserveDuplicate, With
<1>. QED
  BY <1>1, <1>2, <1>3, OneRowDue

LEMMA ReserveCompleteDue ==
    ASSUME IInv, DueInv, KeepsNames, NEW c, NEW a \in Assets, ReserveComplete(c, a)
    PROVE  DueInv'
<1>1. TypeInv
  BY DEF IInv
<1>2. PICK r, k : r = rows[a] /\ k = Candidate(a)
  OBVIOUS
<1>3. PICK q : q = [r EXCEPT !.candidates = @ \cup {k}]
  OBVIOUS
<1>4. a \in DOMAIN rows /\ made[a] < plan.keys /\ UNCHANGED <<now, storage, sweep>>
  BY DEF ReserveComplete, Accessible, world
<1>5. rows' = [rows EXCEPT ![a] = q]
  <2>1. rows' = [rows EXCEPT ![a].candidates = @ \cup {k}]
    BY <1>2 DEF ReserveComplete
  <2>. QED
    BY <1>2, <1>3, <2>1
<1>6. r \in Rows /\ k \in Records
  BY <1>1, <1>2, <1>4, RowIs, CandidateIs
<1>7. /\ q \in Rows /\ q.candidates = r.candidates \cup {k} /\ q.created = r.created
      /\ q.deleted = r.deleted /\ q.uploaded = r.uploaded /\ q.staging = r.staging /\ q.final = r.final
  BY <1>3, <1>6 DEF Rows
<1>8. r.deleted \in Nat
  BY <1>6, Fields
<1>9. Lasting(r, q)
  BY <1>7, <1>8 DEF Lasting
<1>10. /\ DOMAIN rows' = DOMAIN rows \cup {a} /\ rows'[a] = q
       /\ \A b \in DOMAIN rows \ {a} : rows'[b] = rows[b]
  BY <1>4, <1>5
<1>. QED
  BY <1>2, <1>4, <1>7, <1>9, <1>10, OneRowDue

\* A candidate that is published was not due: its lease lasts.
LEMMA FinishDue ==
    ASSUME IInv, DueInv, KeepsNames, NEW c \in Callers, Finish(c)
    PROVE  DueInv'
<1>1. TypeInv /\ call[c].stage = "sealed" /\ now \in Nat /\ Settle \in Nat
  BY Bounds DEF IInv, Finish, TypeInv
<1>2. PICK a, n, lease, sha : /\ a = call[c].asset /\ n = call[c].n
                              /\ lease = call[c].lease /\ sha = call[c].sha
  OBVIOUS
<1>3. PICK r, q : r = rows[a] /\ q = PublishCandidate(r, c)
  OBVIOUS
<1>4. /\ a \in DOMAIN rows /\ ~ Deleted(r) /\ now < lease
      /\ \E k \in r.candidates : k.n = n /\ k.phase = "active" /\ k.lease = lease
      /\ rows' = [rows EXCEPT ![a] = q] /\ UNCHANGED <<now, storage, sweep>>
  BY <1>2, <1>3 DEF Finish, Accessible, StillReserved, world
<1>5. r \in Rows /\ NamedOnce(r)
  BY <1>1, <1>3, <1>4, RowIs DEF IInv, RowInv
<1>6. PublishedFrom(r, q, n, lease, sha)
  BY <1>1, <1>2, <1>3, <1>5, PublishCandidateIs
<1>7. /\ q \in Rows /\ q.created = r.created /\ q.deleted = r.deleted /\ q.staging = r.staging
      /\ q.uploaded /\ q.candidates = {k \in r.candidates : k.n # n}
  BY <1>6 DEF PublishedFrom
<1>8. ASSUME NEW l \in r.candidates, CandidateClaimed(l)
      PROVE  l \in q.candidates
  <2>1. l.n # n
    <3>1. SUFFICES ASSUME l.n = n
                   PROVE  FALSE
      OBVIOUS
    <3>2. l.lease = lease
      BY <1>4, <1>5, <3>1 DEF NamedOnce
    <3>3. l.lease \in Nat
      BY <1>5, Fields, Bounds
    <3>. QED
      BY <1>1, <1>4, <1>8, <3>2, <3>3 DEF CandidateClaimed, SafeAfter
  <2>. QED
    BY <1>7, <2>1
<1>9. r.deleted \in Nat
  BY <1>5, Fields
<1>10. Lasting(r, q)
  BY <1>4, <1>7, <1>8, <1>9 DEF Lasting
<1>11. /\ DOMAIN rows' = DOMAIN rows \cup {a} /\ rows'[a] = q
       /\ \A b \in DOMAIN rows \ {a} : rows'[b] = rows[b]
  BY <1>4
<1>. QED
  BY <1>3, <1>4, <1>7, <1>10, <1>11, OneRowDue

LEMMA UploadingDue ==
    ASSUME IInv, DueInv, KeepsNames, Uploading
    PROVE  DueInv'
<1>1. CASE \E a \in Assets, purpose \in Purposes, host \in Parents : Prepare(a, purpose, host)
  BY <1>1, PrepareDue
<1>2. CASE \E a \in Assets, content \in Contents : StartUpload(a, content)
  <2>1. UNCHANGED <<rows, store, sweep>> /\ now' \in Moments /\ now <= now'
    BY <1>2, Bounds DEF StartUpload, world, IInv, TypeInv
  <2>. QED
    BY <2>1, QuietDue
<1>. QED
  BY <1>1, <1>2, UploadLandsDue, CopyLandsDue DEF Uploading

LEMMA PublishingDue ==
    ASSUME IInv, DueInv, KeepsNames, Publishing
    PROVE  DueInv'
<1>1. PICK c \in Callers :
         \/ \E a \in Assets : ReserveComplete(c, a)
         \/ \E source, a \in Assets, purpose \in Purposes, host \in Parents :
                ReserveDuplicate(c, source, a, purpose, host)
         \/ AskCopy(c) \/ CheckCopy(c) \/ Finish(c)
         \/ GiveUp(c)
  BY DEF Publishing
<1>2. CASE \E a \in Assets : ReserveComplete(c, a)
  BY <1>2, ReserveCompleteDue
<1>3. CASE \E source, a \in Assets, purpose \in Purposes, host \in Parents :
               ReserveDuplicate(c, source, a, purpose, host)
  BY <1>3, ReserveDuplicateDue
<1>4. CASE AskCopy(c) \/ CheckCopy(c) \/ GiveUp(c)
  <2>1. UNCHANGED <<rows, store, sweep>> /\ now' \in Moments /\ now <= now'
    BY <1>4, Bounds DEF AskCopy, CheckCopy, GiveUp, storage, world, IInv, TypeInv
  <2>. QED
    BY <2>1, QuietDue
<1>. QED
  BY <1>1, <1>2, <1>3, <1>4, FinishDue

-----------------------------------------------------------------------------
(* What the sweep does                                                       *)

\* A step of the sweep takes no time.
LEMMA SweptDue ==
    ASSUME IInv, KeepsNames, StoreOnly, UNCHANGED <<rows, world>>
    PROVE  StillDue
<1>1. now' \in Moments /\ now <= now'
  BY Bounds DEF IInv, TypeInv, world
<1>. QED
  BY <1>1, SameStillDue

LEMMA FewerOnly ==
    ASSUME due' \subseteq due, NEW k, store' \in {store, Restrict(store, DOMAIN store \ {k})}
    PROVE  StoreOnly
BY DEF StoreOnly, Restrict

LEMMA OutstandingIsKnown ==
    ASSUME IInv, NEW k \in Outstanding
    PROVE  k \in Key /\ Known(k) /\ k.asset \in Nat /\ k.asset > 0
<1>1. k \in Key /\ Known(k)
  BY DEF IInv, StoreInv, Known, Outstanding
<1>. QED
  BY <1>1, KeyIs, Bounds

LEMMA StoppedDue ==
    ASSUME Stopped, Ahead(cursor)'
    PROVE  DueInv'
<1>1. at'.stage = "none" /\ step' = "none"
  BY DEF Stopped, NoCursor
<1>2. Ahead(at)'
  BY <1>1 DEF Ahead
<1>. QED
  BY <1>1, <1>2 DEF DueInv, RowsWork, KeysWork, ObjectsWork

LEMMA StartAttemptDue ==
    ASSUME IInv, DueInv, KeepsNames, StartAttempt
    PROVE  DueInv'
<1>1. TypeInv /\ step' = "look" /\ UNCHANGED <<now, rows, store, cursor>>
  BY DEF IInv, StartAttempt, world, storage
<1>2. CASE cursor.stage = "none"
  <2>1. at' = FreshCursor /\ due' = Due
    BY <1>2 DEF StartAttempt
  <2>2. /\ at'.stage = "rows" /\ at'.cutoff = now /\ at'.after = 0
        /\ at'.token = Start /\ at'.objectAfter = Start
    BY <2>1 DEF FreshCursor, NoCursor, Nothing
  <2>3. ASSUME NEW k \in Outstanding', ~ Orphan(k, at.cutoff)'
        PROVE  0 < k.asset /\ Owed(k, at.cutoff)'
    <3>1. k \in Due /\ ~ (k \notin Referenced /\ Old(k, now))
      BY <1>1, <2>1, <2>2, <2>3 DEF Outstanding, Orphan, Old, Referenced, KeysOf
    <3>2. PICK a \in DOMAIN rows : k \in Claims(a, rows[a], now)
      BY <3>1 DEF Due
    <3>3. k.asset = a
      BY <3>2, ClaimsAreNamed
    <3>4. Owed(k, now)
      BY <3>2, <3>3 DEF Owed
    <3>5. Owed(k, at.cutoff)'
      BY <1>1, <2>2, <3>4
         DEF Owed, Claims, StagingClaimed, StagingSafe, UploadEnds, FinalClaimed, CandidateClaimed, SafeAfter
    <3>6. a \in Assets /\ 0 < a
      BY <1>1, <3>2, RowIs, Bounds
    <3>. QED
      BY <3>3, <3>5, <3>6
  <2>4. Ahead(at)'
    BY <2>2, <2>3 DEF Ahead
  <2>5. Ahead(cursor)'
    BY <1>1, <1>2 DEF Ahead
  <2>. QED
    BY <1>1, <2>4, <2>5 DEF DueInv, RowsWork, KeysWork, ObjectsWork
<1>3. CASE cursor.stage # "none"
  <2>1. at' = cursor /\ due' = due
    BY <1>3 DEF StartAttempt
  <2>2. StillDue
    BY <1>1, <2>1, SameStoreOnly, SweptDue DEF StartAttempt
  <2>3. Ahead(cursor)'
    BY <1>1, <2>2, CursorsStay
  <2>4. Ahead(at)'
    BY <1>1, <2>1, <2>3 DEF Ahead
  <2>. QED
    BY <1>1, <2>3, <2>4 DEF DueInv, RowsWork, KeysWork, ObjectsWork
<1>. QED
  BY <1>2, <1>3

LEMMA ListRowsDue ==
    ASSUME IInv, DueInv, KeepsNames, ListRows
    PROVE  DueInv'
<1>1. /\ TypeInv /\ at \in Cursors /\ at.stage = "rows" /\ step = "look" /\ Ahead(at)
      /\ UNCHANGED <<world, rows, store, due, cursor, keys, dropping>>
  BY DEF IInv, TypeInv, DueInv, ListRows, storage
<1>2. StillDue
  BY <1>1, SameStoreOnly, SweptDue
<1>3. Ahead(cursor)'
  BY <1>1, <1>2, CursorsStay
<1>4. PICK c, ps : c = at /\ ps = NextOf(at.after)
  OBVIOUS
<1>5. c.after \in Nat /\ c.cutoff \in Moments
  BY <1>1, <1>4, IdsBound, CursorIs
<1>6. /\ ps \subseteq DOMAIN rows
      /\ ps = {} => \A a \in DOMAIN rows : a <= c.after
      /\ \A a \in DOMAIN rows, b \in ps : c.after < a /\ a <= b => a \in ps
  BY <1>1, <1>4, <1>5, NextOfIs, BatchIs
<1>7. CASE ps = {}
  <2>1. /\ at' = [c EXCEPT !.stage = "objects", !.after = Nothing] /\ step' = "look"
    BY <1>1, <1>4, <1>7 DEF ListRows
  <2>2. at'.stage = "objects" /\ at'.cutoff = c.cutoff /\ at'.token = Start /\ at'.objectAfter = Start
    BY <1>1, <1>4, <2>1 DEF Cursors, Ahead
  <2>3. ASSUME NEW k \in Outstanding'
        PROVE  Orphan(k, c.cutoff)' /\ Before(Start, k)
    <3>1. k \in Outstanding
      BY <1>2 DEF StillDue
    <3>2. k \in Key /\ k.asset \in Nat
      BY <3>1, OutstandingIsKnown
    <3>3. Orphan(k, c.cutoff) \/ (c.after < k.asset /\ k.asset \in DOMAIN rows)
      BY <1>1, <1>4, <3>1 DEF Ahead, Owed
    <3>4. Orphan(k, c.cutoff)
      BY <1>5, <1>6, <1>7, <3>2, <3>3
    <3>. QED
      BY <1>2, <1>5, <3>2, <3>4, StartIsFirst DEF StillDue
  <2>4. Ahead(at)'
    BY <2>2, <2>3 DEF Ahead
  <2>. QED
    BY <1>3, <2>1, <2>4 DEF DueInv, RowsWork, KeysWork, ObjectsWork
<1>8. CASE ps # {}
  <2>1. step' = "listed" /\ page' = Restrict(rows, ps) /\ at' = at
    BY <1>4, <1>8 DEF ListRows
  <2>2. DOMAIN page' = ps
    BY <1>6, <2>1 DEF Restrict
  <2>3. NoGap'
    BY <1>1, <1>4, <1>6, <2>1, <2>2 DEF NoGap
  <2>4. Ahead(at)'
    BY <1>2, <2>1, CursorsStay
  <2>. QED
    BY <1>1, <1>3, <2>1, <2>3, <2>4 DEF DueInv, RowsWork, KeysWork, ObjectsWork
<1>. QED
  BY <1>7, <1>8

LEMMA ReadFactsDue ==
    ASSUME IInv, DueInv, KeepsNames, ReadFacts
    PROVE  DueInv'
<1>1. /\ step = "listed" /\ step' = "rows" /\ RowsWork
      /\ UNCHANGED <<world, rows, store, due, cursor, at, page, keys, dropping>>
  BY DEF DueInv, ReadFacts, storage
<1>2. StillDue
  BY <1>1, SameStoreOnly, SweptDue
<1>3. RowsWork'
  BY <1>1 DEF RowsWork, NoGap
<1>. QED
  BY <1>1, <1>2, <1>3, CursorsStay DEF DueInv, KeysWork, ObjectsWork

\* All that is due of the current row is nobody's, or dealt with.
LEMMA RowDone ==
    ASSUME IInv, DueInv, StillDue, step \in {"rows", "reclaim", "drop"},
           NEW c, c = [at EXCEPT !.after = Current],
           \A k \in Outstanding' : k.asset = Current => Orphan(k, c.cutoff)'
    PROVE  c.stage = "rows" /\ c.cutoff = at.cutoff /\ c.after = Current /\ Ahead(c)'
<1>1. TypeInv /\ SweepInv /\ at \in Cursors /\ at.stage = "rows" /\ NoGap /\ Ahead(at)
  BY DEF IInv, TypeInv, DueInv, RowsWork
<1>2. DOMAIN page \subseteq 1..ids /\ Left # {}
  BY <1>1 DEF SweepInv
<1>3. /\ Current \in DOMAIN page /\ Current \in Nat /\ Current \in Left /\ Current \in 0..ids
      /\ \A a \in Left : Current <= a /\ a \in Nat
  BY <1>1, <1>2, CurrentIs
<1>4. /\ c.stage = "rows" /\ c.after = Current /\ c.cutoff = at.cutoff /\ c.token = Start
      /\ c.objectAfter = Start /\ c.cutoff \in Moments
  BY <1>1, <1>3 DEF Cursors, Ahead
<1>5. ASSUME NEW k \in Outstanding', ~ Orphan(k, c.cutoff)'
      PROVE  c.after < k.asset /\ Owed(k, c.cutoff)'
  <2>1. k \in Outstanding /\ ~ Orphan(k, c.cutoff)
    BY <1>4, <1>5 DEF StillDue
  <2>2. at.after < k.asset /\ Owed(k, c.cutoff) /\ k.asset \in DOMAIN rows
    BY <1>1, <1>4, <2>1 DEF Ahead, Owed
  <2>3. k.asset \in Nat
    BY <2>1, OutstandingIsKnown
  <2>4. k.asset # Current
    BY <1>5
  <2>5. ~ (k.asset < Current)
    <3>1. SUFFICES ASSUME k.asset < Current
                   PROVE  FALSE
      OBVIOUS
    <3>2. k.asset \in DOMAIN page
      BY <1>1, <1>3, <2>2, <2>3, <3>1 DEF NoGap
    <3>3. k.asset \in Left
      BY <2>2, <3>2 DEF Left
    <3>. QED
      BY <1>3, <2>3, <3>1, <3>3
  <2>6. Owed(k, c.cutoff)'
    BY <1>4, <1>5, <2>2 DEF StillDue
  <2>. QED
    BY <1>3, <1>4, <2>3, <2>4, <2>5, <2>6
<1>6. Ahead(c)'
  BY <1>4, <1>5 DEF Ahead
<1>. QED
  BY <1>4, <1>6

LEMMA OnwardDue ==
    ASSUME IInv, DueInv, StillDue, step \in {"rows", "drop"}, Onward, cursor' = cursor,
           DOMAIN rows' = DOMAIN rows, NEW cutoff, cutoff = at.cutoff,
           \A k \in Outstanding' : k.asset = Current => Orphan(k, cutoff)' \/ k \in keys'
    PROVE  DueInv'
<1>1. TypeInv /\ SweepInv /\ at \in Cursors /\ at.stage = "rows" /\ NoGap
  BY DEF IInv, TypeInv, DueInv, RowsWork
<1>2. DOMAIN page \subseteq 1..ids /\ Left # {}
  BY <1>1 DEF SweepInv
<1>3. Current \in Nat /\ Current \in Left /\ Current \in 0..ids /\ Current \in DOMAIN page
  BY <1>1, <1>2, CurrentIs
<1>4. Ahead(cursor)'
  BY CursorsStay
<1>5. CASE keys' # {}
  <2>1. step' = "reclaim" /\ UNCHANGED <<at, page>>
    BY <1>5 DEF Onward
  <2>2. Current' = Current
    BY <2>1 DEF Current, Left
  <2>3. RowsWork'
    BY <1>1, <2>1 DEF RowsWork, NoGap
  <2>4. KeysWork'
    BY <2>1, <2>2 DEF KeysWork, Orphan
  <2>5. Ahead(at)'
    BY <2>1, CursorsStay
  <2>. QED
    BY <1>4, <2>1, <2>3, <2>4, <2>5 DEF DueInv, ObjectsWork
<1>6. CASE keys' = {}
  <2>1. PICK c : c = [at EXCEPT !.after = Current]
    OBVIOUS
  <2>2. at' = c /\ step' \in {"look", "rows"} /\ (step' = "rows" => page' = page)
    BY <1>6, <2>1 DEF Onward
  <2>3. c.cutoff = cutoff
    BY <1>1, <2>1 DEF Cursors
  <2>4. c.stage = "rows" /\ c.after = Current /\ Ahead(c)'
    BY <1>6, <2>1, <2>3, RowDone
  <2>5. Ahead(at)'
    BY <2>2, <2>4 DEF Ahead
  <2>6. RowsWork'
    <3>1. SUFFICES ASSUME step' = "rows", NEW a \in DOMAIN rows, NEW b \in DOMAIN page,
                          Current < a, a <= b
                   PROVE  a \in DOMAIN page
      BY <2>2, <2>4 DEF RowsWork, NoGap
    <3>2. a \in Nat /\ at.after \in Nat
      BY <1>1, <3>1, RowIs, CursorIs, IdsBound
    <3>3. at.after < Current
      BY <1>3 DEF Left
    <3>4. at.after < a
      BY <1>3, <3>1, <3>2, <3>3
    <3>. QED
      BY <1>1, <3>1, <3>4 DEF NoGap
  <2>. QED
    BY <1>4, <2>2, <2>5, <2>6 DEF DueInv, KeysWork, ObjectsWork
<1>. QED
  BY <1>5, <1>6

LEMMA SameClaims ==
    ASSUME now' = now, NEW a, NEW row, NEW cutoff
    PROVE  Claims(a, row, cutoff)' = Claims(a, row, cutoff)
BY DEF Claims, StagingClaimed, StagingSafe, UploadEnds, FinalClaimed, CandidateClaimed, SafeAfter

LEMMA ClaimedLasts ==
    ASSUME NEW r \in Rows, NEW d, Kept(r, d), NEW q, NEW cutoff, Claimed(d, q, cutoff)
    PROVE  q \in Rows /\ Lasting(r, q)
<1>1. d \in Rows /\ d.candidates = r.candidates /\ r.candidates \subseteq Records
  BY Fields DEF Kept
<1>2. ASSUME NEW l \in r.candidates
      PROVE  \E m \in q.candidates : m.n = l.n /\ m.lease = l.lease
  <2>1. Looked(l) \in q.candidates
    BY <1>1 DEF Claimed
  <2>2. Looked(l).n = l.n /\ Looked(l).lease = l.lease
    BY <1>1 DEF Looked, Records
  <2>. QED
    BY <2>1, <2>2
<1>. QED
  BY <1>2 DEF Kept, Claimed, Lasting

LEMMA CleanRowDue ==
    ASSUME IInv, DueInv, KeepsNames, CleanRow
    PROVE  DueInv'
<1>1. /\ TypeInv /\ SweepInv /\ step = "rows" /\ Onward /\ at.stage = "rows" /\ Ahead(at)
      /\ UNCHANGED <<world, store, cursor>> /\ now' = now
  BY DEF IInv, CleanRow, DueInv, RowsWork, storage, world
<1>2. PICK a, cutoff : a = Current /\ cutoff = at.cutoff
  OBVIOUS
<1>3. cutoff \in Moments /\ now \in Nat /\ now' \in Moments /\ now <= now'
  BY <1>1, <1>2, CursorIs, Bounds DEF TypeInv
<1>4. CASE ~ Unchanged(a)
  <2>1. keys' = {} /\ due' = {k \in due : k.asset # a} /\ rows' = rows
    BY <1>2, <1>4 DEF CleanRow
  <2>2. StillDue
    BY <1>1, <2>1, SweptDue DEF StoreOnly
  <2>3. \A k \in Outstanding' : k.asset # a
    BY <2>1 DEF Outstanding
  <2>. QED
    BY <1>1, <1>2, <2>1, <2>2, <2>3, OnwardDue
<1>5. CASE Unchanged(a)
  <2>1. PICK r, d : r = rows[a] /\ d = DeletedBy(r, facts, cutoff)
    OBVIOUS
  <2>2. PICK q : q = Claim(d, cutoff)
    OBVIOUS
  <2>3. /\ a \in DOMAIN rows /\ rows' = [rows EXCEPT ![a] = q] /\ keys' = Claims(a, d, cutoff)
        /\ due' = due
    BY <1>2, <1>5, <2>1, <2>2 DEF CleanRow, Unchanged, Cleaned, ClaimedOf
  <2>4. r \in Rows
    BY <1>1, <2>1, <2>3, RowIs
  <2>5. Kept(r, d)
    BY <1>1, <1>3, <2>1, <2>4, DeletedByIs DEF SweepInv
  <2>6. d \in Rows /\ Lasting(r, d)
    BY <2>4, <2>5, KeptLasts
  <2>7. q \in Rows /\ Lasting(r, q)
    BY <2>2, <2>4, <2>5, <2>6, ClaimIs, ClaimedLasts
  <2>8. StillDue
    <3>1. StoreOnly
      BY <1>1, <2>3, SameStoreOnly
    <3>2. ASSUME NEW b \in DOMAIN rows
          PROVE  b \in DOMAIN rows' /\ rows'[b] \in Rows /\ Lasting(rows[b], rows'[b])
      <4>1. CASE b = a
        BY <2>1, <2>3, <2>7, <4>1
      <4>2. CASE b # a
        BY <1>1, <2>3, <4>2, RowIs, SameLasts
      <4>. QED
        BY <4>1, <4>2
    <3>. QED
      BY <1>3, <3>1, <3>2, RowsLast
  <2>9. ASSUME NEW k \in Outstanding', k.asset = a
        PROVE  Orphan(k, cutoff)' \/ k \in keys'
    <3>1. k \in Outstanding
      BY <2>8 DEF StillDue
    <3>2. CASE Orphan(k, cutoff)
      BY <1>3, <2>8, <2>9, <3>2 DEF StillDue
    <3>3. CASE Owed(k, cutoff)
      <4>1. k \in Claims(a, r, cutoff)
        BY <2>1, <2>9, <3>3 DEF Owed
      <4>2. k \in Claims(a, d, cutoff)'
        BY <1>1, <1>3, <2>4, <2>6, <4>1, ClaimsLast
      <4>. QED
        BY <1>1, <2>3, <4>2, SameClaims
    <3>. QED
      BY <1>1, <1>2, <3>1, <3>2, <3>3 DEF Ahead
  <2>10. DOMAIN rows' = DOMAIN rows
    BY <2>3
  <2>. QED
    BY <1>1, <1>2, <2>8, <2>9, <2>10, OnwardDue
<1>. QED
  BY <1>4, <1>5

LEMMA DeleteClaimedDue ==
    ASSUME IInv, DueInv, KeepsNames, NEW k \in keys, DeleteClaimed(k)
    PROVE  DueInv'
<1>1. /\ step = "reclaim" /\ step' = "drop" /\ dropping' = k
      /\ store' = Restrict(store, DOMAIN store \ {k})
      /\ UNCHANGED <<world, rows, cursor, at, page, keys, due>>
      /\ RowsWork /\ KeysWork
  BY DEF DueInv, DeleteClaimed
<1>2. StillDue
  <2>1. due' \subseteq due /\ store' \in {store, Restrict(store, DOMAIN store \ {k})}
    BY <1>1
  <2>2. StoreOnly
    BY <2>1, FewerOnly
  <2>. QED
    BY <1>1, <2>2, SweptDue
<1>3. RowsWork'
  BY <1>1 DEF RowsWork, NoGap
<1>4. KeysWork'
  <2>1. k \notin Outstanding'
    BY <1>1 DEF Outstanding, Restrict
  <2>2. PICK cutoff : cutoff = at.cutoff
    OBVIOUS
  <2>3. cutoff \in Moments
    BY <2>2, CursorIs DEF IInv, TypeInv
  <2>4. Current' = Current
    BY <1>1 DEF Current, Left
  <2>5. \A l \in Outstanding' : l.asset = Current => Orphan(l, cutoff)' \/ l \in keys
    BY <1>1, <1>2, <2>2, <2>3 DEF KeysWork, StillDue
  <2>. QED
    BY <1>1, <2>1, <2>2, <2>4, <2>5 DEF KeysWork, Orphan
<1>. QED
  BY <1>1, <1>2, <1>3, <1>4, CursorsStay DEF DueInv, ObjectsWork

\* A record that is removed takes no other key along.
LEMMA OthersStay ==
    ASSUME NEW a, NEW r \in Rows, NEW k \in Key, Known(k), k.asset = a, NEW cutoff,
           NEW j \in Claims(a, r, cutoff), j # k
    PROVE  j \in Claims(a, RemoveReclaimed(r, k), cutoff)
<1>1. PICK q : q = RemoveReclaimed(r, k)
  OBVIOUS
<1>2. /\ k.kind = "o" => k = SealedKey(a, k.n)
      /\ k.kind # "o" => k = StagingKey(a)
  BY KeyIs DEF Known
<1>3. CASE k.kind = "u"
  <2>1. PICK staging : q = [r EXCEPT !.staging = staging]
    BY <1>1, <1>3 DEF RemoveReclaimed
  <2>2. q.final = r.final /\ q.candidates = r.candidates /\ q.deleted = r.deleted
    BY <2>1 DEF Rows
  <2>3. j # StagingKey(a)
    BY <1>2, <1>3
  <2>. QED
    BY <1>1, <2>2, <2>3, ClaimsIs DEF FinalClaimed
<1>4. CASE k.kind # "u" /\ r.final.n = k.n /\ r.final.phase = "reclaiming"
  <2>1. q = [r EXCEPT !.final = NoFinal]
    BY <1>1, <1>4 DEF RemoveReclaimed
  <2>2. /\ q.staging = r.staging /\ q.candidates = r.candidates /\ q.deleted = r.deleted
        /\ q.created = r.created /\ q.uploaded = r.uploaded
    BY <2>1 DEF Rows
  <2>3. j # SealedKey(a, r.final.n)
    BY <1>2, <1>4, KeyIs
  <2>. QED
    BY <1>1, <2>2, <2>3, ClaimsIs DEF StagingClaimed, StagingSafe, UploadEnds, Deleted
<1>5. CASE k.kind # "u" /\ ~ (r.final.n = k.n /\ r.final.phase = "reclaiming")
  <2>1. PICK S : S = {l \in r.candidates : l.n # k.n \/ l.phase # "reclaiming"}
    OBVIOUS
  <2>2. q = [r EXCEPT !.candidates = S]
    BY <1>1, <1>5, <2>1 DEF RemoveReclaimed
  <2>3. /\ q.staging = r.staging /\ q.candidates = S /\ q.deleted = r.deleted
        /\ q.created = r.created /\ q.uploaded = r.uploaded /\ q.final = r.final
    BY <2>2 DEF Rows
  <2>4. \A l \in r.candidates : j = SealedKey(a, l.n) => l.n # k.n
    BY <1>2, <1>5, KeyIs
  <2>5. \A l \in r.candidates : j = SealedKey(a, l.n) => l \in q.candidates
    BY <2>1, <2>3, <2>4
  <2>. QED
    BY <1>1, <2>3, <2>5, ClaimsIs DEF StagingClaimed, StagingSafe, UploadEnds, FinalClaimed, Deleted
<1>. QED
  BY <1>3, <1>4, <1>5

LEMMA DropRecordDue ==
    ASSUME IInv, DueInv, KeepsNames, DropRecord
    PROVE  DueInv'
<1>1. /\ TypeInv /\ SweepInv /\ KeysWork /\ step = "drop" /\ Onward /\ keys' = keys \ {dropping}
      /\ UNCHANGED <<world, store, cursor, due>> /\ now' = now
  BY DEF IInv, DropRecord, DueInv, storage, world
<1>2. PICK k, a : k = dropping /\ a = k.asset
  OBVIOUS
<1>3. k \in Key /\ Known(k) /\ k \notin Outstanding
  BY <1>1, <1>2 DEF SweepInv, TypeInv, KeysWork
<1>4. Outstanding' = Outstanding /\ StoreOnly
  BY <1>1, SameStoreOnly DEF Outstanding
<1>5. DOMAIN rows' = DOMAIN rows
  BY DEF DropRecord
<1>6. ASSUME NEW j \in Outstanding, NEW cutoff \in Moments, Owed(j, cutoff)
      PROVE  Owed(j, cutoff)'
  <2>1. PICK b, r : b = j.asset /\ r = rows[b]
    OBVIOUS
  <2>2. b \in DOMAIN rows /\ j \in Claims(b, r, cutoff) /\ r \in Rows
    BY <1>1, <1>6, <2>1, RowIs DEF Owed
  <2>3. CASE b = a
    <3>1. PICK q : q = RemoveReclaimed(r, k)
      OBVIOUS
    <3>2. rows' = [rows EXCEPT ![a] = q]
      BY <1>2, <2>1, <2>2, <2>3, <3>1 DEF DropRecord
    <3>3. rows'[b] = q
      BY <2>2, <2>3, <3>2
    <3>4. j \in Claims(b, q, cutoff)
      BY <1>2, <1>3, <2>2, <2>3, <3>1, OthersStay
    <3>5. j \in Claims(b, q, cutoff)'
      BY <1>1, <3>4, SameClaims
    <3>. QED
      BY <1>5, <2>1, <2>2, <3>3, <3>5 DEF Owed
  <2>4. CASE b # a
    <3>1. rows'[b] = r
      BY <1>2, <2>1, <2>2, <2>4 DEF DropRecord
    <3>2. j \in Claims(b, r, cutoff)'
      BY <1>1, <2>2, SameClaims
    <3>. QED
      BY <1>5, <2>1, <2>2, <3>1, <3>2 DEF Owed
  <2>. QED
    BY <2>3, <2>4
<1>7. StillDue
  BY <1>4, <1>6, OrphansLast DEF StillDue
<1>8. PICK cutoff : cutoff = at.cutoff
  OBVIOUS
<1>9. cutoff \in Moments
  BY <1>1, <1>8, CursorIs DEF TypeInv
<1>10. \A j \in Outstanding' : j.asset = Current => Orphan(j, cutoff)' \/ j \in keys'
  BY <1>1, <1>2, <1>3, <1>4, <1>7, <1>8, <1>9 DEF KeysWork, StillDue
<1>. QED
  BY <1>1, <1>5, <1>7, <1>8, <1>10, OnwardDue

\* A page of the inventory leaves out only what comes after it.
LEMMA ListedIsFirst ==
    ASSUME TypeInv, NEW last \in Listed, \A l \in Listed \ {last} : Before(l, last),
           NEW k \in DOMAIN store \ Listed, Before(at.token, k)
    PROVE  Before(last, k)
<1>1. last \in Key /\ k \in Key /\ last # k /\ last \in DOMAIN store /\ DOMAIN store \subseteq Key
  BY ListedIs DEF TypeInv
<1>2. SUFFICES ASSUME Before(k, last)
               PROVE  FALSE
  BY <1>1, BeforeOrAfter
<1>3. PICK S, T : /\ S = {l \in DOMAIN store : Before(at.token, l) /\ Before(l, k)}
                  /\ T = {l \in DOMAIN store : Before(at.token, l) /\ Before(l, last)}
  OBVIOUS
<1>4. S \subseteq T
  <2>1. ASSUME NEW l \in DOMAIN store, Before(l, k)
        PROVE  Before(l, last)
    BY <1>1, <1>2, <2>1, BeforeNext
  <2>. QED
    BY <1>3, <2>1
<1>5. IsFiniteSet(T)
  <2>1. T \subseteq Key
    BY <1>1, <1>3
  <2>. QED
    BY <2>1, KeysAreFinite, FS_Subset
<1>6. Cardinality(S) \in Nat /\ Cardinality(T) \in Nat /\ Cardinality(S) <= Cardinality(T)
  BY <1>4, <1>5, FS_Subset, FS_CardinalityType
<1>7. Cardinality(T) < plan.batch /\ plan.batch \in Nat
  BY <1>3, BatchIs DEF Listed
<1>8. Cardinality(S) < plan.batch
  BY <1>6, <1>7
<1>9. k \in Listed
  BY <1>3, <1>8 DEF Listed
<1>. QED
  BY <1>9

LEMMA ListObjectsDue ==
    ASSUME IInv, DueInv, KeepsNames, ListObjects
    PROVE  DueInv'
<1>1. /\ TypeInv /\ step = "look" /\ at.stage = "objects" /\ step' = "objects" /\ Ahead(at)
      /\ UNCHANGED <<world, rows, store, due, cursor, at>>
  BY DEF IInv, DueInv, ListObjects, storage
<1>2. StillDue
  BY <1>1, SameStoreOnly, SweptDue
<1>3. PICK next : next = IF \E k \in DOMAIN store \ Listed : Before(at.token, k)
                         THEN CHOOSE k \in Listed : \A l \in Listed \ {k} : Before(l, k)
                         ELSE Start
  OBVIOUS
<1>4. /\ keys' = {k \in Listed : Before(at.objectAfter, k) /\ Old(k, at.cutoff)}
      /\ page' = [objects |-> Listed, next |-> next]
  BY <1>3 DEF ListObjects
<1>5. Listed \subseteq DOMAIN store /\ Listed \subseteq Key
  BY <1>1, ListedIs
<1>6. ASSUME \E k \in DOMAIN store \ Listed : Before(at.token, k)
      PROVE  next \in Listed /\ \A l \in Listed \ {next} : Before(l, next)
  <2>1. Listed # {}
    BY <1>1, <1>6, ListedIs
  <2>2. \E k \in Listed : \A l \in Listed \ {k} : Before(l, k)
    BY <1>5, <2>1, LastKey
  <2>3. next = CHOOSE k \in Listed : \A l \in Listed \ {k} : Before(l, k)
    BY <1>3, <1>6
  <2>. QED
    BY <2>2, <2>3
<1>7. ASSUME NEW k \in Outstanding
      PROVE  k \in keys' \/ (next # Start /\ Before(next, k))
  <2>1. /\ k \in DOMAIN store /\ Old(k, at.cutoff) /\ Before(at.token, k)
        /\ Before(at.objectAfter, k)
    BY <1>1, <1>7 DEF Ahead, Orphan, Outstanding
  <2>2. CASE k \in Listed
    BY <1>4, <2>1, <2>2
  <2>3. CASE k \notin Listed
    <3>1. next \in Listed /\ \A l \in Listed \ {next} : Before(l, next)
      BY <1>6, <2>1, <2>3
    <3>2. Before(next, k)
      BY <1>1, <2>1, <2>3, <3>1, ListedIsFirst
    <3>. QED
      BY <1>5, <3>1, <3>2, StartIsFirst
  <2>. QED
    BY <2>2, <2>3
<1>8. Outstanding' = Outstanding
  BY <1>1 DEF Outstanding
<1>9. next # Start => \A l \in Listed : l = next \/ Before(l, next)
  BY <1>3, <1>6
<1>10. ObjectsWork'
  BY <1>1, <1>4, <1>7, <1>8, <1>9 DEF ObjectsWork
<1>. QED
  BY <1>1, <1>2, <1>10, CursorsStay DEF DueInv, RowsWork, KeysWork

\* A page of orphans is dealt with up to a key.
LEMMA OrphansDue ==
    ASSUME IInv, DueInv, StillDue, step \in {"objects", "orphans"}, NEW key \in Key \cup {Start},
           PageOnward(key), cursor' = cursor, keys' \subseteq keys,
           \A k \in Outstanding' :
               Before(key, k) /\ (k \in keys' \/ (page.next # Start /\ Before(page.next, k)))
    PROVE  DueInv'
<1>1. TypeInv /\ at \in Cursors /\ Ahead(at) /\ ObjectsWork /\ at.stage = "objects"
  BY DEF IInv, TypeInv, DueInv, ObjectsWork
<1>2. PICK c : c = at
  OBVIOUS
<1>3. c.cutoff \in Moments
  BY <1>1, <1>2, CursorIs
<1>4. ASSUME NEW k \in Outstanding'
      PROVE  Orphan(k, c.cutoff)' /\ Before(c.token, k) /\ Before(Start, k)
  <2>1. k \in Outstanding
    BY DEF StillDue
  <2>2. k \in Key
    BY <2>1, OutstandingIsKnown
  <2>3. Orphan(k, c.cutoff) /\ Before(c.token, k)
    BY <1>1, <1>2, <2>1 DEF Ahead
  <2>. QED
    BY <1>3, <2>2, <2>3, StartIsFirst DEF StillDue
<1>5. Ahead(cursor)'
  BY CursorsStay
<1>6. CASE keys' # {}
  <2>1. step' = "orphans" /\ page' = page /\ at' = [c EXCEPT !.objectAfter = key]
    BY <1>2, <1>6 DEF PageOnward
  <2>2. at'.stage = "objects" /\ at'.cutoff = c.cutoff /\ at'.token = c.token /\ at'.objectAfter = key
    BY <1>1, <1>2, <2>1 DEF Cursors
  <2>3. Ahead(at)'
    BY <1>4, <2>2 DEF Ahead
  <2>4. ObjectsWork'
    BY <1>1, <2>1, <2>2 DEF ObjectsWork
  <2>. QED
    BY <1>5, <2>1, <2>3, <2>4 DEF DueInv, RowsWork, KeysWork
<1>7. CASE keys' = {}
  <2>1. step' = "look"
        /\ at' = [c EXCEPT !.token = page.next, !.objectAfter = Start,
                           !.stage = IF page.next = Start THEN "done" ELSE "objects"]
    BY <1>2, <1>7 DEF PageOnward
  <2>2. /\ at'.stage = (IF page.next = Start THEN "done" ELSE "objects")
        /\ at'.cutoff = c.cutoff /\ at'.token = page.next /\ at'.objectAfter = Start
    BY <1>1, <1>2, <2>1 DEF Cursors
  <2>3. Ahead(at)'
    BY <1>4, <1>7, <2>2 DEF Ahead
  <2>. QED
    BY <1>5, <2>1, <2>3 DEF DueInv, RowsWork, KeysWork, ObjectsWork
<1>. QED
  BY <1>6, <1>7

LEMMA ReadReferencesDue ==
    ASSUME IInv, DueInv, KeepsNames, ReadReferences
    PROVE  DueInv'
<1>1. /\ TypeInv /\ at \in Cursors /\ step = "objects" /\ keys' = keys \ Referenced
      /\ PageOnward(at.objectAfter) /\ UNCHANGED <<world, rows, store, due, cursor>>
      /\ Ahead(at) /\ ObjectsWork /\ at.stage = "objects"
  BY DEF IInv, TypeInv, DueInv, ObjectsWork, ReadReferences, storage
<1>2. StillDue
  BY <1>1, SameStoreOnly, SweptDue
<1>3. PICK key : key = at.objectAfter
  OBVIOUS
<1>4. key \in Key \cup {Start}
  BY <1>1, <1>3, CursorIs
<1>5. ASSUME NEW k \in Outstanding'
      PROVE  Before(key, k) /\ (k \in keys' \/ (page.next # Start /\ Before(page.next, k)))
  <2>1. k \in Outstanding
    BY <1>2 DEF StillDue
  <2>. QED
    BY <1>1, <1>3, <2>1 DEF Ahead, ObjectsWork, Orphan
<1>. QED
  BY <1>1, <1>2, <1>3, <1>4, <1>5, OrphansDue

\* The orphans go in their order.
LEMMA OrphansInOrder ==
    ASSUME IInv, DueInv, step = "orphans"
    PROVE  /\ NextOrphan \in keys /\ NextOrphan \in Key
           /\ \A k \in Outstanding \ {NextOrphan} : Before(NextOrphan, k)
<1>1. TypeInv /\ keys # {} /\ keys \subseteq Key /\ ObjectsWork /\ page.next \in Key \cup {Start}
  BY DEF IInv, TypeInv, SweepInv, DueInv
<1>2. \E k \in keys : \A l \in keys \ {k} : Before(k, l)
  BY <1>1, FirstKey
<1>3. NextOrphan \in keys /\ \A l \in keys \ {NextOrphan} : Before(NextOrphan, l)
  BY <1>2 DEF NextOrphan
<1>4. PICK first, next : first = NextOrphan /\ next = page.next
  OBVIOUS
<1>5. ASSUME NEW k \in Outstanding, k # first
      PROVE  Before(first, k)
  <2>1. CASE k \in keys
    BY <1>3, <1>4, <1>5, <2>1
  <2>2. CASE k \notin keys
    <3>1. next # Start /\ Before(next, k) /\ (first = next \/ Before(first, next))
      BY <1>1, <1>3, <1>4, <2>2 DEF ObjectsWork
    <3>2. k \in Key /\ first \in Key /\ next \in Key
      BY <1>1, <1>3, <1>4, <3>1, OutstandingIsKnown
    <3>. QED
      BY <3>1, <3>2, BeforeNext
  <2>. QED
    BY <2>1, <2>2
<1>. QED
  BY <1>1, <1>3, <1>4, <1>5

LEMMA DeleteOrphanDue ==
    ASSUME IInv, DueInv, KeepsNames, DeleteOrphan
    PROVE  DueInv'
<1>1. PICK first : first = NextOrphan
  OBVIOUS
<1>2. /\ step = "orphans" /\ keys' = keys \ {first} /\ PageOnward(first) /\ ObjectsWork
      /\ store' = Restrict(store, DOMAIN store \ {first})
      /\ UNCHANGED <<world, rows, due, cursor>>
  BY <1>1 DEF DueInv, DeleteOrphan
<1>3. first \in Key /\ \A k \in Outstanding \ {first} : Before(first, k)
  BY <1>1, <1>2, OrphansInOrder
<1>4. StillDue
  <2>1. StoreOnly
    BY <1>2 DEF StoreOnly, Restrict
  <2>. QED
    BY <1>2, <2>1, SweptDue
<1>5. ASSUME NEW k \in Outstanding'
      PROVE  Before(first, k) /\ (k \in keys' \/ (page.next # Start /\ Before(page.next, k)))
  <2>1. k \in Outstanding /\ k # first
    BY <1>2, <1>4 DEF StillDue, Outstanding, Restrict
  <2>. QED
    BY <1>2, <1>3, <2>1 DEF ObjectsWork
<1>. QED
  BY <1>2, <1>3, <1>4, <1>5, OrphansDue

-----------------------------------------------------------------------------
(* How an attempt ends                                                       *)

LEMMA CompleteDue ==
    ASSUME Complete
    PROVE  DueInv'
<1>1. cursor'.stage = "none"
  BY DEF Complete, NoCursor
<1>2. Ahead(cursor)'
  BY <1>1 DEF Ahead
<1>. QED
  BY <1>2, StoppedDue DEF Complete

LEMMA CrashDue ==
    ASSUME IInv, DueInv, KeepsNames, Crash
    PROVE  DueInv'
<1>1. UNCHANGED <<world, rows, store, due, cursor>>
  BY DEF Crash, storage
<1>2. StillDue
  BY <1>1, SameStoreOnly, SweptDue
<1>. QED
  BY <1>1, <1>2, CursorsStay, StoppedDue DEF Crash

\* A cursor of the inventory that has passed up to a key.
LEMMA AheadOf ==
    ASSUME IInv, DueInv, StillDue, step = "orphans", NEW key,
           NEW c, c = [at EXCEPT !.objectAfter = key], \A k \in Outstanding' : Before(key, k)
    PROVE  Ahead(c)'
<1>1. at \in Cursors /\ at.stage = "objects" /\ Ahead(at)
  BY DEF IInv, TypeInv, DueInv, ObjectsWork
<1>2. PICK a : a = at
  OBVIOUS
<1>3. c.stage = "objects" /\ c.cutoff = a.cutoff /\ c.token = a.token /\ c.objectAfter = key
      /\ a.cutoff \in Moments
  BY <1>1, <1>2 DEF Cursors
<1>4. \A k \in Outstanding' : Orphan(k, a.cutoff)' /\ Before(a.token, k)
  BY <1>1, <1>2, <1>3 DEF Ahead, StillDue
<1>. QED
  BY <1>3, <1>4 DEF Ahead

LEMMA TimeOverDue ==
    ASSUME IInv, DueInv, KeepsNames, TimeOver
    PROVE  DueInv'
<1>1. UNCHANGED <<world, rows, store, due>> /\ Stopped
  BY DEF TimeOver, storage
<1>2. StillDue
  BY <1>1, SameStoreOnly, SweptDue
<1>3. PICK c, d : c = at /\ d = cursor'
  OBVIOUS
<1>4. Ahead(d)'
  <2>1. CASE d = c
    <3>1. c \in Cursors /\ Ahead(c)
      BY <1>3 DEF IInv, TypeInv, DueInv, Ahead
    <3>. QED
      BY <1>2, <2>1, <3>1, AheadStays
  <2>2. CASE d # c
    <3>1. PICK p \in Passed : d = [at EXCEPT !.objectAfter = p]
      BY <1>3, <2>2 DEF TimeOver
    <3>2. step = "orphans" /\ p \in page.objects /\ Before(p, NextOrphan)
      BY <3>1 DEF Passed
    <3>3. p \in Key
      BY <3>2 DEF IInv, SweepInv
    <3>4. PICK first : first = NextOrphan
      OBVIOUS
    <3>5. first \in Key /\ \A k \in Outstanding \ {first} : Before(first, k)
      BY <3>2, <3>4, OrphansInOrder
    <3>6. ASSUME NEW k \in Outstanding'
          PROVE  Before(p, k)
      <4>1. k \in Outstanding /\ k \in Key
        BY <1>2, OutstandingIsKnown DEF StillDue
      <4>. QED
        BY <3>2, <3>3, <3>4, <3>5, <4>1, BeforeNext
    <3>. QED
      BY <1>2, <3>1, <3>2, <3>6, AheadOf
  <2>. QED
    BY <2>1, <2>2
<1>5. Ahead(cursor)'
  BY <1>3, <1>4 DEF Ahead
<1>. QED
  BY <1>1, <1>5, StoppedDue

LEMMA DeletionFailsDue ==
    ASSUME IInv, DueInv, KeepsNames, DeletionFails
    PROVE  DueInv'
<1>1. UNCHANGED <<world, rows>> /\ Stopped /\ due' \subseteq due
  BY DEF DeletionFails
<1>2. PICK d : d = cursor'
  OBVIOUS
<1>3. CASE step = "reclaim"
  <2>1. PICK k \in keys : store' \in {store, Restrict(store, DOMAIN store \ {k})}
    BY <1>3 DEF DeletionFails
  <2>2. StillDue
    BY <1>1, <2>1, FewerOnly, SweptDue
  <2>3. d = [at EXCEPT !.after = Current] /\ due' = due \ keys /\ KeysWork
    BY <1>2, <1>3 DEF DeletionFails, DueInv
  <2>4. PICK cutoff : cutoff = at.cutoff
    OBVIOUS
  <2>5. cutoff \in Moments /\ d.cutoff = cutoff
    BY <2>3, <2>4, CursorIs DEF IInv, TypeInv, Cursors
  <2>6. \A j \in Outstanding' : j.asset = Current => Orphan(j, cutoff)'
    BY <1>3, <2>2, <2>3, <2>4, <2>5 DEF KeysWork, StillDue, Outstanding
  <2>7. Ahead(d)'
    BY <1>3, <2>2, <2>3, <2>5, <2>6, RowDone
  <2>8. Ahead(cursor)'
    BY <1>2, <2>7 DEF Ahead
  <2>. QED
    BY <1>1, <2>8, StoppedDue
<1>4. CASE step = "orphans"
  <2>1. PICK first : first = NextOrphan
    OBVIOUS
  <2>2. /\ store' \in {store, Restrict(store, DOMAIN store \ {first})} /\ due' = due \ {first}
        /\ d = [at EXCEPT !.objectAfter = first]
    BY <1>2, <1>4, <2>1 DEF DeletionFails
  <2>3. StillDue
    BY <1>1, <2>2, FewerOnly, SweptDue
  <2>4. \A k \in Outstanding' : Before(first, k)
    BY <1>4, <2>1, <2>2, <2>3, OrphansInOrder DEF StillDue, Outstanding
  <2>5. Ahead(d)'
    BY <1>4, <2>2, <2>3, <2>4, AheadOf
  <2>6. Ahead(cursor)'
    BY <1>2, <2>5 DEF Ahead
  <2>. QED
    BY <1>1, <2>6, StoppedDue
<1>. QED
  BY <1>3, <1>4 DEF DeletionFails

-----------------------------------------------------------------------------
(* The invariant holds                                                       *)

LEMMA InitDue ==
    ASSUME Init
    PROVE  DueInv
<1>1. cursor.stage = "none" /\ at.stage = "none" /\ step = "none"
  BY DEF Init, NoCursor
<1>. QED
  BY <1>1 DEF DueInv, Ahead, RowsWork, KeysWork, ObjectsWork

LEMMA NextDue ==
    ASSUME IInv, DueInv, [Next]_vars
    PROVE  DueInv'
<1>1. KeepsNames
  BY NextInv DEF Keeps
<1>2. CASE Sweeping
  BY <1>1, <1>2, StartAttemptDue, ListRowsDue, ReadFactsDue, CleanRowDue, DropRecordDue,
     DeleteClaimedDue, ListObjectsDue, ReadReferencesDue, DeleteOrphanDue, CompleteDue,
     DeletionFailsDue, TimeOverDue, CrashDue DEF Sweeping
<1>3. CASE Tick
  <2>1. UNCHANGED <<rows, store, sweep>> /\ now' \in Moments /\ now <= now'
    BY <1>3, TickInv, Bounds DEF Tick, storage, IInv, TypeInv
  <2>. QED
    BY <1>1, <2>1, QuietDue
<1>4. CASE UNCHANGED vars
  <2>1. UNCHANGED <<rows, store, sweep>> /\ now' \in Moments /\ now <= now'
    BY <1>4, Bounds DEF vars, world, storage, IInv, TypeInv
  <2>. QED
    BY <1>1, <2>1, QuietDue
<1>. QED
  BY <1>1, <1>2, <1>3, <1>4, UploadingDue, PublishingDue, HostingDue DEF Next

\* A cycle of the sweep that is over has deleted everything that was due when
\* it began (SweepIsThorough), but for what the storage failed to delete and
\* the rows that were being changed: however often it was interrupted, and
\* from whichever of its cursors it went on.
THEOREM SweepForgetsNothing == Spec => []SweepIsThorough
<1>1. Init => IInv /\ DueInv
  BY InitInv, InitDue
<1>2. IInv /\ DueInv /\ [Next]_vars => (IInv /\ DueInv)'
  BY NextInv, NextDue
<1>3. DueInv => SweepIsThorough
  BY DEF DueInv, Ahead, Outstanding, SweepIsThorough
<1>. QED
  BY <1>1, <1>2, <1>3, PTL DEF Spec

=============================================================================
