-------------------------- MODULE IssueListsProofs ---------------------------
(***************************************************************************)
(* Theorems about a tab's issues and its list, for any issues, groups,     *)
(* page size and plan, whichever reads, verifications and changes cross    *)
(* each other: under one role an issue only moves on, and a deleted one    *)
(* stays deleted; a list on the screen was read under the role of now; no  *)
(* count is below zero; and what the tab was told of its own changes its   *)
(* list does not take back.                                                *)
(*                                                                         *)
(* In three parts. First, what each operator does to the issues held and   *)
(* to the requests that are out (Keeps, IInv), and to the reads of a role  *)
(* (Ruled). Then the list by itself: what a change, a change made again on *)
(* an answer, and the merge of a page make of its rows and of what its     *)
(* counts go back to (Fine, NewRows, Bounded). Last the tab in what        *)
(* surrounds it (Sane, SaneInv): each operator, and so each step, leaves   *)
(* it sane.                                                                *)
(***************************************************************************)
EXTENDS IssueLists, TLAPS, FiniteSetTheorems, WellFoundedInduction

-----------------------------------------------------------------------------
(* The inductive invariant *)

TabFields == {"val", "hidden", "source", "error", "failed", "attempted", "can", "perm",
              "serial", "deletion", "held", "records", "affected", "jobs", "round",
              "reads", "writes"}
ReadFields == {"part", "how", "first", "token", "perm", "lower", "live", "owns", "changes",
               "job", "phase", "snap", "others", "waits"}
JobFields == {"phase", "token", "perm", "again", "answer"}
WriteFields == {"id", "issue", "kind", "to", "perm", "phase", "before", "sources", "seen", "after", "was"}

\* What the server had of each issue.
Versions(snap) == DOMAIN snap = Ids /\ \A id \in Ids : snap[id].ver \in Nat

\* The changes kept for an answer.
IsList(s) == s \in Seq({s[i] : i \in DOMAIN s})

IsRead(r) == DOMAIN r = ReadFields /\ Versions(r.snap) /\ IsList(r.changes)
IsJob(j) == DOMAIN j = JobFields /\ j.answer.ver \in Nat
IsWrite(w) == DOMAIN w = WriteFields /\ w.after.ver \in Nat

IsHeld(held) == held = [id \in Ids |-> held[id]] /\ \A id \in Ids : held[id].ver \in Nat

IsTab(t) ==
    /\ DOMAIN t = TabFields
    /\ IsHeld(t.held)
    /\ \A r \in t.reads : IsRead(r)
    /\ DOMAIN t.jobs = Ids /\ \A id \in Ids : IsJob(t.jobs[id])
    /\ \A w \in t.writes : IsWrite(w)

\* The requests that are out carry versions, and so does what is held.
IInv == Versions(issues) /\ clock \in Nat /\ IsTab(tab)

\* The issues held stay as they are.
Keeps(t, u) == IsTab(u) /\ u.held = t.held /\ u.perm = t.perm

\* No issue goes back under one role, and a deleted one stays deleted.
Forward(t, u) ==
    \A id \in Ids :
       /\ t.held[id].k = "gone" => u.held[id].k = "gone"
       /\ t.held[id].k = "held" /\ t.held[id].perm = t.perm /\ u.perm = t.perm
          /\ u.held[id].k = "held" => u.held[id].ver >= t.held[id].ver

Moves(t, u) == IsTab(u) /\ Forward(t, u)

\* What leaves the issues is a move of them, of none.
LEMMA KeepsMoves ==
    ASSUME NEW t, NEW u, IsTab(t), Keeps(t, u)
    PROVE  Moves(t, u)
BY DEF Keeps, Moves, Forward, IsTab, IsHeld

\* A move of the issues, and then anything that leaves them.
LEMMA MovesKeeps ==
    ASSUME NEW t, NEW u, NEW v, Moves(t, u), Keeps(u, v)
    PROVE  Moves(t, v)
BY DEF Keeps, Moves, Forward

LEMMA KeepsKeeps ==
    ASSUME NEW t, NEW u, NEW v, Keeps(t, u), Keeps(u, v)
    PROVE  Keeps(t, v)
BY DEF Keeps

LEMMA KeepsSelf == ASSUME NEW t, IsTab(t) PROVE Keeps(t, t)
BY DEF Keeps

LEMMA KeepsTab == ASSUME NEW t, NEW u, Keeps(t, u) PROVE IsTab(u)
BY DEF Keeps

-----------------------------------------------------------------------------
(* What leaves the issues: the value and the reads *)

LEMMA Appended ==
    ASSUME NEW s, NEW c, IsList(s)
    PROVE  /\ IsList(Append(s, c)) /\ Len(s) \in Nat /\ Len(Append(s, c)) = Len(s) + 1
           /\ \A i \in 1..Len(s) : Append(s, c)[i] = s[i]
           /\ Append(s, c)[Len(s) + 1] = c
<1> DEFINE S == {s[i] : i \in DOMAIN s} \cup {c}
           u == Append(s, c)
<1>1. s \in Seq(S)
  BY DEF IsList
<1>2. /\ u \in Seq(S) /\ Len(s) \in Nat /\ Len(u) = Len(s) + 1
      /\ \A i \in 1..Len(s) : u[i] = s[i]
      /\ u[Len(s) + 1] = c
  BY <1>1
<1>3. IsList(u)
  BY <1>2 DEF IsList
<1>. QED
  BY <1>2, <1>3

LEMMA EmptyIsList == IsList(<<>>)
BY DEF IsList

LEMMA KeepKeeps ==
    ASSUME NEW t, NEW c, IsTab(t)
    PROVE  Keeps(t, Keep(t, c))
<1> DEFINE kept(r) == [r EXCEPT !.changes = IF r.live THEN Append(@, c) ELSE @]
<1>1. \A r \in t.reads : IsRead(kept(r))
  BY Appended DEF IsTab, IsRead, ReadFields
<1>2. Keep(t, c) = [t EXCEPT !.reads = {kept(r) : r \in @}]
  BY DEF Keep
<1>. HIDE DEF kept
<1>. QED
  BY <1>1, <1>2 DEF Keeps, IsTab, TabFields

LEMMA DoubtKeeps ==
    ASSUME NEW t, NEW groups, IsTab(t)
    PROVE  Keeps(t, Doubt(t, groups))
<1> DEFINE u == Keep(t, Stale(groups))
<1>1. Keeps(t, u)
  BY KeepKeeps
<1>. HIDE DEF u
<1>2. Keeps(u, Doubt(t, groups))
  BY <1>1 DEF Doubt, Keeps, IsTab, TabFields, u
<1>. QED
  BY <1>1, <1>2, KeepsKeeps

LEMMA InvalidateKeeps ==
    ASSUME NEW t, IsTab(t)
    PROVE  Keeps(t, Invalidate(t))
BY DEF Invalidate, Keeps, IsTab, IsRead, TabFields, ReadFields

\* A read as it is sent is well formed.
LEMMA AskedIsRead ==
    ASSUME NEW t, NEW part, NEW first, NEW how, NEW j
    PROVE  IsRead(Asked(t, part, first, how, j))
BY EmptyIsList DEF Asked, IsRead, ReadFields, Versions, NoSnap

LEMMA SendKeeps ==
    ASSUME NEW t, NEW sent, IsTab(t), \A r \in sent : IsRead(r)
    PROVE  Keeps(t, Send(t, sent))
BY DEF Send, Keeps, IsTab, IsRead, TabFields, ReadFields

LEMMA SendWholeKeeps ==
    ASSUME NEW t, NEW j, IsTab(t)
    PROVE  Keeps(t, SendWhole(t, j))
<1> DEFINE u == Invalidate(t)
           sent == {Asked(t, Whole, TRUE, IF Shown(t) THEN "merge" ELSE "fetch", j)}
<1>1. Keeps(t, u)
  BY InvalidateKeeps
<1>2. \A r \in sent : IsRead(r)
  BY AskedIsRead
<1>. HIDE DEF u, sent
<1>3. Keeps(u, Send(u, sent))
  BY <1>1, <1>2, SendKeeps, KeepsTab
<1>. QED
  BY <1>1, <1>3, KeepsKeeps DEF SendWhole, u, sent

LEMMA DropKeeps ==
    ASSUME NEW t, NEW rs, IsTab(t)
    PROVE  Keeps(t, Drop(t, rs))
BY DEF Drop, Keeps, IsTab, TabFields

LEMMA FinishKeeps ==
    ASSUME NEW t, NEW rs, IsTab(t)
    PROVE  Keeps(t, Finish(t, rs))
BY DropKeeps DEF Finish, Keeps, IsTab, TabFields

LEMMA FailKeeps ==
    ASSUME NEW t, NEW rs, NEW error, IsTab(t)
    PROVE  Keeps(t, Fail(t, rs, error))
BY DropKeeps, KeepsSelf DEF Fail, Keeps, IsTab, TabFields

LEMMA RoundedKeeps ==
    ASSUME NEW t, IsTab(t)
    PROVE  Keeps(t, Rounded(t))
BY DEF Rounded, Keeps, IsTab, TabFields

-----------------------------------------------------------------------------
(* Verifications *)

LEMMA PendKeeps ==
    ASSUME NEW t, NEW ids, IsTab(t)
    PROVE  Keeps(t, Pend(t, ids))
BY DEF Pend, Keeps, IsTab, TabFields

LEMMA MarkDoubtedKeeps ==
    ASSUME NEW t, NEW ids, IsTab(t)
    PROVE  Keeps(t, MarkDoubted(t, ids))
BY DoubtKeeps, KeepsSelf DEF MarkDoubted

LEMMA NoJobIsJob ==
    /\ IsJob(NoJob)
    /\ \A p, q, n : IsJob([NoJob EXCEPT !.phase = p, !.perm = q, !.token = n])
BY DEF IsJob, NoJob, Unknown, JobFields

LEMMA RequestKeeps ==
    ASSUME NEW t, NEW ids, IsTab(t)
    PROVE  Keeps(t, Request(t, ids))
<1> DEFINE fresh == {id \in ids : ~Joined(t, id) /\ ~Decided(t, id)}
           joined == {id \in ids : Joined(t, id)}
           unknown == {id \in fresh : t.records[id] = NoRecord \/ t.records[id].perm # t.perm}
           pend == Pend(t, unknown)
           sent == [pend EXCEPT
                      !.serial = IF fresh = {} THEN @ ELSE @ + 1,
                      !.jobs = [id \in Ids |->
                          IF id \in fresh
                          THEN [NoJob EXCEPT !.phase = "asked", !.perm = t.perm,
                                             !.token = t.serial + 1]
                          ELSE @[id]],
                      !.round.ids = [id \in Ids |->
                          IF id \in fresh \cup joined THEN t.perm ELSE @[id]]]
<1>1. Keeps(t, pend)
  BY PendKeeps
<1>. HIDE DEF fresh, joined, unknown, pend
<1>2. Keeps(pend, sent)
  BY <1>1, NoJobIsJob DEF Keeps, IsTab, TabFields
<1>3. Keeps(sent, MarkDoubted(sent, fresh))
  BY <1>2, MarkDoubtedKeeps, KeepsTab
<1>4. Request(t, ids) = MarkDoubted(sent, fresh)
  BY DEF Request, fresh, joined, unknown, pend
<1>. HIDE DEF sent
<1>. QED
  BY <1>1, <1>2, <1>3, <1>4, KeepsKeeps

LEMMA RequireKeeps ==
    ASSUME NEW t, NEW ids, IsTab(t)
    PROVE  Keeps(t, Require(t, ids))
<1> DEFINE open == {id \in ids : t.round.ids[id] = t.perm => t.records[id] # NoRecord}
           affected == [t EXCEPT !.affected = @ \cup ids]
           noted == Pend(affected, {id \in open : t.records[id] = NoRecord})
<1>1. Keeps(t, affected)
  BY DEF Keeps, IsTab, TabFields
<1>2. Keeps(affected, noted)
  BY <1>1, PendKeeps, KeepsTab
<1>3. Keeps(noted, Request(noted, open))
  BY <1>2, RequestKeeps, KeepsTab
<1>4. Require(t, ids) = Request(noted, open)
  BY DEF Require
<1>. HIDE DEF open, affected, noted
<1>. QED
  BY <1>1, <1>2, <1>3, <1>4, KeepsKeeps

\* The end of a verification, and of what waits for it.
LEMMA EndJobKeeps ==
    ASSUME NEW t, NEW id, NEW error, IsTab(t)
    PROVE  Keeps(t, EndJob(t, id, error))
<1> DEFINE waiting == {r \in t.reads : id \in r.waits}
           further == {[r EXCEPT !.waits = @ \ {id}] : r \in waiting}
           through == {r \in further : r.waits = {}}
           none == [t EXCEPT !.jobs[id] = NoJob]
           rest == [none EXCEPT !.reads = (@ \ waiting) \cup further]
<1>1. Keeps(t, none)
  BY NoJobIsJob DEF Keeps, IsTab, TabFields
<1>2. \A r \in further : IsRead(r)
  BY DEF IsTab, IsRead, ReadFields
<1>3. EndJob(t, id, error) =
        IF error # NoError THEN Fail(none, waiting, error) ELSE Finish(rest, through)
  BY DEF EndJob
<1>. HIDE DEF waiting, further, through, none
<1>4. Keeps(none, Fail(none, waiting, error))
  BY <1>1, FailKeeps, KeepsTab
<1>5. Keeps(none, rest)
  BY <1>1, <1>2 DEF Keeps, IsTab, TabFields
<1>. HIDE DEF rest
<1>6. Keeps(rest, Finish(rest, through))
  BY <1>5, FinishKeeps, KeepsTab
<1>. QED
  BY <1>1, <1>3, <1>4, <1>5, <1>6, KeepsKeeps

LEMMA EndReadKeeps ==
    ASSUME NEW t, NEW r, NEW error, IsTab(t)
    PROVE  Keeps(t, EndRead(t, r, error))
BY EndJobKeeps, KeepsSelf DEF EndRead

LEMMA WaitKeeps ==
    ASSUME NEW t, NEW r, NEW ids, IsTab(t), IsRead(r)
    PROVE  Keeps(t, Wait(t, r, ids))
<1> DEFINE waits == [r EXCEPT !.phase = "draining", !.live = FALSE, !.changes = <<>>,
                              !.waits = ids]
<1>1. IsRead(waits)
  BY EmptyIsList DEF IsRead, ReadFields
<1>2. Wait(t, r, ids) = IF ids = {} THEN Finish(t, {r})
                        ELSE [t EXCEPT !.reads = @ \cup {waits}]
  BY DEF Wait
<1>. HIDE DEF waits
<1>3. Keeps(t, [t EXCEPT !.reads = @ \cup {waits}])
  BY <1>1 DEF Keeps, IsTab, TabFields
<1>. QED
  BY <1>2, <1>3, FinishKeeps

LEMMA JoinKeeps ==
    ASSUME NEW t, NEW r, NEW refused, NEW drained, IsTab(t), IsRead(r)
    PROVE  Keeps(t, Join(t, r, refused, drained))
BY FailKeeps, WaitKeeps DEF Join

LEMMA DrainKeeps ==
    ASSUME NEW t, NEW r, IsTab(t), IsRead(r)
    PROVE  Keeps(t, Drain(t, r))
<1> DEFINE drained == {id \in t.affected : t.records[id] # NoRecord \/ t.round.ids[id] # -1}
           finished == Finish(t, {r})
           asked == Request(t, drained)
<1>1. Drain(t, r) = IF r.job # 0 THEN EndRead(finished, r, NoError)
                    ELSE Join(asked, r, Refused(t, drained), drained)
  BY DEF Drain
<1>2. Keeps(t, finished) /\ Keeps(t, asked)
  BY FinishKeeps, RequestKeeps
<1>. HIDE DEF drained, finished, asked
<1>3. Keeps(finished, EndRead(finished, r, NoError))
  BY <1>2, EndReadKeeps, KeepsTab
<1>4. Keeps(asked, Join(asked, r, Refused(t, drained), drained))
  BY <1>2, JoinKeeps, KeepsTab
<1>. QED
  BY <1>1, <1>2, <1>3, <1>4, KeepsKeeps

LEMMA RefreshKeeps ==
    ASSUME NEW t, NEW id, IsTab(t)
    PROVE  Keeps(t, Refresh(t, id))
<1> DEFINE u == [t EXCEPT !.round.scoped = TRUE, !.jobs[id].phase = "refreshing"]
<1>1. Keeps(t, u)
  BY DEF Keeps, IsTab, IsJob, TabFields, JobFields
<1>2. Refresh(t, id) = IF Shown(t) /\ ~t.round.scoped THEN SendWhole(u, id)
                       ELSE EndJob(t, id, NoError)
  BY DEF Refresh
<1>. HIDE DEF u
<1>3. Keeps(u, SendWhole(u, id))
  BY <1>1, SendWholeKeeps, KeepsTab
<1>. QED
  BY <1>1, <1>2, <1>3, EndJobKeeps, KeepsKeeps

LEMMA EndedKeeps ==
    ASSUME NEW t, NEW id, NEW status, IsTab(t)
    PROVE  Keeps(t, Ended(t, id, status))
BY DEF Ended, Keeps, IsTab, TabFields

-----------------------------------------------------------------------------
(* What moves the issues: an answer, and the answer of a change *)

\* Issues are taken in that are deleted nowhere and nowhere held newer.
LEMMA AcceptReadMoves ==
    ASSUME NEW t, NEW ids, NEW snap, NEW token, NEW detail, IsTab(t), Versions(snap)
    PROVE  Moves(t, AcceptRead(t, ids, snap, token, detail))
<1> DEFINE taken == Accepted(t, ids, snap, token)
           moved == {id \in taken : /\ ~Pending(t, id) /\ t.held[id].k = "held"
                                    /\ t.held[id].at # snap[id].at}
           cleared == t.error \in taken /\ t.records[t.error].status \in {"error", "unconfirmed"}
           entity(id) == [k |-> "held", at |-> snap[id].at, ver |-> snap[id].ver,
                          perm |-> t.perm,
                          full |-> detail \/ (HeldCurrent(t, id) /\ t.held[id].full)]
           seen(w) == IF w.id \in taken /\ w.phase # "queued"
                      THEN [w EXCEPT !.seen = @ \cup {snap[w.id]}] ELSE w
           held == [id \in Ids |-> IF id \in taken THEN entity(id) ELSE t.held[id]]
           read == [t EXCEPT
                      !.held = [id \in Ids |-> IF id \in taken THEN entity(id) ELSE @[id]],
                      !.records = [id \in Ids |-> IF id \in taken THEN NoRecord ELSE @[id]],
                      !.error = IF cleared THEN NoError ELSE @,
                      !.failed = IF cleared THEN {} ELSE @,
                      !.writes = {seen(w) : w \in @}]
           places == UNION {HeldParts(t, id) \cup ({snap[id].at} \cap Groups) : id \in moved}
<1>1. \A w \in t.writes : IsWrite(seen(w))
  BY DEF IsTab, IsWrite, WriteFields
<1>2. \A id \in Ids : /\ entity(id).ver = snap[id].ver /\ entity(id).k = "held"
                       /\ snap[id].ver \in Nat
  BY DEF Versions
<1>3. AcceptRead(t, ids, snap, token, detail) = IF moved = {} THEN read ELSE Doubt(read, places)
  BY DEF AcceptRead
<1>. HIDE DEF taken, moved, cleared, entity, seen, places
<1>4. /\ DOMAIN read = TabFields /\ read.held = held /\ read.perm = t.perm
      /\ read.reads = t.reads /\ read.jobs = t.jobs
      /\ read.writes = {seen(w) : w \in t.writes}
  BY DEF IsTab, TabFields
<1>5. IsTab(read)
  BY <1>1, <1>2, <1>4 DEF IsTab, IsHeld
<1>. HIDE DEF read
<1>6. Forward(t, read)
  <2>1. ASSUME NEW id \in Ids
        PROVE  read.held[id] = IF id \in taken THEN entity(id) ELSE t.held[id]
    BY <1>4
  <2>2. ASSUME NEW id \in Ids
        PROVE  t.held[id].ver \in Nat
    BY DEF IsTab, IsHeld
  <2>3. ASSUME NEW id \in Ids, id \in taken
        PROVE  /\ t.held[id].k # "gone"
               /\ t.held[id].k = "held" /\ t.held[id].perm = t.perm
                  => read.held[id].ver >= t.held[id].ver
    <3>1. read.held[id].ver = snap[id].ver
      BY <2>1, <2>3, <1>2
    <3>2. /\ t.held[id].k # "gone"
          /\ t.held[id].k = "held" /\ t.held[id].perm = t.perm
             => snap[id].ver >= t.held[id].ver
      BY <2>3 DEF taken, Accepted, HeldCurrent
    <3>. QED
      BY <3>1, <3>2, Zenon
  <2>4. ASSUME NEW id \in Ids, id \notin taken
        PROVE  read.held[id] = t.held[id] /\ read.held[id].ver >= t.held[id].ver
    BY <2>1, <2>2, <2>4
  <2>. QED
    BY <2>3, <2>4 DEF Forward
<1>7. Moves(t, read) /\ Keeps(read, Doubt(read, places))
  BY <1>5, <1>6, DoubtKeeps DEF Moves
<1>. QED
  BY <1>3, <1>7, MovesKeeps

\* The answer of a change deletes an issue, or takes it in where none newer is held.
LEMMA ConfirmEntityMoves ==
    ASSUME NEW t, NEW id, NEW after, IsTab(t), after.ver \in Nat
    PROVE  Moves(t, ConfirmEntity(t, id, after))
<1>1. Tombstone.k = "gone" /\ Tombstone.ver = 0
  BY DEF Tombstone, NoEntity
<1>2. CASE after.k = "absent"
  <2>1. ConfirmEntity(t, id, after) =
          [t EXCEPT !.held[id] = Tombstone, !.records[id] = NoRecord, !.affected = @ \ {id}]
    BY <1>2 DEF ConfirmEntity
  <2>. QED
    BY <1>1, <2>1 DEF Moves, Forward, IsTab, IsHeld, TabFields
<1>3. CASE after.k # "absent" /\ t.held[id].k # "gone" /\ t.held[id].ver <= after.ver
  <2> DEFINE entity == [k |-> "held", at |-> after.at, ver |-> after.ver, full |-> TRUE,
                        perm |-> t.perm]
             u == [t EXCEPT !.held[id] = entity]
  <2>1. ConfirmEntity(t, id, after) = u
    BY <1>3 DEF ConfirmEntity
  <2>2. entity.ver = after.ver
    OBVIOUS
  <2>. HIDE DEF entity
  <2>3. IsTab(u)
    BY <2>2 DEF IsTab, IsHeld, TabFields
  <2>4. Forward(t, u)
    BY <1>3, <2>2 DEF Forward, IsTab, IsHeld, TabFields
  <2>. QED
    BY <2>1, <2>3, <2>4 DEF Moves
<1>4. CASE /\ after.k # "absent"
           /\ ~(t.held[id].k # "gone" /\ t.held[id].ver <= after.ver)
  <2>1. ConfirmEntity(t, id, after) = t
    BY <1>4 DEF ConfirmEntity
  <2>. QED
    BY <2>1, KeepsSelf, KeepsMoves
<1>. QED
  BY <1>2, <1>3, <1>4

-----------------------------------------------------------------------------
(* The actions *)

\* What a step owes.
Good == IInv' /\ Forward(tab, tab')

LEMMA GoodMoves ==
    ASSUME IInv, Moves(tab, tab'), UNCHANGED <<issues, clock>>
    PROVE  Good
BY DEF Good, IInv, Moves

LEMMA GoodKeeps ==
    ASSUME IInv, Keeps(tab, tab'), UNCHANGED <<issues, clock>>
    PROVE  Good
<1>1. Moves(tab, tab')
  BY KeepsMoves DEF IInv
<1>. QED
  BY <1>1, GoodMoves

\* The issues held are the same, under whichever role.
LEMMA GoodHeld ==
    ASSUME IInv, IsTab(tab'), tab'.held = tab.held, UNCHANGED <<issues, clock>>
    PROVE  Good
BY DEF Good, IInv, Forward, IsTab, IsHeld

LEMMA FetchFirstGood == ASSUME IInv, FetchFirst PROVE Good
BY SendWholeKeeps, GoodKeeps DEF FetchFirst, IInv

LEMMA FetchNextGood == ASSUME IInv, NEW g \in Groups, FetchNext(g) PROVE Good
<1> DEFINE sent == {Asked(tab, g, FALSE, "merge", 0)}
<1>1. \A r \in sent : IsRead(r)
  BY AskedIsRead
<1>2. tab' = Send(tab, sent) /\ UNCHANGED <<issues, clock>>
  BY DEF FetchNext
<1>. HIDE DEF sent
<1>3. Keeps(tab, tab')
  BY <1>1, <1>2, SendKeeps DEF IInv
<1>. QED
  BY <1>2, <1>3, GoodKeeps

LEMMA LookGood == ASSUME IInv, Look PROVE Good
<1> DEFINE looked == [tab EXCEPT !.attempted = (@ \cap StaleGroups(tab)) \cup Unread]
           sent == {Asked(tab, g, TRUE, "merge", 0) : g \in Unread}
<1>1. \A r \in sent : IsRead(r)
  BY AskedIsRead
<1>2. /\ tab' = IF Unread = {} THEN looked ELSE Send(looked, sent)
      /\ UNCHANGED <<issues, clock>>
  BY DEF Look
<1>3. Keeps(tab, looked)
  BY DEF Keeps, IInv, IsTab, TabFields
<1>. HIDE DEF looked, sent
<1>4. Keeps(looked, Send(looked, sent))
  BY <1>1, <1>3, SendKeeps, KeepsTab
<1>5. Keeps(tab, tab')
  BY <1>2, <1>3, <1>4, KeepsKeeps
<1>. QED
  BY <1>2, <1>5, GoodKeeps

\* A read is served: its answer has the versions of now.
LEMMA ServeReadGood == ASSUME IInv, NEW r \in tab.reads, ServeRead(r) PROVE Good
<1> DEFINE served == [r EXCEPT !.phase = "served", !.snap = issues, !.others = others]
<1>1. IsRead(served)
  BY DEF IInv, IsTab, IsRead, ReadFields
<1>2. /\ tab' = [tab EXCEPT !.reads = (@ \ {r}) \cup {served}]
      /\ UNCHANGED <<issues, clock>>
  BY DEF ServeRead
<1>. HIDE DEF served
<1>3. Keeps(tab, tab')
  BY <1>1, <1>2 DEF Keeps, IInv, IsTab, TabFields
<1>. QED
  BY <1>2, <1>3, GoodKeeps

LEMMA FailReadGood == ASSUME IInv, NEW r \in tab.reads, FailRead(r) PROVE Good
<1> DEFINE t == Drop(tab, {r})
           failed == Fail(t, {r}, ReadError)
           u == IF r.live THEN EndRead(failed, r, ReadError) ELSE EndRead(t, r, NoError)
<1>1. tab' = Rounded(u) /\ UNCHANGED <<issues, clock>>
  BY DEF FailRead
<1>2. Keeps(tab, t)
  BY DropKeeps DEF IInv
<1>. HIDE DEF t
<1>3. Keeps(tab, failed)
  BY <1>2, FailKeeps, KeepsTab, KeepsKeeps
<1>. HIDE DEF failed
<1>4. Keeps(failed, EndRead(failed, r, ReadError)) /\ Keeps(t, EndRead(t, r, NoError))
  BY <1>2, <1>3, EndReadKeeps, KeepsTab
<1>5. Keeps(tab, u)
  BY <1>2, <1>3, <1>4, KeepsKeeps
<1>. HIDE DEF u
<1>6. Keeps(u, Rounded(u))
  BY <1>5, RoundedKeeps, KeepsTab
<1>7. Keeps(tab, tab')
  BY <1>1, <1>5, <1>6, KeepsKeeps
<1>. QED
  BY <1>1, <1>7, GoodKeeps

LEMMA ReadCountsNotGood == ASSUME IInv, NEW r \in tab.reads, ReadCountsNot(r) PROVE Good
<1> DEFINE t == Drop(tab, {r})
           u == EndRead(t, r, NoError)
<1>1. tab' = Rounded(u) /\ UNCHANGED <<issues, clock>>
  BY DEF ReadCountsNot
<1>2. Keeps(tab, t)
  BY DropKeeps DEF IInv
<1>. HIDE DEF t
<1>3. Keeps(t, u)
  BY <1>2, EndReadKeeps, KeepsTab
<1>. HIDE DEF u
<1>4. Keeps(u, Rounded(u))
  BY <1>3, RoundedKeeps, KeepsTab
<1>5. Keeps(tab, tab')
  BY <1>1, <1>2, <1>3, <1>4, KeepsKeeps
<1>. QED
  BY <1>1, <1>5, GoodKeeps

\* The issues of an answer, taken in, and its read dropped.
LEMMA TakenMoves ==
    ASSUME IInv, NEW r \in tab.reads
    PROVE  /\ Moves(tab, Taken(r))
           /\ Keeps(Taken(r), Without(Taken(r), r))
<1>1. Moves(tab, Taken(r))
  BY AcceptReadMoves DEF Taken, IInv, IsTab, IsRead
<1>2. IsTab(Taken(r))
  BY <1>1 DEF Moves
<1>3. Keeps(Taken(r), Without(Taken(r), r))
  BY <1>2 DEF Without, Keeps, IsTab, TabFields
<1>. QED
  BY <1>1, <1>3

LEMMA ReadOverdueGood == ASSUME IInv, NEW r \in tab.reads, ReadOverdue(r) PROVE Good
<1> DEFINE t == Without(Taken(r), r)
           u == EndRead(t, r, NoError)
<1>1. tab' = Rounded(u) /\ UNCHANGED <<issues, clock>>
  BY DEF ReadOverdue
<1>2. Moves(tab, t) /\ IsTab(t)
  BY TakenMoves, MovesKeeps, KeepsTab
<1>. HIDE DEF t
<1>3. Keeps(t, u)
  BY <1>2, EndReadKeeps
<1>. HIDE DEF u
<1>4. Keeps(u, Rounded(u))
  BY <1>3, RoundedKeeps, KeepsTab
<1>5. Moves(tab, tab')
  BY <1>1, <1>2, <1>3, <1>4, MovesKeeps
<1>. QED
  BY <1>1, <1>5, GoodMoves

\* Whatever the changes made of the answer, publishing it leaves the issues.
LEMMA PublishKeeps ==
    ASSUME NEW t, NEW r, NEW made, IsTab(t), IsRead(r), Publish(t, r, made)
    PROVE  Keeps(t, tab')
<1> DEFINE value == [t EXCEPT !.val = made.value]
           required == Require(value, made.verify)
           drained == Drain(required, r)
           refused == Require(t, made.verify)
           failed == Fail(refused, {r}, ReadError)
           ended == EndRead(failed, r, ReadError)
<1>1. tab' = Rounded(drained) \/ tab' = Rounded(ended)
  BY DEF Publish
<1>2. Keeps(t, value)
  BY DEF Keeps, IsTab, TabFields
<1>. HIDE DEF value
<1>3. Keeps(t, required) /\ Keeps(t, refused)
  BY <1>2, RequireKeeps, KeepsTab, KeepsKeeps
<1>. HIDE DEF required, refused
<1>4. Keeps(t, drained) /\ Keeps(t, failed)
  BY <1>3, DrainKeeps, FailKeeps, KeepsTab, KeepsKeeps
<1>. HIDE DEF drained, failed
<1>5. Keeps(t, ended)
  BY <1>4, EndReadKeeps, KeepsTab, KeepsKeeps
<1>. HIDE DEF ended
<1>6. Keeps(t, Rounded(drained)) /\ Keeps(t, Rounded(ended))
  BY <1>4, <1>5, RoundedKeeps, KeepsTab, KeepsKeeps
<1>. QED
  BY <1>1, <1>6

LEMMA ReadAnswerGood == ASSUME IInv, NEW r \in tab.reads, ReadAnswer(r) PROVE Good
<1> DEFINE t == Without(Taken(r), r)
<1>1. PICK made : Publish(t, r, made)
  BY DEF ReadAnswer
<1>2. Moves(tab, t) /\ IsTab(t) /\ IsRead(r)
  BY TakenMoves, MovesKeeps, KeepsTab DEF IInv, IsTab
<1>. HIDE DEF t
<1>3. Moves(tab, tab')
  BY <1>1, <1>2, PublishKeeps, MovesKeeps
<1>4. UNCHANGED <<issues, clock>>
  BY DEF ReadAnswer
<1>. QED
  BY <1>3, <1>4, GoodMoves

-----------------------------------------------------------------------------
(* The actions: verifications *)

LEMMA ServeJobGood == ASSUME IInv, NEW id \in Ids, ServeJob(id) PROVE Good
<1>1. Keeps(tab, tab')
  BY DEF ServeJob, Keeps, IInv, Versions, IsTab, IsJob, TabFields, JobFields
<1>. QED
  BY <1>1, GoodKeeps DEF ServeJob

LEMMA FailJobGood == ASSUME IInv, NEW id \in Ids, FailJob(id) PROVE Good
<1> DEFINE job == tab.jobs[id]
           ended == Ended(tab, id, "error")
           shown == [ended EXCEPT !.error = id]
           refused == MarkDoubted(shown, {id})
           u == IF IsReadCurrent(tab, job.perm, job.token) THEN EndJob(refused, id, id)
                ELSE EndJob(tab, id, NoError)
<1>1. tab' = Rounded(u) /\ UNCHANGED <<issues, clock>>
  BY DEF FailJob
<1>2. Keeps(tab, ended)
  BY EndedKeeps DEF IInv
<1>. HIDE DEF ended
<1>3. Keeps(ended, shown)
  BY <1>2 DEF Keeps, IsTab, TabFields
<1>. HIDE DEF shown
<1>4. Keeps(shown, refused)
  BY <1>3, MarkDoubtedKeeps, KeepsTab
<1>. HIDE DEF refused
<1>5. Keeps(refused, EndJob(refused, id, id)) /\ Keeps(tab, EndJob(tab, id, NoError))
  BY <1>4, EndJobKeeps, KeepsTab DEF IInv
<1>6. Keeps(tab, u)
  BY <1>2, <1>3, <1>4, <1>5, KeepsKeeps
<1>. HIDE DEF u
<1>7. Keeps(u, Rounded(u))
  BY <1>6, RoundedKeeps, KeepsTab
<1>8. Keeps(tab, tab')
  BY <1>1, <1>6, <1>7, KeepsKeeps
<1>. QED
  BY <1>1, <1>8, GoodKeeps

\* An issue that is missing, or taken in, is followed by a read of the list; one
\* held newer is asked for again, or left open.
LEMMA JobAnswerGood == ASSUME IInv, NEW id \in Ids, JobAnswer(id) PROVE Good
<1> DEFINE job == tab.jobs[id]
           ended == Ended(tab, id, "missing")
           missing == MarkDoubted(ended, {id})
           snap == [NoSnap EXCEPT ![id] = job.answer]
           read == AcceptRead(tab, {id}, snap, job.token, TRUE)
           asked == [read EXCEPT !.serial = @ + 1,
                       !.jobs[id] = [job EXCEPT !.phase = "asked", !.again = TRUE,
                                                !.token = read.serial + 1, !.answer = Unknown]]
           again == MarkDoubted(asked, {id})
           unsure == [read EXCEPT !.records[id].status = "unconfirmed", !.error = id]
           open == MarkDoubted(unsure, {id})
<1>1. /\ \/ tab' = Rounded(EndJob(tab, id, NoError))
         \/ tab' = Rounded(Refresh(missing, id))
         \/ tab' = Rounded(Refresh(read, id))
         \/ tab' = Rounded(again)
         \/ tab' = Rounded(EndJob(open, id, NoError))
      /\ UNCHANGED <<issues, clock>>
  BY DEF JobAnswer
<1>2. Versions(snap)
  BY DEF Versions, NoSnap, IInv, IsTab, IsJob
<1>. HIDE DEF snap
<1>3. Moves(tab, read) /\ IsTab(read)
  BY <1>2, AcceptReadMoves DEF IInv, Moves
<1>4. IsTab(tab) /\ IsJob(job)
  BY DEF IInv, IsTab
<1>. HIDE DEF read, job
<1>5. Moves(tab, tab)
  BY <1>4, KeepsSelf, KeepsMoves
<1>6. Keeps(tab, missing)
  BY <1>4, EndedKeeps, MarkDoubtedKeeps, KeepsTab, KeepsKeeps
<1>7. Keeps(read, asked)
  <2>1. IsJob([job EXCEPT !.phase = "asked", !.again = TRUE, !.token = read.serial + 1,
                          !.answer = Unknown])
    BY <1>4 DEF IsJob, JobFields, Unknown
  <2>. QED
    BY <1>3, <2>1 DEF Keeps, IsTab, TabFields
<1>8. Keeps(read, unsure)
  BY <1>3 DEF Keeps, IsTab, TabFields
<1>. HIDE DEF ended, missing, asked, unsure
<1>9. Keeps(read, again) /\ Keeps(read, open)
  BY <1>7, <1>8, MarkDoubtedKeeps, KeepsTab, KeepsKeeps
<1>. HIDE DEF again, open
<1>10. /\ Keeps(tab, EndJob(tab, id, NoError))
       /\ Keeps(tab, Refresh(missing, id))
       /\ Keeps(read, Refresh(read, id))
       /\ Keeps(read, EndJob(open, id, NoError))
  BY <1>3, <1>4, <1>6, <1>9, EndJobKeeps, RefreshKeeps, KeepsTab, KeepsKeeps
<1>11. /\ Keeps(tab, Rounded(EndJob(tab, id, NoError)))
       /\ Keeps(tab, Rounded(Refresh(missing, id)))
       /\ Keeps(read, Rounded(Refresh(read, id)))
       /\ Keeps(read, Rounded(again))
       /\ Keeps(read, Rounded(EndJob(open, id, NoError)))
  BY <1>9, <1>10, RoundedKeeps, KeepsTab, KeepsKeeps
<1>12. Moves(tab, tab')
  BY <1>1, <1>3, <1>5, <1>11, MovesKeeps
<1>. QED
  BY <1>1, <1>12, GoodMoves

-----------------------------------------------------------------------------
(* The actions: the changes of this tab *)

\* What the tab does to its changes leaves the issues.
LEMMA WritesKeep ==
    ASSUME NEW t, NEW ws, IsTab(t), \A w \in ws : IsWrite(w)
    PROVE  Keeps(t, [t EXCEPT !.writes = ws])
BY DEF Keeps, IsTab, TabFields

\* A change stays well formed when it is sent.
LEMMA SentIsWrite ==
    ASSUME NEW w, IsWrite(w)
    PROVE  IsWrite(Sent(w))
BY DEF Sent, IsWrite, WriteFields

\* A change is asked for, and waits or is sent.
LEMMA AskGood == ASSUME IInv, NEW id, NEW kind, NEW to, Ask(id, kind, to) PROVE Good
<1> DEFINE w == NewWrite(id, kind, to)
           x == IF \E y \in tab.writes : id # 0 /\ y.id = id THEN w ELSE Sent(w)
           ws == tab.writes \cup {x}
<1>1. IsWrite(w)
  BY DEF NewWrite, IsWrite, WriteFields, Absent
<1>2. tab' = [tab EXCEPT !.writes = ws] /\ UNCHANGED <<issues, clock>>
  BY DEF Ask
<1>. HIDE DEF w
<1>3. IsWrite(x)
  BY <1>1, SentIsWrite
<1>. HIDE DEF x
<1>4. \A y \in ws : IsWrite(y)
  BY <1>3 DEF IInv, IsTab
<1>. HIDE DEF ws
<1>5. Keeps(tab, tab')
  BY <1>2, <1>4, WritesKeep DEF IInv
<1>. QED
  BY <1>2, <1>5, GoodKeeps

LEMMA BeginGood == ASSUME IInv, NEW w \in tab.writes, Begin(w) PROVE Good
<1> DEFINE ws == tab.writes \ {w}
           t == [tab EXCEPT !.writes = ws]
<1>1. IsWrite(Sent(w))
  BY SentIsWrite DEF IInv, IsTab
<1>2. Keeps(tab, t)
  BY WritesKeep DEF IInv, IsTab
<1>3. /\ tab' = t \/ tab' = [t EXCEPT !.writes = @ \cup {Sent(w)}]
      /\ UNCHANGED <<issues, clock>>
  BY DEF Begin
<1>4. IsTab(t)
  BY <1>2, KeepsTab
<1>. HIDE DEF t
<1>5. Keeps(t, [t EXCEPT !.writes = @ \cup {Sent(w)}])
  BY <1>1, <1>4 DEF Keeps, IsTab, TabFields
<1>6. Keeps(tab, tab')
  BY <1>2, <1>3, <1>5, KeepsKeeps
<1>. QED
  BY <1>3, <1>6, GoodKeeps

\* A change that is over, or whose answer does not come or does not count.
LEMMA DroppedGood ==
    ASSUME IInv, NEW w, tab' = [tab EXCEPT !.writes = @ \ {w}], UNCHANGED <<issues, clock>>
    PROVE  Good
<1>1. Keeps(tab, tab')
  BY DEF Keeps, IInv, IsTab, TabFields
<1>. QED
  BY <1>1, GoodKeeps

LEMMA Least ==
    ASSUME NEW S, S \subseteq Nat, S # {}
    PROVE  \E x \in S : \A y \in S : x <= y
<1>. DEFINE R == OpToRel(<, Nat)
<1>1. IsWellFoundedOn(R, Nat)
  BY NatLessThanWellFounded
<1>2. \A x, y \in Nat : <<y, x>> \in R <=> y < x
  BY DEF OpToRel
<1>. HIDE DEF R
<1>3. PICK x \in S : \A y \in S : ~ (<<y, x>> \in R)
  BY <1>1, WFMin
<1>4. ASSUME NEW y \in S
      PROVE  x <= y
  <2>1. x \in Nat /\ y \in Nat
    OBVIOUS
  <2>2. ~ (y < x)
    BY <1>2, <1>3, <2>1
  <2>. QED
    BY <2>1, <2>2
<1>. QED
  BY <1>4

\* The issue a change is made of: of an unmade one that is created the first, else its own.
LEMMA MadeIssue ==
    ASSUME NEW can, can \subseteq Ids, can # {}
    PROVE  Min(can) \in can
<1>1. can \subseteq Nat
  BY IssueListsAssumption
<1>2. \E x \in can : \A y \in can : x <= y
  BY <1>1, Least
<1>. QED
  BY <1>2 DEF Min

\* The change a server is sent is refused, or made of one issue, which is then as it
\* was to be, or as it was.
Makes(w, id, now) ==
    /\ IF w.kind = "creates" THEN issues[id].at = Unmade ELSE id = w.id /\ issues[id].at # Gone
    /\ tab' = [tab EXCEPT !.writes = (@ \ {w}) \cup {Served(w, id, now)}]
    /\ issues' = [issues EXCEPT ![id] = now]
    /\ clock' = IF now.ver > clock THEN now.ver ELSE clock

LEMMA ServeWriteMakes ==
    ASSUME NEW w, ServeWrite(w)
    PROVE  /\ w.phase = "sent" /\ UNCHANGED <<left, others, basis, lost, mine>>
           /\ \/ tab' = [tab EXCEPT !.writes = @ \ {w}] /\ UNCHANGED <<issues, clock>>
              \/ \E id \in Ids : \E now \in Outcomes(w, id) : Makes(w, id, now)
<1> DEFINE can == {id \in Ids : IF w.kind = "creates" THEN issues[id].at = Unmade
                                ELSE id = w.id /\ issues[id].at # Gone}
<1>1. /\ w.phase = "sent" /\ UNCHANGED <<left, others, basis, lost, mine>>
      /\ IF can = {}
         THEN tab' = [tab EXCEPT !.writes = @ \ {w}] /\ UNCHANGED <<issues, clock>>
         ELSE \E now \in Outcomes(w, Min(can)) :
                 /\ tab' = [tab EXCEPT !.writes = (@ \ {w}) \cup {Served(w, Min(can), now)}]
                 /\ issues' = [issues EXCEPT ![Min(can)] = now]
                 /\ clock' = IF now.ver > clock THEN now.ver ELSE clock
  BY DEF ServeWrite
<1>2. ASSUME can # {}
      PROVE  \E id \in Ids : \E now \in Outcomes(w, id) : Makes(w, id, now)
  <2>1. can \subseteq Ids
    OBVIOUS
  <2>2. Min(can) \in can
    <3>. HIDE DEF can
    <3>. QED
      BY <1>2, <2>1, MadeIssue
  <2>3. /\ Min(can) \in Ids
        /\ IF w.kind = "creates" THEN issues[Min(can)].at = Unmade
           ELSE Min(can) = w.id /\ issues[Min(can)].at # Gone
    BY <2>2
  <2>. HIDE DEF can
  <2>. QED
    BY <1>1, <1>2, <2>3 DEF Makes
<1>. QED
  BY <1>1, <1>2

\* The server makes the change, at a version of its own, or leaves the issue as it is.
LEMMA ServeWriteGood == ASSUME IInv, NEW w \in tab.writes, ServeWrite(w) PROVE Good
<1>1. ASSUME NEW id \in Ids, NEW now \in Outcomes(w, id), Makes(w, id, now)
      PROVE  Good
  <2> DEFINE served == Served(w, id, now)
             ws == (tab.writes \ {w}) \cup {served}
  <2>1. /\ tab' = [tab EXCEPT !.writes = ws]
        /\ issues' = [issues EXCEPT ![id] = now]
        /\ clock' = IF now.ver > clock THEN now.ver ELSE clock
    BY <1>1 DEF Makes
  <2>2. now.ver \in Nat
    BY DEF Outcomes, IInv, Versions
  <2>3. IsWrite(served)
    BY <2>2 DEF Served, Absent, Issue, IInv, IsTab, IsWrite, WriteFields
  <2>. HIDE DEF served
  <2>4. \A x \in ws : IsWrite(x)
    BY <2>3 DEF IInv, IsTab
  <2>. HIDE DEF ws
  <2>5. Keeps(tab, tab')
    BY <2>1, <2>4, WritesKeep DEF IInv
  <2>6. Moves(tab, tab')
    BY <2>5, KeepsMoves DEF IInv
  <2>7. Versions(issues') /\ clock' \in Nat
    BY <2>1, <2>2 DEF Versions, IInv
  <2>. QED
    BY <2>6, <2>7 DEF Good, IInv, Moves
<1>. QED
  BY <1>1, ServeWriteMakes, DroppedGood

LEMMA RemovedKeeps ==
    ASSUME NEW t, IsTab(t)
    PROVE  Keeps(t, Removed(t))
<1> DEFINE u == [t EXCEPT !.serial = @ + 1, !.deletion = t.serial + 1]
<1>1. Keeps(t, u)
  BY DEF Keeps, IsTab, TabFields
<1>2. Removed(t) = Doubt(Invalidate(u), Groups)
  BY DEF Removed
<1>. HIDE DEF u
<1>3. Keeps(u, Invalidate(u))
  BY <1>1, InvalidateKeeps, KeepsTab
<1>4. Keeps(Invalidate(u), Doubt(Invalidate(u), Groups))
  BY <1>3, DoubtKeeps, KeepsTab
<1>. QED
  BY <1>1, <1>2, <1>3, <1>4, KeepsKeeps

\* The list may be told of a change in any way: of the issues only its own moves.
LEMMA TellMoves ==
    ASSUME NEW t, NEW w, NEW change, NEW made, NEW verify, NEW rest,
           IsTab(t), IsWrite(w), \A x \in rest : IsWrite(x),
           Tell(t, w, change, made, verify, rest)
    PROVE  Moves(t, tab')
<1> DEFINE kept == Keep(t, Confirmed(change, w.sources))
           told == [kept EXCEPT !.val = made.value, !.writes = (@ \ {w}) \cup rest]
           confirmed == ConfirmEntity(told, w.issue, w.after)
<1>1. tab' = Require(confirmed, verify)
  BY DEF Tell
<1>2. Keeps(t, kept)
  BY KeepKeeps
<1>. HIDE DEF kept
<1>3. Keeps(kept, told)
  BY <1>2 DEF Keeps, IsTab, TabFields
<1>. HIDE DEF told
<1>4. Keeps(t, told) /\ IsTab(told)
  BY <1>2, <1>3, KeepsKeeps, KeepsTab
<1>5. Moves(told, confirmed)
  BY <1>4, ConfirmEntityMoves DEF IsWrite
<1>. HIDE DEF confirmed
<1>6. Moves(t, confirmed)
  BY <1>4, <1>5 DEF Moves, Forward, Keeps
<1>7. Keeps(confirmed, tab')
  BY <1>1, <1>5, RequireKeeps DEF Moves
<1>. QED
  BY <1>6, <1>7, MovesKeeps

LEMMA WriteAnswerGood ==
    ASSUME IInv, NEW w \in tab.writes, NEW open \in BOOLEAN, WriteAnswer(w, open)
    PROVE  Good
<1> DEFINE t == Cleared(w)
           over == [w EXCEPT !.phase = "over"]
           rest == IF open THEN {over} ELSE {}
<1>1. PICK change, made, verify : Tell(t, w, change, made, verify, rest)
  BY DEF WriteAnswer
<1>2. IsTab(tab) /\ IsWrite(w)
  BY DEF IInv, IsTab
<1>3. IsWrite(over)
  BY <1>2 DEF IsWrite, WriteFields
<1>. HIDE DEF over
<1>4. \A x \in rest : IsWrite(x)
  BY <1>3
<1>5. Keeps(tab, t)
  BY <1>2, RemovedKeeps, KeepsSelf DEF Cleared
<1>. HIDE DEF t, rest
<1>6. Moves(t, tab')
  BY <1>1, <1>2, <1>4, <1>5, TellMoves, KeepsTab
<1>7. Moves(tab, tab')
  BY <1>5, <1>6 DEF Moves, Forward, Keeps
<1>8. UNCHANGED <<issues, clock>>
  BY DEF WriteAnswer
<1>. QED
  BY <1>7, <1>8, GoodMoves

LEMMA AnswerThrowsGood ==
    ASSUME IInv, NEW w \in tab.writes, AnswerThrows(w)
    PROVE  Good
<1> DEFINE t == Cleared(w)
<1>1. Keeps(tab, t)
  BY RemovedKeeps, KeepsSelf DEF Cleared, IInv
<1>2. tab' = [t EXCEPT !.writes = @ \ {w}] /\ UNCHANGED <<issues, clock>>
  BY DEF AnswerThrows
<1>. HIDE DEF t
<1>3. Keeps(tab, tab')
  BY <1>1, <1>2 DEF Keeps, IsTab, TabFields
<1>. QED
  BY <1>2, <1>3, GoodKeeps

-----------------------------------------------------------------------------
(* The actions: other people *)

LEMMA ChangeRoleGood == ASSUME IInv, NEW can, ChangeRole(can) PROVE Good
<1> DEFINE t == Invalidate(tab)
<1>1. /\ tab' = [t EXCEPT !.can = can, !.perm = @ + 1, !.hidden = TRUE, !.error = NoError,
                          !.failed = {}, !.reads = {[r EXCEPT !.owns = FALSE] : r \in @}]
      /\ UNCHANGED <<issues, clock>>
  BY DEF ChangeRole
<1>2. Keeps(tab, t)
  BY InvalidateKeeps DEF IInv
<1>. HIDE DEF t
<1>3. \A rs : (\A r \in rs : IsRead(r))
              => \A r \in {[x EXCEPT !.owns = FALSE] : x \in rs} : IsRead(r)
  BY DEF IsRead, ReadFields
<1>4. IsTab(tab') /\ tab'.held = tab.held
  BY <1>1, <1>2, <1>3 DEF Keeps, IInv, IsTab, TabFields
<1>. QED
  BY <1>1, <1>4, GoodHeld

LEMMA RegainGood == ASSUME IInv, Regain PROVE Good
<1>1. Keeps(tab, tab')
  BY DEF Regain, Keeps, IInv, IsTab, TabFields
<1>. QED
  BY <1>1, GoodKeeps DEF Regain

LEMMA OthersGood == ASSUME IInv, NEW id \in Ids, NEW to, Others(id, to) PROVE Good
<1>1. Moves(tab, tab)
  BY KeepsSelf, KeepsMoves DEF IInv
<1>2. Versions(issues') /\ clock' \in Nat /\ tab' = tab
  BY DEF Others, Versions, IInv
<1>. QED
  BY <1>1, <1>2 DEF Good, IInv, Moves

-----------------------------------------------------------------------------
(* The role a list was read under                                            *)
(*                                                                           *)
(* A list is hidden when the role changes, and shown again when a whole read *)
(* of this role is through. A read may wait for verifications between its    *)
(* answer and its end: what it waits with (Ruled) is that the counters it    *)
(* wrote were written under the role, if it still is. Groups are read only   *)
(* where a whole read went before.                                           *)

\* The counters that were read, were read under this role.
Fresh(b, perm) == \A c \in AllCounters : b[c].perm \in {-1, perm}

\* Every counter was read.
Filled(b) == \A c \in AllCounters : b[c].perm # -1

\* A read is of this role or an earlier one, and writes under its own only; one
\* that waits has written.
ReadRuled(r, perm, b) ==
    /\ r.perm \in Nat /\ r.perm <= perm
    /\ r.live => r.perm = perm
    /\ r.waits # {} => r.phase = "draining"
    /\ r.phase = "draining" /\ r.part = Whole /\ r.perm = perm => Fresh(b, perm)
    /\ r.part # Whole => Filled(b)

Ruled(t, b) ==
    /\ t.perm \in Nat
    /\ ~t.hidden => Fresh(b, t.perm)
    /\ t.val # NoVal => Filled(b)
    /\ \A r \in t.reads : ReadRuled(r, t.perm, b)

IsBasis == DOMAIN basis = AllCounters /\ \A c \in AllCounters : "perm" \in DOMAIN basis[c]

RoleInv == IInv /\ IsBasis /\ Ruled(tab, basis)

\* A step that leaves the role and the reads.
LEMMA RuledSame ==
    ASSUME NEW t, NEW u, NEW b, Ruled(t, b),
           u.perm = t.perm, u.hidden = t.hidden, u.val = t.val, u.reads = t.reads
    PROVE  Ruled(u, b)
BY DEF Ruled

\* What was read under the role stays so, when more is.
LEMMA RuledMore ==
    ASSUME NEW t, NEW old, NEW new, Ruled(t, old),
           Fresh(old, t.perm) => Fresh(new, t.perm), Filled(old) => Filled(new)
    PROVE  Ruled(t, new)
BY DEF Ruled, ReadRuled

LEMMA KeepRuled ==
    ASSUME NEW t, NEW c, NEW b, IsTab(t), Ruled(t, b)
    PROVE  Ruled(Keep(t, c), b)
<1> DEFINE kept(r) == [r EXCEPT !.changes = IF r.live THEN Append(@, c) ELSE @]
<1>1. /\ Keep(t, c).perm = t.perm /\ Keep(t, c).hidden = t.hidden /\ Keep(t, c).val = t.val
      /\ Keep(t, c).reads = {kept(r) : r \in t.reads}
  BY DEF Keep, IsTab, TabFields
<1>2. \A r \in t.reads : /\ kept(r).perm = r.perm /\ kept(r).live = r.live
                          /\ kept(r).waits = r.waits /\ kept(r).phase = r.phase
                          /\ kept(r).part = r.part
  BY DEF IsTab, IsRead, ReadFields
<1>. HIDE DEF kept
<1>3. \A r \in t.reads : ReadRuled(kept(r), t.perm, b)
  BY <1>2 DEF Ruled, ReadRuled
<1>. QED
  BY <1>1, <1>3 DEF Ruled

LEMMA DoubtRuled ==
    ASSUME NEW t, NEW groups, NEW b, IsTab(t), Ruled(t, b)
    PROVE  Ruled(Doubt(t, groups), b)
<1> DEFINE u == Keep(t, Stale(groups))
<1>1. IsTab(u) /\ Ruled(u, b)
  BY KeepKeeps, KeepsTab, KeepRuled
<1>2. Doubt(t, groups) = [u EXCEPT !.val = IF @ = NoVal THEN @ ELSE MarkStale(@, groups)]
  BY DEF Doubt
<1>. HIDE DEF u
<1>3. /\ Doubt(t, groups).perm = u.perm /\ Doubt(t, groups).hidden = u.hidden
      /\ Doubt(t, groups).reads = u.reads /\ (u.val = NoVal => Doubt(t, groups).val = NoVal)
  BY <1>1, <1>2 DEF IsTab, TabFields
<1>. QED
  BY <1>1, <1>3 DEF Ruled

LEMMA InvalidateRuled ==
    ASSUME NEW t, NEW b, IsTab(t), Ruled(t, b)
    PROVE  Ruled(Invalidate(t), b)
<1> DEFINE dead(r) == [r EXCEPT !.live = FALSE]
<1>1. /\ Invalidate(t).perm = t.perm /\ Invalidate(t).hidden = t.hidden /\ Invalidate(t).val = t.val
      /\ Invalidate(t).reads = {dead(r) : r \in t.reads}
  BY DEF Invalidate, IsTab, TabFields
<1>2. \A r \in t.reads : /\ dead(r).perm = r.perm /\ dead(r).live = FALSE
                          /\ dead(r).waits = r.waits /\ dead(r).phase = r.phase
                          /\ dead(r).part = r.part
  BY DEF IsTab, IsRead, ReadFields
<1>. HIDE DEF dead
<1>3. \A r \in t.reads : ReadRuled(dead(r), t.perm, b)
  BY <1>2 DEF Ruled, ReadRuled
<1>. QED
  BY <1>1, <1>3 DEF Ruled

\* A read is sent under the role of now, a group's of a list that was read.
LEMMA AskedRuled ==
    ASSUME NEW t, NEW part, NEW first, NEW how, NEW j, NEW b,
           t.perm \in Nat, part # Whole => Filled(b)
    PROVE  ReadRuled(Asked(t, part, first, how, j), t.perm, b)
BY DEF Asked, ReadRuled

LEMMA SendRuled ==
    ASSUME NEW t, NEW sent, NEW b, IsTab(t), Ruled(t, b),
           \A r \in sent : ReadRuled(r, t.perm, b)
    PROVE  Ruled(Send(t, sent), b)
<1> DEFINE parts == {r.part : r \in sent}
           older(r) == [r EXCEPT !.live = @ /\ r.part \notin parts,
                                 !.owns = @ /\ r.part \notin parts]
<1>1. /\ Send(t, sent).perm = t.perm /\ Send(t, sent).hidden = t.hidden /\ Send(t, sent).val = t.val
      /\ Send(t, sent).reads = {older(r) : r \in t.reads} \cup sent
  BY DEF Send, IsTab, TabFields
<1>2. \A r \in t.reads : /\ older(r).perm = r.perm /\ (older(r).live => r.live)
                          /\ older(r).waits = r.waits /\ older(r).phase = r.phase
                          /\ older(r).part = r.part
  BY DEF IsTab, IsRead, ReadFields
<1>. HIDE DEF older
<1>3. \A r \in t.reads : ReadRuled(older(r), t.perm, b)
  BY <1>2 DEF Ruled, ReadRuled
<1>. QED
  BY <1>1, <1>3 DEF Ruled

LEMMA SendWholeRuled ==
    ASSUME NEW t, NEW j, NEW b, IsTab(t), Ruled(t, b)
    PROVE  Ruled(SendWhole(t, j), b)
<1> DEFINE u == Invalidate(t)
           sent == {Asked(t, Whole, TRUE, IF Shown(t) THEN "merge" ELSE "fetch", j)}
<1>1. IsTab(u) /\ Ruled(u, b) /\ u.perm = t.perm
  BY InvalidateKeeps, InvalidateRuled DEF Keeps
<1>2. \A r \in sent : ReadRuled(r, t.perm, b)
  BY AskedRuled DEF Ruled
<1>3. SendWhole(t, j) = Send(u, sent)
  BY DEF SendWhole
<1>. HIDE DEF u, sent
<1>. QED
  BY <1>1, <1>2, <1>3, SendRuled

LEMMA DropRuled ==
    ASSUME NEW t, NEW rs, NEW b, IsTab(t), Ruled(t, b)
    PROVE  Ruled(Drop(t, rs), b)
BY DEF Drop, Ruled, IsTab, TabFields

\* The reads that are through have written, and one of the whole list every counter.
LEMMA FinishRuled ==
    ASSUME NEW t, NEW rs, NEW b, IsTab(t), Ruled(t, b),
           \A r \in rs : r.part = Whole /\ r.perm = t.perm => Fresh(b, t.perm)
    PROVE  Ruled(Finish(t, rs), b)
<1> DEFINE current == {r \in rs : r.perm = t.perm}
           whole == \E r \in current : r.part = Whole
           u == Drop(t, rs)
<1>1. IsTab(u) /\ Ruled(u, b)
  BY DropKeeps, KeepsTab, DropRuled
<1>2. /\ Finish(t, rs).perm = u.perm /\ Finish(t, rs).reads = u.reads
      /\ Finish(t, rs).val = u.val
      /\ \/ Finish(t, rs).hidden = u.hidden
         \/ Finish(t, rs).hidden = (u.hidden /\ ~whole)
  BY <1>1 DEF Finish, IsTab, TabFields
<1>3. u.perm = t.perm /\ (whole => Fresh(b, t.perm))
  BY DEF Drop, IsTab, TabFields
<1>. HIDE DEF u, whole
<1>. QED
  BY <1>1, <1>2, <1>3 DEF Ruled

LEMMA FailRuled ==
    ASSUME NEW t, NEW rs, NEW error, NEW b, IsTab(t), Ruled(t, b)
    PROVE  Ruled(Fail(t, rs, error), b)
<1>1. IsTab(Drop(t, rs)) /\ Ruled(Drop(t, rs), b)
  BY DropKeeps, KeepsTab, DropRuled
<1>2. rs # {} => /\ Fail(t, rs, error).perm = Drop(t, rs).perm
                 /\ Fail(t, rs, error).hidden = Drop(t, rs).hidden
                 /\ Fail(t, rs, error).val = Drop(t, rs).val
                 /\ Fail(t, rs, error).reads = Drop(t, rs).reads
  BY <1>1 DEF Fail, IsTab, TabFields
<1>3. rs = {} => Fail(t, rs, error) = t
  BY DEF Fail
<1>. QED
  BY <1>1, <1>2, <1>3, RuledSame

LEMMA RoundedRuled ==
    ASSUME NEW t, NEW b, IsTab(t), Ruled(t, b)
    PROVE  Ruled(Rounded(t), b)
BY RuledSame DEF Rounded, IsTab, TabFields

LEMMA PendRuled ==
    ASSUME NEW t, NEW ids, NEW b, IsTab(t), Ruled(t, b)
    PROVE  Ruled(Pend(t, ids), b)
BY RuledSame DEF Pend, IsTab, TabFields

LEMMA MarkDoubtedRuled ==
    ASSUME NEW t, NEW ids, NEW b, IsTab(t), Ruled(t, b)
    PROVE  Ruled(MarkDoubted(t, ids), b)
BY DoubtRuled DEF MarkDoubted

LEMMA RequestRuled ==
    ASSUME NEW t, NEW ids, NEW b, IsTab(t), Ruled(t, b)
    PROVE  Ruled(Request(t, ids), b)
<1> DEFINE fresh1 == {id \in ids : ~Joined(t, id) /\ ~Decided(t, id)}
           joined == {id \in ids : Joined(t, id)}
           unknown == {id \in fresh1 : t.records[id] = NoRecord \/ t.records[id].perm # t.perm}
           pend == Pend(t, unknown)
           sent == [pend EXCEPT
                      !.serial = IF fresh1 = {} THEN @ ELSE @ + 1,
                      !.jobs = [id \in Ids |->
                          IF id \in fresh1
                          THEN [NoJob EXCEPT !.phase = "asked", !.perm = t.perm,
                                             !.token = t.serial + 1]
                          ELSE @[id]],
                      !.round.ids = [id \in Ids |->
                          IF id \in fresh1 \cup joined THEN t.perm ELSE @[id]]]
<1>1. IsTab(pend) /\ Ruled(pend, b)
  BY PendKeeps, KeepsTab, PendRuled
<1>2. Request(t, ids) = MarkDoubted(sent, fresh1)
  BY DEF Request
<1>. HIDE DEF fresh1, joined, unknown, pend
<1>3. IsTab(sent)
  BY <1>1, NoJobIsJob DEF IsTab, TabFields
<1>4. /\ sent.perm = pend.perm /\ sent.hidden = pend.hidden
      /\ sent.val = pend.val /\ sent.reads = pend.reads
  BY <1>1 DEF IsTab, TabFields
<1>. HIDE DEF sent
<1>. QED
  BY <1>1, <1>2, <1>3, <1>4, RuledSame, MarkDoubtedRuled

LEMMA RequireRuled ==
    ASSUME NEW t, NEW ids, NEW b, IsTab(t), Ruled(t, b)
    PROVE  Ruled(Require(t, ids), b)
<1> DEFINE open == {id \in ids : t.round.ids[id] = t.perm => t.records[id] # NoRecord}
           affected == [t EXCEPT !.affected = @ \cup ids]
           noted == Pend(affected, {id \in open : t.records[id] = NoRecord})
<1>1. IsTab(affected) /\ Ruled(affected, b)
  BY RuledSame DEF IsTab, TabFields
<1>2. IsTab(noted) /\ Ruled(noted, b)
  BY <1>1, PendKeeps, KeepsTab, PendRuled
<1>3. Require(t, ids) = Request(noted, open)
  BY DEF Require
<1>. HIDE DEF open, affected, noted
<1>. QED
  BY <1>2, <1>3, RequestRuled

\* What waited for a verification has written.
LEMMA EndJobRuled ==
    ASSUME NEW t, NEW id, NEW error, NEW b, IsTab(t), Ruled(t, b)
    PROVE  Ruled(EndJob(t, id, error), b)
<1> DEFINE waiting == {r \in t.reads : id \in r.waits}
           less(r) == [r EXCEPT !.waits = @ \ {id}]
           further == {[r EXCEPT !.waits = @ \ {id}] : r \in waiting}
           through == {r \in further : r.waits = {}}
           none == [t EXCEPT !.jobs[id] = NoJob]
           rest == [none EXCEPT !.reads = (@ \ waiting) \cup further]
<1>1. EndJob(t, id, error) =
        IF error # NoError THEN Fail(none, waiting, error) ELSE Finish(rest, through)
  BY DEF EndJob
<1>2. /\ IsTab(none) /\ none.reads = t.reads /\ none.perm = t.perm
      /\ none.hidden = t.hidden /\ none.val = t.val
  BY NoJobIsJob DEF IsTab, TabFields
<1>3. Ruled(none, b)
  BY <1>2, RuledSame
<1>4. \A r \in waiting :
        /\ IsRead(less(r)) /\ less(r).perm = r.perm /\ less(r).live = r.live
        /\ less(r).phase = r.phase /\ less(r).part = r.part
        /\ ReadRuled(r, t.perm, b) /\ r.phase = "draining"
  BY DEF IsTab, IsRead, ReadFields, Ruled, ReadRuled
<1>5. further = {less(r) : r \in waiting}
  OBVIOUS
<1>. HIDE DEF less, further
<1>6. \A r \in further : IsRead(r) /\ ReadRuled(r, t.perm, b) /\ r.phase = "draining"
  BY <1>4, <1>5 DEF ReadRuled
<1>. HIDE DEF none, waiting
<1>7. IsTab(rest) /\ rest.perm = t.perm /\ rest.hidden = t.hidden /\ rest.val = t.val
      /\ rest.reads = (t.reads \ waiting) \cup further
  BY <1>2, <1>6 DEF IsTab, TabFields
<1>. HIDE DEF rest
<1>8. Ruled(rest, b)
  BY <1>6, <1>7 DEF Ruled
<1>9. \A r \in through : r.part = Whole /\ r.perm = rest.perm => Fresh(b, rest.perm)
  BY <1>6, <1>7 DEF ReadRuled
<1>. HIDE DEF through
<1>. QED
  BY <1>1, <1>2, <1>3, <1>7, <1>8, <1>9, FailRuled, FinishRuled

LEMMA EndReadRuled ==
    ASSUME NEW t, NEW r, NEW error, NEW b, IsTab(t), Ruled(t, b)
    PROVE  Ruled(EndRead(t, r, error), b)
BY EndJobRuled DEF EndRead

\* A read of this role that has written: the whole list's, every counter.
Written(r, t, b) ==
    /\ IsRead(r) /\ r.perm \in Nat /\ r.perm = t.perm
    /\ r.part = Whole => Fresh(b, t.perm)
    /\ Filled(b)

LEMMA WaitRuled ==
    ASSUME NEW t, NEW r, NEW ids, NEW b, IsTab(t), Ruled(t, b), Written(r, t, b)
    PROVE  Ruled(Wait(t, r, ids), b)
<1> DEFINE waits == [r EXCEPT !.phase = "draining", !.live = FALSE, !.changes = <<>>,
                              !.waits = ids]
           u == [t EXCEPT !.reads = @ \cup {waits}]
<1>1. Wait(t, r, ids) = IF ids = {} THEN Finish(t, {r}) ELSE u
  BY DEF Wait
<1>2. waits.perm = r.perm /\ waits.live = FALSE /\ waits.phase = "draining" /\ waits.part = r.part
  BY DEF Written, IsRead, ReadFields
<1>. HIDE DEF waits
<1>3. ReadRuled(waits, t.perm, b)
  BY <1>2 DEF Written, ReadRuled
<1>4. u.perm = t.perm /\ u.hidden = t.hidden /\ u.val = t.val /\ u.reads = t.reads \cup {waits}
  BY DEF IsTab, TabFields
<1>. HIDE DEF u
<1>5. Ruled(u, b)
  BY <1>3, <1>4 DEF Ruled
<1>6. Ruled(Finish(t, {r}), b)
  BY FinishRuled DEF Written
<1>. QED
  BY <1>1, <1>5, <1>6

LEMMA DrainRuled ==
    ASSUME NEW t, NEW r, NEW b, IsTab(t), Ruled(t, b), Written(r, t, b)
    PROVE  Ruled(Drain(t, r), b)
<1> DEFINE drained == {id \in t.affected : t.records[id] # NoRecord \/ t.round.ids[id] # -1}
           finished == Finish(t, {r})
           asked == Request(t, drained)
<1>1. Drain(t, r) = IF r.job # 0 THEN EndRead(finished, r, NoError)
                    ELSE Join(asked, r, Refused(t, drained), drained)
  BY DEF Drain
<1>2. IsTab(finished) /\ Ruled(finished, b)
  BY FinishKeeps, KeepsTab, FinishRuled DEF Written
<1>3. IsTab(asked) /\ Ruled(asked, b) /\ asked.perm = t.perm
  BY RequestKeeps, RequestRuled DEF Keeps
<1>. HIDE DEF drained, finished, asked
<1>4. Ruled(EndRead(finished, r, NoError), b)
  BY <1>2, EndReadRuled
<1>5. Written(r, asked, b)
  BY <1>3 DEF Written
<1>6. Ruled(Join(asked, r, Refused(t, drained), drained), b)
  BY <1>3, <1>5, FailRuled, WaitRuled DEF Join
<1>. QED
  BY <1>1, <1>4, <1>6

LEMMA RefreshRuled ==
    ASSUME NEW t, NEW id, NEW b, IsTab(t), Ruled(t, b)
    PROVE  Ruled(Refresh(t, id), b)
<1> DEFINE u == [t EXCEPT !.round.scoped = TRUE, !.jobs[id].phase = "refreshing"]
<1>1. IsTab(u) /\ u.perm = t.perm /\ u.hidden = t.hidden /\ u.val = t.val /\ u.reads = t.reads
  BY DEF IsTab, IsJob, TabFields, JobFields
<1>2. Refresh(t, id) = IF Shown(t) /\ ~t.round.scoped THEN SendWhole(u, id)
                       ELSE EndJob(t, id, NoError)
  BY DEF Refresh
<1>. HIDE DEF u
<1>. QED
  BY <1>1, <1>2, RuledSame, SendWholeRuled, EndJobRuled

\* What was ruled stays so, under the same role.
StaysRuled(t, u) == u.perm = t.perm /\ \A b : Ruled(t, b) => Ruled(u, b)

LEMMA AcceptReadRuled ==
    ASSUME NEW t, NEW ids, NEW snap, NEW token, NEW detail, IsTab(t), Versions(snap)
    PROVE  StaysRuled(t, AcceptRead(t, ids, snap, token, detail))
<1> DEFINE taken == Accepted(t, ids, snap, token)
           moved == {id \in taken : /\ ~Pending(t, id) /\ t.held[id].k = "held"
                                    /\ t.held[id].at # snap[id].at}
           cleared == t.error \in taken /\ t.records[t.error].status \in {"error", "unconfirmed"}
           entity(id) == [k |-> "held", at |-> snap[id].at, ver |-> snap[id].ver,
                          perm |-> t.perm,
                          full |-> detail \/ (HeldCurrent(t, id) /\ t.held[id].full)]
           seen(w) == IF w.id \in taken /\ w.phase # "queued"
                      THEN [w EXCEPT !.seen = @ \cup {snap[w.id]}] ELSE w
           read == [t EXCEPT
                      !.held = [id \in Ids |-> IF id \in taken THEN entity(id) ELSE @[id]],
                      !.records = [id \in Ids |-> IF id \in taken THEN NoRecord ELSE @[id]],
                      !.error = IF cleared THEN NoError ELSE @,
                      !.failed = IF cleared THEN {} ELSE @,
                      !.writes = {seen(w) : w \in @}]
           places == UNION {HeldParts(t, id) \cup ({snap[id].at} \cap Groups) : id \in moved}
<1>1. \A w \in t.writes : IsWrite(seen(w))
  BY DEF IsTab, IsWrite, WriteFields
<1>2. \A id \in Ids : entity(id).ver = snap[id].ver /\ snap[id].ver \in Nat
  BY DEF Versions
<1>3. AcceptRead(t, ids, snap, token, detail) = IF moved = {} THEN read ELSE Doubt(read, places)
  BY DEF AcceptRead
<1>. HIDE DEF taken, moved, cleared, entity, seen, places
<1>4. /\ DOMAIN read = TabFields /\ read.perm = t.perm /\ read.hidden = t.hidden /\ read.val = t.val
      /\ read.held = [id \in Ids |-> IF id \in taken THEN entity(id) ELSE t.held[id]]
      /\ read.reads = t.reads /\ read.jobs = t.jobs
      /\ read.writes = {seen(w) : w \in t.writes}
  BY DEF IsTab, TabFields
<1>. HIDE DEF read
<1>5. IsTab(read)
  BY <1>1, <1>2, <1>4 DEF IsTab, IsHeld
<1>6. Doubt(read, places).perm = t.perm
  BY <1>4, <1>5, DoubtKeeps DEF Keeps
<1>7. ASSUME NEW b, Ruled(t, b)
      PROVE  Ruled(read, b) /\ Ruled(Doubt(read, places), b)
  <2>1. Ruled(read, b)
    BY <1>4, <1>7, RuledSame
  <2>. QED
    BY <1>5, <2>1, DoubtRuled
<1>. QED
  BY <1>3, <1>4, <1>6, <1>7 DEF StaysRuled

LEMMA TakenRuled ==
    ASSUME IInv, NEW r \in tab.reads, NEW b, Ruled(tab, b)
    PROVE  Ruled(Taken(r), b) /\ Taken(r).perm = tab.perm
<1>1. StaysRuled(tab, Taken(r))
  BY AcceptReadRuled DEF Taken, IInv, IsTab, IsRead
<1>. QED
  BY <1>1 DEF StaysRuled

LEMMA ConfirmEntityRuled ==
    ASSUME NEW t, NEW id, NEW after, NEW b, IsTab(t), Ruled(t, b)
    PROVE  /\ Ruled(ConfirmEntity(t, id, after), b)
           /\ ConfirmEntity(t, id, after).perm = t.perm
<1>1. /\ ConfirmEntity(t, id, after).perm = t.perm
      /\ ConfirmEntity(t, id, after).hidden = t.hidden /\ ConfirmEntity(t, id, after).val = t.val
      /\ ConfirmEntity(t, id, after).reads = t.reads
  BY DEF ConfirmEntity, IsTab, TabFields
<1>. QED
  BY <1>1, RuledSame

LEMMA RemovedRuled ==
    ASSUME NEW t, NEW b, IsTab(t), Ruled(t, b)
    PROVE  Ruled(Removed(t), b)
<1> DEFINE u == [t EXCEPT !.serial = @ + 1, !.deletion = t.serial + 1]
<1>1. IsTab(u) /\ u.perm = t.perm /\ u.hidden = t.hidden /\ u.val = t.val /\ u.reads = t.reads
  BY DEF IsTab, TabFields
<1>2. Removed(t) = Doubt(Invalidate(u), Groups)
  BY DEF Removed
<1>. HIDE DEF u
<1>3. IsTab(Invalidate(u)) /\ Ruled(Invalidate(u), b)
  BY <1>1, RuledSame, InvalidateKeeps, KeepsTab, InvalidateRuled
<1>. QED
  BY <1>2, <1>3, DoubtRuled

\* What a step owes.
RoleKept == IsBasis' /\ Ruled(tab', basis')

LEMMA RoleStays ==
    ASSUME RoleInv, UNCHANGED basis, tab'.perm = tab.perm,
           Ruled(tab', basis)
    PROVE  RoleKept
BY DEF RoleKept, RoleInv, IsBasis

LEMMA RoleSame ==
    ASSUME RoleInv, UNCHANGED basis,
           tab'.perm = tab.perm, tab'.hidden = tab.hidden, tab'.val = tab.val,
           tab'.reads = tab.reads
    PROVE  RoleKept
<1>1. Ruled(tab', basis)
  BY RuledSame DEF RoleInv
<1>. QED
  BY <1>1, RoleStays

LEMMA SendingRole ==
    ASSUME RoleInv, FetchFirst \/ (\E g \in Groups : FetchNext(g)) \/ Look
    PROVE  RoleKept
<1>. SUFFICES tab'.perm = tab.perm /\ Ruled(tab', basis)
  BY RoleStays DEF FetchFirst, FetchNext, Look
<1>1. IsTab(tab) /\ Ruled(tab, basis) /\ tab.perm \in Nat
  BY DEF RoleInv, IInv, Ruled
<1>2. CASE FetchFirst
  BY <1>1, <1>2, SendWholeRuled, SendWholeKeeps DEF FetchFirst, Keeps
<1>3. ASSUME NEW g \in Groups, FetchNext(g)
      PROVE  tab'.perm = tab.perm /\ Ruled(tab', basis)
  <2> DEFINE sent == {Asked(tab, g, FALSE, "merge", 0)}
  <2>1. \A r \in sent : IsRead(r) /\ ReadRuled(r, tab.perm, basis)
    BY <1>1, <1>3, AskedIsRead, AskedRuled DEF FetchNext, Shown, Ruled
  <2>2. tab' = Send(tab, sent)
    BY <1>3 DEF FetchNext
  <2>. HIDE DEF sent
  <2>. QED
    BY <1>1, <2>1, <2>2, SendRuled, SendKeeps DEF Keeps
<1>4. CASE Look
  <2> DEFINE looked == [tab EXCEPT !.attempted = (@ \cap StaleGroups(tab)) \cup Unread]
             sent == {Asked(tab, g, TRUE, "merge", 0) : g \in Unread}
  <2>1. \A r \in sent : IsRead(r) /\ ReadRuled(r, tab.perm, basis)
    <3>1. Unread # {} => Filled(basis)
      BY <1>1 DEF Unread, StaleGroups, Shown, Ruled
    <3>. QED
      BY <1>1, <3>1, AskedIsRead, AskedRuled
  <2>2. tab' = IF Unread = {} THEN looked ELSE Send(looked, sent)
    BY <1>4 DEF Look
  <2>3. /\ IsTab(looked) /\ looked.perm = tab.perm /\ looked.hidden = tab.hidden
        /\ looked.val = tab.val /\ looked.reads = tab.reads
    BY <1>1 DEF IsTab, TabFields
  <2>. HIDE DEF looked, sent
  <2>4. Ruled(looked, basis)
    BY <1>1, <2>3, RuledSame
  <2>. QED
    BY <2>1, <2>2, <2>3, <2>4, SendRuled, SendKeeps DEF Keeps
<1>. QED
  BY <1>2, <1>3, <1>4

LEMMA ServeReadRole == ASSUME RoleInv, NEW r \in tab.reads, ServeRead(r) PROVE RoleKept
<1> DEFINE served == [r EXCEPT !.phase = "served", !.snap = issues, !.others = others]
<1>1. /\ IsTab(tab) /\ IsRead(r) /\ r.phase = "asked"
      /\ tab' = [tab EXCEPT !.reads = (@ \ {r}) \cup {served}]
      /\ UNCHANGED basis
  BY DEF ServeRead, RoleInv, IInv, IsTab
<1>2. /\ served.perm = r.perm /\ served.live = r.live /\ served.waits = r.waits
      /\ served.phase = "served" /\ served.part = r.part
  BY <1>1 DEF IsRead, ReadFields
<1>. HIDE DEF served
<1>3. ReadRuled(r, tab.perm, basis) /\ Ruled(tab, basis)
  BY DEF RoleInv, Ruled
<1>4. ReadRuled(served, tab.perm, basis)
  BY <1>1, <1>2, <1>3 DEF ReadRuled
<1>5. /\ tab'.perm = tab.perm /\ tab'.hidden = tab.hidden /\ tab'.val = tab.val
      /\ tab'.reads = (tab.reads \ {r}) \cup {served}
  BY <1>1 DEF IsTab, TabFields
<1>6. Ruled(tab', basis)
  BY <1>3, <1>4, <1>5 DEF Ruled
<1>. QED
  BY <1>1, <1>5, <1>6, RoleStays

\* A read that ends without a word.
LEMMA EndingRole ==
    ASSUME RoleInv, NEW r \in tab.reads, FailRead(r) \/ ReadCountsNot(r) \/ ReadOverdue(r)
    PROVE  RoleKept
<1> DEFINE Ends(u) == /\ IsTab(u) /\ Ruled(u, basis) /\ u.perm = tab.perm
<1>1. UNCHANGED basis
  BY DEF FailRead, ReadCountsNot, ReadOverdue
<1>2. Ends(tab)
  BY DEF RoleInv, IInv
<1>3. \A u, error : Ends(u) => Ends(EndRead(u, r, error)) /\ Ends(Rounded(u))
  BY EndReadKeeps, EndReadRuled, RoundedKeeps, RoundedRuled DEF Keeps
<1>4. \A u : Ends(u) => Ends(Drop(u, {r})) /\ Ends(Fail(u, {r}, ReadError))
  BY DropKeeps, DropRuled, FailKeeps, FailRuled DEF Keeps
<1>5. Ends(Without(Taken(r), r))
  <2>1. IsTab(Taken(r)) /\ Keeps(Taken(r), Without(Taken(r), r))
    BY TakenMoves DEF Moves, RoleInv
  <2>2. IInv
    BY DEF RoleInv
  <2>3. Ruled(Taken(r), basis) /\ Taken(r).perm = tab.perm
    BY <1>2, <2>2, TakenRuled
  <2>4. /\ Without(Taken(r), r).perm = Taken(r).perm
        /\ Without(Taken(r), r).hidden = Taken(r).hidden /\ Without(Taken(r), r).val = Taken(r).val
        /\ Without(Taken(r), r).reads \subseteq Taken(r).reads
    BY <2>1 DEF Without, IsTab, TabFields
  <2>. QED
    BY <2>1, <2>3, <2>4 DEF Ruled, Keeps
<1>6. Ends(tab')
  <2>. HIDE DEF Ends
  <2>. QED
    BY <1>2, <1>3, <1>4, <1>5 DEF FailRead, ReadCountsNot, ReadOverdue
<1>. QED
  BY <1>1, <1>6, RoleStays

\* What an answer writes, it writes under its role: the whole list's, every
\* counter.
LEMMA AnswersRole ==
    ASSUME RoleInv, NEW t, NEW r, NEW unsure, basis' = Answers(t, r, unsure),
           r.perm = tab.perm, r.part # Whole => Filled(basis)
    PROVE  /\ IsBasis' /\ Filled(basis')
           /\ Fresh(basis, tab.perm) => Fresh(basis', tab.perm)
           /\ r.part = Whole => Fresh(basis', tab.perm)
<1> DEFINE twice == \E i, j \in DOMAIN r.changes :
                       /\ i < j /\ r.changes[i].type = "confirm" /\ r.changes[j].type = "confirm"
                       /\ r.changes[i].change.id = r.changes[j].change.id
           gap == ~r.first /\ r.lower # GroupOf(t.val, r.part).cursor
           unmarked == ~r.first /\ GroupOf(t.val, r.part).stale
           read == [others |-> r.others, perm |-> r.perm, further |-> ~r.first,
                    twice |-> twice, gap |-> gap, unsure |-> FALSE, unmarked |-> unmarked]
           on(old) == IF r.first THEN read
                      ELSE [read EXCEPT !.others = Min({@, old.others}), !.gap = @ \/ old.gap,
                                        !.unmarked = @ \/ old.unmarked]
           all == [c \in AllCounters |-> [read EXCEPT !.unsure = c \in unsure]]
<1>1. basis' = IF r.part = Whole THEN all ELSE [basis EXCEPT ![r.part] = on(@)]
  BY DEF Answers
<1>2. \A c : /\ [read EXCEPT !.unsure = c \in unsure].perm = tab.perm
             /\ "perm" \in DOMAIN [read EXCEPT !.unsure = c \in unsure]
  OBVIOUS
<1>3. \A old : on(old).perm = tab.perm /\ "perm" \in DOMAIN on(old)
  OBVIOUS
<1>. HIDE DEF twice, gap, unmarked, read, on
<1>4. tab.perm # -1
  BY DEF RoleInv, Ruled
<1>5. CASE r.part = Whole
  BY <1>1, <1>2, <1>4, <1>5 DEF IsBasis, Fresh, Filled
<1>6. CASE r.part # Whole
  BY <1>1, <1>3, <1>4, <1>6 DEF IsBasis, Fresh, Filled, RoleInv
<1>. QED
  BY <1>5, <1>6

LEMMA ReadAnswerRole == ASSUME RoleInv, NEW r \in tab.reads, ReadAnswer(r) PROVE RoleKept
<1> DEFINE t == Without(Taken(r), r)
<1>1. PICK made : Publish(t, r, made)
  BY DEF ReadAnswer
<1>2. IsRead(r) /\ r.perm = tab.perm /\ r.perm \in Nat /\ (r.part # Whole => Filled(basis))
  BY DEF ReadAnswer, Counts, IsReadCurrent, RoleInv, IInv, IsTab, Ruled, ReadRuled
<1>3. IsTab(t) /\ Ruled(t, basis) /\ t.perm = tab.perm
  <2>1. IsTab(Taken(r)) /\ Keeps(Taken(r), t)
    BY TakenMoves DEF Moves, RoleInv
  <2>2. Ruled(Taken(r), basis) /\ Taken(r).perm = tab.perm
    BY TakenRuled DEF RoleInv
  <2>3. /\ t.perm = Taken(r).perm /\ t.hidden = Taken(r).hidden /\ t.val = Taken(r).val
        /\ t.reads \subseteq Taken(r).reads
    BY <2>1 DEF Without, IsTab, TabFields
  <2>. QED
    BY <2>1, <2>2, <2>3 DEF Ruled, Keeps
<1>. HIDE DEF t
<1>4. CASE made.safe
  <2> DEFINE value == [t EXCEPT !.val = made.value]
             required == Require(value, made.verify)
             drained == Drain(required, r)
  <2>1. PICK unsure : basis' = Answers(t, r, unsure)
    BY <1>1, <1>4 DEF Publish
  <2>2. /\ IsBasis' /\ Filled(basis')
        /\ Fresh(basis, tab.perm) => Fresh(basis', tab.perm)
        /\ r.part = Whole => Fresh(basis', tab.perm)
    BY <1>2, <2>1, AnswersRole
  <2>3. tab' = Rounded(drained)
    BY <1>1, <1>4 DEF Publish
  <2>4. Ruled(t, basis')
    BY <1>3, <2>2, RuledMore
  <2>5. /\ IsTab(value) /\ value.perm = t.perm /\ value.hidden = t.hidden
        /\ value.reads = t.reads
    BY <1>3 DEF IsTab, TabFields
  <2>. HIDE DEF value
  <2>6. Ruled(value, basis')
    BY <2>2, <2>4, <2>5 DEF Ruled
  <2>7. IsTab(required) /\ Ruled(required, basis') /\ required.perm = tab.perm
    BY <1>3, <2>5, <2>6, RequireKeeps, RequireRuled DEF Keeps
  <2>8. Written(r, required, basis')
    BY <1>2, <2>2, <2>7 DEF Written
  <2>. HIDE DEF required
  <2>9. IsTab(drained) /\ Ruled(drained, basis') /\ drained.perm = tab.perm
    BY <1>2, <2>7, <2>8, DrainKeeps, DrainRuled DEF Keeps
  <2>. HIDE DEF drained
  <2>10. Ruled(tab', basis') /\ tab'.perm = tab.perm
    BY <2>3, <2>9, RoundedKeeps, RoundedRuled DEF Keeps
  <2>. QED
    BY <2>2, <2>10 DEF RoleKept
<1>5. CASE ~made.safe
  <2> DEFINE refused == Require(t, made.verify)
             failed == Fail(refused, {r}, ReadError)
             ended == EndRead(failed, r, ReadError)
  <2>1. tab' = Rounded(ended) /\ UNCHANGED basis
    BY <1>1, <1>5 DEF Publish
  <2>2. IsTab(refused) /\ Ruled(refused, basis) /\ refused.perm = tab.perm
    BY <1>3, RequireKeeps, RequireRuled DEF Keeps
  <2>. HIDE DEF refused
  <2>3. IsTab(failed) /\ Ruled(failed, basis) /\ failed.perm = tab.perm
    BY <2>2, FailKeeps, FailRuled DEF Keeps
  <2>. HIDE DEF failed
  <2>4. IsTab(ended) /\ Ruled(ended, basis) /\ ended.perm = tab.perm
    BY <2>3, EndReadKeeps, EndReadRuled DEF Keeps
  <2>. HIDE DEF ended
  <2>5. Ruled(tab', basis) /\ tab'.perm = tab.perm
    BY <2>1, <2>4, RoundedKeeps, RoundedRuled DEF Keeps
  <2>. QED
    BY <2>1, <2>5, RoleStays
<1>. QED
  BY <1>4, <1>5

LEMMA ServeJobRole == ASSUME RoleInv, NEW id \in Ids, ServeJob(id) PROVE RoleKept
<1>1. /\ tab'.perm = tab.perm /\ tab'.hidden = tab.hidden
      /\ tab'.val = tab.val /\ tab'.reads = tab.reads
  BY DEF ServeJob, RoleInv, IInv, IsTab, TabFields
<1>. QED
  BY <1>1, RoleSame DEF ServeJob

\* The end of a verification, and what follows it.
LEMMA VerifyingRole ==
    ASSUME RoleInv, NEW id \in Ids, FailJob(id) \/ JobAnswer(id)
    PROVE  RoleKept
<1> DEFINE Ends(u) == IsTab(u) /\ Ruled(u, basis) /\ u.perm = tab.perm
           Same(u, v) == /\ IsTab(v) /\ v.perm = u.perm /\ v.hidden = u.hidden /\ v.val = u.val
                         /\ v.reads = u.reads
           job == tab.jobs[id]
           failed == Ended(tab, id, "error")
           shown == [failed EXCEPT !.error = id]
           refused == MarkDoubted(shown, {id})
           absent == Ended(tab, id, "missing")
           missing == MarkDoubted(absent, {id})
           snap == [NoSnap EXCEPT ![id] = job.answer]
           read == AcceptRead(tab, {id}, snap, job.token, TRUE)
           asked == [read EXCEPT !.serial = @ + 1,
                       !.jobs[id] = [job EXCEPT !.phase = "asked", !.again = TRUE,
                                                !.token = read.serial + 1, !.answer = Unknown]]
           again == MarkDoubted(asked, {id})
           unsure == [read EXCEPT !.records[id].status = "unconfirmed", !.error = id]
           open == MarkDoubted(unsure, {id})
<1>1. /\ UNCHANGED basis
      /\ \/ tab' = Rounded(EndJob(tab, id, NoError))
         \/ tab' = Rounded(EndJob(refused, id, id))
         \/ tab' = Rounded(Refresh(missing, id))
         \/ tab' = Rounded(Refresh(read, id))
         \/ tab' = Rounded(again)
         \/ tab' = Rounded(EndJob(open, id, NoError))
  BY DEF FailJob, JobAnswer
<1>2. Ends(tab) /\ IsJob(job)
  BY DEF RoleInv, IInv, IsTab
<1>3. Versions(snap)
  BY DEF Versions, NoSnap, RoleInv, IInv, IsTab, IsJob
<1>. HIDE DEF snap, job
<1>4. \A u, v : Ends(u) /\ Same(u, v) => Ends(v)
  BY RuledSame
<1>5. \A u : Ends(u) => Ends(MarkDoubted(u, {id}))
  BY MarkDoubtedKeeps, MarkDoubtedRuled DEF Keeps
<1>6. \A u, error : Ends(u) => Ends(EndJob(u, id, error)) /\ Ends(Rounded(u))
  BY EndJobKeeps, EndJobRuled, RoundedKeeps, RoundedRuled DEF Keeps
<1>7. \A u : Ends(u) => Ends(Refresh(u, id))
  BY RefreshKeeps, RefreshRuled DEF Keeps
<1>8. Ends(read)
  <2>1. IsTab(read)
    BY <1>2, <1>3, AcceptReadMoves DEF Moves
  <2>2. StaysRuled(tab, read)
    BY <1>2, <1>3, AcceptReadRuled
  <2>. QED
    BY <1>2, <2>1, <2>2 DEF StaysRuled
<1>9. Same(tab, failed) /\ Same(tab, absent)
  BY <1>2 DEF Ended, IsTab, TabFields
<1>. HIDE DEF failed, absent, read
<1>10. Same(failed, shown)
  BY <1>9 DEF IsTab, TabFields
<1>11. Same(read, asked) /\ Same(read, unsure)
  <2>1. IsJob([job EXCEPT !.phase = "asked", !.again = TRUE, !.token = read.serial + 1,
                          !.answer = Unknown])
    BY <1>2 DEF IsJob, JobFields, Unknown
  <2>. QED
    BY <1>8, <2>1 DEF IsTab, TabFields
<1>. HIDE DEF shown, asked, unsure, Same
<1>12. Ends(failed) /\ Ends(absent) /\ Ends(shown) /\ Ends(asked) /\ Ends(unsure)
  BY <1>2, <1>4, <1>8, <1>9, <1>10, <1>11
<1>. HIDE DEF Ends
<1>13. Ends(refused) /\ Ends(missing) /\ Ends(again) /\ Ends(open)
  BY <1>5, <1>12
<1>. HIDE DEF refused, missing, again, open
<1>14. Ends(tab')
  BY <1>1, <1>2, <1>6, <1>7, <1>8, <1>13
<1>. QED
  BY <1>1, <1>14, RoleStays DEF Ends

\* Changes that are asked for, sent, served or dropped leave the list.
LEMMA WritingRole ==
    ASSUME RoleInv,
           \/ Move \/ Create \/ Delete \/ Regain
           \/ \E w \in tab.writes : \/ Begin(w) \/ ServeWrite(w) \/ FailWrite(w)
                                    \/ AnsweredLate(w) \/ EndWrite(w)
           \/ \E id \in Ids, to \in Groups \cup {Out, Gone} : Others(id, to)
    PROVE  RoleKept
<1>1. IsTab(tab)
  BY DEF RoleInv, IInv
<1>. SUFFICES /\ UNCHANGED basis
              /\ tab'.perm = tab.perm /\ tab'.hidden = tab.hidden
              /\ tab'.val = tab.val /\ tab'.reads = tab.reads
  BY RoleSame
<1>2. CASE Move \/ Create \/ Delete
  BY <1>1, <1>2 DEF Move, Create, Delete, Ask, IsTab, TabFields
<1>3. CASE Regain
  BY <1>1, <1>3 DEF Regain, IsTab, TabFields
<1>4. ASSUME NEW w \in tab.writes,
             ServeWrite(w) \/ FailWrite(w) \/ AnsweredLate(w) \/ EndWrite(w)
      PROVE  /\ UNCHANGED basis
             /\ tab'.perm = tab.perm /\ tab'.hidden = tab.hidden
             /\ tab'.val = tab.val /\ tab'.reads = tab.reads
  BY <1>1, <1>4 DEF ServeWrite, FailWrite, AnsweredLate, EndWrite, IsTab, TabFields
<1>5. ASSUME NEW w \in tab.writes, Begin(w)
      PROVE  /\ UNCHANGED basis
             /\ tab'.perm = tab.perm /\ tab'.hidden = tab.hidden
             /\ tab'.val = tab.val /\ tab'.reads = tab.reads
  BY <1>1, <1>5 DEF Begin, IsTab, TabFields
<1>6. CASE \E id \in Ids, to \in Groups \cup {Out, Gone} : Others(id, to)
  BY <1>6 DEF Others
<1>. QED
  BY <1>2, <1>3, <1>4, <1>5, <1>6

LEMMA WriteAnswerRole ==
    ASSUME RoleInv, NEW w \in tab.writes, NEW open \in BOOLEAN, WriteAnswer(w, open)
    PROVE  RoleKept
<1> DEFINE t == Cleared(w)
           over == [w EXCEPT !.phase = "over"]
           rest == IF open THEN {over} ELSE {}
<1>1. PICK change, made, verify : /\ Tell(t, w, change, made, verify, rest)
                                  /\ t.val = NoVal => made.value = NoVal
  BY DEF WriteAnswer, Worked
<1>2. IsTab(tab) /\ Ruled(tab, basis) /\ IsWrite(w)
  BY DEF RoleInv, IInv, IsTab
<1>3. IsTab(t) /\ Ruled(t, basis) /\ t.perm = tab.perm
  BY <1>2, RemovedKeeps, RemovedRuled DEF Keeps, Cleared
<1>4. \A x \in rest : IsWrite(x)
  BY <1>2 DEF IsWrite, WriteFields
<1> DEFINE kept == Keep(t, Confirmed(change, w.sources))
           told == [kept EXCEPT !.val = made.value, !.writes = (@ \ {w}) \cup rest]
           confirmed == ConfirmEntity(told, w.issue, w.after)
<1>5. tab' = Require(confirmed, verify)
  BY <1>1 DEF Tell
<1>6. basis' = [c \in AllCounters |->
                  [basis[c] EXCEPT !.unsure = @ \/ c \in made.unsure \/ made.verify]]
  BY <1>1 DEF Tell
<1>. HIDE DEF t, rest
<1>7. IsTab(kept) /\ Ruled(kept, basis) /\ kept.perm = tab.perm
  BY <1>3, KeepKeeps, KeepRuled DEF Keeps
<1>. HIDE DEF kept
<1>8. IsTab(told) /\ told.perm = kept.perm /\ told.hidden = kept.hidden
      /\ told.reads = kept.reads /\ (kept.val = NoVal => told.val = NoVal)
  <2>1. kept.val = t.val
    BY <1>3 DEF Keep, IsTab, TabFields, kept
  <2>2. t.val = NoVal => made.value = NoVal
    BY <1>1
  <2>. QED
    BY <1>4, <1>7, <2>1, <2>2 DEF IsTab, TabFields
<1>. HIDE DEF told
<1>9. Ruled(told, basis)
  BY <1>7, <1>8 DEF Ruled
<1>10. IsTab(confirmed) /\ Ruled(confirmed, basis) /\ confirmed.perm = tab.perm
  BY <1>2, <1>7, <1>8, <1>9, ConfirmEntityMoves, ConfirmEntityRuled DEF Moves, IsWrite
<1>. HIDE DEF confirmed
<1>11. Ruled(tab', basis) /\ tab'.perm = tab.perm
  BY <1>5, <1>10, RequireKeeps, RequireRuled DEF Keeps
<1>12. /\ DOMAIN basis' = AllCounters
       /\ \A c \in AllCounters : "perm" \in DOMAIN basis'[c] /\ basis'[c].perm = basis[c].perm
  BY <1>6 DEF RoleInv, IsBasis
<1>13. /\ IsBasis'
       /\ Fresh(basis, tab.perm) => Fresh(basis', tab.perm)
       /\ Filled(basis) => Filled(basis')
  BY <1>12 DEF IsBasis, Fresh, Filled
<1>14. Ruled(tab', basis')
  BY <1>11, <1>13, RuledMore
<1>. QED
  BY <1>11, <1>13, <1>14 DEF RoleKept

LEMMA AnswerThrowsRole ==
    ASSUME RoleInv, NEW w \in tab.writes, AnswerThrows(w)
    PROVE  RoleKept
<1> DEFINE t == Cleared(w)
<1>1. IsTab(tab) /\ Ruled(tab, basis)
  BY DEF RoleInv, IInv
<1>2. IsTab(t) /\ Ruled(t, basis) /\ t.perm = tab.perm
  BY <1>1, RemovedKeeps, RemovedRuled DEF Keeps, Cleared
<1>3. tab' = [t EXCEPT !.writes = @ \ {w}] /\ UNCHANGED basis
  BY DEF AnswerThrows
<1>. HIDE DEF t
<1>4. /\ tab'.perm = t.perm /\ tab'.hidden = t.hidden /\ tab'.val = t.val
      /\ tab'.reads = t.reads
  BY <1>2, <1>3 DEF IsTab, TabFields
<1>. QED
  BY <1>2, <1>3, <1>4, RuledSame, RoleStays

\* Nothing read before counts, and the list is hidden.
LEMMA ChangeRoleRole == ASSUME RoleInv, NEW can, ChangeRole(can) PROVE RoleKept
<1> DEFINE t == Invalidate(tab)
           disowned(r) == [r EXCEPT !.owns = FALSE]
           dead(r) == [r EXCEPT !.live = FALSE]
<1>1. IsTab(tab) /\ IsTab(t) /\ t.perm = tab.perm /\ tab.perm \in Nat
  BY InvalidateKeeps DEF RoleInv, IInv, Ruled, Keeps
<1>2. t.reads = {dead(r) : r \in tab.reads}
  BY <1>1 DEF Invalidate, IsTab, TabFields
<1>3. \A r \in t.reads : ~r.live
  BY <1>1, <1>2 DEF IsTab, IsRead, ReadFields
<1>4. Ruled(t, basis) /\ t.val = tab.val
  BY <1>1, InvalidateRuled DEF RoleInv, Invalidate, IsTab, TabFields
<1>5. tab' = [t EXCEPT !.can = can, !.perm = @ + 1, !.hidden = TRUE, !.error = NoError,
                       !.failed = {}, !.reads = {[r EXCEPT !.owns = FALSE] : r \in @}]
      /\ UNCHANGED basis
  BY DEF ChangeRole
<1>. HIDE DEF t
<1>6. /\ tab'.perm = tab.perm + 1 /\ tab'.hidden = TRUE /\ tab'.val = t.val
      /\ tab'.reads = {disowned(r) : r \in t.reads}
  BY <1>1, <1>5 DEF IsTab, TabFields
<1>7. \A r \in t.reads : /\ disowned(r).perm = r.perm /\ disowned(r).live = r.live
                         /\ disowned(r).waits = r.waits /\ disowned(r).phase = r.phase
                         /\ disowned(r).part = r.part
  BY <1>1 DEF IsTab, IsRead, ReadFields
<1>. HIDE DEF disowned
<1>8. \A r \in t.reads : ReadRuled(disowned(r), tab'.perm, basis)
  BY <1>1, <1>3, <1>4, <1>6, <1>7 DEF Ruled, ReadRuled
<1>9. Ruled(tab', basis)
  BY <1>1, <1>4, <1>6, <1>8 DEF Ruled
<1>. QED
  BY <1>5, <1>9 DEF RoleKept, RoleInv, IsBasis

LEMMA NextRole == ASSUME RoleInv, [Next]_vars PROVE RoleKept
<1>1. CASE UNCHANGED vars \/ Rest
  BY <1>1, RoleSame DEF Rest, vars
<1>2. CASE Look \/ FetchFirst \/ \E g \in Groups : FetchNext(g)
  BY <1>2, SendingRole
<1>3. ASSUME NEW r \in tab.reads,
             ServeRead(r) \/ ReadCountsNot(r) \/ ReadOverdue(r) \/ ReadAnswer(r) \/ FailRead(r)
      PROVE  RoleKept
  BY <1>3, ServeReadRole, EndingRole, ReadAnswerRole
<1>4. ASSUME NEW id \in Ids, ServeJob(id) \/ JobAnswer(id) \/ FailJob(id)
      PROVE  RoleKept
  BY <1>4, ServeJobRole, VerifyingRole
<1>5. ASSUME NEW w \in tab.writes, Answered(w) \/ AnsweredBeside(w) \/ AnswerThrows(w)
      PROVE  RoleKept
  BY <1>5, WriteAnswerRole, AnswerThrowsRole DEF Answered, AnsweredBeside
<1>6. ASSUME NEW can \in BOOLEAN, ChangeRole(can)
      PROVE  RoleKept
  BY <1>6, ChangeRoleRole
<1>7. CASE \/ Move \/ Create \/ Delete \/ Regain
           \/ \E w \in tab.writes : \/ Begin(w) \/ ServeWrite(w) \/ FailWrite(w)
                                    \/ AnsweredLate(w) \/ EndWrite(w)
           \/ \E id \in Ids, to \in Groups \cup {Out, Gone} : Others(id, to)
  BY <1>7, WritingRole
<1>. QED
  BY <1>1, <1>2, <1>3, <1>4, <1>5, <1>6, <1>7 DEF Next, Progress, Answer, Event, Deed

-----------------------------------------------------------------------------
(* The list by itself: values *)

ValueFields == {"total", "groups", "read", "counted", "evidence"}
GroupFields == {"total", "rows", "more", "boundary", "cursor", "stale"}
EvidenceFields == {"source", "held", "read", "confirmed"}

IsGroup(group) == DOMAIN group = GroupFields /\ group.stale \in BOOLEAN
IsGroups(groups) == DOMAIN groups \subseteq Groups /\ \A g \in DOMAIN groups : IsGroup(groups[g])
IsEvidence(e) == e = NoEvidence \/ DOMAIN e = EvidenceFields

IsValue(value) ==
    /\ DOMAIN value = ValueFields
    /\ IsGroups(value.groups)
    /\ DOMAIN value.evidence = AllCounters
    /\ \A c \in AllCounters : IsEvidence(value.evidence[c])

LEMMA EmptyIsGroup == IsGroup(EmptyGroup) /\ EmptyGroup.rows = {} /\ EmptyGroup.total = 0
BY DEF IsGroup, EmptyGroup, GroupFields

LEMMA GroupOfIs ==
    ASSUME NEW value, IsGroups(value.groups), NEW g
    PROVE  IsGroup(GroupOf(value, g))
BY EmptyIsGroup DEF GroupOf, KnownGroups, IsGroups

\* A value is another one but for groups that became stale.
Marked(value, u) ==
    /\ IsValue(u)
    /\ u.total = value.total /\ u.read = value.read /\ u.counted = value.counted
    /\ u.evidence = value.evidence /\ KnownGroups(u) = KnownGroups(value)
    /\ \A g \in KnownGroups(value) :
          /\ u.groups[g].rows = value.groups[g].rows
          /\ u.groups[g].total = value.groups[g].total
          /\ value.groups[g].stale => u.groups[g].stale

LEMMA MarkStaleMarks ==
    ASSUME NEW value, NEW groups, IsValue(value)
    PROVE  Marked(value, MarkStale(value, groups))
<1> DEFINE marked(g) == [value.groups[g] EXCEPT !.stale = @ \/ g \in groups]
           u == MarkStale(value, groups)
<1>1. u = [value EXCEPT !.groups = [g \in KnownGroups(value) |-> marked(g)]]
  BY DEF MarkStale
<1>2. ASSUME NEW g \in KnownGroups(value)
      PROVE  /\ IsGroup(marked(g)) /\ marked(g).rows = value.groups[g].rows
             /\ marked(g).total = value.groups[g].total
             /\ value.groups[g].stale => marked(g).stale
  BY DEF IsValue, IsGroups, IsGroup, GroupFields, KnownGroups
<1>. HIDE DEF marked
<1>3. /\ DOMAIN u = ValueFields /\ u.total = value.total /\ u.read = value.read
      /\ u.counted = value.counted /\ u.evidence = value.evidence
      /\ u.groups = [g \in KnownGroups(value) |-> marked(g)]
  BY <1>1 DEF IsValue, ValueFields
<1>. HIDE DEF u
<1>. QED
  BY <1>2, <1>3 DEF Marked, IsValue, IsGroups, KnownGroups, u

LEMMA MarkedSelf == ASSUME NEW value, IsValue(value) PROVE Marked(value, value)
BY DEF Marked

LEMMA MarkedMarked ==
    ASSUME NEW v, NEW u, NEW x, Marked(v, u), Marked(u, x)
    PROVE  Marked(v, x)
BY DEF Marked

-----------------------------------------------------------------------------
(* A change *)

\* What a change of an issue makes of one group: only the issue's row is another
\* one, and where it is not the change's the group is stale.
Placed(id, ver, old, new) ==
    /\ IsGroup(new)
    /\ old.stale => new.stale
    /\ \A row \in new.rows : row \in old.rows \/ row = [id |-> id, ver |-> ver]
    /\ new.stale \/ \A row \in new.rows : row.id = id => row = [id |-> id, ver |-> ver]
    /\ (\A p, q \in old.rows : p.id = q.id => p = q)
         => \A p, q \in new.rows : p.id = q.id => p = q

\* A counter's evidence is never the empty one.
LEMMA EvidenceOfIs ==
    ASSUME NEW value, NEW c \in AllCounters, IsValue(value)
    PROVE  EvidenceOf(value, c) # NoEvidence /\ DOMAIN EvidenceOf(value, c) = EvidenceFields
BY DEF EvidenceOf, CounterSource, NoEvidence, IsValue, IsEvidence, EvidenceFields

\* What a change of an issue makes of a value: another row and another fact of
\* it, in the counters it is worked into.
Change(value, u, id, ver, open) ==
    /\ IsValue(u) /\ KnownGroups(value) \subseteq KnownGroups(u)
    /\ u.read = value.read /\ u.counted = TRUE
    /\ \A g \in KnownGroups(u) \cap open : Placed(id, ver, GroupOf(value, g), u.groups[g])
    /\ \A g \in KnownGroups(u) \ open : u.groups[g] = GroupOf(value, g)
    /\ \A c \in AllCounters \ open : u.evidence[c] = value.evidence[c]
    /\ \A c \in AllCounters \cap open :
          \/ u.evidence[c] = EvidenceOf(value, c)
          \/ \E member : u.evidence[c] =
                [EvidenceOf(value, c) EXCEPT
                   !.confirmed = {f \in @ : f.id # id}
                                 \cup {[id |-> id, ver |-> ver, member |-> member]}]

LEMMA MakeChangeIs ==
    ASSUME NEW value, NEW change, NEW phase, NEW known, NEW refs, NEW open, NEW was, NEW rowWas,
           NEW u, u = MakeChange(value, change, phase, known, refs, open, was, rowWas).value,
           IsValue(value), KnownGroups(value) \subseteq known, known \subseteq Groups
    PROVE  /\ Change(value, u, change.id, change.after.ver, open) /\ KnownGroups(u) = known
           /\ phase = "direct" /\ change.after.k = "absent"
              => \A g \in known \cap open :
                    \/ /\ \E row \in GroupOf(value, g).rows : row.id = change.id
                       /\ rowWas[g] # "yes"
                    \/ \A row \in u.groups[g].rows : row.id # change.id
<1> DEFINE next(r) == IssueMembership(change.after, r)
           unsure(r, old) == phase = "unknown" \/ old = "?" \/ next(r) = "?"
           touched(r, old) == old # "no" \/ next(r) # "no"
           there(g) == RowsOf(GroupOf(value, g).rows, change.id) # {}
           settled == {r \in open : ~unsure(r, was[r].old)}
           unsettled == {r \in open \ settled : touched(r, was[r].old)}
           doubted(g) == /\ unsettled \cap {g, Outer} # {}
                         /\ IssueMembership(change.before, g) # "no" \/ next(g) # "no" \/ there(g)
           count(r) == CounterValue(value, r)
                       + IF r \in settled /\ phase # "after"
                         THEN One(next(r)) - One(was[r].old) ELSE 0
           fact(r) == [id |-> change.id, ver |-> change.after.ver, member |-> next(r)]
           evidence(r) ==
               CASE r \in settled ->
                      [EvidenceOf(value, r) EXCEPT
                         !.confirmed = {f \in @ : f.id # change.id} \cup {fact(r)}]
                 [] r \in open \ settled -> EvidenceOf(value, r)
                 [] OTHER -> value.evidence[r]
           placed(g, group) ==
               {r \in group.rows : r.id # change.id}
               \cup IF /\ next(g) = "yes"
                       /\ ~group.more \/ (group.boundary # 0 /\ change.id <= group.boundary)
                    THEN {[id |-> change.id, ver |-> change.after.ver]} ELSE {}
           changed(g, group) ==
               CASE ~(touched(g, rowWas[g]) \/ there(g)) -> [group EXCEPT !.stale = @ \/ doubted(g)]
                 [] unsure(g, rowWas[g]) /\ (touched(g, rowWas[g]) \/ there(g)) ->
                      [group EXCEPT !.stale = TRUE]
                 [] OTHER -> [group EXCEPT !.rows = placed(g, group), !.stale = @ \/ doubted(g)]
           counted(g) == [GroupOf(value, g) EXCEPT !.total = count(g)]
           group(g) == IF g \in open THEN changed(g, counted(g)) ELSE GroupOf(value, g)
           made == [value EXCEPT
                   !.total = IF Outer \in refs THEN count(Outer) ELSE @,
                   !.groups = [g \in known |-> group(g)],
                   !.evidence = [r \in AllCounters |-> evidence(r)],
                   !.counted = TRUE]
<1>1. u = made
  BY DEF MakeChange
<1>2. ASSUME NEW g \in known
      PROVE  /\ IsGroup(counted(g)) /\ counted(g).rows = GroupOf(value, g).rows
             /\ counted(g).stale = GroupOf(value, g).stale
  BY GroupOfIs DEF IsValue, IsGroup, GroupFields
<1>3. ASSUME NEW g \in known
      PROVE  Placed(change.id, change.after.ver, GroupOf(value, g), changed(g, counted(g)))
  <2> DEFINE old == counted(g)
             first == GroupOf(value, g)
             row == [id |-> change.id, ver |-> change.after.ver]
             doubt == doubted(g)
             again == unsure(g, rowWas[g])
             away == touched(g, rowWas[g])
             some == there(g)
             extra == IF /\ next(g) = "yes"
                         /\ ~old.more \/ (old.boundary # 0 /\ change.id <= old.boundary)
                      THEN {row} ELSE {}
  <2>1. IsGroup(old) /\ old.rows = GroupOf(value, g).rows /\ old.stale = GroupOf(value, g).stale
    BY <1>2
  <2>2. changed(g, old) =
          CASE ~(away \/ some) -> [old EXCEPT !.stale = @ \/ doubt]
            [] again /\ (away \/ some) -> [old EXCEPT !.stale = TRUE]
            [] OTHER -> [old EXCEPT !.rows = {r \in old.rows : r.id # change.id} \cup extra,
                                    !.stale = @ \/ doubt]
    OBVIOUS
  <2>3. extra \in {{}, {row}} /\ row.id = change.id
    OBVIOUS
  <2>4. ~some => \A r \in old.rows : r.id # change.id
    BY <2>1 DEF RowsOf
  <2> DEFINE new == changed(g, old)
  <2>5. SUFFICES Placed(change.id, change.after.ver, first, new)
    OBVIOUS
  <2>6. IsGroup(old) /\ old.rows = first.rows /\ old.stale = first.stale
    BY <2>1
  <2>. HIDE DEF new, old, first, doubt, again, away, some, extra
  <2>7. CASE ~(away \/ some)
    <3>1. new = [old EXCEPT !.stale = @ \/ doubt]
      BY <2>2, <2>7 DEF new
    <3>2. IsGroup(new) /\ new.rows = old.rows /\ (old.stale => new.stale)
      BY <2>6, <3>1 DEF IsGroup, GroupFields
    <3>. QED
      BY <2>6, <2>4, <2>7, <3>2 DEF Placed
  <2>8. CASE again /\ (away \/ some)
    <3>1. new = [old EXCEPT !.stale = TRUE]
      BY <2>2, <2>8 DEF new
    <3>2. IsGroup(new) /\ new.rows = old.rows /\ new.stale
      BY <2>6, <3>1 DEF IsGroup, GroupFields
    <3>. QED
      BY <2>6, <3>2 DEF Placed
  <2>9. CASE ~again /\ (away \/ some)
    <3>1. new = [old EXCEPT !.rows = {r \in old.rows : r.id # change.id} \cup extra,
                            !.stale = @ \/ doubt]
      BY <2>2, <2>9 DEF new
    <3>2. /\ IsGroup(new) /\ new.rows = {r \in old.rows : r.id # change.id} \cup extra
          /\ old.stale => new.stale
      BY <2>6, <3>1 DEF IsGroup, GroupFields
    <3>. QED
      BY <2>6, <2>3, <3>2 DEF Placed
  <2>. QED
    BY <2>7, <2>8, <2>9
<1>4. ASSUME NEW g \in known, phase = "direct", change.after.k = "absent",
            (\E row \in GroupOf(value, g).rows : row.id = change.id) => rowWas[g] = "yes"
     PROVE  \A row \in changed(g, counted(g)).rows : row.id # change.id
 <2> DEFINE old == counted(g)
            doubt == doubted(g)
            some == there(g)
            away == touched(g, rowWas[g])
  <2>1. IsGroup(old) /\ old.rows = GroupOf(value, g).rows
    BY <1>2
  <2>2. next(g) = "no"
    BY <1>4 DEF IssueMembership
  <2>3. some <=> \E row \in old.rows : row.id = change.id
    BY <2>1 DEF RowsOf
  <2>4. some => ~unsure(g, rowWas[g]) /\ away
    BY <1>4, <2>1, <2>2, <2>3
  <2>5. placed(g, old) = {r \in old.rows : r.id # change.id}
    BY <2>2
  <2>6. changed(g, old) \in {[old EXCEPT !.stale = @ \/ doubt], [old EXCEPT !.stale = TRUE],
                             [old EXCEPT !.rows = placed(g, old), !.stale = @ \/ doubt]}
    OBVIOUS
  <2>7. some => changed(g, old) = [old EXCEPT !.rows = placed(g, old), !.stale = @ \/ doubt]
    BY <2>4
  <2>. HIDE DEF changed, old, placed, doubt, some, away
  <2>8. CASE some
    <3>1. changed(g, old).rows = placed(g, old)
      BY <2>1, <2>7, <2>8 DEF IsGroup, GroupFields
    <3>. QED
      BY <2>5, <3>1 DEF old
  <2>9. CASE ~some
    <3>1. changed(g, old).rows = old.rows \/ changed(g, old).rows = placed(g, old)
      BY <2>1, <2>6 DEF IsGroup, GroupFields
    <3>. QED
      BY <2>3, <2>5, <2>9, <3>1 DEF old
  <2>. QED
    BY <2>8, <2>9
<1>5. ASSUME NEW c \in AllCounters
      PROVE  /\ c \notin open => evidence(c) = value.evidence[c]
             /\ c \in open => \/ evidence(c) = EvidenceOf(value, c)
                             \/ \E member : evidence(c) =
                                   [EvidenceOf(value, c) EXCEPT
                                      !.confirmed = {f \in @ : f.id # change.id}
                                                    \cup {[id |-> change.id,
                                                           ver |-> change.after.ver,
                                                           member |-> member]}]
  OBVIOUS
<1>. HIDE DEF changed, counted, evidence, count, settled, unsettled
<1>6. /\ DOMAIN made = ValueFields /\ made.read = value.read /\ made.counted = TRUE
      /\ made.groups = [g \in known |-> group(g)]
      /\ made.evidence = [r \in AllCounters |-> evidence(r)]
  BY DEF IsValue, ValueFields
<1>. HIDE DEF made
<1>7. ASSUME NEW g \in known
      PROVE  IsGroup(group(g))
  BY <1>3, GroupOfIs DEF IsValue, Placed
<1>8. ASSUME NEW c \in AllCounters
      PROVE  IsEvidence(evidence(c))
  BY <1>5, EvidenceOfIs DEF IsValue, IsEvidence, EvidenceFields
<1>9. IsValue(u) /\ KnownGroups(u) = known
  BY <1>1, <1>6, <1>7, <1>8 DEF IsValue, IsGroups, KnownGroups
<1>10. /\ \A g \in known \cap open :
             Placed(change.id, change.after.ver, GroupOf(value, g), u.groups[g])
       /\ \A g \in known \ open : u.groups[g] = GroupOf(value, g)
  BY <1>1, <1>3, <1>6
<1>11. ASSUME phase = "direct", change.after.k = "absent", NEW g \in known \cap open,
              (\E row \in GroupOf(value, g).rows : row.id = change.id) => rowWas[g] = "yes"
       PROVE  \A row \in u.groups[g].rows : row.id # change.id
  BY <1>1, <1>6, <1>11, <1>4
<1>12. \A c \in AllCounters : u.evidence[c] = evidence(c)
  BY <1>1, <1>6
<1>13. u.read = value.read /\ u.counted = TRUE
  BY <1>1, <1>6
<1>. HIDE DEF group
<1>14. \A c \in AllCounters \ open : u.evidence[c] = value.evidence[c]
  BY <1>5, <1>12
<1>15. ASSUME NEW c \in AllCounters \cap open
       PROVE  \/ u.evidence[c] = EvidenceOf(value, c)
              \/ \E member : u.evidence[c] =
                    [EvidenceOf(value, c) EXCEPT
                       !.confirmed = {f \in @ : f.id # change.id}
                                     \cup {[id |-> change.id, ver |-> change.after.ver,
                                            member |-> member]}]
  BY <1>5, <1>12
<1>. QED
  BY <1>9, <1>10, <1>13, <1>14, <1>15, <1>11 DEF Change

-----------------------------------------------------------------------------
(* A change in every counter, and again in an answer's *)

LEMMA PartsInGroups == \A issue : IssueParts(issue) \subseteq Groups
BY DEF IssueParts

LEMMA ConfirmIs ==
    ASSUME NEW value, NEW change, NEW heldSources, NEW u, IsValue(value),
           u = ConfirmGroups(value, change, heldSources).value
    PROVE  LET open == {c \in Counters(u) : ~CounterSupersedes(EvidenceOf(value, c), change)}
           IN  /\ \/ u = value /\ open = {}
                  \/ Change(value, u, change.id, change.after.ver, open) /\ open # {}
               /\ change.after.k = "absent"
                  => \A g \in KnownGroups(u) : \A row \in u.groups[g].rows : row.id # change.id
<1> DEFINE known == KnownGroups(value) \cup IssueParts(change.before) \cup IssueParts(change.after)
           refs == known \cup {Outer}
           open == {r \in refs : ~CounterSupersedes(EvidenceOf(value, r), change)}
           was(r) == PriorCounterMembership(EvidenceOf(value, r), change, r, heldSources)
           rowWas(g) == PriorRowMembership(CounterRows(value, g), change, g)
           ows == [r \in open |-> was(r)]
           rows == [g \in open \ {Outer} |-> rowWas(g)]
           made == MakeChange(value, change, "direct", known, refs, open, ows, rows).value
<1>1. known \subseteq Groups /\ KnownGroups(value) \subseteq known /\ Outer \notin Groups
  BY PartsInGroups, PagedGroupsAssumption DEF IsValue, IsGroups, KnownGroups
<1>2. u = IF Counters(value) \cap open = {} THEN value ELSE made
  BY DEF ConfirmGroups, ApplyGroupChange
<1>3. ASSUME NEW g \in known \cap open, \E row \in GroupOf(value, g).rows : row.id = change.id,
             change.after.k = "absent"
      PROVE  rows[g] = "yes"
  <2>1. rows[g] = rowWas(g) /\ g # Outer
    BY <1>1
  <2>2. RowsOf(CounterRows(value, g).rows, change.id) # {}
    BY <1>3, <2>1 DEF RowsOf, CounterRows, CounterParts
  <2>. QED
    BY <1>3, <2>1, <2>2 DEF PriorRowMembership
<1>. HIDE DEF rows, ows
<1>4. /\ Change(value, made, change.id, change.after.ver, open) /\ KnownGroups(made) = known
      /\ change.after.k = "absent"
         => \A g \in known \cap open :
               \/ /\ \E row \in GroupOf(value, g).rows : row.id = change.id
                  /\ rows[g] # "yes"
               \/ \A row \in made.groups[g].rows : row.id # change.id
  BY <1>1, MakeChangeIs
<1>. HIDE DEF made
<1>5. change.after.k = "absent" => open = refs
  BY DEF CounterSupersedes
<1>6. Counters(value) \subseteq refs
  BY DEF Counters
<1>7. CASE Counters(value) \cap open = {}
  <2>1. u = value
    BY <1>2, <1>7
  <2>2. {c \in Counters(u) : ~CounterSupersedes(EvidenceOf(value, c), change)} = {}
    BY <1>6, <1>7, <2>1
  <2>3. change.after.k # "absent"
    BY <1>5, <1>7 DEF Counters
  <2>. QED
    BY <2>1, <2>2, <2>3
<1>8. CASE Counters(value) \cap open # {}
  <2>1. u = made /\ Counters(u) = refs
    BY <1>2, <1>4, <1>8 DEF Counters
  <2>2. {c \in Counters(u) : ~CounterSupersedes(EvidenceOf(value, c), change)} = open
    BY <2>1
  <2>3. change.after.k = "absent"
        => \A g \in KnownGroups(u) : \A row \in u.groups[g].rows : row.id # change.id
    BY <1>3, <1>4, <1>5, <2>1
  <2>. QED
    BY <1>4, <1>8, <2>1, <2>2, <2>3
<1>. QED
  BY <1>7, <1>8

LEMMA ReplayIs ==
    ASSUME NEW value, NEW change, NEW answer, NEW u, IsValue(value),
           u = ReplayGroups(value, change, answer).value
    PROVE  LET open == IF answer.read.whole THEN Counters(u) ELSE DOMAIN answer.read.ranges
           IN  IF AnswerTiming(PageEvidence(answer), change).phase = "newer" THEN u = value
               ELSE Change(value, u, change.id, change.after.ver, open)
<1> DEFINE read == PageEvidence(answer)
           timing == AnswerTiming(read, change)
           whole == answer.read.whole
           known == KnownGroups(value)
                    \cup IF whole THEN IssueParts(change.before) \cup IssueParts(change.after)
                         ELSE {}
           refs == IF whole THEN known \cup {Outer} ELSE DOMAIN answer.read.ranges
           answered(r) == IF timing.phase = "after" THEN IssueMembership(change.after, r)
                          ELSE PriorAnswerMembership(read, change, r)
           was(r) == [old |-> answered(r), inferred |-> FALSE]
           ows == [r \in refs |-> was(r)]
           rows == [g \in refs \ {Outer} |-> answered(g)]
           made == MakeChange(value, change, timing.phase, known, refs, refs, ows, rows)
<1>1. timing.phase # "direct" /\ read.whole = whole
  BY DEF AnswerTiming, PageEvidence
<1>. HIDE DEF timing
<1>2. u = IF timing.phase = "newer" THEN value ELSE made.value
  <2> DEFINE again == ApplyGroupChange(value, change,
                        [phase |-> timing.phase, read |-> read,
                         groups |-> DOMAIN answer.read.ranges], {})
  <2>1. ReplayGroups(value, change, answer) =
          IF timing.phase = "newer" THEN [value |-> value, verify |-> FALSE, unsure |-> {}]
          ELSE [again EXCEPT !.verify = timing.inferred /\ change.after.k = "known"]
    BY DEF ReplayGroups, timing
  <2>2. again = made
    <3>1. {r \in refs : FALSE => ~CounterSupersedes(EvidenceOf(value, r), change)} = refs
      OBVIOUS
    <3>. QED
      BY <1>1, <3>1 DEF ApplyGroupChange
  <2>3. [made EXCEPT !.verify = timing.inferred /\ change.after.k = "known"].value = made.value
    BY DEF MakeChange
  <2>. HIDE DEF again, made
  <2>. QED
    BY <2>1, <2>2, <2>3
<1>3. known \subseteq Groups /\ KnownGroups(value) \subseteq known
  BY PartsInGroups DEF IsValue, IsGroups, KnownGroups
<1>. HIDE DEF ows, rows, known
<1>4. /\ Change(value, made.value, change.id, change.after.ver, refs)
      /\ KnownGroups(made.value) = known
  BY <1>3, MakeChangeIs
<1>. HIDE DEF made
<1>5. refs = IF whole THEN Counters(made.value) ELSE DOMAIN answer.read.ranges
  BY <1>4 DEF Counters
<1>. QED
  BY <1>2, <1>4, <1>5 DEF timing

-----------------------------------------------------------------------------
(* What a value's counts go back to *)

\* The read of the counters that no change of their own is evidence of.
BaseRead(value) == CounterSource(value, Outer).read

\* The evidences that go back to the value's read have it.
Sound(value) ==
    /\ IsValue(value)
    /\ value.read.source \in Nat /\ value.counted \in BOOLEAN
    /\ DOMAIN value.read.ranges \subseteq KnownGroups(value)
    /\ ~value.counted => \A c \in AllCounters : value.evidence[c] = NoEvidence
    /\ \A c \in AllCounters : value.evidence[c].source = value.read.source
                              => value.evidence[c].read = BaseRead(value)

LEMMA SourceIs ==
    ASSUME NEW value, NEW c
    PROVE  /\ CounterSource(value, c).read = BaseRead(value)
           /\ CounterSource(value, c).source = value.read.source
           /\ CounterSource(value, c).confirmed = {}
           /\ CounterSource(value, c).held = CounterRows(value, c)
BY DEF CounterSource, BaseRead

LEMMA BaseReadIs ==
    ASSUME NEW value, Sound(value)
    PROVE  LET same == {e \in {value.evidence[r] : r \in AllCounters} :
                           e.source = value.read.source}
           IN  BaseRead(value) = IF ~value.counted THEN PageEvidence(value)
                                 ELSE IF same # {} THEN (CHOOSE e \in same : TRUE).read
                                 ELSE NoRead
<1> DEFINE same == {e \in {value.evidence[r] : r \in AllCounters} :
                       e.source = value.read.source}
<1>1. value.counted \in BOOLEAN
  BY DEF Sound
<1>. QED
  BY <1>1 DEF BaseRead, CounterSource

\* A change of any counter leaves what the value's counters go back to.
LEMMA BaseReadStays ==
    ASSUME NEW value, NEW u, NEW id, NEW ver, NEW open, Sound(value),
           Change(value, u, id, ver, open), open \cap AllCounters # {}
    PROVE  /\ Sound(u) /\ BaseRead(u) = BaseRead(value)
           /\ \A c \in AllCounters : EvidenceOf(u, c).read = EvidenceOf(value, c).read
<1> DEFINE S(v) == {e \in {v.evidence[r] : r \in AllCounters} : e.source = v.read.source}
<1>1. NoEvidence.source = -1 /\ value.read.source \in Nat /\ u.read = value.read
  BY DEF NoEvidence, Sound, Change
<1>2. /\ u.counted = TRUE /\ IsValue(u) /\ IsValue(value)
  BY DEF Change, Sound
<1>3. \A c \in AllCounters :
         \/ value.evidence[c] # NoEvidence /\ EvidenceOf(value, c) = value.evidence[c]
         \/ /\ value.evidence[c] = NoEvidence
            /\ EvidenceOf(value, c).source = value.read.source
            /\ EvidenceOf(value, c).read = BaseRead(value)
  BY SourceIs DEF EvidenceOf
<1>4. \A c \in AllCounters : EvidenceOf(value, c).source = value.read.source
                             => EvidenceOf(value, c).read = BaseRead(value)
  BY <1>3 DEF Sound
<1>5. \A c \in AllCounters \cap open : /\ u.evidence[c].source = EvidenceOf(value, c).source
                                       /\ u.evidence[c].read = EvidenceOf(value, c).read
                                       /\ u.evidence[c] # NoEvidence
  <2> SUFFICES ASSUME NEW c \in AllCounters \cap open
               PROVE  /\ u.evidence[c].source = EvidenceOf(value, c).source
                      /\ u.evidence[c].read = EvidenceOf(value, c).read
                      /\ u.evidence[c] # NoEvidence
    OBVIOUS
  <2>1. EvidenceOf(value, c) # NoEvidence /\ DOMAIN EvidenceOf(value, c) = EvidenceFields
    BY <1>2, EvidenceOfIs
  <2>2. CASE u.evidence[c] = EvidenceOf(value, c)
    BY <2>1, <2>2
  <2>3. ASSUME NEW new, u.evidence[c] = [EvidenceOf(value, c) EXCEPT !.confirmed = new]
        PROVE  /\ u.evidence[c].source = EvidenceOf(value, c).source
               /\ u.evidence[c].read = EvidenceOf(value, c).read
               /\ u.evidence[c] # NoEvidence
    <3>1. DOMAIN NoEvidence = {"source"}
      BY DEF NoEvidence
    <3>. QED
      BY <2>1, <2>3, <3>1 DEF EvidenceFields
  <2>. QED
    BY <2>2, <2>3 DEF Change
<1>6. \A c \in AllCounters \ open : u.evidence[c] = value.evidence[c]
  BY DEF Change
<1>7. \A c \in AllCounters : u.evidence[c].source = value.read.source
                             => u.evidence[c].read = BaseRead(value)
  BY <1>4, <1>5, <1>6 DEF Sound
<1>8. \A e \in S(u) : e.read = BaseRead(value)
  BY <1>1, <1>7
<1>9. \A c \in AllCounters : value.evidence[c] = NoEvidence /\ c \in open
                             => u.evidence[c].source = value.read.source
  BY <1>3, <1>5
<1>10. BaseRead(u) = IF S(u) # {} THEN (CHOOSE e \in S(u) : TRUE).read ELSE NoRead
  BY <1>2 DEF BaseRead, CounterSource
<1>11. S(u) # {} => BaseRead(u) = BaseRead(value)
  BY <1>8, <1>10
<1>12. S(u) = {} => BaseRead(u) = BaseRead(value)
  <2>1. ASSUME S(u) = {}, NEW c \in AllCounters
        PROVE  u.evidence[c].source # value.read.source
    BY <1>1, <2>1
  <2>2. ASSUME S(u) = {}
        PROVE  value.counted /\ S(value) = {}
    <3>1. \A c \in AllCounters \cap open : value.evidence[c] # NoEvidence
      BY <1>9, <2>1, <2>2
    <3>2. value.counted
      BY <3>1 DEF Sound
    <3>3. ASSUME NEW c \in AllCounters
          PROVE  value.evidence[c].source # value.read.source
      BY <1>3, <1>5, <1>6, <2>1, <2>2, <3>1
    <3>. QED
      BY <3>2, <3>3
  <2>3. ASSUME S(u) = {}
        PROVE  BaseRead(value) = NoRead
    BY <2>2, <2>3, BaseReadIs
  <2>. QED
    BY <1>10, <2>3
<1>13. BaseRead(u) = BaseRead(value)
  BY <1>11, <1>12
<1>14. Sound(u)
  BY <1>1, <1>2, <1>7, <1>13 DEF Sound, Change
<1>15. ASSUME NEW c \in AllCounters
       PROVE  EvidenceOf(u, c).read = EvidenceOf(value, c).read
  <2>1. CASE c \in open
    BY <1>5, <2>1 DEF EvidenceOf
  <2>2. CASE c \notin open /\ value.evidence[c] = NoEvidence
    BY <1>6, <1>13, <2>2, SourceIs DEF EvidenceOf
  <2>3. CASE c \notin open /\ value.evidence[c] # NoEvidence
    BY <1>6, <2>3 DEF EvidenceOf
  <2>. QED
    BY <2>1, <2>2, <2>3
<1>. QED
  BY <1>13, <1>14, <1>15

\* The versions of an issue that a group's count knows of.
VersionsIn(rows, x) == {row.ver : row \in RowsOf(rows, x)}

Facts(value, g, x) ==
    LET e == EvidenceOf(value, g)
    IN  VersionsIn(e.confirmed, x) \cup VersionsIn(e.held.rows, x)
        \cup UNION {VersionsIn(p.rows, x) : p \in e.read.parts}

LEMMA SupersedesIs ==
    ASSUME NEW value, NEW g, NEW change, change.after.k = "known"
    PROVE  CounterSupersedes(EvidenceOf(value, g), change)
           <=> \E f \in Facts(value, g, change.id) : f > change.after.ver
BY DEF CounterSupersedes, Facts, VersionsIn, RowsOf

LEMMA RowsHeld ==
    ASSUME NEW value, NEW g \in Groups
    PROVE  CounterRows(value, g).rows = GroupOf(value, g).rows
<1>1. g # Outer
  BY PagedGroupsAssumption
<1>. QED
  BY <1>1 DEF CounterRows, CounterParts

LEMMA UnknownIsEmpty ==
    ASSUME NEW value, NEW u, NEW g, g \notin KnownGroups(value), g \notin KnownGroups(u)
    PROVE  GroupOf(value, g) = GroupOf(u, g)
BY DEF GroupOf

\* A change is one more fact of its issue, in the counters it is worked into.
LEMMA FactsOfChange ==
    ASSUME NEW value, NEW u, NEW id, NEW ver, NEW open, Sound(value),
           Change(value, u, id, ver, open), open \cap AllCounters # {}, NEW g \in Groups, NEW x
    PROVE  Facts(u, g, x) \subseteq Facts(value, g, x)
                                    \cup IF x = id /\ g \in open THEN {ver} ELSE {}
<1> DEFINE e == EvidenceOf(value, g)
           f == EvidenceOf(u, g)
<1>1. f.read = e.read /\ g \in AllCounters
  BY BaseReadStays DEF AllCounters
<1>2. CASE g \in open
  <2>1. IsValue(value) /\ DOMAIN e = EvidenceFields
    BY <1>1, EvidenceOfIs DEF Sound
  <2>2. u.evidence[g] # NoEvidence /\ f.held = e.held
        /\ \/ f.confirmed = e.confirmed
           \/ \E member : f.confirmed = {y \in e.confirmed : y.id # id}
                                        \cup {[id |-> id, ver |-> ver, member |-> member]}
    <3>1. DOMAIN NoEvidence = {"source"}
      BY DEF NoEvidence
    <3>2. CASE u.evidence[g] = e
      BY <2>1, <3>1, <3>2 DEF EvidenceOf, EvidenceFields
    <3>3. ASSUME NEW new, u.evidence[g] = [e EXCEPT !.confirmed = new]
          PROVE  u.evidence[g] # NoEvidence /\ f.held = e.held /\ f.confirmed = new
      <4>1. u.evidence[g] # NoEvidence /\ u.evidence[g].held = e.held
            /\ u.evidence[g].confirmed = new
        BY <2>1, <3>1, <3>3 DEF EvidenceFields
      <4>. QED
        BY <4>1 DEF EvidenceOf
    <3>4. \/ u.evidence[g] = e
          \/ \E member : u.evidence[g] =
                [e EXCEPT !.confirmed = {y \in @ : y.id # id}
                                        \cup {[id |-> id, ver |-> ver, member |-> member]}]
      BY <1>1, <1>2 DEF Change
    <3>5. ASSUME NEW member, u.evidence[g] =
                [e EXCEPT !.confirmed = {y \in @ : y.id # id}
                                        \cup {[id |-> id, ver |-> ver, member |-> member]}]
          PROVE  /\ u.evidence[g] # NoEvidence /\ f.held = e.held
                 /\ f.confirmed = {y \in e.confirmed : y.id # id}
                                  \cup {[id |-> id, ver |-> ver, member |-> member]}
      BY <3>3, <3>5
    <3>. QED
      BY <3>2, <3>4, <3>5
  <2>3. VersionsIn(f.confirmed, x)
        \subseteq VersionsIn(e.confirmed, x) \cup IF x = id THEN {ver} ELSE {}
    <3>1. CASE f.confirmed = e.confirmed
      BY <3>1
    <3>2. ASSUME NEW member, f.confirmed = {y \in e.confirmed : y.id # id}
                                 \cup {[id |-> id, ver |-> ver, member |-> member]}
          PROVE  VersionsIn(f.confirmed, x)
                 \subseteq VersionsIn(e.confirmed, x) \cup IF x = id THEN {ver} ELSE {}
      BY <3>2 DEF VersionsIn, RowsOf
    <3>. QED
      BY <2>2, <3>1, <3>2
  <2>. QED
    BY <1>1, <1>2, <2>2, <2>3 DEF Facts
<1>3. CASE g \notin open /\ value.evidence[g] # NoEvidence
  <2>1. f = e
    BY <1>1, <1>3 DEF EvidenceOf, Change
  <2>. QED
    BY <2>1 DEF Facts
<1>4. CASE g \notin open /\ value.evidence[g] = NoEvidence
  <2>1. u.evidence[g] = NoEvidence
    BY <1>1, <1>4 DEF Change
  <2>2. /\ e.confirmed = {} /\ e.held = CounterRows(value, g)
        /\ f.confirmed = {} /\ f.held = CounterRows(u, g)
    BY <1>4, <2>1, SourceIs DEF EvidenceOf
  <2>3. GroupOf(u, g) = GroupOf(value, g)
    <3>1. CASE g \in KnownGroups(u)
      BY <1>4, <3>1 DEF Change, GroupOf
    <3>2. CASE g \notin KnownGroups(u)
      BY <3>2, UnknownIsEmpty DEF Change
    <3>. QED
      BY <3>1, <3>2
  <2>. QED
    BY <1>1, <2>2, <2>3, RowsHeld DEF Facts
<1>. QED
  BY <1>2, <1>3, <1>4

\* Marks leave the facts as they are.
LEMMA MarkedSound ==
    ASSUME NEW value, NEW u, Sound(value), Marked(value, u)
    PROVE  Sound(u) /\ BaseRead(u) = BaseRead(value)
<1>1. PageEvidence(u) = PageEvidence(value)
  BY DEF PageEvidence, Marked, Sound, IsValue
<1>2. BaseRead(u) = BaseRead(value)
  BY <1>1 DEF BaseRead, CounterSource, Marked
<1>. QED
  BY <1>2 DEF Sound, Marked

LEMMA FactsMarked ==
    ASSUME NEW value, NEW u, Sound(value), Marked(value, u), NEW g \in Groups, NEW x
    PROVE  /\ Facts(u, g, x) = Facts(value, g, x)
           /\ GroupOf(u, g).rows = GroupOf(value, g).rows
           /\ GroupOf(value, g).stale => GroupOf(u, g).stale
<1>1. /\ GroupOf(u, g).rows = GroupOf(value, g).rows
      /\ GroupOf(value, g).stale => GroupOf(u, g).stale
  BY DEF GroupOf, Marked
<1>2. CounterRows(u, g).rows = CounterRows(value, g).rows
  BY <1>1, RowsHeld
<1>3. u.evidence[g] = value.evidence[g] /\ BaseRead(u) = BaseRead(value)
  BY MarkedSound DEF Marked
<1>4. CASE value.evidence[g] = NoEvidence
  BY <1>1, <1>2, <1>3, <1>4, SourceIs DEF Facts, EvidenceOf
<1>5. CASE value.evidence[g] # NoEvidence
  BY <1>1, <1>3, <1>5 DEF Facts, EvidenceOf
<1>. QED
  BY <1>4, <1>5

\* Versions are numbers.
Timed(value) ==
    /\ \A g \in Groups : \A x : Facts(value, g, x) \subseteq Nat
    /\ \A p \in BaseRead(value).parts : \A row \in p.rows : row.ver \in Nat

OneRow(value) ==
    \A g \in KnownGroups(value) : \A p, q \in value.groups[g].rows : p.id = q.id => p = q

\* The rows of an issue in a group that is not stale are as new as all the versions
\* known of it.
NewRows(value, g, x, known) ==
    \A row \in GroupOf(value, g).rows :
        row.id = x => GroupOf(value, g).stale \/ (row.ver \in Nat /\ known \subseteq 0..row.ver)

\* A value a tab may hold: rows of its issues, one for each in a group.
Fine(value) ==
    /\ Sound(value) /\ Timed(value) /\ OneRow(value)
    /\ \A g \in KnownGroups(value) : \A row \in value.groups[g].rows : row.id \in Ids /\ row.ver \in Nat

LEMMA MarkedFine ==
    ASSUME NEW value, NEW u, Fine(value), Marked(value, u)
    PROVE  Fine(u)
<1>1. Sound(u) /\ BaseRead(u) = BaseRead(value)
  BY MarkedSound DEF Fine
<1>2. Timed(u)
  BY <1>1, FactsMarked DEF Timed, Fine
<1>. QED
  BY <1>1, <1>2 DEF Fine, OneRow, Marked

LEMMA MarkedNewRows ==
    ASSUME NEW value, NEW u, Sound(value), Marked(value, u), NEW g \in Groups, NEW x, NEW known,
           NewRows(value, g, x, known)
    PROVE  NewRows(u, g, x, known)
BY FactsMarked DEF NewRows

LEMMA ChangeFine ==
    ASSUME NEW value, NEW u, NEW id \in Ids, NEW ver \in Nat, NEW open, Fine(value),
           Change(value, u, id, ver, open), open \cap AllCounters # {}
    PROVE  Fine(u)
<1>1. Sound(u) /\ BaseRead(u) = BaseRead(value)
  BY BaseReadStays DEF Fine
<1>2. Timed(u)
  <2>1. ASSUME NEW g \in Groups, NEW x
        PROVE  Facts(u, g, x) \subseteq Nat
    BY FactsOfChange DEF Fine, Timed
  <2>. QED
    BY <1>1, <2>1 DEF Timed, Fine
<1>3. ASSUME NEW g \in KnownGroups(u)
      PROVE  /\ \A row \in u.groups[g].rows : row.id \in Ids /\ row.ver \in Nat
             /\ \A p, q \in u.groups[g].rows : p.id = q.id => p = q
  <2>1. /\ \A row \in GroupOf(value, g).rows : row.id \in Ids /\ row.ver \in Nat
        /\ \A p, q \in GroupOf(value, g).rows : p.id = q.id => p = q
    <3>1. CASE g \in KnownGroups(value)
      BY <3>1 DEF Fine, OneRow, GroupOf
    <3>2. CASE g \notin KnownGroups(value)
      BY <3>2 DEF GroupOf, EmptyGroup
    <3>. QED
      BY <3>1, <3>2
  <2>2. CASE g \in open
    BY <2>1, <2>2 DEF Change, Placed
  <2>3. CASE g \notin open
    BY <2>1, <2>3 DEF Change
  <2>. QED
    BY <2>2, <2>3
<1>. QED
  BY <1>1, <1>2, <1>3 DEF Fine, OneRow

\* A change leaves the rows of other issues, and brings one of its own.
LEMMA ChangeNewRows ==
    ASSUME NEW value, NEW u, NEW id, NEW ver \in Nat, NEW open,
           Change(value, u, id, ver, open), NEW g \in KnownGroups(u), NEW x, NEW known
    PROVE  /\ (x # id \/ g \notin open) /\ NewRows(value, g, x, known) => NewRows(u, g, x, known)
           /\ x = id /\ g \in open /\ known \subseteq 0..ver => NewRows(u, g, x, known)
<1>1. GroupOf(u, g) = u.groups[g]
  BY DEF GroupOf
<1>2. CASE g \in open
  <2>1. Placed(id, ver, GroupOf(value, g), u.groups[g])
    BY <1>2 DEF Change
  <2>2. ASSUME x = id, known \subseteq 0..ver
        PROVE  NewRows(u, g, x, known)
    BY <1>1, <2>1, <2>2 DEF Placed, NewRows
  <2>3. ASSUME x # id, NewRows(value, g, x, known)
        PROVE  NewRows(u, g, x, known)
    BY <1>1, <2>1, <2>3 DEF Placed, NewRows
  <2>. QED
    BY <1>2, <2>2, <2>3
<1>3. CASE g \notin open
  <2>1. u.groups[g] = GroupOf(value, g)
    BY <1>3 DEF Change
  <2>. QED
    BY <1>1, <1>3, <2>1 DEF NewRows
<1>. QED
  BY <1>2, <1>3

LEMMA ChangeOthers ==
    ASSUME NEW value, NEW u, NEW id, NEW ver \in Nat, NEW open,
           Change(value, u, id, ver, open), NEW g \in KnownGroups(u), NEW x, NEW known,
           x # id, NewRows(value, g, x, known)
    PROVE  NewRows(u, g, x, known)
BY ChangeNewRows

LEMMA ChangeOwn ==
    ASSUME NEW value, NEW u, NEW id, NEW ver \in Nat, NEW open,
           Change(value, u, id, ver, open), NEW g \in KnownGroups(u), g \in open, NEW known,
           known \subseteq 0..ver
    PROVE  NewRows(u, g, id, known)
BY ChangeNewRows

LEMMA NewRowsFewer ==
    ASSUME NEW value, NEW g, NEW x, NEW known, NEW less, NewRows(value, g, x, known),
           less \subseteq known
    PROVE  NewRows(value, g, x, less)
BY DEF NewRows

\* A change of this tab, worked into the list: no row is older than what is known of its
\* issue, the change included, and of an issue it deleted there is none.
LEMMA ConfirmNew ==
    ASSUME NEW value, NEW change, NEW heldSources, NEW u, Fine(value),
           u = ConfirmGroups(value, change, heldSources).value,
           change.id \in Ids, change.after.ver \in Nat, change.after.k \in {"known", "absent"}
    PROVE  /\ Fine(u)
           /\ change.after.k = "absent"
              => \A g \in KnownGroups(u) : \A row \in u.groups[g].rows : row.id # change.id
           /\ \A g \in KnownGroups(u) : \A row \in u.groups[g].rows :
                 row.id = change.id \/ (g \in KnownGroups(value) /\ row \in value.groups[g].rows)
           /\ \A g \in KnownGroups(u), x \in Ids : \A least :
                 NewRows(value, g, x, Facts(value, g, x) \cup {least})
                 => NewRows(u, g, x, Facts(u, g, x)
                                     \cup {IF x = change.id THEN change.after.ver ELSE least})
<1> DEFINE open == {c \in Counters(u) : ~CounterSupersedes(EvidenceOf(value, c), change)}
           id == change.id
           ver == change.after.ver
<1>1. /\ \/ u = value /\ open = {}
         \/ Change(value, u, id, ver, open) /\ open # {}
      /\ change.after.k = "absent"
         => \A g \in KnownGroups(u) : \A row \in u.groups[g].rows : row.id # id
  <2>1. IsValue(value)
    BY DEF Fine, Sound
  <2>. QED
    BY <2>1, ConfirmIs
<1>2. IsValue(u) /\ Counters(u) \subseteq AllCounters
  <2>1. IsValue(u)
    BY <1>1 DEF Fine, Sound, Change
  <2>. QED
    BY <2>1 DEF IsValue, IsGroups, Counters, AllCounters, KnownGroups
<1>3. open \subseteq AllCounters
  BY <1>2
<1>4. ASSUME NEW g \in KnownGroups(u), g \notin open
      PROVE  /\ change.after.k = "known"
             /\ \E f \in Facts(value, g, id) : f > ver
  <2>1. CounterSupersedes(EvidenceOf(value, g), change)
    BY <1>4 DEF Counters
  <2>2. change.after.k = "known"
    BY <2>1 DEF CounterSupersedes
  <2>. QED
    BY <2>1, <2>2, SupersedesIs
<1>5. KnownGroups(u) \subseteq Groups
  BY <1>2 DEF IsValue, IsGroups, KnownGroups
<1>6. \A g \in Groups : \A x : Facts(value, g, x) \subseteq Nat
  BY DEF Fine, Timed
<1>. HIDE DEF open
\* A group that knows of something newer.
<1>7. ASSUME NEW g \in KnownGroups(u), g \notin open, GroupOf(u, g) = GroupOf(value, g),
             Facts(u, g, id) \subseteq Facts(value, g, id), NEW least,
             NewRows(value, g, id, Facts(value, g, id) \cup {least})
      PROVE  NewRows(u, g, id, Facts(u, g, id) \cup {ver})
  <2>1. PICK f \in Facts(value, g, id) : f > ver
    BY <1>4, <1>7
  <2>2. f \in Nat
    BY <1>5, <1>6
  <2> SUFFICES ASSUME NEW row \in GroupOf(u, g).rows, row.id = id, ~GroupOf(u, g).stale
               PROVE  row.ver \in Nat /\ Facts(u, g, id) \cup {ver} \subseteq 0..row.ver
    BY DEF NewRows
  <2>3. row.ver \in Nat /\ Facts(value, g, id) \cup {least} \subseteq 0..row.ver
    BY <1>7 DEF NewRows
  <2>4. f <= row.ver
    BY <2>3
  <2>5. ver \in 0..row.ver
    BY <2>1, <2>2, <2>3, <2>4
  <2>. QED
    BY <1>7, <2>3, <2>5
<1>8. CASE u = value /\ open = {}
  <2>1. ASSUME NEW g \in KnownGroups(u), NEW x \in Ids, NEW least,
               NewRows(value, g, x, Facts(value, g, x) \cup {least})
        PROVE  NewRows(u, g, x, Facts(u, g, x) \cup {IF x = id THEN ver ELSE least})
    <3>1. CASE x = id
      BY <1>7, <1>8, <2>1, <3>1
    <3>2. CASE x # id
      BY <1>8, <2>1, <3>2
    <3>. QED
      BY <3>1, <3>2
  <2>. QED
    BY <1>1, <1>8, <2>1
<1>9. CASE Change(value, u, id, ver, open) /\ open # {}
  <2>1. open \cap AllCounters # {}
    BY <1>3, <1>9
  <2>2. Fine(u)
    BY <1>9, <2>1, ChangeFine
  <2>3. ASSUME NEW g \in KnownGroups(u), NEW x \in Ids, NEW least,
               NewRows(value, g, x, Facts(value, g, x) \cup {least})
        PROVE  NewRows(u, g, x, Facts(u, g, x) \cup {IF x = id THEN ver ELSE least})
    <3>1. Facts(u, g, x) \subseteq Facts(value, g, x)
                                    \cup IF x = id /\ g \in open THEN {ver} ELSE {}
      BY <1>5, <1>9, <2>1, FactsOfChange DEF Fine
    <3>2. CASE x # id
      <4>1. Facts(u, g, x) \cup {least} \subseteq Facts(value, g, x) \cup {least}
        BY <3>1, <3>2
      <4>2. NewRows(value, g, x, Facts(u, g, x) \cup {least})
        BY <2>3, <4>1, NewRowsFewer
      <4>3. NewRows(u, g, x, Facts(u, g, x) \cup {least})
        <5> DEFINE known == Facts(u, g, x) \cup {least}
        <5>1. NewRows(value, g, x, known)
          BY <4>2
        <5>. HIDE DEF known
        <5>2. NewRows(u, g, x, known)
          BY <1>9, <3>2, <5>1, ChangeNewRows
        <5>. QED
          BY <5>2 DEF known
      <4>. QED
        BY <3>2, <4>3
    <3>3. CASE x = id /\ g \notin open
      <4>1. GroupOf(u, g) = GroupOf(value, g)
        BY <1>9, <3>3 DEF Change, GroupOf
      <4>. QED
        BY <1>7, <2>3, <3>1, <3>3, <4>1
    <3>4. CASE x = id /\ g \in open
      <4>1. ~(change.after.k = "known" /\ \E f \in Facts(value, g, id) : f > ver)
        BY <1>5, <3>4, SupersedesIs DEF open
      <4>2. CASE change.after.k = "known"
        <5>1. Facts(value, g, id) \subseteq 0..ver
          BY <1>5, <1>6, <4>1, <4>2
        <5>2. Facts(u, g, x) \cup {ver} \subseteq 0..ver
          BY <3>1, <3>4, <5>1
        <5>. QED
          BY <1>9, <3>4, <5>2, ChangeNewRows
      <4>3. CASE change.after.k = "absent"
        BY <1>1, <3>4, <4>3 DEF NewRows, GroupOf
      <4>. QED
        BY <4>2, <4>3
    <3>. QED
      BY <3>2, <3>3, <3>4
  <2>4. ASSUME NEW g \in KnownGroups(u), NEW row \in u.groups[g].rows
        PROVE  row.id = id \/ (g \in KnownGroups(value) /\ row \in value.groups[g].rows)
    <3>1. row \in GroupOf(value, g).rows \/ row.id = id
      <4>1. CASE g \in open
        BY <1>9, <2>4, <4>1 DEF Change, Placed
      <4>2. CASE g \notin open
        BY <1>9, <2>4, <4>2 DEF Change
      <4>. QED
        BY <4>1, <4>2
    <3>. QED
      BY <3>1 DEF GroupOf, EmptyGroup
  <2>. QED
    BY <1>1, <2>2, <2>3, <2>4
<1>. QED
  BY <1>1, <1>8, <1>9

-----------------------------------------------------------------------------
(* Changes made again on an answer, one after the other *)

\* What begins at zero and goes on from each number to the next reaches all.
LEMMA UpTo ==
    ASSUME NEW n \in Nat, NEW S, 0 \in S, \A i \in 1..n : i - 1 \in S => i \in S
    PROVE  \A i \in 0..n : i \in S
<1> DEFINE Left == {i \in 0..n : i \notin S}
<1>1. Left \subseteq Nat
  OBVIOUS
<1>2. ASSUME Left # {}
      PROVE  FALSE
  <2>1. PICK m \in Left : \A k \in Left : m <= k
    BY <1>1, <1>2, Least
  <2>2. m # 0 /\ m \in 1..n /\ m - 1 \in 0..n
    BY <2>1
  <2>3. m - 1 \notin Left
    BY <2>1, <2>2
  <2>. QED
    BY <2>1, <2>2, <2>3
<1>. QED
  BY <1>2

\* The steps of a replay, as far as they go.
Steps(made, n, value, answer, changes) ==
    made = [i \in 0..n |-> IF i = 0 THEN MadeOf(value)
                           ELSE MadeWith(made[i - 1], changes[i], answer)]

LEMMA StepsExist ==
    ASSUME NEW value, NEW answer, NEW changes, NEW n \in Nat
    PROVE  \E made : Steps(made, n, value, answer, changes)
<1> DEFINE S == {m \in Nat : \E made : Steps(made, m, value, answer, changes)}
<1>1. 0 \in S
  <2> DEFINE f == [i \in 0..0 |-> MadeOf(value)]
  <2>1. Steps(f, 0, value, answer, changes)
    BY DEF Steps
  <2>. QED
    BY <2>1
<1>2. ASSUME NEW m \in 1..n, m - 1 \in S
      PROVE  m \in S
  <2>1. PICK f : Steps(f, m - 1, value, answer, changes)
    BY <1>2
  <2> DEFINE g == [i \in 0..m |-> IF i \in 0..(m - 1) THEN f[i]
                                  ELSE MadeWith(f[m - 1], changes[m], answer)]
  <2>2. Steps(g, m, value, answer, changes)
    BY <2>1 DEF Steps
  <2>. QED
    BY <2>2
<1>. HIDE DEF S
<1>3. n \in S
  BY <1>1, <1>2, UpTo
<1>. QED
  BY <1>3 DEF S

IsReplay(made, value, answer, changes) ==
    /\ made[0] = MadeOf(value)
    /\ \A i \in 1..Len(changes) : made[i] = MadeWith(made[i - 1], changes[i], answer)

LEMMA ReplayedSteps ==
    ASSUME NEW value, NEW answer, NEW changes, Len(changes) \in Nat
    PROVE  \E made : /\ IsReplay(made, value, answer, changes)
                     /\ Replayed(value, answer, changes) = made[Len(changes)]
<1> DEFINE made == CHOOSE f : Steps(f, Len(changes), value, answer, changes)
<1>1. Steps(made, Len(changes), value, answer, changes)
  BY StepsExist
<1>2. Replayed(value, answer, changes) = made[Len(changes)]
  BY DEF Replayed, Steps
<1>. HIDE DEF made
<1>3. IsReplay(made, value, answer, changes)
  BY <1>1 DEF Steps, IsReplay
<1>. QED
  BY <1>2, <1>3

\* Changes a read that may write has kept: marks, and confirmed changes.
IsConfirm(c) == /\ c.type = "confirm" /\ c.change.id \in Ids
                /\ c.change.after.k = "known" /\ c.change.after.ver \in Nat
Kept(changes) == \A i \in 1..Len(changes) : changes[i].type = "stale" \/ IsConfirm(changes[i])

\* The counters that an answer brings.
Brought(u, answer) == IF answer.read.whole THEN Counters(u) ELSE DOMAIN answer.read.ranges

IsNewer(change, answer) == AnswerTiming(PageEvidence(answer), change).phase = "newer"

\* What one kept change makes of a value: marks, nothing where the answer has a
\* later change of the issue, or the change.
Again(v, u, c, answer) ==
    \/ c.type = "stale" /\ Marked(v, u)
    \/ IsConfirm(c) /\ IsNewer(c.change, answer) /\ u = v
    \/ /\ IsConfirm(c) /\ ~IsNewer(c.change, answer)
       /\ Change(v, u, c.change.id, c.change.after.ver, Brought(u, answer))

LEMMA AgainIs ==
    ASSUME NEW v, NEW c, NEW answer, IsValue(v), c.type = "stale" \/ IsConfirm(c)
    PROVE  /\ Again(v, MadeAgain(v, c, answer).value, c, answer)
           /\ MadeAgain(v, c, answer).verify = TRUE => IsConfirm(c)
<1>1. CASE c.type = "stale"
  <2>1. MadeAgain(v, c, answer) = [value |-> MarkStale(v, c.groups), verify |-> FALSE, unsure |-> {}]
    BY <1>1 DEF MadeAgain
  <2>. QED
    BY <1>1, <2>1, MarkStaleMarks DEF Again
<1>2. CASE IsConfirm(c)
  <2>1. MadeAgain(v, c, answer) = ReplayGroups(v, c.change, answer)
    BY <1>2 DEF MadeAgain, IsConfirm
  <2> DEFINE u == MadeAgain(v, c, answer).value
  <2>2. u = ReplayGroups(v, c.change, answer).value
    BY <2>1
  <2>. HIDE DEF u
  <2>3. IF IsNewer(c.change, answer) THEN u = v
        ELSE Change(v, u, c.change.id, c.change.after.ver, Brought(u, answer))
    BY <2>2, ReplayIs DEF IsNewer, Brought
  <2>. QED
    BY <1>2, <2>3 DEF Again, u
<1>. QED
  BY <1>1, <1>2

\* No count goes back to a later answer than s.
Bounded(value, s) ==
    /\ value.read.source \in 0..s
    /\ \A c \in AllCounters : value.evidence[c].source \in -1..s

LEMMA ChangeBounded ==
    ASSUME NEW value, NEW u, NEW id, NEW ver, NEW open, NEW s \in Int, IsValue(value),
           Change(value, u, id, ver, open), Bounded(value, s)
    PROVE  Bounded(u, s)
<1>1. u.read = value.read
  BY DEF Change
<1>2. ASSUME NEW c \in AllCounters
      PROVE  EvidenceOf(value, c).source \in -1..s
  BY SourceIs DEF EvidenceOf, Bounded
<1>3. ASSUME NEW c \in AllCounters
      PROVE  u.evidence[c].source \in -1..s
  <2> DEFINE e == EvidenceOf(value, c)
  <2>1. CASE c \notin open
    BY <2>1 DEF Change, Bounded
  <2>2. CASE u.evidence[c] = e
    BY <1>2, <2>2
  <2>3. ASSUME NEW member,
               u.evidence[c] = [e EXCEPT !.confirmed = {f \in @ : f.id # id}
                                   \cup {[id |-> id, ver |-> ver, member |-> member]}]
        PROVE  u.evidence[c].source = e.source
    <3>1. DOMAIN e = EvidenceFields
      BY EvidenceOfIs
    <3>. HIDE DEF e
    <3>. QED
      BY <2>3, <3>1 DEF EvidenceFields
  <2>. QED
    BY <1>2, <2>1, <2>2, <2>3 DEF Change
<1>. QED
  BY <1>1, <1>3 DEF Bounded

\* An answer brings something.
Brings(answer) == answer.read.whole \/ DOMAIN answer.read.ranges \cap AllCounters # {}

LEMMA BroughtSome ==
    ASSUME NEW u, NEW answer, Brings(answer)
    PROVE  Brought(u, answer) \cap AllCounters # {}
BY DEF Brings, Brought, Counters, AllCounters

\* The rows of a value are those of another one, or of the issue.
RowsFrom(v, u, ids) ==
    \A g \in KnownGroups(u) : \A row \in u.groups[g].rows :
        row.id \in ids \/ (g \in KnownGroups(v) /\ row \in v.groups[g].rows)

LEMMA ChangeRows ==
    ASSUME NEW v, NEW u, NEW id, NEW ver, NEW open, Change(v, u, id, ver, open)
    PROVE  RowsFrom(v, u, {id})
<1> SUFFICES ASSUME NEW g \in KnownGroups(u), NEW row \in u.groups[g].rows, row.id # id
             PROVE  g \in KnownGroups(v) /\ row \in v.groups[g].rows
  BY DEF RowsFrom
<1>1. row \in GroupOf(v, g).rows
  <2>1. CASE g \in open
    BY <2>1 DEF Change, Placed
  <2>2. CASE g \notin open
    BY <2>2 DEF Change
  <2>. QED
    BY <2>1, <2>2
<1>. QED
  BY <1>1 DEF GroupOf, EmptyGroup

LEMMA AgainFine ==
    ASSUME NEW v, NEW u, NEW c, NEW answer, NEW s \in Int, Fine(v), Bounded(v, s),
           Again(v, u, c, answer), Brings(answer)
    PROVE  /\ Fine(u) /\ Bounded(u, s)
           /\ KnownGroups(v) \subseteq KnownGroups(u)
           /\ RowsFrom(v, u, IF c.type = "confirm" THEN {c.change.id} ELSE {})
<1>1. CASE c.type = "stale" /\ Marked(v, u)
  <2>1. Fine(u)
    BY <1>1, MarkedFine
  <2>. QED
    BY <1>1, <2>1 DEF Marked, Bounded, RowsFrom
<1>2. CASE u = v
  BY <1>2 DEF RowsFrom
<1>3. CASE IsConfirm(c) /\ Change(v, u, c.change.id, c.change.after.ver, Brought(u, answer))
  <2> DEFINE open == Brought(u, answer)
  <2>1. open \cap AllCounters # {}
    BY BroughtSome
  <2>. HIDE DEF open
  <2>2. Change(v, u, c.change.id, c.change.after.ver, open)
    BY <1>3 DEF open
  <2>3. c.change.id \in Ids /\ c.change.after.ver \in Nat /\ c.type = "confirm"
    BY <1>3 DEF IsConfirm
  <2>4. Fine(u)
    BY <2>1, <2>2, <2>3, ChangeFine
  <2>5. IsValue(v)
    BY DEF Fine, Sound
  <2>6. Bounded(u, s)
    BY <2>2, <2>5, ChangeBounded
  <2>7. RowsFrom(v, u, {c.change.id})
    BY <2>2, ChangeRows
  <2>. QED
    BY <2>2, <2>3, <2>4, <2>6, <2>7 DEF Change
<1>. QED
  BY <1>1, <1>2, <1>3 DEF Again

\* The versions of an issue that an answer has, and those of its kept changes.
AnsweredOf(answer, x) == UNION {VersionsIn(p.rows, x) : p \in PageEvidence(answer).parts}
Confirms(changes, x, n) == {i \in 1..n : changes[i].type = "confirm" /\ changes[i].change.id = x}
Told(changes, x, n) == {changes[i].change.after.ver : i \in Confirms(changes, x, n)}

\* An answer is newer than a change where it has a later version of the issue.
LEMMA NewerIs ==
    ASSUME NEW change, NEW answer, change.after.k = "known", change.after.ver \in Nat,
           AnsweredOf(answer, change.id) \subseteq Nat
    PROVE  IsNewer(change, answer)
           <=> \E s \in AnsweredOf(answer, change.id) : s > change.after.ver
<1> DEFINE rows == UNION {RowsOf(p.rows, change.id) : p \in PageEvidence(answer).parts}
           ver == change.after.ver
<1>1. AnsweredOf(answer, change.id) = {r.ver : r \in rows}
  BY DEF AnsweredOf, VersionsIn
<1>2. \A r \in rows : r.ver \in Nat
  BY <1>1
<1> DEFINE timing == AnswerTiming(PageEvidence(answer), change)
<1>3. CASE \E r \in rows : r.ver > ver
  <2>1. rows # {} /\ ~ \A r \in rows : r.ver <= ver
    BY <1>2, <1>3
  <2>2. ~ \A r \in rows : r.ver < ver
    BY <1>2, <1>3
  <2>3. timing.phase = "newer"
    BY <1>3, <2>1, <2>2 DEF AnswerTiming
  <2>. QED
    BY <1>1, <1>3, <2>3 DEF IsNewer
<1>4. CASE ~ \E r \in rows : r.ver > ver
  <2>1. timing.phase # "newer"
    BY <1>4 DEF AnswerTiming
  <2>. QED
    BY <1>1, <1>4, <2>1 DEF IsNewer
<1>. QED
  BY <1>3, <1>4

\* A group the answer does not bring is left as it is.
LEMMA AgainUntouched ==
    ASSUME NEW v, NEW u, NEW c, NEW answer, Fine(v), Again(v, u, c, answer), Brings(answer),
           NEW g \in KnownGroups(u), g \in Groups, g \notin Brought(u, answer), NEW x, NEW least,
           NewRows(v, g, x, Facts(v, g, x) \cup {least})
    PROVE  NewRows(u, g, x, Facts(u, g, x) \cup {least})
<1>1. Sound(v)
  BY DEF Fine
<1> DEFINE known == Facts(v, g, x) \cup {least}
           after == Facts(u, g, x) \cup {least}
<1>2. NewRows(v, g, x, known)
  OBVIOUS
<1>3. CASE c.type = "stale" /\ Marked(v, u)
  <2>1. after = known
    BY <1>1, <1>3, FactsMarked
  <2>. HIDE DEF known, after
  <2>2. NewRows(u, g, x, known)
    BY <1>1, <1>2, <1>3, MarkedNewRows
  <2>. QED
    BY <2>1, <2>2 DEF after
<1>4. CASE u = v
  BY <1>4
<1>5. CASE IsConfirm(c) /\ Change(v, u, c.change.id, c.change.after.ver, Brought(u, answer))
  <2> DEFINE open == Brought(u, answer)
  <2>1. open \cap AllCounters # {}
    BY BroughtSome
  <2>. HIDE DEF open
  <2>2. Change(v, u, c.change.id, c.change.after.ver, open) /\ g \notin open
    BY <1>5 DEF open
  <2>3. c.change.after.ver \in Nat
    BY <1>5 DEF IsConfirm
  <2>4. Facts(u, g, x) \subseteq Facts(v, g, x)
    BY <1>1, <2>1, <2>2, FactsOfChange
  <2>5. after \subseteq known
    BY <2>4
  <2>. HIDE DEF known, after
  <2>6. NewRows(u, g, x, known)
    <3> DEFINE id == c.change.id
               ver == c.change.after.ver
    <3>1. Change(v, u, id, ver, open) /\ ver \in Nat
      BY <2>2, <2>3
    <3>. HIDE DEF id, ver
    <3>2. (x # id \/ g \notin open) /\ NewRows(v, g, x, known) => NewRows(u, g, x, known)
      BY <3>1, ChangeNewRows
    <3>. QED
      BY <1>2, <2>2, <3>2
  <2>7. NewRows(u, g, x, after)
    BY <2>5, <2>6, NewRowsFewer
  <2>. QED
    BY <2>7 DEF after
<1>. QED
  BY <1>3, <1>4, <1>5 DEF Again

\* What is known of an issue, and what a kept change adds.
Grows(known, more, c, answer, x) ==
    IF c.type = "confirm" /\ c.change.id = x
    THEN /\ more = known \cup {c.change.after.ver}
         /\ known \subseteq AnsweredOf(answer, x) \cup 0..c.change.after.ver
    ELSE more = known

\* In one it brings, the row of an issue is as new as what the answer has of the
\* issue and what was made again.
LEMMA AgainTouched ==
    ASSUME NEW v, NEW u, NEW c, NEW answer, Fine(v), Again(v, u, c, answer), Brings(answer),
           NEW g \in KnownGroups(u), g \in Groups, NEW x, NEW known, NEW more,
           g \in Brought(u, answer),
           AnsweredOf(answer, x) \subseteq known, Facts(v, g, x) \subseteq known,
           NewRows(v, g, x, known),
           Grows(known, more, c, answer, x), AnsweredOf(answer, x) \subseteq Nat
    PROVE  Facts(u, g, x) \subseteq more /\ NewRows(u, g, x, more)
<1>1. Sound(v)
  BY DEF Fine
<1>2. CASE c.type = "stale" /\ Marked(v, u)
  <2>1. Facts(u, g, x) = Facts(v, g, x) /\ more = known
    BY <1>1, <1>2, FactsMarked DEF Grows
  <2>2. NewRows(u, g, x, known)
    BY <1>1, <1>2, MarkedNewRows
  <2>. QED
    BY <2>1, <2>2
<1>3. CASE IsConfirm(c) /\ c.change.id # x
  <2>1. more = known
    BY <1>3 DEF Grows
  <2>2. CASE u = v
    BY <2>1, <2>2
  <2>3. CASE Change(v, u, c.change.id, c.change.after.ver, Brought(u, answer))
    <3> DEFINE open == Brought(u, answer)
    <3>1. open \cap AllCounters # {} /\ Change(v, u, c.change.id, c.change.after.ver, open)
      BY <2>3, BroughtSome
    <3>. HIDE DEF open
    <3>2. c.change.after.ver \in Nat
      BY <1>3 DEF IsConfirm
    <3>3. Facts(u, g, x) \subseteq Facts(v, g, x)
      BY <1>1, <1>3, <3>1, FactsOfChange
    <3>4. NewRows(u, g, x, known)
      <4>1. x # c.change.id /\ NewRows(v, g, x, known)
        BY <1>3
      <4>. QED
        BY <3>1, <3>2, <4>1, ChangeOthers
    <3>. QED
      BY <2>1, <3>3, <3>4
  <2>. QED
    BY <1>3, <2>2, <2>3 DEF Again, IsConfirm
<1>4. CASE IsConfirm(c) /\ c.change.id = x
  <2> DEFINE ver == c.change.after.ver
  <2>1. ver \in Nat /\ c.change.after.k = "known" /\ c.type = "confirm"
    BY <1>4 DEF IsConfirm
  <2>2. more = known \cup {ver} /\ known \subseteq AnsweredOf(answer, x) \cup 0..ver
    BY <1>4, <2>1 DEF Grows
  <2>3. CASE IsNewer(c.change, answer) /\ u = v
    <3>1. PICK s \in AnsweredOf(answer, x) : s > ver
      BY <1>4, <2>1, <2>3, NewerIs
    <3> SUFFICES ASSUME NEW row \in GroupOf(v, g).rows, row.id = x, ~GroupOf(v, g).stale
                 PROVE  row.ver \in Nat /\ more \subseteq 0..row.ver
      BY <2>2, <2>3 DEF NewRows
    <3>2. row.ver \in Nat /\ known \subseteq 0..row.ver
      BY DEF NewRows
    <3>3. s \in 0..row.ver
      BY <3>1, <3>2
    <3>4. ver \in 0..row.ver
      BY <2>1, <3>1, <3>2, <3>3
    <3>. QED
      BY <2>2, <3>2, <3>4
  <2>4. CASE ~IsNewer(c.change, answer) /\ Change(v, u, x, ver, Brought(u, answer))
    <3> DEFINE open == Brought(u, answer)
    <3>1. open \cap AllCounters # {} /\ Change(v, u, x, ver, open) /\ g \in open
      BY <2>4, BroughtSome
    <3>2. \A s \in AnsweredOf(answer, x) : ~(s > ver)
      BY <1>4, <2>1, <2>4, NewerIs
    <3>3. more \subseteq 0..ver
      BY <2>1, <2>2, <3>2
    <3>. HIDE DEF open
    <3>4. Facts(u, g, x) \subseteq Facts(v, g, x) \cup {ver}
      BY <1>1, <3>1, FactsOfChange
    <3>5. NewRows(u, g, x, more)
      <4>. HIDE DEF ver
      <4>. QED
        BY <2>1, <3>1, <3>3, ChangeOwn
    <3>. QED
      BY <2>2, <3>4, <3>5
  <2>. QED
    BY <1>4, <2>1, <2>3, <2>4 DEF Again
<1>. QED
  BY <1>2, <1>3, <1>4 DEF Again

IsMade(m) == DOMAIN m = {"value", "safe", "verify", "unsure"} /\ m.safe \in BOOLEAN

LEMMA MadeOfIs ==
    ASSUME NEW value
    PROVE  /\ IsMade(MadeOf(value)) /\ MadeOf(value).value = value
           /\ MadeOf(value).verify = {} /\ MadeOf(value).safe = SafeCounts(value)
BY DEF MadeOf, IsMade, SafeCounts

LEMMA MadeWithIs ==
    ASSUME NEW m, NEW c, NEW answer, IsMade(m), IsValue(m.value) \/ ~m.safe,
           c.type = "stale" \/ IsConfirm(c)
    PROVE  LET u == MadeWith(m, c, answer) IN
           /\ IsMade(u)
           /\ u.safe => m.safe /\ SafeCounts(u.value) /\ Again(m.value, u.value, c, answer)
           /\ u.verify \subseteq m.verify \cup Ids
<1> DEFINE next == MadeAgain(m.value, c, answer)
           u == MadeWith(m, c, answer)
           fit == m.safe /\ SafeCounts(next.value)
           some == IF next.verify THEN {c.change.id} ELSE {}
           done == [m EXCEPT !.value = next.value, !.unsure = @ \cup next.unsure,
                             !.verify = @ \cup some]
           failed == [m EXCEPT !.safe = FALSE]
<1>1. u = IF fit THEN done ELSE failed
  BY DEF MadeWith, Also
<1>2. m.safe => Again(m.value, next.value, c, answer) /\ (next.verify = TRUE => IsConfirm(c))
  BY AgainIs
<1>3. m.safe => some \subseteq Ids
  <2>1. next.verify \in BOOLEAN \/ c.type # "confirm"
    <3>1. ASSUME IsConfirm(c)
          PROVE  next = ReplayGroups(m.value, c.change, answer)
      BY <3>1 DEF MadeAgain, IsConfirm
    <3>2. ASSUME NEW v, NEW change
          PROVE  ReplayGroups(v, change, answer).verify \in BOOLEAN
      <4> DEFINE read == PageEvidence(answer)
                 timing == AnswerTiming(read, change)
                 made == ApplyGroupChange(v, change,
                        [phase |-> timing.phase, read |-> read,
                         groups |-> DOMAIN answer.read.ranges], {})
                 whether == timing.inferred /\ change.after.k = "known"
      <4>1. ReplayGroups(v, change, answer)
            = IF timing.phase = "newer" THEN [value |-> v, verify |-> FALSE, unsure |-> {}]
              ELSE [made EXCEPT !.verify = whether]
        BY DEF ReplayGroups
      <4>2. DOMAIN made = {"value", "verify", "unsure"}
        BY DEF ApplyGroupChange, MakeChange
      <4>3. timing.inferred \in BOOLEAN
        BY DEF AnswerTiming
      <4>. HIDE DEF made, timing
      <4>4. whether \in BOOLEAN
        BY <4>3
      <4>. HIDE DEF whether
      <4>5. [made EXCEPT !.verify = whether].verify = whether
        BY <4>2
      <4>6. [value |-> v, verify |-> FALSE, unsure |-> {}].verify = FALSE
        OBVIOUS
      <4>7. CASE timing.phase = "newer"
        BY <4>1, <4>6, <4>7
      <4>8. CASE timing.phase # "newer"
        BY <4>1, <4>4, <4>5, <4>8
      <4>. QED
        BY <4>7, <4>8
    <3>. QED
      BY <3>1, <3>2 DEF IsConfirm
  <2>2. c.type # "confirm" => next.verify = FALSE
    BY DEF MadeAgain, IsConfirm
  <2>. QED
    BY <1>2, <2>1, <2>2 DEF IsConfirm
<1>. HIDE DEF next, some
<1>4. CASE fit
  <2>1. u = done
    BY <1>1, <1>4
  <2>2. /\ u.value = next.value /\ u.verify = m.verify \cup some /\ u.safe = m.safe
        /\ DOMAIN u = DOMAIN m
    BY <2>1 DEF IsMade
  <2>. HIDE DEF u
  <2>3. IsMade(u)
    BY <2>2 DEF IsMade
  <2>4. SafeCounts(u.value) /\ Again(m.value, u.value, c, answer)
    BY <1>2, <1>4, <2>2
  <2>5. u.verify \subseteq m.verify \cup Ids
    BY <1>3, <1>4, <2>2
  <2>. QED
    BY <1>4, <2>2, <2>3, <2>4, <2>5 DEF u
<1>5. CASE ~fit
  <2>1. u = failed
    BY <1>1, <1>5
  <2>2. u.safe = FALSE /\ u.verify = m.verify /\ DOMAIN u = DOMAIN m
    BY <2>1 DEF IsMade
  <2>. QED
    BY <2>2 DEF IsMade
<1>. QED
  BY <1>4, <1>5

\* The issues whose changes were kept.
Confirmeds(changes) == {x \in Ids : Confirms(changes, x, Len(changes)) # {}}

\* What a replay makes of a value, as far as it is safe.
ReplayGood(m, value, changes, s) ==
    /\ IsMade(m) /\ m.verify \subseteq Ids
    /\ m.safe => /\ SafeCounts(m.value) /\ Fine(m.value) /\ Bounded(m.value, s)
                 /\ KnownGroups(value) \subseteq KnownGroups(m.value)
                 /\ RowsFrom(value, m.value, Confirmeds(changes))

LEMMA ReplayStep ==
    ASSUME NEW made, NEW value, NEW answer, NEW changes, IsReplay(made, value, answer, changes),
           Len(changes) \in Nat, Kept(changes), NEW s, NEW i \in 1..Len(changes),
           ReplayGood(made[i - 1], value, changes, s), made[i].safe
    PROVE  /\ made[i - 1].safe /\ SafeCounts(made[i].value)
           /\ Again(made[i - 1].value, made[i].value, changes[i], answer)
<1>1. made[i] = MadeWith(made[i - 1], changes[i], answer)
  BY DEF IsReplay
<1>2. changes[i].type = "stale" \/ IsConfirm(changes[i])
  BY DEF Kept
<1>3. IsMade(made[i - 1]) /\ (IsValue(made[i - 1].value) \/ ~made[i - 1].safe)
  BY DEF ReplayGood, Fine, Sound
<1>. QED
  BY <1>1, <1>2, <1>3, MadeWithIs

LEMMA ReplayFine ==
    ASSUME NEW made, NEW value, NEW answer, NEW changes, IsReplay(made, value, answer, changes),
           Len(changes) \in Nat, Kept(changes), Brings(answer), NEW s \in Int,
           Fine(value), Bounded(value, s)
    PROVE  \A i \in 0..Len(changes) : ReplayGood(made[i], value, changes, s)
<1> DEFINE S == {i \in 0..Len(changes) : ReplayGood(made[i], value, changes, s)}
<1>1. 0 \in S
  <2>1. made[0] = MadeOf(value) /\ RowsFrom(value, value, Confirmeds(changes))
    BY DEF IsReplay, RowsFrom
  <2>. QED
    BY <2>1, MadeOfIs DEF ReplayGood
<1>2. ASSUME NEW i \in 1..Len(changes), i - 1 \in S
      PROVE  i \in S
  <2> DEFINE m == made[i - 1]
             u == made[i]
             c == changes[i]
  <2>1. ReplayGood(m, value, changes, s)
    BY <1>2
  <2>2. u = MadeWith(m, c, answer)
    BY DEF IsReplay
  <2>3. c.type = "stale" \/ IsConfirm(c)
    BY DEF Kept
  <2>4. IsMade(u) /\ u.verify \subseteq Ids
    <3>1. IsMade(m) /\ (IsValue(m.value) \/ ~m.safe) /\ m.verify \subseteq Ids
      BY <2>1 DEF ReplayGood, Fine, Sound
    <3>. HIDE DEF m, u, c
    <3>2. IsMade(u) /\ u.verify \subseteq m.verify \cup Ids
      BY <2>2, <2>3, <3>1, MadeWithIs
    <3>. QED
      BY <3>1, <3>2
  <2>5. ASSUME u.safe
        PROVE  /\ SafeCounts(u.value) /\ Fine(u.value) /\ Bounded(u.value, s)
               /\ KnownGroups(value) \subseteq KnownGroups(u.value)
               /\ RowsFrom(value, u.value, Confirmeds(changes))
    <3>1. m.safe /\ SafeCounts(u.value) /\ Again(m.value, u.value, c, answer)
      BY <2>1, <2>5, ReplayStep
    <3>2. /\ Fine(m.value) /\ Bounded(m.value, s)
          /\ KnownGroups(value) \subseteq KnownGroups(m.value)
          /\ RowsFrom(value, m.value, Confirmeds(changes))
      BY <2>1, <3>1 DEF ReplayGood
    <3> DEFINE some == IF c.type = "confirm" THEN {c.change.id} ELSE {}
    <3>3. some \subseteq Confirmeds(changes)
      <4>1. CASE c.type = "confirm"
        <5>1. i \in Confirms(changes, c.change.id, Len(changes)) /\ c.change.id \in Ids
          BY <2>3, <4>1 DEF Confirms, IsConfirm
        <5>. QED
          BY <4>1, <5>1 DEF Confirmeds
      <4>. QED
        BY <4>1
    <3>4. /\ Fine(u.value) /\ Bounded(u.value, s)
          /\ KnownGroups(m.value) \subseteq KnownGroups(u.value)
          /\ RowsFrom(m.value, u.value, some)
      BY <3>1, <3>2, AgainFine
    <3>5. RowsFrom(value, u.value, Confirmeds(changes))
      BY <3>2, <3>3, <3>4 DEF RowsFrom
    <3>. QED
      BY <3>1, <3>2, <3>4, <3>5
  <2>6. ReplayGood(u, value, changes, s)
    BY <2>4, <2>5 DEF ReplayGood
  <2>. QED
    BY <2>6
<1>. HIDE DEF S
<1>3. \A i \in 0..Len(changes) : i \in S
  BY <1>1, <1>2, UpTo
<1>. QED
  BY <1>3 DEF S

LEMMA ReplayUntouched ==
    ASSUME NEW made, NEW value, NEW answer, NEW changes, IsReplay(made, value, answer, changes),
           Len(changes) \in Nat, Kept(changes), Brings(answer), NEW s \in Int,
           Fine(value), Bounded(value, s),
           NEW g \in Groups, NEW x, NEW least,
           ~answer.read.whole, g \notin DOMAIN answer.read.ranges,
           NewRows(value, g, x, Facts(value, g, x) \cup {least})
    PROVE  \A i \in 0..Len(changes) :
              made[i].safe => NewRows(made[i].value, g, x, Facts(made[i].value, g, x) \cup {least})
<1> DEFINE S == {i \in 0..Len(changes) :
              made[i].safe => NewRows(made[i].value, g, x, Facts(made[i].value, g, x) \cup {least})}
<1>1. \A i \in 0..Len(changes) : ReplayGood(made[i], value, changes, s)
  BY ReplayFine
<1>2. 0 \in S
  <2>1. made[0].value = value
    BY MadeOfIs DEF IsReplay
  <2> DEFINE v == made[0].value
  <2>. HIDE DEF v
  <2>2. NewRows(v, g, x, Facts(v, g, x) \cup {least})
    BY <2>1 DEF v
  <2>. QED
    BY <2>2 DEF v
<1>3. ASSUME NEW i \in 1..Len(changes), i - 1 \in S
      PROVE  i \in S
  <2> DEFINE v == made[i - 1].value
             u == made[i].value
  <2> SUFFICES ASSUME made[i].safe
               PROVE  NewRows(u, g, x, Facts(u, g, x) \cup {least})
    BY <1>3
  <2>1. made[i - 1].safe /\ Again(v, u, changes[i], answer)
    BY <1>1, ReplayStep
  <2>2. Fine(v) /\ KnownGroups(value) \subseteq KnownGroups(u)
    BY <1>1, <2>1 DEF ReplayGood
  <2>3. NewRows(v, g, x, Facts(v, g, x) \cup {least})
    BY <1>3, <2>1
  <2>4. g \notin Brought(u, answer) \/ g \notin KnownGroups(u)
    BY DEF Brought
  <2>. HIDE DEF v, u
  <2>5. CASE g \notin KnownGroups(u)
    BY <2>5 DEF NewRows, GroupOf, EmptyGroup
  <2>6. CASE g \in KnownGroups(u)
    BY <2>1, <2>2, <2>3, <2>4, <2>6, AgainUntouched
  <2>. QED
    BY <2>5, <2>6
<1>. HIDE DEF S
<1>4. \A i \in 0..Len(changes) : i \in S
  BY <1>2, <1>3, UpTo
<1>. QED
  BY <1>4 DEF S

LEMMA AgainUnknown ==
    ASSUME NEW v, NEW u, NEW c, NEW answer, Fine(v), Again(v, u, c, answer), Brings(answer),
           NEW g \in Groups, g \notin KnownGroups(u), NEW x, NEW known
    PROVE  /\ Facts(u, g, x) \subseteq Facts(v, g, x)
                     \cup IF c.type = "confirm" /\ c.change.id = x THEN {c.change.after.ver} ELSE {}
           /\ NewRows(u, g, x, known)
<1>1. Sound(v)
  BY DEF Fine
<1>2. NewRows(u, g, x, known)
  BY DEF NewRows, GroupOf, EmptyGroup
<1>3. CASE Marked(v, u)
  BY <1>1, <1>2, <1>3, FactsMarked
<1>4. CASE u = v
  BY <1>2, <1>4
<1>5. CASE IsConfirm(c) /\ Change(v, u, c.change.id, c.change.after.ver, Brought(u, answer))
  <2>1. Brought(u, answer) \cap AllCounters # {}
    BY BroughtSome
  <2> DEFINE open == Brought(u, answer)
             id == c.change.id
             ver == c.change.after.ver
  <2>2. Change(v, u, id, ver, open) /\ open \cap AllCounters # {} /\ c.type = "confirm"
    BY <1>5, <2>1 DEF IsConfirm
  <2>. HIDE DEF open, id, ver
  <2>3. Facts(u, g, x) \subseteq Facts(v, g, x) \cup IF x = id /\ g \in open THEN {ver} ELSE {}
    BY <1>1, <2>2, FactsOfChange
  <2>. QED
    BY <1>2, <2>2, <2>3 DEF id, ver
<1>. QED
  BY <1>3, <1>4, <1>5 DEF Again

\* What the answer has of an issue, what was made again of it, and what the tab was told
\* before, if nothing is made again.
Known(answer, changes, x, before, n) ==
    AnsweredOf(answer, x) \cup Told(changes, x, n)
    \cup IF Confirms(changes, x, Len(changes)) = {} THEN before ELSE {}

LEMMA KnownStep ==
    ASSUME NEW answer, NEW changes, NEW x, NEW before, Len(changes) \in Nat,
           NEW i \in 1..Len(changes)
    PROVE  /\ Known(answer, changes, x, before, i)
              = Known(answer, changes, x, before, i - 1)
                \cup IF i \in Confirms(changes, x, Len(changes)) THEN {changes[i].change.after.ver} ELSE {}
           /\ i \in Confirms(changes, x, Len(changes))
              => Known(answer, changes, x, before, i - 1)
                 = AnsweredOf(answer, x) \cup Told(changes, x, i - 1)
<1>1. 1..i = 1..(i - 1) \cup {i}
  OBVIOUS
<1>2. Confirms(changes, x, i) = Confirms(changes, x, i - 1)
                                \cup IF i \in Confirms(changes, x, Len(changes)) THEN {i} ELSE {}
  BY <1>1 DEF Confirms
<1>3. Told(changes, x, i) = Told(changes, x, i - 1)
          \cup IF i \in Confirms(changes, x, Len(changes)) THEN {changes[i].change.after.ver} ELSE {}
  BY <1>2 DEF Told
<1>. QED
  BY <1>3 DEF Known

LEMMA ReplayTouched ==
    ASSUME NEW made, NEW value, NEW answer, NEW changes, IsReplay(made, value, answer, changes),
           Len(changes) \in Nat, Kept(changes), Brings(answer), NEW s \in Int,
           Fine(value), Bounded(value, s), NEW g \in Groups, NEW x, NEW before,
           answer.read.whole \/ g \in DOMAIN answer.read.ranges,
           AnsweredOf(answer, x) \subseteq Nat,
           Facts(value, g, x) \subseteq AnsweredOf(answer, x),
           NewRows(value, g, x, Known(answer, changes, x, before, 0)),
           \A i, j \in Confirms(changes, x, Len(changes)) :
              i <= j => changes[i].change.after.ver <= changes[j].change.after.ver
    PROVE  \A i \in 0..Len(changes) : made[i].safe =>
              /\ Facts(made[i].value, g, x) \subseteq Known(answer, changes, x, before, i)
              /\ NewRows(made[i].value, g, x, Known(answer, changes, x, before, i))
<1> DEFINE K(i) == Known(answer, changes, x, before, i)
           P(i) == made[i].safe => /\ Facts(made[i].value, g, x) \subseteq K(i)
                                   /\ NewRows(made[i].value, g, x, K(i))
           S == {i \in 0..Len(changes) : P(i)}
<1>1. \A i \in 0..Len(changes) : ReplayGood(made[i], value, changes, s)
  BY ReplayFine
<1>2. 0 \in S
  <2>1. made[0].value = value
    BY MadeOfIs DEF IsReplay
  <2>2. AnsweredOf(answer, x) \subseteq K(0)
    BY DEF Known
  <2>. QED
    BY <2>1, <2>2
<1>3. ASSUME NEW i \in 1..Len(changes), i - 1 \in S
      PROVE  i \in S
  <2> DEFINE v == made[i - 1].value
             u == made[i].value
             c == changes[i]
             ver == c.change.after.ver
             known == K(i - 1)
             more == K(i)
  <2> SUFFICES ASSUME made[i].safe
               PROVE  Facts(u, g, x) \subseteq more /\ NewRows(u, g, x, more)
    BY <1>3
  <2>1. made[i - 1].safe /\ Again(v, u, c, answer)
    BY <1>1, ReplayStep
  <2>2. Fine(v)
    BY <1>1, <2>1 DEF ReplayGood
  <2>3. Facts(v, g, x) \subseteq known /\ NewRows(v, g, x, known)
    BY <1>3, <2>1
  <2>4. AnsweredOf(answer, x) \subseteq known
    BY DEF Known
  <2>5. i \in Confirms(changes, x, Len(changes)) <=> c.type = "confirm" /\ c.change.id = x
    BY DEF Confirms
  <2>6. more = known \cup IF c.type = "confirm" /\ c.change.id = x THEN {ver} ELSE {}
    BY <2>5, KnownStep
  <2>7. ASSUME c.type = "confirm", c.change.id = x
        PROVE  known \subseteq AnsweredOf(answer, x) \cup 0..ver
    <3>1. known = AnsweredOf(answer, x) \cup Told(changes, x, i - 1)
      BY <2>5, <2>7, KnownStep
    <3>2. ASSUME NEW j \in Confirms(changes, x, i - 1)
          PROVE  changes[j].change.after.ver \in 0..ver
      <4>1. j \in Confirms(changes, x, Len(changes)) /\ j <= i /\ j \in 1..Len(changes)
        BY DEF Confirms
      <4>2. changes[j].change.after.ver <= ver
        BY <2>5, <2>7, <4>1
      <4>3. changes[j].change.after.ver \in Nat /\ ver \in Nat
        BY <2>7, <4>1 DEF Kept, IsConfirm, Confirms
      <4>. QED
        BY <4>2, <4>3
    <3>. QED
      BY <3>1, <3>2 DEF Told
  <2>8. CASE g \notin KnownGroups(u)
    <3>. HIDE DEF u, v, c, known, more
    <3>. QED
      BY <2>1, <2>2, <2>3, <2>6, <2>8, AgainUnknown DEF ver
  <2>9. CASE g \in KnownGroups(u)
    <3>1. g \in Brought(u, answer)
      BY <2>9 DEF Brought, Counters
    <3>2. Grows(known, more, c, answer, x)
      BY <2>6, <2>7 DEF Grows
    <3>. HIDE DEF u, v, c, known, more
    <3>. QED
      BY <2>1, <2>2, <2>3, <2>4, <2>9, <3>1, <3>2, AgainTouched
  <2>. QED
    BY <2>8, <2>9
<1>. HIDE DEF S
<1>4. \A i \in 0..Len(changes) : i \in S
  BY <1>2, <1>3, UpTo
<1>. QED
  BY <1>4 DEF S

-----------------------------------------------------------------------------
(* An answer *)

\* What an answer to a read is: of its groups the rows that were there when it was
\* served, and nothing was changed in it.
IsAnswer(a, r, source) ==
    /\ IsValue(a) /\ a.counted = FALSE
    /\ a.read.source = source /\ a.read.first = r.first
    /\ a.read.whole \in BOOLEAN /\ (a.read.whole <=> r.part = Whole)
    /\ DOMAIN a.read.ranges = KnownGroups(a)
    /\ r.part # Whole => KnownGroups(a) = {r.part}
    /\ \A c \in AllCounters : a.evidence[c] = NoEvidence
    /\ \A g \in KnownGroups(a) : \A row \in a.groups[g].rows :
          /\ row.id \in Ids /\ row = [id |-> row.id, ver |-> r.snap[row.id].ver]
          /\ r.snap[row.id].at = g

LEMMA DecodeIs ==
    ASSUME NEW t, NEW r, r.part \in Parts,
           t.val # NoVal => IsValue(t.val)
    PROVE  /\ IsAnswer(Decode(t, r), r, t.source + 1)
           /\ t.val # NoVal /\ r.part = Whole => KnownGroups(t.val) \subseteq KnownGroups(Decode(t, r))
<1> DEFINE there == {g \in Groups : \E id \in Ids : r.snap[id].at = g}
           known == IF t.val = NoVal THEN {} ELSE KnownGroups(t.val)
           parts == IF r.part = Whole THEN there \cup known ELSE {r.part}
           pages == [g \in parts |-> PageOf(r.snap, g, r.lower)]
           a == Decode(t, r)
           total == IF r.part = Whole THEN Cardinality({id \in Ids : r.snap[id].at \in Groups}) ELSE 0
           ranges == [g \in parts |-> [lower |-> r.lower, complete |-> ~pages[g].more,
                                       upper |-> IF pages[g].rows = {} THEN 0 ELSE pages[g].boundary]]
<1>1. parts \subseteq Groups
  BY DEF IsValue, IsGroups, KnownGroups, Parts
<1>2. a = [total |-> total, groups |-> pages,
           read |-> [source |-> t.source + 1, whole |-> r.part = Whole, first |-> r.first,
                     ranges |-> ranges],
           counted |-> FALSE, evidence |-> [c \in AllCounters |-> NoEvidence]]
  BY DEF Decode
<1>3. ASSUME NEW g \in parts
      PROVE  /\ IsGroup(pages[g])
             /\ \A row \in pages[g].rows :
                   /\ row.id \in Ids /\ row = [id |-> row.id, ver |-> r.snap[row.id].ver]
                   /\ r.snap[row.id].at = g
  <2> DEFINE all == {id \in Ids : r.snap[id].at = g}
             after == {id \in all : id > r.lower}
             page == {id \in after : Cardinality({x \in after : x <= id}) <= PageSize}
             rows == {[id |-> id, ver |-> r.snap[id].ver] : id \in page}
             edge == IF page = {} THEN r.lower ELSE Max(page)
             count == Cardinality(all)
             further == page # after
  <2>1. pages[g] = [total |-> count, rows |-> rows, more |-> further, boundary |-> edge,
                    cursor |-> edge, stale |-> FALSE]
    BY <1>3 DEF PageOf
  <2>2. \A id \in page : id \in Ids /\ r.snap[id].at = g
    OBVIOUS
  <2>. HIDE DEF page, count, further, edge, pages
  <2>3. IsGroup(pages[g])
    BY <2>1 DEF IsGroup, GroupFields
  <2>4. pages[g].rows = rows
    BY <2>1
  <2>. QED
    BY <2>2, <2>3, <2>4
<1>4. KnownGroups(a) = parts /\ \A g \in parts : a.groups[g] = pages[g]
  BY <1>2 DEF KnownGroups
<1>. HIDE DEF total, pages, ranges, parts
<1>5. DOMAIN ranges = parts /\ (r.part # Whole => parts = {r.part})
      /\ (r.part = Whole /\ t.val # NoVal => KnownGroups(t.val) \subseteq parts)
  BY DEF ranges, parts
<1>6. /\ DOMAIN a = ValueFields /\ a.counted = FALSE /\ a.evidence = [c \in AllCounters |-> NoEvidence]
      /\ a.read = [source |-> t.source + 1, whole |-> r.part = Whole, first |-> r.first,
                   ranges |-> ranges]
  BY <1>2 DEF ValueFields
<1>. HIDE DEF a
<1> DEFINE all == r.part = Whole
           source == t.source + 1
<1>7. all \in BOOLEAN /\ (all <=> r.part = Whole)
  OBVIOUS
<1>8. a.read = [source |-> source, whole |-> all, first |-> r.first, ranges |-> ranges]
  BY <1>6
<1>. HIDE DEF all, source
<1>9. IsValue(a)
  BY <1>1, <1>3, <1>4, <1>6 DEF IsValue, IsGroups, IsEvidence, KnownGroups
<1>10. /\ a.read.source = t.source + 1 /\ a.read.first = r.first
       /\ a.read.whole \in BOOLEAN /\ (a.read.whole <=> r.part = Whole)
       /\ a.read.ranges = ranges
  <2>1. /\ a.read.source = source /\ a.read.first = r.first
        /\ a.read.whole = all /\ a.read.ranges = ranges
    BY <1>8
  <2>. QED
    BY <1>7, <2>1 DEF source
<1>. QED
  BY <1>3, <1>4, <1>5, <1>6, <1>9, <1>10 DEF IsAnswer, a

\* Marks leave an answer one.
LEMMA MarkedAnswer ==
    ASSUME NEW a, NEW u, NEW r, NEW source, IsAnswer(a, r, source), Marked(a, u)
    PROVE  IsAnswer(u, r, source)
BY DEF IsAnswer, Marked

LEMMA AnswerIsFine ==
    ASSUME NEW a, NEW r, NEW source \in Nat, IsAnswer(a, r, source), Versions(r.snap),
           r.part \in Parts
    PROVE  /\ Fine(a) /\ Bounded(a, source) /\ Brings(a)
           /\ \A x \in Ids : AnsweredOf(a, x) \subseteq {r.snap[x].ver}
           /\ \A x : AnsweredOf(a, x) \subseteq Nat
           /\ \A g \in Groups : \A x : Facts(a, g, x) \subseteq AnsweredOf(a, x)
           /\ \A p \in PageEvidence(a).parts : \A row \in p.rows : row.ver \in Nat
<1>1. KnownGroups(a) \subseteq Groups
  BY DEF IsAnswer, IsValue, IsGroups, KnownGroups
<1>2. NoEvidence.source = -1
  BY DEF NoEvidence
<1>3. \A c \in AllCounters : a.evidence[c].source = -1
  BY <1>2 DEF IsAnswer
<1>4. Sound(a)
  <2>1. \A c \in AllCounters : a.evidence[c].source # a.read.source
    BY <1>3 DEF IsAnswer
  <2>. QED
    BY <2>1 DEF IsAnswer, Sound
<1>5. Bounded(a, source)
  BY <1>3 DEF IsAnswer, Bounded
<1>6. Brings(a)
  <2>1. CASE r.part = Whole
    BY <2>1 DEF IsAnswer, Brings
  <2>2. CASE r.part # Whole
    <3>1. r.part \in Groups /\ r.part \in DOMAIN a.read.ranges
      BY <2>2 DEF IsAnswer, Parts
    <3>. QED
      BY <3>1 DEF Brings, AllCounters
  <2>. QED
    BY <2>1, <2>2
<1>7. ASSUME NEW g \in KnownGroups(a), NEW row \in a.groups[g].rows
      PROVE  row.id \in Ids /\ row.ver = r.snap[row.id].ver /\ row.ver \in Nat /\ r.snap[row.id].at = g
  <2>1. row.id \in Ids /\ row = [id |-> row.id, ver |-> r.snap[row.id].ver] /\ r.snap[row.id].at = g
    BY DEF IsAnswer
  <2>2. row.ver = r.snap[row.id].ver
    BY <2>1
  <2>. QED
    BY <2>1, <2>2 DEF Versions
<1>8. \A p \in PageEvidence(a).parts : \E g \in KnownGroups(a) : p.rows = a.groups[g].rows
  BY DEF PageEvidence, IsAnswer
<1>9. \A p \in PageEvidence(a).parts : \A row \in p.rows : row.id \in Ids /\ row.ver = r.snap[row.id].ver /\ row.ver \in Nat
  BY <1>7, <1>8
<1>10. \A x : AnsweredOf(a, x) \subseteq Nat
  BY <1>9 DEF AnsweredOf, VersionsIn, RowsOf
<1>11. \A x \in Ids : AnsweredOf(a, x) \subseteq {r.snap[x].ver}
  BY <1>9 DEF AnsweredOf, VersionsIn, RowsOf
<1>12. BaseRead(a) = PageEvidence(a)
  BY <1>4, BaseReadIs DEF IsAnswer
<1>13. ASSUME NEW g \in Groups, NEW x
       PROVE  Facts(a, g, x) \subseteq AnsweredOf(a, x)
  <2>1. EvidenceOf(a, g) = CounterSource(a, g)
    BY DEF EvidenceOf, IsAnswer, AllCounters
  <2>2. /\ EvidenceOf(a, g).confirmed = {} /\ EvidenceOf(a, g).read = PageEvidence(a)
        /\ EvidenceOf(a, g).held = CounterRows(a, g)
    BY <1>12, <2>1, SourceIs
  <2>3. VersionsIn(GroupOf(a, g).rows, x) \subseteq AnsweredOf(a, x)
    <3>1. CASE g \in KnownGroups(a)
      <4> DEFINE part == [group |-> g, rows |-> a.groups[g].rows, range |-> a.read.ranges[g]]
      <4>1. part \in PageEvidence(a).parts
        BY <3>1 DEF PageEvidence, IsAnswer
      <4>2. part.rows = a.groups[g].rows
        OBVIOUS
      <4>. QED
        BY <3>1, <4>1, <4>2 DEF AnsweredOf, GroupOf
    <3>2. CASE g \notin KnownGroups(a)
      BY <3>2 DEF GroupOf, EmptyGroup, VersionsIn, RowsOf
    <3>. QED
      BY <3>1, <3>2
  <2>4. VersionsIn({}, x) = {}
    BY DEF VersionsIn, RowsOf
  <2>5. CounterRows(a, g).rows = GroupOf(a, g).rows
    BY RowsHeld
  <2>6. Facts(a, g, x) = VersionsIn({}, x) \cup VersionsIn(GroupOf(a, g).rows, x)
                         \cup UNION {VersionsIn(p.rows, x) : p \in PageEvidence(a).parts}
    BY <2>2, <2>5 DEF Facts
  <2>. QED
    BY <2>3, <2>4, <2>6 DEF AnsweredOf
<1>14. Timed(a)
  BY <1>9, <1>10, <1>12, <1>13 DEF Timed
<1>15. OneRow(a)
  <2> SUFFICES ASSUME NEW g \in KnownGroups(a), NEW p \in a.groups[g].rows,
                      NEW q \in a.groups[g].rows, p.id = q.id
               PROVE  p = q
    BY DEF OneRow
  <2>1. p = [id |-> p.id, ver |-> r.snap[p.id].ver] /\ q = [id |-> q.id, ver |-> r.snap[q.id].ver]
    BY DEF IsAnswer
  <2>. QED
    BY <2>1
<1>16. Fine(a)
  BY <1>4, <1>7, <1>14, <1>15 DEF Fine
<1>. QED
  BY <1>5, <1>6, <1>9, <1>10, <1>11, <1>13, <1>16

\* Nothing that is deleted leaves an answer but for marks.
LEMMA ReconciledIs ==
    ASSUME NEW t, NEW r, NEW raw, NEW source, IsAnswer(raw, r, source),
           \A id \in RowIds(raw) : t.held[id].k # "gone"
    PROVE  Marked(raw, Reconciled(t, r, raw))
<1> DEFINE gone == {id \in RowIds(raw) : t.held[id].k = "gone"}
           doubted == {id \in RowIds(raw) \ gone : t.records[id] # NoRecord}
           ids == SetToSeq(gone)
           change(i) == Deleted([id |-> ids[i], after |-> Absent,
                                 before |-> Issue(r.snap[ids[i]].at, r.snap[ids[i]].ver)])
           deleted == [i \in 1..Len(ids) |-> change(i)]
           stale == {r.snap[id].at : id \in doubted}
           same == [Replayed(raw, raw, deleted).value EXCEPT !.read = raw.read]
<1>1. Reconciled(t, r, raw) = MarkStale(same, stale)
  BY DEF Reconciled
<1>2. gone = {}
  OBVIOUS
<1>3. Len(ids) = 0
  <2>1. ids = CHOOSE f \in [1..0 -> {}] : IsInjective(f)
    BY <1>2, FS_EmptySet DEF SetToSeq
  <2>2. <<>> \in [1..0 -> {}] /\ IsInjective(<<>>)
    BY DEF IsInjective
  <2>3. ids \in [1..0 -> {}]
    BY <2>1, <2>2
  <2>4. ids = <<>>
    BY <2>3
  <2>. QED
    BY <2>4
<1>. HIDE DEF change, ids
<1>4. Len(deleted) = 0
  <2>1. deleted \in [1..0 -> {}]
    BY <1>3
  <2>2. deleted = <<>>
    BY <2>1
  <2>. QED
    BY <2>2
<1>. HIDE DEF deleted, stale
<1>5. Replayed(raw, raw, deleted).value = raw
  <2>1. PICK made : IsReplay(made, raw, raw, deleted)
                    /\ Replayed(raw, raw, deleted) = made[Len(deleted)]
    BY <1>4, ReplayedSteps
  <2>2. made[0] = MadeOf(raw)
    BY <2>1 DEF IsReplay
  <2>. QED
    BY <1>4, <2>1, <2>2, MadeOfIs
<1>6. IsValue(raw)
  BY DEF IsAnswer
<1>7. Marked(raw, same)
  BY <1>5, <1>6 DEF Marked, IsValue, ValueFields, IsGroups, KnownGroups
<1>. HIDE DEF same
<1>8. Marked(same, MarkStale(same, stale))
  BY <1>7, MarkStaleMarks DEF Marked
<1>. QED
  BY <1>1, <1>7, <1>8, MarkedMarked

\* A whole answer merged into a value is as good as the answer.
LEMMA MergedWhole ==
    ASSUME NEW val, NEW a, NEW r, NEW source, IsAnswer(a, r, source), r.part = Whole, r.first = TRUE,
           KnownGroups(val) \subseteq KnownGroups(a)
    PROVE  /\ IsAnswer(MergePages(val, a), r, source)
           /\ PageEvidence(MergePages(val, a)) = PageEvidence(a)
           /\ KnownGroups(MergePages(val, a)) = KnownGroups(a)
<1> DEFINE merged(g) == [GroupOf(a, g) EXCEPT !.rows = {} \cup @,
                           !.boundary = IF GroupOf(val, g).boundary > @ THEN GroupOf(val, g).boundary ELSE @]
           known == KnownGroups(a)
           b == MergePages(val, a)
           groups == [g \in known |-> merged(g)]
<1>1. a.read.whole = TRUE /\ a.read.first = TRUE /\ DOMAIN a.read.ranges = known /\ known \subseteq Groups
  BY DEF IsAnswer, IsValue, IsGroups, KnownGroups
<1>2. b = [total |-> a.total, groups |-> groups, read |-> a.read, counted |-> FALSE,
           evidence |-> [c \in AllCounters |-> NoEvidence]]
  <2>1. b.total = a.total /\ b.read = a.read /\ b.counted = FALSE
    BY <1>1 DEF MergePages
  <2>2. b.groups = groups
    BY <1>1 DEF MergePages
  <2>3. b.evidence = [c \in AllCounters |-> NoEvidence]
    BY <1>1 DEF MergePages
  <2>4. DOMAIN b = {"total", "groups", "read", "counted", "evidence"}
    BY DEF MergePages
  <2>. QED
    BY <2>1, <2>2, <2>3, <2>4 DEF MergePages
<1>3. ASSUME NEW g \in known
      PROVE  IsGroup(merged(g)) /\ merged(g).rows = a.groups[g].rows
  <2>1. GroupOf(a, g) = a.groups[g] /\ IsGroup(a.groups[g])
    BY DEF GroupOf, IsAnswer, IsValue, IsGroups, KnownGroups
  <2>. QED
    BY <2>1 DEF IsGroup, GroupFields
<1>. HIDE DEF merged
<1>4. /\ DOMAIN b = ValueFields /\ KnownGroups(b) = known /\ b.counted = FALSE /\ b.read = a.read
      /\ b.groups = groups
      /\ b.evidence = [c \in AllCounters |-> NoEvidence]
  BY <1>2 DEF ValueFields, KnownGroups
<1>. HIDE DEF b
<1>5. \A g \in known : IsGroup(b.groups[g]) /\ b.groups[g].rows = a.groups[g].rows
  BY <1>3, <1>4
<1>6. IsValue(b)
  BY <1>1, <1>4, <1>5 DEF IsValue, IsGroups, IsEvidence, KnownGroups
<1>7. IsAnswer(b, r, source)
  BY <1>1, <1>4, <1>5, <1>6 DEF IsAnswer
<1>8. PageEvidence(b) = PageEvidence(a)
  <2> DEFINE part(v, g) == [group |-> g, rows |-> v.groups[g].rows, range |-> v.read.ranges[g]]
  <2>1. \A g \in known : part(b, g) = part(a, g)
    BY <1>4, <1>5
  <2>2. {part(b, g) : g \in known} = {part(a, g) : g \in known}
    BY <2>1
  <2>3. /\ PageEvidence(b) = [whole |-> b.read.whole, none |-> FALSE, parts |-> {part(b, g) : g \in known}]
        /\ PageEvidence(a) = [whole |-> a.read.whole, none |-> FALSE, parts |-> {part(a, g) : g \in known}]
    BY <1>1, <1>4 DEF PageEvidence
  <2>. HIDE DEF part
  <2>. QED
    BY <1>4, <2>2, <2>3
<1>. QED
  BY <1>4, <1>7, <1>8 DEF b

\* The rows of a group that a further page of it leaves.
KeptRows(val, a, r) ==
    IF r.first = TRUE THEN {}
    ELSE {row \in GroupOf(val, r.part).rows : RowsOf(a.groups[r.part].rows, row.id) = {}}

MergedInto(b, val, a, r) ==
    LET g == r.part IN
    /\ IsValue(b) /\ b.read = val.read /\ b.counted = TRUE
    /\ KnownGroups(b) = KnownGroups(val) \cup {g}
    /\ b.groups[g].rows = KeptRows(val, a, r) \cup a.groups[g].rows
    /\ \A h \in KnownGroups(val) \ {g} : b.groups[h] = val.groups[h]
    /\ b.evidence[g].source = a.read.source /\ b.evidence[g].read = PageEvidence(a)
    /\ b.evidence[g].held.rows = a.groups[g].rows /\ b.evidence[g].confirmed = {}
    /\ b.evidence[g] # NoEvidence
    /\ \A c \in Counters(val) \ {g} : b.evidence[c] = EvidenceOf(val, c)
    /\ \A c \in AllCounters \ (Counters(val) \cup {g}) : b.evidence[c] = NoEvidence

\* What the answer of a group is merged into: only that group changes.
LEMMA MergedPart ==
    ASSUME NEW val, NEW a, NEW r, NEW source, IsAnswer(a, r, source), r.part \in Groups, IsValue(val)
    PROVE  MergedInto(MergePages(val, a), val, a, r)
<1> DEFINE g == r.part
           kept == KeptRows(val, a, r)
           edge == IF GroupOf(val, g).boundary > a.groups[g].boundary THEN GroupOf(val, g).boundary
                   ELSE a.groups[g].boundary
           b == MergePages(val, a)
           of(c) == CASE c = g -> [CounterSource(a, c) EXCEPT !.read = PageEvidence(a)]
                      [] c \in Counters(val) \ {g} -> EvidenceOf(val, c)
                      [] OTHER -> NoEvidence
<1>1. /\ g \in Groups /\ g # Whole /\ g # Outer /\ a.read.whole = FALSE /\ DOMAIN a.read.ranges = {g}
      /\ KnownGroups(a) = {g}
  BY MarksAssumption, PagedGroupsAssumption DEF IsAnswer
<1>2. GroupOf(a, g) = a.groups[g] /\ IsGroup(a.groups[g])
  BY <1>1 DEF GroupOf, IsAnswer, IsValue, IsGroups, KnownGroups
<1>3. a.read.first = r.first
  BY DEF IsAnswer
<1> DEFINE merged == [a.groups[g] EXCEPT !.rows = kept \cup @, !.boundary = edge]
<1>4. /\ DOMAIN b = ValueFields /\ b.read = val.read /\ b.counted = TRUE
      /\ KnownGroups(b) = KnownGroups(val) \cup {g}
  BY <1>1 DEF MergePages, ValueFields, KnownGroups
<1>5. \A h \in KnownGroups(val) \ {g} : b.groups[h] = val.groups[h]
  BY <1>1 DEF MergePages
<1>6. b.groups[g] = merged
  <2> DEFINE old == GroupOf(val, g)
             raw == GroupOf(a, g)
             keep == IF a.read.first THEN {} ELSE {row \in old.rows : RowsOf(raw.rows, row.id) = {}}
             new == [raw EXCEPT !.rows = keep \cup @,
                                !.boundary = IF old.boundary > @ THEN old.boundary ELSE @]
  <2>1. b.groups[g] = new
    BY <1>1 DEF MergePages
  <2>2. new = merged
    BY <1>2, <1>3 DEF KeptRows
  <2>. QED
    BY <2>1, <2>2
<1>7. b.evidence = [c \in AllCounters |-> of(c)]
  BY <1>1 DEF MergePages
<1>. HIDE DEF b, kept, edge
<1>8. IsGroup(merged) /\ merged.rows = kept \cup a.groups[g].rows
  BY <1>2 DEF IsGroup, GroupFields
<1>. HIDE DEF merged
<1>9. /\ of(g).source = a.read.source /\ of(g).read = PageEvidence(a)
      /\ of(g).held.rows = a.groups[g].rows /\ of(g).confirmed = {}
      /\ DOMAIN of(g) = EvidenceFields
  <2> DEFINE e == CounterSource(a, g)
  <2>1. e.source = a.read.source /\ e.held = CounterRows(a, g) /\ e.confirmed = {}
    BY SourceIs
  <2>2. DOMAIN e = EvidenceFields
    BY DEF CounterSource, EvidenceFields
  <2>3. CounterRows(a, g).rows = a.groups[g].rows
    BY <1>1, <1>2, RowsHeld
  <2>4. of(g) = [e EXCEPT !.read = PageEvidence(a)]
    OBVIOUS
  <2>. HIDE DEF e, of
  <2>. QED
    BY <2>1, <2>2, <2>3, <2>4 DEF EvidenceFields
<1>10. of(g) # NoEvidence
  BY <1>9 DEF NoEvidence, EvidenceFields
<1>11. /\ \A c \in Counters(val) \ {g} : of(c) = EvidenceOf(val, c)
       /\ \A c \in AllCounters \ (Counters(val) \cup {g}) : of(c) = NoEvidence
  BY <1>1
<1>. HIDE DEF of
<1>12. g \in AllCounters /\ Counters(val) \subseteq AllCounters
  BY <1>1 DEF AllCounters, Counters, KnownGroups, IsValue, IsGroups
<1>13. \A c \in AllCounters : IsEvidence(of(c))
  <2> SUFFICES ASSUME NEW c \in AllCounters PROVE IsEvidence(of(c))
    OBVIOUS
  <2>1. CASE c = g
    BY <1>9, <2>1 DEF IsEvidence
  <2>2. CASE c \in Counters(val) \ {g}
    BY <1>11, <2>2, EvidenceOfIs DEF IsEvidence
  <2>. QED
    BY <1>11, <2>1, <2>2 DEF IsEvidence
<1>14. IsValue(b)
  <2>1. IsGroups(b.groups)
    BY <1>1, <1>4, <1>5, <1>6, <1>8 DEF IsValue, IsGroups, KnownGroups
  <2>. QED
    BY <1>4, <1>7, <1>13, <2>1 DEF IsValue
<1>. QED
  BY <1>4, <1>5, <1>6, <1>7, <1>8, <1>9, <1>10, <1>11, <1>12, <1>14 DEF b, kept, MergedInto

LEMMA MergedPartFine ==
    ASSUME NEW val, NEW a, NEW r, NEW n \in Nat, IsAnswer(a, r, n + 1), r.part \in Groups,
           Versions(r.snap), Fine(val), Bounded(val, n)
    PROVE  LET b == MergePages(val, a)
               g == r.part
           IN  /\ Fine(b) /\ Bounded(b, n + 1)
               /\ \A x : Facts(b, g, x) \subseteq AnsweredOf(a, x)
               /\ \A h \in KnownGroups(val) \ {g} : \A x : Facts(b, h, x) = Facts(val, h, x)
<1> DEFINE g == r.part
           kept == KeptRows(val, a, r)
           b == MergePages(val, a)
<1>1. IsValue(val) /\ r.part \in Parts /\ n + 1 \in Nat
  BY DEF Fine, Sound, Parts
<1>2. /\ IsValue(b) /\ b.read = val.read /\ b.counted = TRUE
      /\ KnownGroups(b) = KnownGroups(val) \cup {g}
      /\ b.groups[g].rows = kept \cup a.groups[g].rows
      /\ \A h \in KnownGroups(val) \ {g} : b.groups[h] = val.groups[h]
      /\ b.evidence[g].source = a.read.source /\ b.evidence[g].read = PageEvidence(a)
      /\ b.evidence[g].held.rows = a.groups[g].rows /\ b.evidence[g].confirmed = {}
      /\ b.evidence[g] # NoEvidence
      /\ \A c \in Counters(val) \ {g} : b.evidence[c] = EvidenceOf(val, c)
      /\ \A c \in AllCounters \ (Counters(val) \cup {g}) : b.evidence[c] = NoEvidence
  <2>1. MergedInto(b, val, a, r)
    BY <1>1, MergedPart
  <2>. HIDE DEF b
  <2>. QED
    BY <2>1 DEF MergedInto
<1>3. a.read.source = n + 1 /\ val.read.source \in 0..n /\ NoEvidence.source = -1
  BY DEF IsAnswer, Bounded, NoEvidence
<1>4. /\ Fine(a) /\ \A x : AnsweredOf(a, x) \subseteq Nat
      /\ \A p \in PageEvidence(a).parts : \A row \in p.rows : row.ver \in Nat
      /\ \A x : Facts(a, g, x) \subseteq AnsweredOf(a, x)
  BY <1>1, AnswerIsFine
<1>. HIDE DEF b, kept
<1>5. ASSUME NEW c \in AllCounters
      PROVE  /\ EvidenceOf(val, c).source \in -1..n
             /\ EvidenceOf(val, c).source = val.read.source => EvidenceOf(val, c).read = BaseRead(val)
  <2>1. CASE val.evidence[c] # NoEvidence
    BY <2>1 DEF EvidenceOf, Bounded, Fine, Sound
  <2>2. CASE val.evidence[c] = NoEvidence
    BY <1>3, <2>2, SourceIs DEF EvidenceOf
  <2>. QED
    BY <2>1, <2>2
<1>6. \A c \in AllCounters : /\ b.evidence[c].source \in -1..(n + 1)
                             /\ b.evidence[c].source = val.read.source
                                => b.evidence[c].read = BaseRead(val)
  <2> SUFFICES ASSUME NEW c \in AllCounters
               PROVE  /\ b.evidence[c].source \in -1..(n + 1)
                      /\ b.evidence[c].source = val.read.source => b.evidence[c].read = BaseRead(val)
    OBVIOUS
  <2>1. CASE c = g
    BY <1>2, <1>3, <2>1
  <2>2. CASE c \in Counters(val) \ {g}
    BY <1>2, <1>5, <2>2
  <2>3. CASE c \notin Counters(val) \cup {g}
    BY <1>2, <1>3, <2>3
  <2>. QED
    BY <2>1, <2>2, <2>3
<1> DEFINE same == {e \in {b.evidence[c] : c \in AllCounters} : e.source = b.read.source}
<1>7. BaseRead(b) = IF same # {} THEN (CHOOSE e \in same : TRUE).read ELSE NoRead
  BY <1>2 DEF BaseRead, CounterSource
<1>8. \A e \in same : e.read = BaseRead(val)
  BY <1>2, <1>6
<1>9. BaseRead(b) = IF same # {} THEN BaseRead(val) ELSE NoRead
  BY <1>7, <1>8
<1>10. Bounded(b, n + 1)
  BY <1>2, <1>3, <1>6 DEF Bounded
<1>11. Sound(b)
  <2>1. \A c \in AllCounters : b.evidence[c].source = b.read.source => b.evidence[c].read = BaseRead(b)
    BY <1>2, <1>6, <1>9
  <2>. QED
    BY <1>2, <2>1 DEF Sound, Fine
<1>12. g \in Groups /\ g # Outer /\ g \in AllCounters
  BY PagedGroupsAssumption DEF AllCounters
<1>13. ASSUME NEW x
       PROVE  Facts(b, g, x) \subseteq AnsweredOf(a, x)
  <2>1. EvidenceOf(b, g) = b.evidence[g]
    BY <1>2 DEF EvidenceOf
  <2>2. VersionsIn({}, x) = {}
    BY DEF VersionsIn, RowsOf
  <2>3. VersionsIn(a.groups[g].rows, x) \subseteq AnsweredOf(a, x)
    <3>1. EvidenceOf(a, g) = CounterSource(a, g)
      BY <1>12 DEF EvidenceOf, IsAnswer
    <3>2. CounterSource(a, g).held.rows = GroupOf(a, g).rows
      BY SourceIs, RowsHeld
    <3>3. GroupOf(a, g) = a.groups[g]
      BY <1>12, MarksAssumption DEF GroupOf, IsAnswer
    <3>4. VersionsIn(a.groups[g].rows, x) \subseteq Facts(a, g, x)
      BY <3>1, <3>2, <3>3 DEF Facts
    <3>. QED
      BY <1>4, <3>4
  <2>4. Facts(b, g, x) = VersionsIn({}, x) \cup VersionsIn(a.groups[g].rows, x)
                         \cup UNION {VersionsIn(p.rows, x) : p \in PageEvidence(a).parts}
    BY <1>2, <2>1 DEF Facts
  <2>. QED
    BY <2>2, <2>3, <2>4 DEF AnsweredOf
<1>14. ASSUME NEW h \in KnownGroups(val) \ {g}, NEW x
       PROVE  Facts(b, h, x) = Facts(val, h, x)
  <2>1. h \in Counters(val) \ {g} /\ h \in AllCounters
    BY <1>1 DEF Counters, AllCounters, IsValue, IsGroups, KnownGroups
  <2>2. EvidenceOf(b, h) = EvidenceOf(val, h)
    BY <1>1, <1>2, <2>1, EvidenceOfIs DEF EvidenceOf
  <2>. QED
    BY <2>2 DEF Facts
<1>15. \A p \in BaseRead(b).parts : \A row \in p.rows : row.ver \in Nat
  BY <1>9 DEF NoRead, Fine, Timed
<1>16. ASSUME NEW h \in Groups, h \notin KnownGroups(val) \cup {g}, NEW x
       PROVE  Facts(b, h, x) \subseteq Nat
  <2>1. h \in AllCounters \ (Counters(val) \cup {g})
    BY <1>16, PagedGroupsAssumption DEF AllCounters, Counters
  <2>2. EvidenceOf(b, h) = CounterSource(b, h)
    BY <1>2, <2>1 DEF EvidenceOf
  <2>3. CounterRows(b, h).rows = {}
    BY <1>2, <1>16, RowsHeld DEF GroupOf, EmptyGroup
  <2>4. VersionsIn({}, x) = {}
    BY DEF VersionsIn, RowsOf
  <2>5. Facts(b, h, x) = VersionsIn({}, x) \cup VersionsIn({}, x)
                         \cup UNION {VersionsIn(p.rows, x) : p \in BaseRead(b).parts}
    BY <2>2, <2>3, SourceIs DEF Facts
  <2>6. \A p \in BaseRead(b).parts : VersionsIn(p.rows, x) \subseteq Nat
    BY <1>15 DEF VersionsIn, RowsOf
  <2>. QED
    BY <2>4, <2>5, <2>6
<1>17. Timed(b)
  <2> SUFFICES ASSUME NEW h \in Groups, NEW x PROVE Facts(b, h, x) \subseteq Nat
    BY <1>15 DEF Timed
  <2>1. CASE h = g
    BY <1>4, <1>13, <2>1
  <2>2. CASE h \in KnownGroups(val) \ {g}
    BY <1>14, <2>2 DEF Fine, Timed
  <2>. QED
    BY <1>16, <2>1, <2>2
<1>18. ASSUME NEW h \in KnownGroups(b)
       PROVE  /\ \A row \in b.groups[h].rows : row.id \in Ids /\ row.ver \in Nat
              /\ \A p, q \in b.groups[h].rows : p.id = q.id => p = q
  <2>1. CASE h # g
    BY <1>2, <1>18, <2>1 DEF Fine, OneRow
  <2>2. CASE h = g
    <3>1. /\ \A row \in a.groups[g].rows : row.id \in Ids /\ row.ver \in Nat
          /\ \A p, q \in a.groups[g].rows : p.id = q.id => p = q
      BY <1>4, <1>12, MarksAssumption DEF Fine, OneRow, IsAnswer
    <3>2. /\ \A row \in GroupOf(val, g).rows : row.id \in Ids /\ row.ver \in Nat
          /\ \A p, q \in GroupOf(val, g).rows : p.id = q.id => p = q
      BY DEF Fine, OneRow, GroupOf, EmptyGroup
    <3>3. \A p \in kept : p \in GroupOf(val, g).rows /\ \A q \in a.groups[g].rows : p.id # q.id
      BY DEF kept, KeptRows, RowsOf
    <3>. QED
      BY <1>2, <2>2, <3>1, <3>2, <3>3
  <2>. QED
    BY <2>1, <2>2
<1>19. Fine(b)
  BY <1>11, <1>17, <1>18 DEF Fine, OneRow
<1>. QED
  BY <1>10, <1>13, <1>14, <1>19 DEF b

-----------------------------------------------------------------------------
(* What an answer is written with *)

\* An answer to a read, and the value it is merged into, if it is.
Reading(val, a, r, n) ==
    /\ n \in Nat /\ IsAnswer(a, r, n + 1) /\ Versions(r.snap)
    /\ r.part \in Parts /\ r.first \in BOOLEAN /\ (r.part = Whole => r.first = TRUE)
    /\ r.how = "fetch" => r.part = Whole
    /\ r.how # "fetch" => /\ Fine(val) /\ Bounded(val, n)
                          /\ r.part = Whole => KnownGroups(val) \subseteq KnownGroups(a)

BaseOf(val, a, r) == IF r.how = "fetch" THEN a ELSE MergePages(val, a)

\* A whole answer is the base, merged or not.
LEMMA BaseWhole ==
    ASSUME NEW val, NEW a, NEW r, NEW n, Reading(val, a, r, n), r.part = Whole
    PROVE  /\ IsAnswer(BaseOf(val, a, r), r, n + 1)
           /\ PageEvidence(BaseOf(val, a, r)) = PageEvidence(a)
           /\ KnownGroups(BaseOf(val, a, r)) = KnownGroups(a)
<1>1. CASE r.how = "fetch"
  BY <1>1 DEF BaseOf, Reading
<1>2. CASE r.how # "fetch"
  <2>1. BaseOf(val, a, r) = MergePages(val, a)
    BY <1>2 DEF BaseOf
  <2>2. IsAnswer(a, r, n + 1) /\ r.first = TRUE /\ KnownGroups(val) \subseteq KnownGroups(a)
    BY <1>2 DEF Reading
  <2>. QED
    BY <2>1, <2>2, MergedWhole
<1>. QED
  BY <1>1, <1>2

LEMMA BasePart ==
    ASSUME NEW val, NEW a, NEW r, NEW n, Reading(val, a, r, n), r.part # Whole
    PROVE  /\ BaseOf(val, a, r) = MergePages(val, a) /\ r.part \in Groups
           /\ n \in Nat /\ Fine(val) /\ Bounded(val, n) /\ IsValue(val)
           /\ IsAnswer(a, r, n + 1) /\ Versions(r.snap)
           /\ DOMAIN a.read.ranges = {r.part} /\ KnownGroups(a) = {r.part} /\ a.read.whole = FALSE
BY DEF Reading, BaseOf, Parts, IsAnswer, Fine, Sound

LEMMA BaseInto ==
    ASSUME NEW val, NEW a, NEW r, NEW n, Reading(val, a, r, n), r.part # Whole
    PROVE  /\ MergedInto(BaseOf(val, a, r), val, a, r)
           /\ \A x : Facts(BaseOf(val, a, r), r.part, x) \subseteq AnsweredOf(a, x)
           /\ \A h \in KnownGroups(val) \ {r.part} : \A x :
                 Facts(BaseOf(val, a, r), h, x) = Facts(val, h, x)
<1> DEFINE b == MergePages(val, a)
<1>1. /\ BaseOf(val, a, r) = b /\ r.part \in Groups
      /\ n \in Nat /\ Fine(val) /\ Bounded(val, n) /\ IsValue(val)
      /\ IsAnswer(a, r, n + 1) /\ Versions(r.snap)
  BY BasePart
<1>2. MergedInto(b, val, a, r)
  BY <1>1, MergedPart
<1>3. /\ \A x : Facts(b, r.part, x) \subseteq AnsweredOf(a, x)
      /\ \A h \in KnownGroups(val) \ {r.part} : \A x : Facts(b, h, x) = Facts(val, h, x)
  BY <1>1, MergedPartFine
<1>. HIDE DEF b
<1>. QED
  BY <1>1, <1>2, <1>3

LEMMA BaseFine ==
    ASSUME NEW val, NEW a, NEW r, NEW n, Reading(val, a, r, n)
    PROVE  /\ Fine(BaseOf(val, a, r)) /\ Bounded(BaseOf(val, a, r), n + 1) /\ Brings(a)
           /\ \A x \in Ids : AnsweredOf(a, x) \subseteq {r.snap[x].ver}
           /\ \A x : AnsweredOf(a, x) \subseteq Nat
<1>1. /\ IsAnswer(a, r, n + 1) /\ n + 1 \in Nat /\ n \in Nat /\ Versions(r.snap) /\ r.part \in Parts
  BY DEF Reading
<1>2. /\ Brings(a) /\ \A x : AnsweredOf(a, x) \subseteq Nat
      /\ \A x \in Ids : AnsweredOf(a, x) \subseteq {r.snap[x].ver}
  BY <1>1, AnswerIsFine
<1>3. CASE r.part = Whole
  <2>1. IsAnswer(BaseOf(val, a, r), r, n + 1)
    BY <1>3, BaseWhole
  <2>. QED
    BY <1>1, <1>2, <2>1, AnswerIsFine
<1>4. CASE r.part # Whole
  <2>1. /\ BaseOf(val, a, r) = MergePages(val, a) /\ r.part \in Groups
        /\ Fine(val) /\ Bounded(val, n)
    BY <1>4, BasePart
  <2>2. Fine(MergePages(val, a)) /\ Bounded(MergePages(val, a), n + 1)
    BY <1>1, <2>1, MergedPartFine
  <2>. QED
    BY <1>2, <2>1, <2>2
<1>. QED
  BY <1>3, <1>4

\* The rows it begins with: the answer's, and those held.
LEMMA BaseRows ==
    ASSUME NEW val, NEW a, NEW r, NEW n, Reading(val, a, r, n),
           NEW g \in KnownGroups(BaseOf(val, a, r)), NEW row \in BaseOf(val, a, r).groups[g].rows
    PROVE  \/ /\ row.id \in Ids /\ row = [id |-> row.id, ver |-> r.snap[row.id].ver]
              /\ r.snap[row.id].at = g
           \/ r.how # "fetch" /\ g \in KnownGroups(val) /\ row \in val.groups[g].rows
<1> DEFINE b == BaseOf(val, a, r)
<1>1. CASE r.part = Whole
  <2>1. IsAnswer(b, r, n + 1)
    BY <1>1, BaseWhole
  <2>. HIDE DEF b
  <2>. QED
    BY <2>1 DEF IsAnswer, b
<1>2. CASE r.part # Whole
  <2>1. MergedInto(b, val, a, r) /\ r.how # "fetch"
    BY <1>2, BaseInto DEF Reading
  <2>. HIDE DEF b
  <2>2. CASE g # r.part
    BY <2>1, <2>2 DEF MergedInto, b
  <2>3. CASE g = r.part
    <3>1. row \in KeptRows(val, a, r) \/ row \in a.groups[g].rows
      BY <2>1, <2>3 DEF MergedInto, b
    <3>2. CASE row \in KeptRows(val, a, r)
      BY <2>1, <2>3, <3>2 DEF KeptRows, GroupOf, EmptyGroup
    <3>3. CASE row \in a.groups[g].rows
      <4>1. IsAnswer(a, r, n + 1) /\ g \in KnownGroups(a)
        BY <1>2, <2>3, BasePart
      <4>. QED
        BY <3>3, <4>1 DEF IsAnswer
    <3>. QED
      BY <3>1, <3>2, <3>3
  <2>. QED
    BY <2>2, <2>3
<1>. QED
  BY <1>1, <1>2

\* A row of the answer has all the answer has of its issue.
LEMMA AnsweredRows ==
    ASSUME NEW val, NEW a, NEW r, NEW n, Reading(val, a, r, n), NEW x \in Ids, NEW known,
           known \subseteq 0..r.snap[x].ver
    PROVE  AnsweredOf(a, x) \cup known \subseteq 0..r.snap[x].ver /\ r.snap[x].ver \in Nat
<1>1. r.snap[x].ver \in Nat
  BY DEF Reading, Versions
<1> DEFINE top == r.snap[x].ver
           answered == AnsweredOf(a, x)
<1>2. answered \subseteq {top}
  BY BaseFine
<1>3. top \in Nat /\ known \subseteq 0..top
  BY <1>1
<1>. HIDE DEF top, answered
<1>4. {top} \subseteq 0..top
  BY <1>3
<1>5. answered \cup known \subseteq 0..top
  BY <1>2, <1>3, <1>4
<1>. QED
  BY <1>3, <1>5 DEF top, answered

LEMMA BaseTouched ==
    ASSUME NEW val, NEW a, NEW r, NEW n, Reading(val, a, r, n), NEW g \in Groups,
           r.part = Whole \/ g = r.part, NEW x \in Ids, NEW known,
           known \subseteq 0..r.snap[x].ver,
           \/ r.first = TRUE
           \/ ~GroupOf(val, g).stale /\ NewRows(val, g, x, known)
    PROVE  /\ Facts(BaseOf(val, a, r), g, x) \subseteq AnsweredOf(a, x)
           /\ NewRows(BaseOf(val, a, r), g, x, AnsweredOf(a, x) \cup known)
<1>1. AnsweredOf(a, x) \cup known \subseteq 0..r.snap[x].ver /\ r.snap[x].ver \in Nat
  BY AnsweredRows
<1>2. CASE r.part = Whole
  <2> DEFINE b == BaseOf(val, a, r)
  <2>1. IsAnswer(b, r, n + 1) /\ PageEvidence(b) = PageEvidence(a) /\ n + 1 \in Nat
        /\ Versions(r.snap) /\ r.part \in Parts
    <3>1. IsAnswer(b, r, n + 1) /\ PageEvidence(b) = PageEvidence(a)
      BY <1>2, BaseWhole
    <3>. QED
      BY <3>1 DEF Reading
  <2>. HIDE DEF b
  <2>2. Facts(b, g, x) \subseteq AnsweredOf(a, x)
    BY <2>1, AnswerIsFine DEF AnsweredOf
  <2>3. ASSUME NEW row \in GroupOf(b, g).rows, row.id = x
        PROVE  row.ver = r.snap[x].ver
    <3>1. g \in KnownGroups(b) /\ row \in b.groups[g].rows
      BY <2>3 DEF GroupOf, EmptyGroup
    <3>2. row = [id |-> row.id, ver |-> r.snap[row.id].ver]
      BY <2>1, <3>1 DEF IsAnswer
    <3>. QED
      BY <2>3, <3>2
  <2>4. NewRows(b, g, x, AnsweredOf(a, x) \cup known)
    BY <1>1, <2>3 DEF NewRows
  <2>. QED
    BY <2>2, <2>4 DEF b
<1>3. CASE r.part # Whole /\ g = r.part
  <2> DEFINE b == BaseOf(val, a, r)
  <2>1. Facts(b, g, x) \subseteq AnsweredOf(a, x)
    BY <1>3, BaseInto
  <2>2. MergedInto(b, val, a, r)
    BY <1>3, BaseInto
  <2>3. IsAnswer(a, r, n + 1) /\ KnownGroups(a) = {g} /\ DOMAIN a.read.ranges = {g}
    BY <1>3, BasePart
  <2>. HIDE DEF b
  <2>4. GroupOf(b, g).rows = KeptRows(val, a, r) \cup a.groups[g].rows
    BY <1>3, <2>2 DEF MergedInto, GroupOf
  <2>5. ASSUME NEW row \in a.groups[g].rows, row.id = x
        PROVE  row.ver = r.snap[x].ver
    <3>1. row = [id |-> row.id, ver |-> r.snap[row.id].ver]
      BY <2>3 DEF IsAnswer
    <3>. QED
      BY <2>5, <3>1
  <2>6. ASSUME NEW row \in KeptRows(val, a, r), row.id = x
        PROVE  row.ver \in Nat /\ AnsweredOf(a, x) \cup known \subseteq 0..row.ver
    <3>1. /\ row \in GroupOf(val, g).rows /\ RowsOf(a.groups[g].rows, x) = {}
          /\ ~GroupOf(val, g).stale /\ NewRows(val, g, x, known)
      BY <1>3, <2>6 DEF KeptRows
    <3>2. row.ver \in Nat /\ known \subseteq 0..row.ver
      BY <2>6, <3>1 DEF NewRows
    <3>3. AnsweredOf(a, x) = {}
      <4>1. \A p \in PageEvidence(a).parts : p.rows = a.groups[g].rows
        BY <2>3 DEF PageEvidence
      <4>. QED
        BY <3>1, <4>1 DEF AnsweredOf, VersionsIn
    <3>. QED
      BY <3>2, <3>3
  <2>7. NewRows(b, g, x, AnsweredOf(a, x) \cup known)
    BY <1>1, <2>4, <2>5, <2>6 DEF NewRows
  <2>. QED
    BY <2>1, <2>7 DEF b
<1>. QED
  BY <1>2, <1>3

LEMMA BaseUntouched ==
    ASSUME NEW val, NEW a, NEW r, NEW n, Reading(val, a, r, n), r.part # Whole,
           NEW g \in KnownGroups(val), g # r.part, NEW x, NEW least,
           NewRows(val, g, x, Facts(val, g, x) \cup {least})
    PROVE  LET b == BaseOf(val, a, r) IN
           g \in KnownGroups(b) /\ NewRows(b, g, x, Facts(b, g, x) \cup {least})
<1> DEFINE b == BaseOf(val, a, r)
<1>1. MergedInto(b, val, a, r)
  BY BaseInto
<1>2. Facts(b, g, x) = Facts(val, g, x)
  BY BaseInto
<1>. HIDE DEF b
<1>3. g \in KnownGroups(b) /\ GroupOf(b, g) = GroupOf(val, g)
  BY <1>1 DEF MergedInto, GroupOf
<1>4. NewRows(b, g, x, Facts(b, g, x) \cup {least})
  BY <1>2, <1>3 DEF NewRows
<1>. QED
  BY <1>3, <1>4 DEF b

\* What the answer of a read makes of a list: the answer, merged if it is, and the
\* changes kept for it made again.
LEMMA WrittenFine ==
    ASSUME NEW val, NEW a, NEW r, NEW n, Reading(val, a, r, n), NEW changes,
           Len(changes) \in Nat, Kept(changes), NEW m, m = Replayed(BaseOf(val, a, r), a, changes)
    PROVE  /\ IsMade(m) /\ m.verify \subseteq Ids
           /\ m.safe => /\ SafeCounts(m.value) /\ Fine(m.value) /\ Bounded(m.value, n + 1)
                        /\ \A g \in KnownGroups(m.value) : \A row \in m.value.groups[g].rows :
                              \/ row.id \in Confirmeds(changes)
                              \/ row.id \in Ids /\ r.snap[row.id].at = g
                              \/ /\ r.how # "fetch" /\ g \in KnownGroups(val)
                                 /\ row \in val.groups[g].rows
<1> DEFINE b == BaseOf(val, a, r)
<1>1. Fine(b) /\ Bounded(b, n + 1) /\ Brings(a) /\ n + 1 \in Int
  <2>1. n + 1 \in Int
    BY DEF Reading
  <2>. QED
    BY <2>1, BaseFine
<1>2. \A g \in KnownGroups(b) : \A row \in b.groups[g].rows :
         \/ row.id \in Ids /\ r.snap[row.id].at = g
         \/ r.how # "fetch" /\ g \in KnownGroups(val) /\ row \in val.groups[g].rows
  BY BaseRows
<1>. HIDE DEF b
<1>3. PICK made : IsReplay(made, b, a, changes) /\ Replayed(b, a, changes) = made[Len(changes)]
  BY ReplayedSteps
<1>4. m = made[Len(changes)]
  BY <1>3 DEF b
<1>5. ReplayGood(m, b, changes, n + 1)
  BY <1>1, <1>3, <1>4, ReplayFine
<1>. QED
  BY <1>2, <1>5 DEF ReplayGood, RowsFrom

\* The versions of an issue's kept changes go up, and the last of them is what the tab was
\* told; without one the answer has what it was told.
Follows(changes, r, x, least) ==
    /\ \A i, j \in Confirms(changes, x, Len(changes)) :
          i <= j => changes[i].change.after.ver <= changes[j].change.after.ver
    /\ Confirms(changes, x, Len(changes)) # {} => least \in Told(changes, x, Len(changes))
    /\ Confirms(changes, x, Len(changes)) = {} => least \in 0..r.snap[x].ver

\* In a group the answer brings the rows are as new as what is known of their issues, the
\* changes told included, if it is a first page, or the rows held were.
LEMMA WrittenTouched ==
    ASSUME NEW val, NEW a, NEW r, NEW n, Reading(val, a, r, n), NEW changes,
           Len(changes) \in Nat, Kept(changes), NEW m, m = Replayed(BaseOf(val, a, r), a, changes),
           m.safe, NEW g \in Groups, r.part = Whole \/ g = r.part, NEW x \in Ids, NEW least,
           Follows(changes, r, x, least),
           \/ r.first = TRUE
           \/ ~GroupOf(val, g).stale /\ NewRows(val, g, x, {least})
    PROVE  NewRows(m.value, g, x, Facts(m.value, g, x) \cup {least})
<1> DEFINE b == BaseOf(val, a, r)
           none == Confirms(changes, x, Len(changes)) = {}
           known == IF none THEN {least} ELSE {}
           all(i) == Known(a, changes, x, {least}, i)
<1>1. Fine(b) /\ Bounded(b, n + 1) /\ Brings(a) /\ n + 1 \in Int /\ AnsweredOf(a, x) \subseteq Nat
  <2>1. n + 1 \in Int
    BY DEF Reading
  <2>. QED
    BY <2>1, BaseFine
<1>2. known \subseteq 0..r.snap[x].ver /\ known \subseteq {least}
  BY DEF Follows
<1>3. \/ r.first = TRUE
      \/ ~GroupOf(val, g).stale /\ NewRows(val, g, x, known)
  <2>. HIDE DEF known
  <2>. QED
    BY <1>2, NewRowsFewer
<1>4. all(0) = AnsweredOf(a, x) \cup known
  BY DEF Known, Told, Confirms
<1>. HIDE DEF known
<1>5. Facts(b, g, x) \subseteq AnsweredOf(a, x) /\ NewRows(b, g, x, AnsweredOf(a, x) \cup known)
  BY <1>2, <1>3, BaseTouched
<1>6. least \in all(Len(changes))
  BY DEF Known, Follows
<1>. HIDE DEF b
<1>7. PICK made : IsReplay(made, b, a, changes) /\ Replayed(b, a, changes) = made[Len(changes)]
  BY ReplayedSteps
<1>8. m = made[Len(changes)]
  BY <1>7 DEF b
<1>9. a.read.whole = TRUE \/ g \in DOMAIN a.read.ranges
  BY DEF Reading, IsAnswer
<1>10. \A i, j \in Confirms(changes, x, Len(changes)) :
              i <= j => changes[i].change.after.ver <= changes[j].change.after.ver
  BY DEF Follows
<1>11. NewRows(b, g, x, Known(a, changes, x, {least}, 0))
  BY <1>4, <1>5
<1>12. \A i \in 0..Len(changes) : made[i].safe =>
              /\ Facts(made[i].value, g, x) \subseteq Known(a, changes, x, {least}, i)
              /\ NewRows(made[i].value, g, x, Known(a, changes, x, {least}, i))
  BY <1>1, <1>5, <1>7, <1>9, <1>10, <1>11, ReplayTouched
<1>13. Facts(m.value, g, x) \subseteq all(Len(changes)) /\ NewRows(m.value, g, x, all(Len(changes)))
  <2>1. Len(changes) \in 0..Len(changes) /\ made[Len(changes)].safe
    BY <1>8
  <2>2. LET u == made[Len(changes)].value
        IN  Facts(u, g, x) \subseteq all(Len(changes)) /\ NewRows(u, g, x, all(Len(changes)))
    BY <1>12, <2>1
  <2>. HIDE DEF all
  <2>. QED
    BY <1>8, <2>2
<1>. HIDE DEF all
<1>. QED
  BY <1>6, <1>13, NewRowsFewer

\* Another group is left as it was.
LEMMA WrittenUntouched ==
    ASSUME NEW val, NEW a, NEW r, NEW n, Reading(val, a, r, n), NEW changes,
           Len(changes) \in Nat, Kept(changes), NEW m, m = Replayed(BaseOf(val, a, r), a, changes),
           m.safe, NEW g \in Groups, r.part # Whole, g # r.part, NEW x, NEW least,
           NewRows(val, g, x, Facts(val, g, x) \cup {least})
    PROVE  NewRows(m.value, g, x, Facts(m.value, g, x) \cup {least})
<1> DEFINE b == BaseOf(val, a, r)
<1>1. Fine(b) /\ Bounded(b, n + 1) /\ Brings(a) /\ n + 1 \in Int
  <2>1. n + 1 \in Int
    BY DEF Reading
  <2>. QED
    BY <2>1, BaseFine
<1>2. NewRows(b, g, x, Facts(b, g, x) \cup {least})
  <2>1. CASE g \in KnownGroups(val)
    BY <2>1, BaseUntouched
  <2>2. CASE g \notin KnownGroups(val)
    <3>1. MergedInto(b, val, a, r)
      BY BaseInto
    <3>. HIDE DEF b
    <3>2. g \notin KnownGroups(b)
      BY <2>2, <3>1 DEF MergedInto
    <3>. QED
      BY <3>2 DEF NewRows, GroupOf, EmptyGroup
  <2>. QED
    BY <2>1, <2>2
<1>. HIDE DEF b
<1>3. PICK made : IsReplay(made, b, a, changes) /\ Replayed(b, a, changes) = made[Len(changes)]
  BY ReplayedSteps
<1>4. m = made[Len(changes)]
  BY <1>3 DEF b
<1>5. a.read.whole = FALSE /\ g \notin DOMAIN a.read.ranges
  BY DEF Reading, IsAnswer
<1>6. \A i \in 0..Len(changes) :
              made[i].safe => NewRows(made[i].value, g, x, Facts(made[i].value, g, x) \cup {least})
  BY <1>1, <1>2, <1>3, <1>5, ReplayUntouched
<1>7. Len(changes) \in 0..Len(changes) /\ made[Len(changes)].safe
  BY <1>4
<1>8. LET u == made[Len(changes)].value
      IN  NewRows(u, g, x, Facts(u, g, x) \cup {least})
  BY <1>6, <1>7
<1>. QED
  BY <1>4, <1>8

-----------------------------------------------------------------------------
(* What holds of a tab and its list                                          *)
(*                                                                           *)
(* A tab is Sane in what surrounds it (Now): the server's issues, what the   *)
(* tab was told of its own changes, and what its counters go back to. Each   *)
(* operator leaves a tab sane, whatever it was; K are the reads that are     *)
(* taken out while their answers are worked in.                              *)

Now == [issues |-> issues, clock |-> clock, mine |-> mine, basis |-> basis]

InOrder(e, x) == e.mine[x] # OutOfOrder

\* What the server has, and what a tab can have been told of it.
IsServer(e) ==
    /\ e.clock \in Nat
    /\ e.issues \in [Ids -> [at : Places, ver : 0..e.clock]]
    /\ DOMAIN e.mine = Ids /\ \A x \in Ids : e.mine[x] \in -1..e.issues[x].ver
    /\ DOMAIN e.basis = AllCounters
    /\ \A c \in AllCounters : DOMAIN e.basis[c] = DOMAIN NoBasis

Statuses == {"none", "pending", "missing", "error", "unconfirmed"}
IsRecord(record) == DOMAIN record = {"status", "floor", "perm"} /\ record.status \in Statuses

Scalars(t) ==
    /\ t.serial \in Nat /\ t.perm \in Nat /\ t.source \in Nat /\ t.deletion \in 0..t.serial
    /\ t.failed \subseteq Parts /\ t.attempted \subseteq Groups /\ t.affected \subseteq Ids
    /\ t.error \in {NoError, ReadError} \cup Ids
    /\ DOMAIN t.records = Ids /\ \A x \in Ids : IsRecord(t.records[x])

\* What the server has of an issue, or had: nothing that is made is unmade.
Seen(e, x, at, ver) ==
    /\ at \in Places /\ ver \in 0..e.issues[x].ver
    /\ at # Unmade => e.issues[x].at # Unmade

HeldOk(t, e) ==
    \A x \in Ids :
       /\ t.held[x] \in [k : {"none", "held", "gone"}, at : Places, ver : 0..e.clock,
                         full : BOOLEAN, perm : 0..t.perm]
       /\ t.held[x].k # "none" => e.issues[x].at # Unmade
       /\ t.held[x].k = "gone" => e.issues[x].at = Gone

JobsOk(t, e) ==
    \A x \in Ids : t.jobs[x].phase = "served"
                   => Seen(e, x, t.jobs[x].answer.at, t.jobs[x].answer.ver)

\* The versions of an issue's kept changes go up to what the tab was told.
Line(changes, x, last) ==
    /\ \A i \in Confirms(changes, x, Len(changes)) : changes[i].change.after.ver <= last
    /\ \A i, j \in Confirms(changes, x, Len(changes)) :
          i <= j => changes[i].change.after.ver <= changes[j].change.after.ver
    /\ Confirms(changes, x, Len(changes)) # {} => last \in Told(changes, x, Len(changes))

\* A read that may write has the changes told since it was asked for, in their order,
\* and what it was served has those before.
LiveOk(r, t, e) ==
    /\ Kept(r.changes)
    /\ \A x \in Ids :
          InOrder(e, x) =>
             /\ Line(r.changes, x, e.mine[x])
             /\ Confirms(r.changes, x, Len(r.changes)) # {} => t.held[x].k # "gone"
             /\ Confirms(r.changes, x, Len(r.changes)) = {} /\ r.phase = "served"
                => e.mine[x] <= r.snap[x].ver
    /\ \A x \in Ids : r.phase = "served" /\ t.held[x].k = "gone" => r.snap[x].at = Gone

FormOk(r, t, e) ==
    /\ r.part \in Parts /\ r.token \in 1..t.serial /\ r.perm \in 0..t.perm
    /\ r.first \in BOOLEAN /\ (r.part = Whole => r.first = TRUE)
    /\ r.how = "fetch" => r.part = Whole
    /\ r.how # "fetch" => t.val # NoVal
    /\ \A x \in Ids : Seen(e, x, r.snap[x].at, r.snap[x].ver)

ReadOk(r, t, e) == FormOk(r, t, e) /\ (r.live => LiveOk(r, t, e))

ReadsOk(t, e) == \A r \in t.reads : ReadOk(r, t, e)

\* A read is known by its part and its token, and so is one that is taken out.
Keyed(t, K, e) ==
    /\ \A r, s \in t.reads : r.part = s.part /\ r.token = s.token => r = s
    /\ \A k \in K : /\ IsRead(k) /\ FormOk(k, t, e)
                    /\ \A r \in t.reads : r.part # k.part \/ r.token # k.token

\* The rows of what was told in order are as new as it, and as all that is known.
ValueOk(t, e) ==
    t.val # NoVal =>
       /\ Fine(t.val) /\ SafeCounts(t.val) /\ Bounded(t.val, t.source)
       /\ \A g \in Groups, x \in Ids :
             InOrder(e, x) =>
                /\ \A row \in GroupOf(t.val, g).rows : row.id = x => t.held[x].k # "gone"
                /\ \/ e.basis[g].unmarked
                   \/ NewRows(t.val, g, x, Facts(t.val, g, x) \cup {e.mine[x]})

WriteOk(w, t, e) ==
    /\ w.kind \in {"creates", "moves", "deletes"}
    /\ w.kind # "creates" => w.id \in Ids /\ w.issue = w.id /\ e.issues[w.id].at # Unmade
    /\ w.kind = "creates" => w.id = 0 /\ w.to \in Groups
    /\ w.kind = "moves" => w.to \in Groups \cup {Out}
    /\ w.kind = "deletes" => w.to = Gone
    /\ w.phase = "served" =>
         /\ w.issue \in Ids /\ e.issues[w.issue].at # Unmade
         /\ w.kind = "deletes" => w.after = Absent /\ e.issues[w.issue].at = Gone
         /\ w.kind # "deletes" => /\ w.after.k = "known" /\ w.after.at \in Groups \cup {Out}
                                  /\ w.after.ver \in 0..e.issues[w.issue].ver
         /\ w.kind = "moves" /\ InOrder(e, w.issue)
            => e.mine[w.issue] <= w.after.ver /\ t.held[w.issue].k # "gone"

\* Of the changes of one issue one is out at a time, but for its creation.
WritesOk(t, e) ==
    /\ \A w \in t.writes : WriteOk(w, t, e)
    /\ \A w, v \in t.writes : w.id = v.id /\ w.id # 0 /\ w.phase # "queued" /\ v.phase # "queued"
                              => w = v
    /\ \A w, v \in t.writes : w.kind = "creates" /\ v.kind = "moves" /\ w.phase = "served"
                              /\ v.phase = "served" /\ w.issue = v.issue => w.after.ver <= v.after.ver

Sane(t, K, e) ==
    /\ IsTab(t) /\ IsServer(e) /\ Scalars(t) /\ HeldOk(t, e) /\ JobsOk(t, e)
    /\ ReadsOk(t, e) /\ Keyed(t, K, e) /\ ValueOk(t, e) /\ WritesOk(t, e)

SaneInv == Sane(tab, {}, Now)

\* The same confirmed changes were kept.
Alike(changes, more) ==
    /\ \A x : Confirms(more, x, Len(more)) = Confirms(changes, x, Len(changes))
    /\ \A x : Told(more, x, Len(more)) = Told(changes, x, Len(changes))
    /\ \A x : \A i \in Confirms(changes, x, Len(changes)) : more[i] = changes[i]
    /\ Kept(changes) => Kept(more)

\* A mark is no confirmed change.
LEMMA StaleAppended ==
    ASSUME NEW changes, IsList(changes), NEW groups, NEW more, more = Append(changes, Stale(groups))
    PROVE  Alike(changes, more)
<1>1. /\ Len(changes) \in Nat /\ Len(more) = Len(changes) + 1
      /\ \A i \in 1..Len(changes) : more[i] = changes[i]
      /\ more[Len(changes) + 1] = Stale(groups)
  BY Appended
<1>2. Stale(groups).type = "stale"
  BY DEF Stale
<1>. HIDE DEF Stale
<1>3. ASSUME NEW i \in 1..Len(more)
      PROVE  \/ i \in 1..Len(changes) /\ more[i] = changes[i]
             \/ i = Len(more) /\ more[i].type = "stale"
  BY <1>1, <1>2
<1>4. ASSUME NEW x
      PROVE  Confirms(more, x, Len(more)) = Confirms(changes, x, Len(changes))
  BY <1>1, <1>3 DEF Confirms
<1>5. ASSUME NEW x, NEW i \in Confirms(changes, x, Len(changes))
      PROVE  more[i] = changes[i]
  BY <1>1 DEF Confirms
<1>6. ASSUME NEW x
      PROVE  Told(more, x, Len(more)) = Told(changes, x, Len(changes))
  <2> DEFINE S == Confirms(changes, x, Len(changes))
  <2>1. Confirms(more, x, Len(more)) = S /\ \A i \in S : more[i] = changes[i]
    BY <1>4, <1>5
  <2>. HIDE DEF S
  <2>2. {more[i].change.after.ver : i \in S} = {changes[i].change.after.ver : i \in S}
    BY <2>1
  <2>. QED
    BY <2>1, <2>2 DEF Told, S
<1>7. Kept(changes) => Kept(more)
  BY <1>3 DEF Kept
<1>. QED
  BY <1>1, <1>4, <1>5, <1>6, <1>7 DEF Alike

\* A read as it goes on: it may lose the right to write, and keep a mark.
Tame(r, s) ==
    /\ s.part = r.part /\ s.token = r.token /\ s.perm = r.perm /\ s.first = r.first
    /\ s.how = r.how /\ s.snap = r.snap /\ s.phase = r.phase
    /\ s.live => /\ r.live
                 /\ s.changes = r.changes \/ \E groups : s.changes = Append(r.changes, Stale(groups))

\* A tab that goes on: no issue is deleted from it.
Steady(t, u) ==
    /\ t.serial \in Nat /\ u.serial \in Nat /\ t.serial <= u.serial
    /\ t.perm \in Nat /\ u.perm \in Nat /\ t.perm <= u.perm
    /\ t.val # NoVal => u.val # NoVal
    /\ \A x \in Ids : u.held[x].k = "gone" => t.held[x].k = "gone"

LEMMA TameLive ==
    ASSUME NEW t, NEW u, NEW e, NEW r, NEW s, LiveOk(r, t, e), IsList(r.changes),
           \A x \in Ids : u.held[x].k = "gone" => t.held[x].k = "gone",
           s.snap = r.snap, s.phase = r.phase,
           s.changes = r.changes \/ \E groups : s.changes = Append(r.changes, Stale(groups))
    PROVE  LiveOk(s, u, e)
<1>1. CASE s.changes = r.changes
  BY <1>1 DEF LiveOk
<1>2. ASSUME NEW groups, s.changes = Append(r.changes, Stale(groups))
      PROVE  LiveOk(s, u, e)
  <2> DEFINE old == r.changes
             new == s.changes
  <2>1. Alike(old, new)
    BY <1>2, StaleAppended
  <2>2. /\ Kept(old)
        /\ \A x \in Ids :
              InOrder(e, x) =>
                 /\ Line(old, x, e.mine[x])
                 /\ Confirms(old, x, Len(old)) # {} => t.held[x].k # "gone"
                 /\ Confirms(old, x, Len(old)) = {} /\ r.phase = "served"
                    => e.mine[x] <= r.snap[x].ver
        /\ \A x \in Ids : r.phase = "served" /\ t.held[x].k = "gone" => r.snap[x].at = Gone
    BY DEF LiveOk
  <2>. HIDE DEF old, new
  <2>3. \A x, last : Line(old, x, last) => Line(new, x, last)
    BY <2>1 DEF Line, Alike
  <2>4. /\ Kept(new)
        /\ \A x \in Ids :
              InOrder(e, x) =>
                 /\ Line(new, x, e.mine[x])
                 /\ Confirms(new, x, Len(new)) # {} => u.held[x].k # "gone"
                 /\ Confirms(new, x, Len(new)) = {} /\ s.phase = "served"
                    => e.mine[x] <= s.snap[x].ver
        /\ \A x \in Ids : s.phase = "served" /\ u.held[x].k = "gone" => s.snap[x].at = Gone
    BY <2>1, <2>2, <2>3 DEF Alike
  <2>. QED
    BY <2>4 DEF LiveOk, new
<1>. QED
  BY <1>1, <1>2

LEMMA TameOk ==
    ASSUME NEW t, NEW u, NEW e, NEW r, NEW s, ReadOk(r, t, e), IsRead(r), Steady(t, u), Tame(r, s)
    PROVE  ReadOk(s, u, e)
<1>1. s.live => LiveOk(s, u, e)
  <2> SUFFICES ASSUME s.live
               PROVE  LiveOk(s, u, e)
    OBVIOUS
  <2>1. LiveOk(r, t, e) /\ IsList(r.changes)
    BY DEF ReadOk, Tame, IsRead
  <2>. QED
    BY <2>1, TameLive DEF Tame, Steady
<1>2. FormOk(s, u, e)
  BY DEF ReadOk, FormOk, Tame, Steady
<1>. QED
  BY <1>1, <1>2 DEF ReadOk

\* The reads of a tab that goes on are the same ones, or fewer.
Followed(t, u, f) ==
    /\ \A r \in t.reads : Tame(r, f[r])
    /\ u.reads \subseteq {f[r] : r \in t.reads}

LEMMA FollowedReads ==
    ASSUME NEW t, NEW u, NEW e, NEW K, NEW f, IsTab(t), ReadsOk(t, e), Keyed(t, K, e),
           Steady(t, u), Followed(t, u, f)
    PROVE  ReadsOk(u, e) /\ Keyed(u, K, e)
<1>1. ReadsOk(u, e)
  <2> SUFFICES ASSUME NEW s \in u.reads
               PROVE  ReadOk(s, u, e)
    BY DEF ReadsOk
  <2>1. PICK r \in t.reads : s = f[r]
    BY DEF Followed
  <2>2. ReadOk(r, t, e) /\ IsRead(r) /\ Tame(r, s)
    BY <2>1 DEF ReadsOk, IsTab, Followed
  <2>. QED
    BY <2>2, TameOk
<1>2. Keyed(u, K, e)
  <2>1. ASSUME NEW p \in u.reads, NEW q \in u.reads, p.part = q.part, p.token = q.token
        PROVE  p = q
    <3>1. PICK r \in t.reads, s \in t.reads : p = f[r] /\ q = f[s]
      BY DEF Followed
    <3>2. r.part = p.part /\ r.token = p.token /\ s.part = q.part /\ s.token = q.token
      BY <3>1 DEF Followed, Tame
    <3>3. r = s
      BY <2>1, <3>2 DEF Keyed
    <3>. QED
      BY <3>1, <3>3
  <2>2. ASSUME NEW k \in K
        PROVE  /\ IsRead(k) /\ FormOk(k, u, e)
               /\ \A p \in u.reads : p.part # k.part \/ p.token # k.token
    <3>1. IsRead(k) /\ FormOk(k, u, e)
      BY DEF Keyed, Steady, FormOk
    <3>2. ASSUME NEW p \in u.reads
          PROVE  p.part # k.part \/ p.token # k.token
      <4>1. PICK r \in t.reads : p = f[r]
        BY DEF Followed
      <4>. QED
        BY <4>1 DEF Followed, Tame, Keyed
    <3>. QED
      BY <3>1, <3>2
  <2>. QED
    BY <2>1, <2>2 DEF Keyed
<1>. QED
  BY <1>1, <1>2

\* A step that takes in nothing, and changes the list by marks at most.
Quiets(t, u) ==
    /\ IsTab(u) /\ Scalars(u)
    /\ u.serial >= t.serial /\ u.perm = t.perm /\ u.source = t.source
    /\ u.held = t.held /\ u.writes = t.writes
    /\ u.val = t.val \/ (t.val # NoVal /\ u.val # NoVal /\ Marked(t.val, u.val))

LEMMA ValueMarked ==
    ASSUME NEW t, NEW u, NEW e, ValueOk(t, e), u.source = t.source, t.source \in Nat, u.held = t.held,
           u.val = t.val \/ (t.val # NoVal /\ u.val # NoVal /\ Marked(t.val, u.val))
    PROVE  ValueOk(u, e)
<1>1. CASE u.val = t.val
  BY <1>1 DEF ValueOk
<1>2. CASE t.val # NoVal /\ u.val # NoVal /\ Marked(t.val, u.val)
  <2> DEFINE v == t.val
             w == u.val
  <2>1. /\ Fine(v) /\ SafeCounts(v) /\ Bounded(v, t.source) /\ Marked(v, w) /\ v # NoVal /\ w # NoVal
        /\ \A g \in Groups, x \in Ids :
             InOrder(e, x) =>
                /\ \A row \in GroupOf(v, g).rows : row.id = x => t.held[x].k # "gone"
                /\ \/ e.basis[g].unmarked
                   \/ NewRows(v, g, x, Facts(v, g, x) \cup {e.mine[x]})
    BY <1>2 DEF ValueOk
  <2>. HIDE DEF v, w
  <2>2. Fine(w) /\ Sound(v)
    BY <2>1, MarkedFine DEF Fine
  <2>3. SafeCounts(w)
    <3>1. Counters(w) = Counters(v)
      BY <2>1 DEF Marked, Counters, KnownGroups
    <3>2. ASSUME NEW c \in Counters(v)
          PROVE  CounterValue(w, c) = CounterValue(v, c)
      BY <2>1, <3>2 DEF Marked, CounterValue, GroupOf, Counters
    <3>. QED
      BY <2>1, <3>1, <3>2 DEF SafeCounts
  <2>4. Bounded(w, u.source)
    BY <2>1 DEF Bounded, Marked
  <2>5. ASSUME NEW g \in Groups, NEW x \in Ids, InOrder(e, x)
        PROVE  /\ \A row \in GroupOf(w, g).rows : row.id = x => u.held[x].k # "gone"
               /\ \/ e.basis[g].unmarked
                  \/ NewRows(w, g, x, Facts(w, g, x) \cup {e.mine[x]})
    <3>1. GroupOf(w, g).rows = GroupOf(v, g).rows /\ Facts(w, g, x) = Facts(v, g, x)
      BY <2>1, <2>2, FactsMarked
    <3>2. \A known : NewRows(v, g, x, known) => NewRows(w, g, x, known)
      BY <2>1, <2>2, MarkedNewRows
    <3>. QED
      BY <2>1, <2>5, <3>1, <3>2
  <2>. QED
    BY <2>1, <2>2, <2>3, <2>4, <2>5 DEF ValueOk, w
<1>. QED
  BY <1>1, <1>2

LEMMA QuietSane ==
    ASSUME NEW t, NEW u, NEW K, NEW e, Sane(t, K, e), Quiets(t, u), JobsOk(u, e),
           NEW f, Followed(t, u, f)
    PROVE  Sane(u, K, e)
<1>1. Steady(t, u)
  BY DEF Steady, Sane, Scalars, Quiets, Marked, IsValue, NoVal
<1>2. ReadsOk(u, e) /\ Keyed(u, K, e)
  BY <1>1, FollowedReads DEF Sane
<1>3. ValueOk(u, e)
  BY ValueMarked DEF Sane, Quiets, Scalars
<1>4. HeldOk(u, e) /\ WritesOk(u, e)
  BY DEF Sane, Quiets, HeldOk, WritesOk, WriteOk
<1>. QED
  BY <1>2, <1>3, <1>4 DEF Sane, Quiets

\* The reads stay as they are, or some of them.
LEMMA QuietSame ==
    ASSUME NEW t, NEW u, NEW K, NEW e, Sane(t, K, e), Quiets(t, u), JobsOk(u, e),
           u.reads \subseteq t.reads
    PROVE  Sane(u, K, e)
<1> DEFINE f == [r \in t.reads |-> r]
<1>1. Followed(t, u, f)
  BY DEF Followed, Tame
<1>. HIDE DEF f
<1>. QED
  BY <1>1, QuietSane

LEMMA DoubtFields ==
    ASSUME NEW t, NEW groups, IsTab(t), NEW u, u = Doubt(t, groups)
    PROVE  /\ u.serial = t.serial /\ u.perm = t.perm /\ u.source = t.source
           /\ u.deletion = t.deletion /\ u.failed = t.failed /\ u.attempted = t.attempted
           /\ u.affected = t.affected /\ u.error = t.error /\ u.records = t.records
           /\ u.held = t.held /\ u.writes = t.writes /\ u.jobs = t.jobs /\ u.round = t.round
           /\ u.val = IF t.val = NoVal THEN t.val ELSE MarkStale(t.val, groups)
           /\ u.reads = {[r EXCEPT !.changes = IF r.live THEN Append(@, Stale(groups)) ELSE @] :
                           r \in t.reads}
BY DEF Doubt, Keep, IsTab, TabFields

LEMMA ValNotNoVal == \A value : IsValue(value) => value # NoVal
<1> SUFFICES ASSUME NEW value, IsValue(value), value = NoVal
             PROVE  FALSE
  OBVIOUS
<1>1. DOMAIN NoVal = {"none"}
  BY DEF NoVal
<1>2. DOMAIN value = ValueFields
  BY DEF IsValue
<1>. QED
  BY <1>1, <1>2 DEF ValueFields

LEMMA DoubtSane ==
    ASSUME NEW t, NEW groups, NEW K, NEW e, Sane(t, K, e)
    PROVE  Sane(Doubt(t, groups), K, e)
<1> DEFINE kept(r) == [r EXCEPT !.changes = IF r.live THEN Append(@, Stale(groups)) ELSE @]
           f == [r \in t.reads |-> kept(r)]
           u == Doubt(t, groups)
<1>1. IsTab(u)
  BY DoubtKeeps, KeepsTab DEF Sane
<1>2. /\ u.serial = t.serial /\ u.perm = t.perm /\ u.source = t.source
      /\ u.deletion = t.deletion /\ u.failed = t.failed /\ u.attempted = t.attempted
      /\ u.affected = t.affected /\ u.error = t.error /\ u.records = t.records
      /\ u.held = t.held /\ u.writes = t.writes /\ u.jobs = t.jobs
      /\ u.val = IF t.val = NoVal THEN t.val ELSE MarkStale(t.val, groups)
      /\ u.reads = {kept(r) : r \in t.reads}
  BY DoubtFields DEF Sane
<1>3. \A r \in t.reads : Tame(r, kept(r))
  BY DEF Sane, IsTab, IsRead, ReadFields, Tame
<1>. HIDE DEF u, kept
<1>4. Followed(t, u, f)
  BY <1>2, <1>3 DEF Followed
<1>5. t.val # NoVal => u.val # NoVal /\ Marked(t.val, u.val)
  <2>1. t.val # NoVal => Marked(t.val, u.val)
    BY <1>2, MarkStaleMarks DEF Sane, ValueOk, Fine, Sound
  <2>. QED
    BY <2>1, ValNotNoVal DEF Marked
<1>6. Quiets(t, u)
  BY <1>1, <1>2, <1>5 DEF Quiets, Sane, Scalars
<1>7. JobsOk(u, e)
  BY <1>2 DEF Sane, JobsOk
<1>. HIDE DEF f
<1>8. Sane(u, K, e)
  BY <1>4, <1>6, <1>7, QuietSane
<1>. QED
  BY <1>8 DEF u

LEMMA InvalidateSane ==
    ASSUME NEW t, NEW K, NEW e, Sane(t, K, e)
    PROVE  /\ Sane(Invalidate(t), K, e)
           /\ \A r \in Invalidate(t).reads : ~r.live
<1> DEFINE dead(r) == [r EXCEPT !.live = FALSE]
           f == [r \in t.reads |-> dead(r)]
           u == Invalidate(t)
<1>1. IsTab(u)
  BY InvalidateKeeps, KeepsTab DEF Sane
<1>2. /\ u.serial = t.serial /\ u.perm = t.perm /\ u.source = t.source
      /\ u.deletion = t.deletion /\ u.failed = t.failed /\ u.attempted = t.attempted
      /\ u.affected = t.affected /\ u.error = t.error /\ u.records = t.records
      /\ u.held = t.held /\ u.writes = t.writes /\ u.jobs = t.jobs /\ u.val = t.val
      /\ u.reads = {dead(r) : r \in t.reads}
  BY DEF Sane, Invalidate, IsTab, TabFields
<1>3. \A r \in t.reads : Tame(r, dead(r)) /\ ~dead(r).live
  BY DEF Sane, IsTab, IsRead, ReadFields, Tame
<1>. HIDE DEF u, dead
<1>4. Followed(t, u, f)
  BY <1>2, <1>3 DEF Followed
<1>5. Quiets(t, u)
  BY <1>1, <1>2 DEF Quiets, Sane, Scalars
<1>6. JobsOk(u, e)
  BY <1>2 DEF Sane, JobsOk
<1>. HIDE DEF f
<1>7. Sane(u, K, e)
  BY <1>4, <1>5, <1>6, QuietSane
<1>. QED
  BY <1>2, <1>3, <1>7 DEF u

\* Reads are dropped, and the rest stays typed.
LEMMA DropSane ==
    ASSUME NEW t, NEW rs, NEW K, NEW e, Sane(t, K, e)
    PROVE  Sane(Drop(t, rs), K, e)
<1> DEFINE u == Drop(t, rs)
<1>1. IsTab(u)
  BY DropKeeps, KeepsTab DEF Sane
<1>2. Quiets(t, u) /\ JobsOk(u, e) /\ u.reads \subseteq t.reads
  BY <1>1 DEF Quiets, Sane, Scalars, JobsOk, Drop, IsTab, TabFields
<1>. HIDE DEF u
<1>3. Sane(u, K, e)
  BY <1>2, QuietSame
<1>. QED
  BY <1>3 DEF u

LEMMA FinishSane ==
    ASSUME NEW t, NEW rs, NEW K, NEW e, Sane(t, K, e)
    PROVE  Sane(Finish(t, rs), K, e)
<1> DEFINE u == Finish(t, rs)
           v == Drop(t, rs)
<1>1. Sane(v, K, e) /\ IsTab(v)
  BY DropSane DEF Sane
<1>2. IsTab(u)
  BY FinishKeeps, KeepsTab DEF Sane
<1>3. /\ u.serial = v.serial /\ u.perm = v.perm /\ u.source = v.source
      /\ u.deletion = v.deletion /\ u.failed \subseteq v.failed \cup t.failed /\ u.attempted = v.attempted
      /\ u.affected = v.affected /\ u.error \in {v.error, NoError} /\ u.records = v.records
      /\ u.held = v.held /\ u.writes = v.writes /\ u.jobs = v.jobs /\ u.val = v.val
      /\ u.reads = v.reads
  <2> DEFINE current == {r \in rs : r.perm = t.perm}
             whole == \E r \in current : r.part = Whole
             failed == IF whole THEN {} ELSE t.failed \ {r.part : r \in current}
  <2>1. u = IF current = {} THEN v
            ELSE [v EXCEPT !.failed = failed, !.hidden = @ /\ ~whole,
                           !.error = IF failed = {} THEN NoError ELSE @]
    BY DEF Finish
  <2>2. failed \subseteq t.failed
    OBVIOUS
  <2>. HIDE DEF u, v, failed, whole, current
  <2>. QED
    BY <1>1, <2>1, <2>2 DEF IsTab, TabFields
<1>. HIDE DEF u, v
<1>4. Quiets(v, u) /\ JobsOk(u, e)
  BY <1>1, <1>2, <1>3 DEF Quiets, Sane, Scalars, JobsOk
<1>5. Sane(u, K, e)
  BY <1>1, <1>3, <1>4, QuietSame
<1>. QED
  BY <1>5 DEF u

LEMMA FailSane ==
    ASSUME NEW t, NEW rs, NEW error, NEW K, NEW e, Sane(t, K, e), error \in {ReadError} \cup Ids,
           \A r \in rs : r.part \in Parts
    PROVE  Sane(Fail(t, rs, error), K, e)
<1> DEFINE u == Fail(t, rs, error)
           v == Drop(t, rs)
           parts == {r.part : r \in rs}
<1>1. Sane(v, K, e) /\ IsTab(v)
  BY DropSane DEF Sane
<1>2. IsTab(u)
  BY FailKeeps, KeepsTab DEF Sane
<1>3. CASE rs # {}
  <2>1. u = [v EXCEPT !.failed = @ \cup parts, !.error = error]
    BY <1>3 DEF Fail
  <2>2. parts \subseteq Parts
    OBVIOUS
  <2>. HIDE DEF u, v, parts
  <2>3. Quiets(v, u) /\ JobsOk(u, e) /\ u.reads = v.reads
    BY <1>1, <1>2, <2>1, <2>2 DEF Quiets, Sane, Scalars, JobsOk, IsTab, TabFields
  <2>4. Sane(u, K, e)
    BY <1>1, <2>3, QuietSame
  <2>. QED
    BY <2>4 DEF u
<1>4. CASE rs = {}
  BY <1>4 DEF Fail
<1>. QED
  BY <1>3, <1>4

LEMMA RoundedSane ==
    ASSUME NEW t, NEW K, NEW e, Sane(t, K, e)
    PROVE  Sane(Rounded(t), K, e)
<1> DEFINE u == Rounded(t)
<1>1. IsTab(u)
  BY RoundedKeeps, KeepsTab DEF Sane
<1>2. Quiets(t, u) /\ JobsOk(u, e) /\ u.reads \subseteq t.reads
  BY <1>1 DEF Quiets, Sane, Scalars, JobsOk, Rounded, IsTab, TabFields
<1>. HIDE DEF u
<1>3. Sane(u, K, e)
  BY <1>2, QuietSame
<1>. QED
  BY <1>3 DEF u

LEMMA NoRecordIs == IsRecord(NoRecord)
BY DEF IsRecord, NoRecord, Statuses

LEMMA PendSane ==
    ASSUME NEW t, NEW ids, NEW K, NEW e, Sane(t, K, e)
    PROVE  Sane(Pend(t, ids), K, e)
<1> DEFINE u == Pend(t, ids)
           pending == [status |-> "pending", floor |-> t.serial, perm |-> t.perm]
           records == [id \in Ids |-> IF id \in ids THEN pending ELSE t.records[id]]
<1>1. IsTab(u)
  BY PendKeeps, KeepsTab DEF Sane
<1>2. u = [t EXCEPT !.records = records]
  BY DEF Pend
<1>3. IsRecord(pending)
  BY DEF IsRecord, Statuses
<1>. HIDE DEF u, pending
<1>4. DOMAIN records = Ids /\ \A x \in Ids : IsRecord(records[x])
  BY <1>3 DEF Sane, Scalars
<1>. HIDE DEF records
<1>5. Quiets(t, u) /\ JobsOk(u, e) /\ u.reads \subseteq t.reads
  BY <1>1, <1>2, <1>4 DEF Quiets, Sane, Scalars, JobsOk, IsTab, TabFields
<1>6. Sane(u, K, e)
  BY <1>5, QuietSame
<1>. QED
  BY <1>6 DEF u

\* A verification ended with a status, and an error that is shown.
LEMMA EndedSane ==
    ASSUME NEW t, NEW id \in Ids, NEW status \in Statuses, NEW K, NEW e, Sane(t, K, e)
    PROVE  Sane(Ended(t, id, status), K, e)
<1> DEFINE u == Ended(t, id, status)
           record == [status |-> status, floor |-> t.serial, perm |-> t.perm]
<1>1. IsTab(u)
  BY EndedKeeps, KeepsTab DEF Sane
<1>2. u = [t EXCEPT !.records[id] = record]
  BY DEF Ended
<1>3. IsRecord(record)
  BY DEF IsRecord
<1>. HIDE DEF u, record
<1>4. Quiets(t, u) /\ JobsOk(u, e) /\ u.reads \subseteq t.reads
  BY <1>1, <1>2, <1>3 DEF Quiets, Sane, Scalars, JobsOk, IsTab, TabFields
<1>5. Sane(u, K, e)
  BY <1>4, QuietSame
<1>. QED
  BY <1>5 DEF u

LEMMA MarkDoubtedSane ==
    ASSUME NEW t, NEW ids, NEW K, NEW e, Sane(t, K, e)
    PROVE  Sane(MarkDoubted(t, ids), K, e)
BY DoubtSane DEF MarkDoubted

LEMMA RequestSane ==
    ASSUME NEW t, NEW ids, NEW K, NEW e, Sane(t, K, e)
    PROVE  Sane(Request(t, ids), K, e)
<1> DEFINE fresh1 == {id \in ids : ~Joined(t, id) /\ ~Decided(t, id)}
           joined == {id \in ids : Joined(t, id)}
           unknown == {id \in fresh1 : t.records[id] = NoRecord \/ t.records[id].perm # t.perm}
           pend == Pend(t, unknown)
           asked == [NoJob EXCEPT !.phase = "asked", !.perm = t.perm, !.token = t.serial + 1]
           sent == [pend EXCEPT
                      !.serial = IF fresh1 = {} THEN @ ELSE @ + 1,
                      !.jobs = [id \in Ids |->
                          IF id \in fresh1
                          THEN [NoJob EXCEPT !.phase = "asked", !.perm = t.perm,
                                             !.token = t.serial + 1]
                          ELSE @[id]],
                      !.round.ids = [id \in Ids |->
                          IF id \in fresh1 \cup joined THEN t.perm ELSE @[id]]]
<1>1. Sane(pend, K, e) /\ IsTab(pend)
  BY PendSane DEF Sane
<1>2. Request(t, ids) = MarkDoubted(sent, fresh1)
  BY DEF Request
<1>3. IsJob(asked) /\ asked.phase = "asked"
  BY NoJobIsJob DEF NoJob
<1>4. \A x \in Ids : sent.jobs[x] = IF x \in fresh1 THEN asked ELSE pend.jobs[x]
  <2>. HIDE DEF pend, fresh1, joined
  <2>. QED
    BY <1>1 DEF IsTab, TabFields
<1>. HIDE DEF fresh1, joined, unknown, pend, asked
<1>5. IsTab(sent)
  BY <1>1, NoJobIsJob DEF IsTab, TabFields
<1>6. /\ sent.serial \in {pend.serial, pend.serial + 1} /\ sent.perm = pend.perm
      /\ sent.source = pend.source
      /\ sent.deletion = pend.deletion /\ sent.failed = pend.failed /\ sent.attempted = pend.attempted
      /\ sent.affected = pend.affected /\ sent.error = pend.error /\ sent.records = pend.records
      /\ sent.held = pend.held /\ sent.writes = pend.writes /\ sent.val = pend.val
      /\ sent.reads = pend.reads
  BY <1>1 DEF IsTab, TabFields
<1>. HIDE DEF sent
<1>7. JobsOk(sent, e)
  BY <1>1, <1>3, <1>4 DEF JobsOk, Sane
<1>8. Quiets(pend, sent)
  BY <1>1, <1>5, <1>6 DEF Quiets, Sane, Scalars
<1>9. Sane(sent, K, e)
  BY <1>1, <1>6, <1>7, <1>8, QuietSame
<1>. QED
  BY <1>2, <1>9, MarkDoubtedSane

LEMMA RequireSane ==
    ASSUME NEW t, NEW ids, NEW K, NEW e, Sane(t, K, e), ids \subseteq Ids
    PROVE  Sane(Require(t, ids), K, e)
<1> DEFINE open == {id \in ids : t.round.ids[id] = t.perm => t.records[id] # NoRecord}
           affected == [t EXCEPT !.affected = @ \cup ids]
           noted == Pend(affected, {id \in open : t.records[id] = NoRecord})
<1>1. IsTab(affected)
  BY DEF IsTab, TabFields, Sane
<1>2. Quiets(t, affected) /\ JobsOk(affected, e) /\ affected.reads \subseteq t.reads
  BY <1>1 DEF Quiets, Sane, Scalars, JobsOk, IsTab, TabFields
<1>3. Require(t, ids) = Request(noted, open)
  BY DEF Require
<1>. HIDE DEF open, affected
<1>4. Sane(affected, K, e)
  BY <1>2, QuietSame
<1>5. Sane(noted, K, e)
  BY <1>4, PendSane
<1>. HIDE DEF noted
<1>. QED
  BY <1>3, <1>5, RequestSane

LEMMA NoJobSane ==
    ASSUME NEW t, NEW id, NEW K, NEW e, Sane(t, K, e), NEW u, u = [t EXCEPT !.jobs[id] = NoJob]
    PROVE  Sane(u, K, e) /\ u.reads = t.reads
<1>1. IsTab(u) /\ u.reads = t.reads
  BY NoJobIsJob DEF Sane, IsTab, TabFields
<1>2. NoJob.phase = "none"
  BY DEF NoJob
<1>3. \A x \in Ids : u.jobs[x] = t.jobs[x] \/ u.jobs[x] = NoJob
  BY DEF Sane, IsTab, TabFields
<1>4. JobsOk(u, e)
  BY <1>2, <1>3 DEF JobsOk, Sane
<1>5. Quiets(t, u)
  BY <1>1 DEF Quiets, Sane, Scalars, IsTab, TabFields
<1>. QED
  BY <1>1, <1>4, <1>5, QuietSame

LEMMA EndJobSane ==
    ASSUME NEW t, NEW id, NEW error, NEW K, NEW e, Sane(t, K, e),
           error \in {NoError, ReadError} \cup Ids
    PROVE  Sane(EndJob(t, id, error), K, e)
<1> DEFINE waiting == {r \in t.reads : id \in r.waits}
           less(r) == [r EXCEPT !.waits = @ \ {id}]
           further == {[r EXCEPT !.waits = @ \ {id}] : r \in waiting}
           through == {r \in further : r.waits = {}}
           none == [t EXCEPT !.jobs[id] = NoJob]
           rest == [none EXCEPT !.reads = (@ \ waiting) \cup further]
           f == [r \in t.reads |-> IF r \in waiting THEN less(r) ELSE r]
<1>1. EndJob(t, id, error) =
        IF error # NoError THEN Fail(none, waiting, error) ELSE Finish(rest, through)
  BY DEF EndJob
<1>2. Sane(none, K, e) /\ none.reads = t.reads
  BY NoJobSane
<1>3. \A r \in t.reads : IsRead(r) /\ r.part \in Parts
  BY DEF Sane, IsTab, ReadsOk, ReadOk, FormOk
<1>4. \A r \in t.reads : Tame(r, less(r)) /\ Tame(r, r) /\ IsRead(less(r))
  BY <1>3 DEF IsRead, ReadFields, Tame
<1>5. further = {less(r) : r \in waiting} /\ waiting \subseteq t.reads
  OBVIOUS
<1>. HIDE DEF less, none, further, waiting
<1>6. /\ IsTab(rest) /\ rest.reads = (t.reads \ waiting) \cup further
  BY <1>2, <1>4, <1>5 DEF Sane, IsTab, TabFields
<1>7. Quiets(none, rest) /\ JobsOk(rest, e)
  BY <1>2, <1>6 DEF Quiets, Sane, Scalars, JobsOk, IsTab, TabFields
<1>. HIDE DEF rest
<1>8. Followed(none, rest, f)
  <2>1. \A r \in none.reads : Tame(r, f[r])
    BY <1>2, <1>4
  <2>2. \A r \in rest.reads : \E s \in none.reads : r = f[s]
    BY <1>2, <1>5, <1>6
  <2>. HIDE DEF f
  <2>. QED
    BY <2>1, <2>2 DEF Followed
<1>. HIDE DEF f
<1>9. Sane(rest, K, e)
  BY <1>2, <1>7, <1>8, QuietSane
<1>10. CASE error # NoError
  <2>1. error \in {ReadError} \cup Ids /\ \A r \in waiting : r.part \in Parts
    BY <1>3, <1>5, <1>10
  <2>2. Sane(Fail(none, waiting, error), K, e)
    BY <1>2, <2>1, FailSane
  <2>. QED
    BY <1>1, <1>10, <2>2
<1>11. CASE error = NoError
  BY <1>1, <1>9, <1>11, FinishSane
<1>. QED
  BY <1>10, <1>11

LEMMA EndReadSane ==
    ASSUME NEW t, NEW r, NEW error, NEW K, NEW e, Sane(t, K, e),
           error \in {NoError, ReadError} \cup Ids
    PROVE  Sane(EndRead(t, r, error), K, e)
BY EndJobSane DEF EndRead

\* A read as it is sent.
Sendable(r, t) ==
    /\ IsRead(r) /\ r.part \in Parts /\ r.token = t.serial + 1 /\ r.perm = t.perm
    /\ r.first \in BOOLEAN /\ (r.part = Whole => r.first = TRUE)
    /\ r.how = "fetch" => r.part = Whole
    /\ r.how # "fetch" => t.val # NoVal
    /\ r.changes = <<>> /\ r.phase = "asked" /\ r.snap = NoSnap

LEMMA EmptyConfirms ==
    ASSUME NEW changes, changes = <<>>
    PROVE  /\ Kept(changes) /\ Len(changes) = 0
           /\ \A x : Confirms(changes, x, Len(changes)) = {}
BY DEF Kept, Confirms

LEMMA NothingSeen ==
    ASSUME NEW e, IsServer(e)
    PROVE  \A x \in Ids : /\ Seen(e, x, NoSnap[x].at, NoSnap[x].ver) /\ e.issues[x].ver \in Nat
                          /\ e.issues[x].at \in Places
BY DEF IsServer, Seen, NoSnap, Places

LEMMA SentOk ==
    ASSUME NEW t, NEW e, NEW r, NEW u, IsServer(e), Sendable(r, t), Scalars(t),
           u.serial = t.serial + 1, u.perm = t.perm, u.val = t.val
    PROVE  ReadOk(r, u, e) /\ IsRead(r)
<1>1. FormOk(r, u, e)
  BY NothingSeen DEF Sendable, FormOk, Scalars
<1>2. LiveOk(r, u, e)
  BY EmptyConfirms DEF LiveOk, Sendable, Line
<1>. QED
  BY <1>1, <1>2 DEF ReadOk, Sendable

LEMMA SendSane ==
    ASSUME NEW t, NEW sent, NEW K, NEW e, Sane(t, K, e), \A r \in sent : Sendable(r, t),
           \A r, s \in sent : r.part = s.part => r = s
    PROVE  Sane(Send(t, sent), K, e)
<1> DEFINE parts == {r.part : r \in sent}
           older(r) == [r EXCEPT !.live = @ /\ r.part \notin parts,
                                 !.owns = @ /\ r.part \notin parts]
           f == [r \in t.reads |-> older(r)]
           old == [t EXCEPT !.serial = @ + 1, !.reads = {older(r) : r \in t.reads}]
           u == Send(t, sent)
<1>1. IsTab(u)
  BY SendKeeps, KeepsTab DEF Sane, Sendable
<1>2. u = [t EXCEPT !.serial = @ + 1, !.reads = {older(r) : r \in @} \cup sent]
  BY DEF Send
<1>3. \A r \in t.reads : Tame(r, older(r)) /\ IsRead(older(r))
  BY DEF Sane, IsTab, IsRead, ReadFields, Tame
<1>. HIDE DEF u, older
<1>4. IsTab(old) /\ old.reads = {older(r) : r \in t.reads}
  BY <1>3 DEF Sane, IsTab, TabFields
<1>5. Quiets(t, old) /\ JobsOk(old, e) /\ old.serial = t.serial + 1
  BY <1>4 DEF Quiets, Sane, Scalars, JobsOk, IsTab, TabFields
<1>6. Followed(t, old, f)
  BY <1>3, <1>4 DEF Followed
<1>7. /\ old.serial = u.serial /\ old.perm = u.perm /\ old.source = u.source
      /\ old.deletion = u.deletion /\ old.failed = u.failed /\ old.attempted = u.attempted
      /\ old.affected = u.affected /\ old.error = u.error /\ old.records = u.records
      /\ old.held = u.held /\ old.writes = u.writes /\ old.jobs = u.jobs /\ old.val = u.val
      /\ u.reads = old.reads \cup sent /\ u.perm = t.perm /\ u.val = t.val
  BY <1>2 DEF Sane, IsTab, TabFields
<1>. HIDE DEF f, old
<1>8. Sane(old, K, e)
  BY <1>5, <1>6, QuietSane
<1>9. \A r \in sent : ReadOk(r, u, e) /\ IsRead(r)
  BY <1>5, <1>7, SentOk DEF Sane
<1>10. ReadsOk(u, e)
  BY <1>7, <1>8, <1>9 DEF Sane, ReadsOk, ReadOk, LiveOk, FormOk
<1>11. Keyed(u, K, e)
  <2>1. \A r \in sent : r.token = t.serial + 1
    BY DEF Sendable
  <2>2. t.serial \in Nat
    BY DEF Sane, Scalars
  <2>3. \A r \in old.reads : r.token \in 1..t.serial
    <3>1. ASSUME NEW r \in old.reads
          PROVE  r.token \in 1..t.serial
      <4>1. PICK s \in t.reads : Tame(s, r)
        BY <1>6 DEF Followed
      <4>. QED
        BY <4>1 DEF Tame, Sane, ReadsOk, ReadOk, FormOk
    <3>. QED
      BY <3>1
  <2>4. ASSUME NEW r \in u.reads, NEW s \in u.reads, r.part = s.part, r.token = s.token
        PROVE  r = s
    <3>1. CASE r \in old.reads /\ s \in old.reads
      BY <1>8, <2>4, <3>1 DEF Sane, Keyed
    <3>2. CASE r \in sent /\ s \in sent
      BY <2>4, <3>2
    <3>3. CASE (r \in old.reads /\ s \in sent) \/ (s \in old.reads /\ r \in sent)
      BY <2>1, <2>2, <2>3, <2>4, <3>3
    <3>. QED
      BY <1>7, <3>1, <3>2, <3>3
  <2>5. ASSUME NEW k \in K
        PROVE  /\ IsRead(k) /\ FormOk(k, u, e)
               /\ \A r \in u.reads : r.part # k.part \/ r.token # k.token
    <3>1. IsRead(k) /\ FormOk(k, old, e) /\ k.token \in 1..t.serial
          /\ \A r \in old.reads : r.part # k.part \/ r.token # k.token
      <4>1. k.token \in 1..t.serial
        BY DEF Sane, Keyed, FormOk
      <4>. QED
        BY <1>8, <4>1 DEF Sane, Keyed
    <3>2. FormOk(k, u, e)
      BY <1>7, <3>1 DEF FormOk
    <3>. QED
      BY <1>7, <2>1, <2>2, <3>1, <3>2
  <2>. QED
    BY <2>4, <2>5 DEF Keyed
<1>12. ValueOk(u, e) /\ HeldOk(u, e) /\ JobsOk(u, e) /\ WritesOk(u, e) /\ Scalars(u)
  <2>1. ValueOk(old, e) /\ HeldOk(old, e) /\ JobsOk(old, e) /\ WritesOk(old, e) /\ Scalars(old)
    BY <1>8 DEF Sane
  <2>2. ValueOk(u, e)
    BY <1>7, <2>1 DEF ValueOk
  <2>3. HeldOk(u, e) /\ JobsOk(u, e)
    BY <1>7, <2>1 DEF HeldOk, JobsOk
  <2>4. WritesOk(u, e)
    BY <1>7, <2>1 DEF WritesOk, WriteOk
  <2>5. Scalars(u)
    BY <1>7, <2>1 DEF Scalars
  <2>. QED
    BY <2>2, <2>3, <2>4, <2>5
<1>13. Sane(u, K, e)
  BY <1>1, <1>10, <1>11, <1>12 DEF Sane
<1>. QED
  BY <1>13 DEF u

LEMMA AskedSendable ==
    ASSUME NEW t, NEW part \in Parts, NEW first \in BOOLEAN, NEW how, NEW j,
           part = Whole => first = TRUE, how = "fetch" => part = Whole,
           how # "fetch" => t.val # NoVal
    PROVE  Sendable(Asked(t, part, first, how, j), t) /\ Asked(t, part, first, how, j).part = part
<1>1. IsRead(Asked(t, part, first, how, j))
  BY AskedIsRead
<1>. QED
  BY <1>1 DEF Asked, Sendable

LEMMA SendWholeSane ==
    ASSUME NEW t, NEW j, NEW K, NEW e, Sane(t, K, e)
    PROVE  Sane(SendWhole(t, j), K, e)
<1> DEFINE u == Invalidate(t)
           how == IF Shown(t) THEN "merge" ELSE "fetch"
           asked == Asked(t, Whole, TRUE, how, j)
<1>1. Sane(u, K, e)
  BY InvalidateSane
<1>2. u.serial = t.serial /\ u.perm = t.perm /\ u.val = t.val
  BY DEF Invalidate, Sane, IsTab, TabFields
<1>3. Whole \in Parts /\ (how # "fetch" => t.val # NoVal)
  BY DEF Parts, Shown
<1>4. SendWhole(t, j) = Send(u, {asked})
  BY DEF SendWhole
<1>. HIDE DEF u, how
<1>5. Sendable(asked, t)
  BY <1>3, AskedSendable
<1>. HIDE DEF asked
<1>6. Sendable(asked, u)
  BY <1>2, <1>5 DEF Sendable
<1>. QED
  BY <1>1, <1>4, <1>6, SendSane

LEMMA RefreshSane ==
    ASSUME NEW t, NEW id, NEW K, NEW e, Sane(t, K, e)
    PROVE  Sane(Refresh(t, id), K, e)
<1> DEFINE u == [t EXCEPT !.round.scoped = TRUE, !.jobs[id].phase = "refreshing"]
<1>1. IsTab(u) /\ u.reads = t.reads
  BY DEF Sane, IsTab, IsJob, TabFields, JobFields
<1>2. \A x \in Ids : u.jobs[x] = t.jobs[x] \/ u.jobs[x].phase = "refreshing"
  BY DEF Sane, IsTab, IsJob, TabFields, JobFields
<1>3. JobsOk(u, e)
  BY <1>2 DEF JobsOk, Sane
<1>4. Quiets(t, u)
  BY <1>1 DEF Quiets, Sane, Scalars, IsTab, TabFields
<1>5. Refresh(t, id) = IF Shown(t) /\ ~t.round.scoped THEN SendWhole(u, id)
                       ELSE EndJob(t, id, NoError)
  BY DEF Refresh
<1>. HIDE DEF u
<1>6. Sane(u, K, e)
  BY <1>1, <1>3, <1>4, QuietSame
<1>. QED
  BY <1>5, <1>6, SendWholeSane, EndJobSane

\* After a deletion no read may write.
LEMMA RemovedSane ==
    ASSUME NEW t, NEW K, NEW e, Sane(t, K, e)
    PROVE  Sane(Removed(t), K, e) /\ \A r \in Removed(t).reads : ~r.live
<1> DEFINE u == [t EXCEPT !.serial = @ + 1, !.deletion = t.serial + 1]
           v == Invalidate(u)
<1>1. IsTab(u)
  BY DEF Sane, IsTab, TabFields
<1>2. Quiets(t, u) /\ JobsOk(u, e) /\ u.reads \subseteq t.reads
  BY <1>1 DEF Quiets, Sane, Scalars, JobsOk, IsTab, TabFields
<1>3. Removed(t) = Doubt(v, Groups)
  BY DEF Removed
<1>. HIDE DEF u
<1>4. Sane(u, K, e)
  BY <1>2, QuietSame
<1>5. Sane(v, K, e) /\ \A r \in v.reads : ~r.live
  BY <1>4, InvalidateSane
<1>. HIDE DEF v
<1>6. Sane(Doubt(v, Groups), K, e)
  BY <1>5, DoubtSane
<1>7. \A r \in Doubt(v, Groups).reads : ~r.live
  <2> DEFINE kept(r) == [r EXCEPT !.changes = IF r.live THEN Append(@, Stale(Groups)) ELSE @]
  <2>1. Doubt(v, Groups).reads = {kept(r) : r \in v.reads}
    BY <1>5, DoubtFields DEF Sane
  <2>2. \A r \in v.reads : kept(r).live = r.live
    BY <1>5 DEF Sane, IsTab, IsRead, ReadFields
  <2>. HIDE DEF kept
  <2>. QED
    BY <1>5, <2>1, <2>2
<1>. QED
  BY <1>3, <1>6, <1>7

-----------------------------------------------------------------------------
(* A read that has written *)

LEMMA WaitSane ==
    ASSUME NEW t, NEW r, NEW ids, NEW e, Sane(t, {r}, e)
    PROVE  Sane(Wait(t, r, ids), {}, e)
<1> DEFINE waits == [r EXCEPT !.phase = "draining", !.live = FALSE, !.changes = <<>>,
                              !.waits = ids]
           u == [t EXCEPT !.reads = @ \cup {waits}]
<1>1. Wait(t, r, ids) = IF ids = {} THEN Finish(t, {r}) ELSE u
  BY DEF Wait
<1>2. IsRead(r) /\ FormOk(r, t, e)
  BY DEF Sane, Keyed
<1>3. /\ IsRead(waits) /\ FormOk(waits, t, e) /\ ~waits.live
      /\ waits.part = r.part /\ waits.token = r.token
  <2>1. IsRead(waits) /\ ~waits.live
    BY <1>2, EmptyIsList DEF IsRead, ReadFields
  <2>2. /\ waits.part = r.part /\ waits.token = r.token /\ waits.perm = r.perm
        /\ waits.first = r.first /\ waits.how = r.how /\ waits.snap = r.snap
    BY <1>2 DEF IsRead, ReadFields
  <2>. HIDE DEF waits
  <2>. QED
    BY <1>2, <2>1, <2>2 DEF FormOk
<1>. HIDE DEF waits
<1>4. IsTab(u)
  BY <1>3 DEF Sane, IsTab, TabFields
<1>5. /\ u.serial = t.serial /\ u.perm = t.perm /\ u.source = t.source
      /\ u.deletion = t.deletion /\ u.failed = t.failed /\ u.attempted = t.attempted
      /\ u.affected = t.affected /\ u.error = t.error /\ u.records = t.records
      /\ u.held = t.held /\ u.writes = t.writes /\ u.jobs = t.jobs /\ u.val = t.val
      /\ u.reads = t.reads \cup {waits}
  BY DEF Sane, IsTab, TabFields
<1>. HIDE DEF u
<1>6. Keyed(u, {}, e)
  BY <1>3, <1>5 DEF Sane, Keyed
<1>7. ReadsOk(u, e)
  BY <1>3, <1>5 DEF Sane, ReadsOk, ReadOk, FormOk, LiveOk
<1>8. ValueOk(u, e) /\ HeldOk(u, e) /\ JobsOk(u, e) /\ WritesOk(u, e) /\ Scalars(u)
  BY <1>5 DEF Sane, ValueOk, HeldOk, JobsOk, WritesOk, WriteOk, Scalars
<1>9. Sane(u, {}, e)
  BY <1>4, <1>6, <1>7, <1>8 DEF Sane
<1>10. Sane(t, {}, e)
  BY DEF Sane, Keyed
<1>. QED
  BY <1>1, <1>9, <1>10, FinishSane

LEMMA JoinSane ==
    ASSUME NEW t, NEW r, NEW refused, NEW drained, NEW e, Sane(t, {r}, e), refused \subseteq Ids
    PROVE  Sane(Join(t, r, refused, drained), {}, e)
<1> DEFINE error == CHOOSE id \in refused : TRUE
           ids == {id \in drained : t.jobs[id].phase # "none"}
<1>1. Join(t, r, refused, drained)
      = IF refused # {} THEN Fail(t, {r}, error) ELSE Wait(t, r, ids)
  BY DEF Join
<1>2. refused # {} => error \in Ids
  OBVIOUS
<1>3. Sane(t, {}, e) /\ r.part \in Parts
  BY DEF Sane, Keyed, FormOk
<1>. HIDE DEF error, ids
<1>. QED
  BY <1>1, <1>2, <1>3, FailSane, WaitSane

LEMMA DrainSane ==
    ASSUME NEW t, NEW r, NEW e, Sane(t, {r}, e)
    PROVE  Sane(Drain(t, r), {}, e)
<1> DEFINE drained == {id \in t.affected : t.records[id] # NoRecord \/ t.round.ids[id] # -1}
           finished == Finish(t, {r})
           asked == Request(t, drained)
<1>1. Drain(t, r) = IF r.job # 0 THEN EndRead(finished, r, NoError)
                    ELSE Join(asked, r, Refused(t, drained), drained)
  BY DEF Drain
<1>2. Sane(t, {}, e) /\ drained \subseteq Ids
  BY DEF Sane, Keyed, Scalars
<1>. HIDE DEF drained
<1>3. Sane(finished, {}, e) /\ Sane(asked, {r}, e) /\ Refused(t, drained) \subseteq Ids
  BY <1>2, FinishSane, RequestSane DEF Refused
<1>. HIDE DEF finished, asked
<1>. QED
  BY <1>1, <1>3, EndReadSane, JoinSane

-----------------------------------------------------------------------------
(* What is taken in *)

\* A change that stays what it is.
SameWrite(w, v) ==
    /\ v.id = w.id /\ v.issue = w.issue /\ v.kind = w.kind /\ v.to = w.to /\ v.phase = w.phase
    /\ v.after = w.after

LEMMA WritesSame ==
    ASSUME NEW t, NEW u, NEW e, WritesOk(t, e), NEW f, \A w \in t.writes : SameWrite(w, f[w]),
           u.writes \subseteq {f[w] : w \in t.writes},
           \A x \in Ids : u.held[x].k = "gone" => t.held[x].k = "gone"
    PROVE  WritesOk(u, e)
<1>1. ASSUME NEW v \in u.writes
      PROVE  WriteOk(v, u, e)
  <2>1. PICK w \in t.writes : v = f[w]
    OBVIOUS
  <2>2. WriteOk(w, t, e) /\ SameWrite(w, v)
    BY <2>1 DEF WritesOk
  <2>. QED
    BY <2>2 DEF WriteOk, SameWrite
<1>2. ASSUME NEW p \in u.writes, NEW q \in u.writes
      PROVE  /\ p.id = q.id /\ p.id # 0 /\ p.phase # "queued" /\ q.phase # "queued" => p = q
             /\ p.kind = "creates" /\ q.kind = "moves" /\ p.phase = "served"
                /\ q.phase = "served" /\ p.issue = q.issue => p.after.ver <= q.after.ver
  <2>1. PICK w \in t.writes, v \in t.writes : p = f[w] /\ q = f[v]
    OBVIOUS
  <2>2. SameWrite(w, p) /\ SameWrite(v, q)
    BY <2>1
  <2>3. /\ w.id = v.id /\ w.id # 0 /\ w.phase # "queued" /\ v.phase # "queued" => w = v
        /\ w.kind = "creates" /\ v.kind = "moves" /\ w.phase = "served"
           /\ v.phase = "served" /\ w.issue = v.issue => w.after.ver <= v.after.ver
    BY DEF WritesOk
  <2>. QED
    BY <2>1, <2>2, <2>3 DEF SameWrite
<1>. QED
  BY <1>1, <1>2 DEF WritesOk

\* Each read goes on with the right to write that it had.
Succeeded(t, u) == \A r \in t.reads : \E s \in u.reads : Tame(r, s) /\ (s.live <=> r.live)

LEMMA AcceptReadSane ==
    ASSUME NEW t, NEW ids, NEW snap, NEW token, NEW detail \in BOOLEAN, NEW K, NEW e, Sane(t, K, e),
           ids \subseteq Ids, Versions(snap),
           \A x \in ids : Seen(e, x, snap[x].at, snap[x].ver) /\ snap[x].at # Unmade
    PROVE  /\ Sane(AcceptRead(t, ids, snap, token, detail), K, e)
           /\ Succeeded(t, AcceptRead(t, ids, snap, token, detail))
           /\ AcceptRead(t, ids, snap, token, detail).source = t.source
           /\ t.val # NoVal => KnownGroups(AcceptRead(t, ids, snap, token, detail).val) = KnownGroups(t.val)
<1> DEFINE taken == Accepted(t, ids, snap, token)
           moved == {id \in taken : /\ ~Pending(t, id) /\ t.held[id].k = "held"
                                    /\ t.held[id].at # snap[id].at}
           cleared == t.error \in taken /\ t.records[t.error].status \in {"error", "unconfirmed"}
           entity(id) == [k |-> "held", at |-> snap[id].at, ver |-> snap[id].ver,
                          perm |-> t.perm,
                          full |-> detail \/ (HeldCurrent(t, id) /\ t.held[id].full)]
           seen(w) == IF w.id \in taken /\ w.phase # "queued"
                      THEN [w EXCEPT !.seen = @ \cup {snap[w.id]}] ELSE w
           read == [t EXCEPT
                      !.held = [id \in Ids |-> IF id \in taken THEN entity(id) ELSE @[id]],
                      !.records = [id \in Ids |-> IF id \in taken THEN NoRecord ELSE @[id]],
                      !.error = IF cleared THEN NoError ELSE @,
                      !.failed = IF cleared THEN {} ELSE @,
                      !.writes = {seen(w) : w \in @}]
           places == UNION {HeldParts(t, id) \cup ({snap[id].at} \cap Groups) : id \in moved}
           u == AcceptRead(t, ids, snap, token, detail)
           g == [w \in t.writes |-> seen(w)]
<1>1. u = IF moved = {} THEN read ELSE Doubt(read, places)
  BY DEF AcceptRead
<1>2. \A x \in taken : x \in ids /\ x \in Ids /\ t.held[x].k # "gone"
  BY DEF Accepted
<1>3. \A w \in t.writes : IsWrite(seen(w)) /\ SameWrite(w, seen(w))
  BY DEF Sane, IsTab, IsWrite, WriteFields, SameWrite
<1>4. ASSUME NEW x \in taken
      PROVE  /\ entity(x).k = "held" /\ entity(x).ver = snap[x].ver
             /\ entity(x) \in [k : {"none", "held", "gone"}, at : Places, ver : 0..e.clock,
                               full : BOOLEAN, perm : 0..t.perm]
             /\ e.issues[x].at # Unmade /\ snap[x].ver \in Nat
  <2>1. Seen(e, x, snap[x].at, snap[x].ver) /\ snap[x].at # Unmade /\ x \in Ids
    BY <1>2
  <2>2. e.issues[x].ver \in 0..e.clock /\ e.clock \in Nat
    BY <2>1 DEF Sane, IsServer
  <2>3. snap[x].ver \in 0..e.clock /\ snap[x].at \in Places /\ e.issues[x].at # Unmade
        /\ snap[x].ver \in Nat
    BY <2>1, <2>2 DEF Seen
  <2>4. t.perm \in 0..t.perm
    BY DEF Sane, Scalars
  <2> DEFINE full == detail \/ (HeldCurrent(t, x) /\ t.held[x].full)
  <2>5. full \in BOOLEAN
    OBVIOUS
  <2>. HIDE DEF full
  <2>. QED
    BY <2>3, <2>4, <2>5 DEF full
<1>. HIDE DEF taken, moved, cleared, entity, seen, places, u
<1>5. /\ DOMAIN read = TabFields
      /\ read.held = [x \in Ids |-> IF x \in taken THEN entity(x) ELSE t.held[x]]
      /\ read.records = [x \in Ids |-> IF x \in taken THEN NoRecord ELSE t.records[x]]
      /\ read.error = IF cleared THEN NoError ELSE t.error
      /\ read.failed = IF cleared THEN {} ELSE t.failed
      /\ read.writes = {seen(w) : w \in t.writes}
      /\ read.perm = t.perm /\ read.reads = t.reads /\ read.jobs = t.jobs
      /\ read.serial = t.serial /\ read.source = t.source /\ read.deletion = t.deletion
      /\ read.attempted = t.attempted /\ read.affected = t.affected /\ read.val = t.val
  BY DEF Sane, IsTab, TabFields
<1>. HIDE DEF read
<1>6. \A x \in Ids : read.held[x].k = "gone" => t.held[x].k = "gone"
  <2>1. \A x \in Ids : read.held[x] = IF x \in taken THEN entity(x) ELSE t.held[x]
    BY <1>5
  <2>. QED
    BY <1>4, <2>1
<1>7. IsTab(read)
  BY <1>3, <1>4, <1>5 DEF Sane, IsTab, IsHeld
<1>8. Scalars(read)
  BY <1>5, NoRecordIs DEF Sane, Scalars
<1>9. HeldOk(read, e)
  <2>1. \A x \in Ids : read.held[x] = IF x \in taken THEN entity(x) ELSE t.held[x]
    BY <1>5
  <2>. QED
    BY <1>4, <1>5, <2>1 DEF Sane, HeldOk
<1>10. JobsOk(read, e)
  BY <1>5 DEF Sane, JobsOk
<1>11. ReadsOk(read, e) /\ Keyed(read, K, e)
  <2> DEFINE f == [r \in t.reads |-> r]
  <2>1. Steady(t, read)
    BY <1>5, <1>6 DEF Steady, Sane, Scalars
  <2>2. Followed(t, read, f)
    BY <1>5 DEF Followed, Tame
  <2>. HIDE DEF f
  <2>. QED
    BY <2>1, <2>2, FollowedReads DEF Sane
<1>12. ValueOk(read, e)
  BY <1>5, <1>6 DEF Sane, ValueOk
<1>13. WritesOk(read, e)
  <2>1. \A w \in t.writes : SameWrite(w, g[w])
    BY <1>3
  <2>2. read.writes \subseteq {g[w] : w \in t.writes}
    BY <1>5
  <2>. HIDE DEF g
  <2>. QED
    BY <1>6, <2>1, <2>2, WritesSame DEF Sane
<1>14. Sane(read, K, e)
  BY <1>7, <1>8, <1>9, <1>10, <1>11, <1>12, <1>13 DEF Sane
<1>15. Sane(u, K, e)
  BY <1>1, <1>14, DoubtSane
<1>16. Succeeded(t, u)
  <2>1. CASE u = read
    BY <1>5, <2>1 DEF Succeeded, Tame
  <2>2. CASE u = Doubt(read, places)
    <3> DEFINE kept(r) == [r EXCEPT !.changes = IF r.live THEN Append(@, Stale(places)) ELSE @]
    <3>1. u.reads = {kept(r) : r \in t.reads}
      BY <1>5, <1>7, <2>2, DoubtFields
    <3>2. \A r \in t.reads : Tame(r, kept(r)) /\ (kept(r).live <=> r.live)
      BY DEF Sane, IsTab, IsRead, ReadFields, Tame
    <3>. HIDE DEF kept
    <3>. QED
      BY <3>1, <3>2 DEF Succeeded
  <2>. QED
    BY <1>1, <2>1, <2>2
<1>17. u.source = t.source
  <2>1. Doubt(read, places).source = read.source
    BY <1>7, DoubtFields
  <2>. QED
    BY <1>1, <1>5, <2>1
<1>18. t.val # NoVal => KnownGroups(u.val) = KnownGroups(t.val)
  <2>1. ASSUME t.val # NoVal
        PROVE  KnownGroups(MarkStale(t.val, places)) = KnownGroups(t.val)
    <3>1. IsValue(t.val)
      BY <2>1 DEF Sane, ValueOk, Fine, Sound
    <3>. QED
      BY <3>1, MarkStaleMarks DEF Marked
  <2>2. Doubt(read, places).val = IF t.val = NoVal THEN t.val ELSE MarkStale(t.val, places)
    BY <1>5, <1>7, DoubtFields
  <2>. QED
    BY <1>1, <1>5, <2>1, <2>2
<1>. QED
  BY <1>15, <1>16, <1>17, <1>18 DEF u

LEMMA SaneLess ==
    ASSUME NEW t, NEW K, NEW e, Sane(t, K, e)
    PROVE  Sane(t, {}, e)
BY DEF Sane, Keyed

LEMMA RowIdsIs ==
    ASSUME NEW a, NEW r, NEW source, IsAnswer(a, r, source)
    PROVE  \A x \in RowIds(a) : x \in Ids /\ r.snap[x].at \in Groups
<1>1. ASSUME NEW x \in RowIds(a)
      PROVE  \E g \in KnownGroups(a) : \E row \in a.groups[g].rows : row.id = x
  BY DEF RowIds, KnownGroups
<1>2. KnownGroups(a) \subseteq Groups
  BY DEF IsAnswer, IsValue, IsGroups, KnownGroups
<1>. QED
  BY <1>1, <1>2 DEF IsAnswer

LEMMA DecodedIs ==
    ASSUME NEW t, NEW r, NEW e, Sane(t, {}, e), r \in t.reads
    PROVE  /\ IsAnswer(Decode(t, r), r, t.source + 1)
           /\ t.val # NoVal /\ r.part = Whole => KnownGroups(t.val) \subseteq KnownGroups(Decode(t, r))
<1>1. r.part \in Parts
  BY DEF Sane, ReadsOk, ReadOk, FormOk
<1>2. t.val # NoVal => IsValue(t.val)
  BY DEF Sane, ValueOk, Fine, Sound
<1>. QED
  BY <1>1, <1>2, DecodeIs

\* The issues of an answer are taken in; its read goes on.
LEMMA TakenSane ==
    ASSUME NEW e, Sane(tab, {}, e), NEW r \in tab.reads
    PROVE  /\ Sane(Taken(r), {}, e)
           /\ Succeeded(tab, Taken(r))
           /\ Taken(r).source = tab.source
           /\ tab.val # NoVal => KnownGroups(Taken(r).val) = KnownGroups(tab.val)
<1> DEFINE ids == RowIds(Decode(tab, r))
<1>1. \A x \in ids : x \in Ids /\ r.snap[x].at \in Groups
  BY DecodedIs, RowIdsIs
<1>2. /\ \A x \in Ids : Seen(e, x, r.snap[x].at, r.snap[x].ver)
      /\ Versions(r.snap)
  BY DEF Sane, ReadsOk, ReadOk, FormOk, IsTab, IsRead
<1>3. Unmade \notin Groups
  BY MarksAssumption
<1>4. Taken(r) = AcceptRead(tab, ids, r.snap, r.token, FALSE)
  BY DEF Taken
<1>. HIDE DEF ids
<1>5. ids \subseteq Ids /\ \A x \in ids : Seen(e, x, r.snap[x].at, r.snap[x].ver) /\ r.snap[x].at # Unmade
  BY <1>1, <1>2, <1>3
<1> DEFINE snap == r.snap
           token == r.token
           none == {}
           no == FALSE
<1>6. /\ ids \subseteq Ids /\ Versions(snap) /\ no \in BOOLEAN
      /\ \A x \in ids : Seen(e, x, snap[x].at, snap[x].ver) /\ snap[x].at # Unmade
  BY <1>2, <1>5
<1>7. Sane(tab, none, e)
  OBVIOUS
<1>8. Taken(r) = AcceptRead(tab, ids, snap, token, no)
  BY <1>4
<1>. HIDE DEF snap, token, none, no
<1>9. /\ Sane(AcceptRead(tab, ids, snap, token, no), none, e)
      /\ Succeeded(tab, AcceptRead(tab, ids, snap, token, no))
      /\ AcceptRead(tab, ids, snap, token, no).source = tab.source
      /\ tab.val # NoVal => KnownGroups(AcceptRead(tab, ids, snap, token, no).val) = KnownGroups(tab.val)
  BY <1>6, <1>7, AcceptReadSane
<1>. QED
  BY <1>8, <1>9 DEF none

\* The read itself is known by its part and token.
LEMMA OwnIs ==
    ASSUME NEW t, NEW u, NEW e, NEW r \in t.reads, Sane(u, {}, e), Succeeded(t, u)
    PROVE  Own(u, r) \in u.reads /\ Tame(r, Own(u, r)) /\ (Own(u, r).live <=> r.live)
<1>1. PICK s \in u.reads : Tame(r, s) /\ (s.live <=> r.live)
  BY DEF Succeeded
<1>2. s.part = r.part /\ s.token = r.token
  BY <1>1 DEF Tame
<1>3. Own(u, r) \in u.reads /\ Own(u, r).part = r.part /\ Own(u, r).token = r.token
  BY <1>2 DEF Own
<1>4. Own(u, r) = s
  BY <1>2, <1>3 DEF Sane, Keyed
<1>. QED
  BY <1>1, <1>4

\* What is taken out to be worked in, is taken out.
LEMMA WithoutSane ==
    ASSUME NEW t, NEW r, NEW e, Sane(t, {}, e), IsRead(r), Own(t, r) \in t.reads, Tame(r, Own(t, r)),
           NEW u, u = Without(t, r)
    PROVE  Sane(u, {r}, e) /\ u.source = t.source + 1 /\ u.val = t.val /\ u.held = t.held
<1> DEFINE own == Own(t, r)
           f == [x \in t.reads |-> x]
<1>1. own \in t.reads /\ Tame(r, own)
  OBVIOUS
<1>2. u = [t EXCEPT !.source = @ + 1, !.reads = @ \ {own}]
  BY DEF Without
<1>. HIDE DEF own
<1>3. /\ DOMAIN u = TabFields
      /\ u.serial = t.serial /\ u.perm = t.perm /\ u.source = t.source + 1
      /\ u.deletion = t.deletion /\ u.failed = t.failed /\ u.attempted = t.attempted
      /\ u.affected = t.affected /\ u.error = t.error /\ u.records = t.records
      /\ u.held = t.held /\ u.writes = t.writes /\ u.jobs = t.jobs /\ u.val = t.val
      /\ u.reads = t.reads \ {own}
  BY <1>2 DEF Sane, IsTab, TabFields
<1>4. IsTab(u)
  BY <1>3 DEF Sane, IsTab
<1>5. Steady(t, u)
  BY <1>3 DEF Steady, Sane, Scalars
<1>6. Followed(t, u, f)
  BY <1>3 DEF Followed, Tame
<1>. HIDE DEF f
<1>7. ReadsOk(u, e) /\ Keyed(u, {}, e)
  BY <1>5, <1>6, FollowedReads DEF Sane
<1>8. FormOk(r, u, e)
  <2>1. FormOk(own, t, e)
    BY <1>1 DEF Sane, ReadsOk, ReadOk
  <2>. QED
    BY <1>1, <1>3, <2>1 DEF FormOk, Tame
<1>9. \A x \in u.reads : x.part # r.part \/ x.token # r.token
  BY <1>1, <1>3 DEF Sane, Keyed, Tame
<1>10. Keyed(u, {r}, e)
  BY <1>7, <1>8, <1>9 DEF Keyed
<1>11. ValueOk(u, e)
  <2>1. \A value : Bounded(value, t.source) => Bounded(value, u.source)
    BY <1>3 DEF Bounded, Sane, Scalars
  <2>. QED
    BY <1>3, <2>1 DEF Sane, ValueOk
<1>12. HeldOk(u, e) /\ JobsOk(u, e)
  BY <1>3 DEF Sane, HeldOk, JobsOk
<1>13. WritesOk(u, e)
  BY <1>3 DEF Sane, WritesOk, WriteOk
<1>14. Scalars(u)
  BY <1>3 DEF Sane, Scalars
<1>. QED
  BY <1>3, <1>4, <1>7, <1>10, <1>11, <1>12, <1>13, <1>14 DEF Sane

\* A read that may write reads an answer, and what it is merged into.
LEMMA AnswerReads ==
    ASSUME NEW e, Sane(tab, {}, e), NEW r \in tab.reads, r.phase = "served", r.live,
           NEW t, t = Taken(r), NEW a, a = Reconciled(t, r, Decode(tab, r))
    PROVE  Reading(t.val, a, r, t.source)
<1> DEFINE raw == Decode(tab, r)
           own == Own(t, r)
<1>1. IsAnswer(raw, r, tab.source + 1)
      /\ (tab.val # NoVal /\ r.part = Whole => KnownGroups(tab.val) \subseteq KnownGroups(raw))
  BY DecodedIs
<1>2. /\ Sane(t, {}, e) /\ Succeeded(tab, t) /\ t.source = tab.source
      /\ (tab.val # NoVal => KnownGroups(t.val) = KnownGroups(tab.val))
  BY TakenSane
<1>3. own \in t.reads /\ Tame(r, own) /\ own.live
  BY <1>2, OwnIs
<1>. HIDE DEF raw, own
<1>4. LiveOk(own, t, e) /\ own.phase = "served" /\ own.snap = r.snap
  BY <1>2, <1>3 DEF Sane, ReadsOk, ReadOk, Tame
<1>5. \A x \in RowIds(raw) : t.held[x].k # "gone"
  <2>1. \A x \in RowIds(raw) : x \in Ids /\ r.snap[x].at \in Groups
    BY <1>1, RowIdsIs
  <2>2. Gone \notin Groups
    BY MarksAssumption
  <2>. QED
    BY <1>4, <2>1, <2>2 DEF LiveOk
<1>6. Marked(raw, a)
  BY <1>1, <1>5, ReconciledIs DEF raw
<1>7. IsAnswer(a, r, t.source + 1) /\ KnownGroups(a) = KnownGroups(raw)
  BY <1>1, <1>2, <1>6, MarkedAnswer DEF Marked
<1>8. FormOk(r, tab, e) /\ Versions(r.snap) /\ t.source \in Nat
  BY <1>2 DEF Sane, ReadsOk, ReadOk, IsTab, IsRead, Scalars
<1>9. r.how # "fetch" => t.val # NoVal /\ tab.val # NoVal
  <2>1. FormOk(own, t, e)
    BY <1>2, <1>3 DEF Sane, ReadsOk, ReadOk
  <2>. QED
    BY <1>3, <1>8, <2>1 DEF FormOk, Tame
<1>10. r.how # "fetch" => Fine(t.val) /\ Bounded(t.val, t.source)
  BY <1>2, <1>9 DEF Sane, ValueOk
<1>. QED
  BY <1>1, <1>2, <1>7, <1>8, <1>9, <1>10 DEF Reading, FormOk

\* Only what the counters go back to is another.
Beside(e, f) == f.issues = e.issues /\ f.clock = e.clock /\ f.mine = e.mine

LEMMA BesideSane ==
    ASSUME NEW t, NEW K, NEW e, NEW f, Sane(t, K, e), Beside(e, f)
    PROVE  ReadsOk(t, f) /\ Keyed(t, K, f) /\ HeldOk(t, f) /\ JobsOk(t, f) /\ WritesOk(t, f)
<1>1. \A x, at, ver : Seen(e, x, at, ver) => Seen(f, x, at, ver)
  BY DEF Seen, Beside
<1>2. \A x : InOrder(f, x) <=> InOrder(e, x)
  BY DEF InOrder, Beside
<1>3. \A r : FormOk(r, t, e) => FormOk(r, t, f)
  BY <1>1 DEF FormOk
<1>4. \A r : LiveOk(r, t, e) => LiveOk(r, t, f)
  <2>1. ASSUME NEW r, LiveOk(r, t, e)
        PROVE  LiveOk(r, t, f)
    <3>1. f.mine = e.mine
      BY DEF Beside
    <3>. QED
      BY <1>2, <2>1, <3>1 DEF LiveOk
  <2>. QED
    BY <2>1
<1>5. ReadsOk(t, f) /\ Keyed(t, K, f)
  BY <1>3, <1>4 DEF Sane, ReadsOk, ReadOk, Keyed
<1>6. HeldOk(t, f) /\ JobsOk(t, f)
  BY <1>1 DEF Sane, HeldOk, JobsOk, Beside
<1>7. \A w : WriteOk(w, t, e) => WriteOk(w, t, f)
  <2>1. f.issues = e.issues /\ f.mine = e.mine
    BY DEF Beside
  <2>. QED
    BY <1>2, <2>1 DEF WriteOk
<1>8. WritesOk(t, f)
  BY <1>7 DEF Sane, WritesOk
<1>. QED
  BY <1>5, <1>6, <1>8

IsAccount(b) == DOMAIN b = AllCounters /\ \A c \in AllCounters : DOMAIN b[c] = DOMAIN NoBasis

\* A further page that took the mark of a stale group away is remembered.
GoesBack(b, old, val, r) ==
    r.part # Whole =>
       /\ \A c \in AllCounters \ {r.part} : b[c] = old[c]
       /\ r.first # TRUE => /\ GroupOf(val, r.part).stale => b[r.part].unmarked
                            /\ old[r.part].unmarked => b[r.part].unmarked

\* What the counters go back to after an answer.
LEMMA AnswersBasis ==
    ASSUME NEW u, NEW r, NEW unsure, IsAccount(basis), r.part \in Parts, r.first \in BOOLEAN
    PROVE  IsAccount(Answers(u, r, unsure)) /\ GoesBack(Answers(u, r, unsure), basis, u.val, r)
<1> DEFINE twice == \E i, j \in DOMAIN r.changes :
                       /\ i < j /\ r.changes[i].type = "confirm" /\ r.changes[j].type = "confirm"
                       /\ r.changes[i].change.id = r.changes[j].change.id
           gap == ~r.first /\ r.lower # GroupOf(u.val, r.part).cursor
           unmarked == ~r.first /\ GroupOf(u.val, r.part).stale
           now == [others |-> r.others, perm |-> r.perm, further |-> ~r.first, twice |-> twice,
                   gap |-> gap, unsure |-> FALSE, unmarked |-> unmarked]
           on(old) == IF r.first THEN now
                      ELSE [now EXCEPT !.others = Min({@, old.others}), !.gap = @ \/ old.gap,
                                       !.unmarked = @ \/ old.unmarked]
           b == Answers(u, r, unsure)
<1>1. b = IF r.part = Whole THEN [c \in AllCounters |-> [now EXCEPT !.unsure = c \in unsure]]
          ELSE [basis EXCEPT ![r.part] = on(@)]
  BY DEF Answers
<1>. HIDE DEF b, twice, gap
<1>2. DOMAIN now = DOMAIN NoBasis
  BY DEF NoBasis
<1>3. \A old : DOMAIN on(old) = DOMAIN NoBasis
  BY <1>2
<1>4. r.first # TRUE => \A old : on(old).unmarked = (unmarked \/ old.unmarked)
  OBVIOUS
<1>5. \A c : DOMAIN [now EXCEPT !.unsure = c \in unsure] = DOMAIN NoBasis
  BY <1>2
<1>6. r.part # Whole => r.part \in AllCounters
  BY DEF Parts, AllCounters
<1>7. r.first # TRUE /\ GroupOf(u.val, r.part).stale => unmarked
  OBVIOUS
<1>. HIDE DEF now, on, unmarked
<1>8. CASE r.part = Whole
  <2>1. b = [c \in AllCounters |-> [now EXCEPT !.unsure = c \in unsure]]
    BY <1>1, <1>8
  <2>. QED
    BY <1>5, <1>8, <2>1 DEF b, IsAccount, GoesBack
<1>9. CASE r.part # Whole
  <2>1. b = [basis EXCEPT ![r.part] = on(@)]
    BY <1>1, <1>9
  <2>2. DOMAIN b = AllCounters /\ b[r.part] = on(basis[r.part])
        /\ \A c \in AllCounters \ {r.part} : b[c] = basis[c]
    BY <1>6, <1>9, <2>1 DEF IsAccount
  <2>. QED
    BY <1>3, <1>4, <1>7, <1>9, <2>2 DEF b, IsAccount, GoesBack
<1>. QED
  BY <1>8, <1>9

\* What an answer is merged into, and with what.
Merging(val, a, r, n, own, t, e) ==
    /\ Reading(val, a, r, n) /\ t.val = val /\ t.source = n
    /\ Kept(own.changes) /\ Len(own.changes) \in Nat
    /\ LiveOk(own, t, e) /\ own.phase = "served" /\ own.snap = r.snap
    /\ Sane(t, {}, e)

\* Of an issue told in order the read's changes follow each other, up to what was told.
LEMMA MergingFollows ==
    ASSUME NEW val, NEW a, NEW r, NEW n, NEW own, NEW t, NEW e, Merging(val, a, r, n, own, t, e),
           NEW x \in Ids, InOrder(e, x)
    PROVE  Follows(own.changes, r, x, e.mine[x])
<1>1. LiveOk(own, t, e) /\ own.phase = "served" /\ own.snap = r.snap
  BY DEF Merging
<1>2. Line(own.changes, x, e.mine[x])
      /\ (Confirms(own.changes, x, Len(own.changes)) = {} => e.mine[x] <= r.snap[x].ver)
  BY <1>1 DEF LiveOk
<1>3. e.mine[x] \in Nat /\ r.snap[x].ver \in Nat
  <2>1. e.mine[x] \in -1..e.issues[x].ver /\ e.mine[x] # -1 /\ e.issues[x].ver \in Nat
    BY DEF Merging, Sane, IsServer, InOrder, OutOfOrder
  <2>. QED
    BY <2>1 DEF Merging, Reading, Versions
<1>. QED
  BY <1>2, <1>3 DEF Line, Follows

\* The rows that are written are of issues that are not deleted.
LEMMA MergingThere ==
    ASSUME NEW val, NEW a, NEW r, NEW n, NEW own, NEW t, NEW e, Merging(val, a, r, n, own, t, e),
           NEW m, m = Replayed(BaseOf(val, a, r), a, own.changes), m.safe,
           NEW g \in Groups, NEW row \in GroupOf(m.value, g).rows, InOrder(e, row.id)
    PROVE  t.held[row.id].k # "gone"
<1>1. Reading(val, a, r, n) /\ Kept(own.changes) /\ Len(own.changes) \in Nat
  BY DEF Merging
<1>2. g \in KnownGroups(m.value) /\ row \in m.value.groups[g].rows
  BY DEF GroupOf, EmptyGroup
<1>3. \/ row.id \in Confirmeds(own.changes)
      \/ row.id \in Ids /\ r.snap[row.id].at = g
      \/ r.how # "fetch" /\ g \in KnownGroups(val) /\ row \in val.groups[g].rows
  BY <1>1, <1>2, WrittenFine
<1>4. LiveOk(own, t, e) /\ own.phase = "served" /\ own.snap = r.snap
  BY DEF Merging
<1>5. CASE row.id \in Confirmeds(own.changes)
  BY <1>4, <1>5 DEF LiveOk, Confirmeds
<1>6. CASE row.id \in Ids /\ r.snap[row.id].at = g
  <2>1. Gone \notin Groups
    BY MarksAssumption
  <2>. QED
    BY <1>4, <1>6, <2>1 DEF LiveOk
<1>7. CASE r.how # "fetch" /\ g \in KnownGroups(val) /\ row \in val.groups[g].rows
  <2>1. val # NoVal
    BY <1>1, <1>7, ValNotNoVal DEF Reading, Fine, Sound
  <2>2. row \in GroupOf(val, g).rows /\ row.id \in Ids
    BY <1>1, <1>7 DEF GroupOf, Reading, Fine
  <2>3. t.val = val /\ ValueOk(t, e)
    BY DEF Merging, Sane
  <2>. QED
    BY <2>1, <2>2, <2>3 DEF ValueOk
<1>. QED
  BY <1>3, <1>5, <1>6, <1>7

\* And they are as new as what was told, but where a further page unmarked them.
LEMMA MergingNew ==
    ASSUME NEW val, NEW a, NEW r, NEW n, NEW own, NEW t, NEW e, Merging(val, a, r, n, own, t, e),
           NEW m, m = Replayed(BaseOf(val, a, r), a, own.changes), m.safe,
           NEW g \in Groups, NEW x \in Ids, InOrder(e, x), NEW b,
           GoesBack(b, e.basis, val, r),
           ~b[g].unmarked
    PROVE  NewRows(m.value, g, x, Facts(m.value, g, x) \cup {e.mine[x]})
<1> DEFINE least == e.mine[x]
<1>1. Reading(val, a, r, n) /\ Kept(own.changes) /\ Len(own.changes) \in Nat
  BY DEF Merging
<1>2. Follows(own.changes, r, x, least)
  BY MergingFollows
<1>3. g \in AllCounters
  BY DEF AllCounters
<1>4. r.part # Whole => val # NoVal
  BY <1>1, ValNotNoVal DEF Reading, Fine, Sound
<1>5. r.part # Whole /\ ~e.basis[g].unmarked => NewRows(val, g, x, Facts(val, g, x) \cup {least})
  <2>1. t.val = val /\ ValueOk(t, e)
    BY DEF Merging, Sane
  <2>. QED
    BY <1>4, <2>1 DEF ValueOk
<1>. HIDE DEF least
<1>6. CASE r.part = Whole \/ g = r.part
  <2>1. \/ r.first = TRUE
        \/ ~GroupOf(val, g).stale /\ NewRows(val, g, x, {least})
    <3>1. CASE r.part = Whole
      BY <1>1, <3>1 DEF Reading
    <3>2. CASE r.part # Whole /\ r.first # TRUE
      <4>1. g = r.part /\ ~GroupOf(val, g).stale /\ ~e.basis[g].unmarked
        BY <1>6, <3>2 DEF GoesBack
      <4>2. NewRows(val, g, x, Facts(val, g, x) \cup {least})
        BY <1>5, <3>2, <4>1
      <4>. QED
        BY <4>1, <4>2, NewRowsFewer
    <3>. QED
      BY <3>1, <3>2
  <2>. QED
    BY <1>1, <1>2, <1>6, <2>1, WrittenTouched DEF least
<1>7. CASE r.part # Whole /\ g # r.part
  <2>1. b[g] = e.basis[g]
    BY <1>3, <1>7 DEF GoesBack
  <2>2. NewRows(val, g, x, Facts(val, g, x) \cup {least})
    BY <1>5, <1>7, <2>1
  <2> DEFINE changes == own.changes
  <2>3. Len(changes) \in Nat /\ Kept(changes) /\ m = Replayed(BaseOf(val, a, r), a, changes)
    BY <1>1
  <2>. HIDE DEF changes
  <2>4. NewRows(m.value, g, x, Facts(m.value, g, x) \cup {least})
    BY <1>1, <1>7, <2>2, <2>3, WrittenUntouched
  <2>. QED
    BY <2>4 DEF least
<1>. QED
  BY <1>6, <1>7

LEMMA WrittenSane ==
    ASSUME NEW val, NEW a, NEW r, NEW n, NEW own, NEW t, NEW e, Merging(val, a, r, n, own, t, e),
           NEW m, m = Replayed(BaseOf(val, a, r), a, own.changes), m.safe,
           NEW u, Sane(u, {r}, e), u.source = n + 1, u.held = t.held,
           NEW v, v = [u EXCEPT !.val = m.value],
           NEW f, Beside(e, f), IsServer(f),
           GoesBack(f.basis, e.basis, val, r)
    PROVE  Sane(v, {r}, f)
<1>1. /\ DOMAIN v = TabFields
      /\ v.serial = u.serial /\ v.perm = u.perm /\ v.source = u.source
      /\ v.deletion = u.deletion /\ v.failed = u.failed /\ v.attempted = u.attempted
      /\ v.affected = u.affected /\ v.error = u.error /\ v.records = u.records
      /\ v.held = u.held /\ v.writes = u.writes /\ v.jobs = u.jobs /\ v.reads = u.reads
      /\ v.val = m.value
  BY DEF Sane, IsTab, TabFields
<1>2. Reading(val, a, r, n) /\ Kept(own.changes) /\ Len(own.changes) \in Nat
  BY DEF Merging
<1>3. SafeCounts(m.value) /\ Fine(m.value) /\ Bounded(m.value, n + 1) /\ m.value # NoVal
  BY <1>2, WrittenFine, ValNotNoVal DEF Fine, Sound
<1>4. ReadsOk(u, f) /\ Keyed(u, {r}, f) /\ HeldOk(u, f) /\ JobsOk(u, f) /\ WritesOk(u, f)
  BY BesideSane
<1>5. \A k : FormOk(k, u, f) => FormOk(k, v, f)
  BY <1>1, <1>3 DEF FormOk
<1>6. \A k : LiveOk(k, u, f) => LiveOk(k, v, f)
  BY <1>1 DEF LiveOk
<1>7. ReadsOk(v, f) /\ Keyed(v, {r}, f)
  BY <1>1, <1>4, <1>5, <1>6 DEF ReadsOk, ReadOk, Keyed
<1>8. HeldOk(v, f) /\ JobsOk(v, f)
  BY <1>1, <1>4 DEF HeldOk, JobsOk
<1>9. WritesOk(v, f)
  BY <1>1, <1>4 DEF WritesOk, WriteOk
<1>10. IsTab(v) /\ Scalars(v)
  BY <1>1 DEF Sane, IsTab, Scalars
<1>11. ASSUME NEW g \in Groups, NEW x \in Ids, InOrder(f, x)
       PROVE  /\ \A row \in GroupOf(v.val, g).rows : row.id = x => v.held[x].k # "gone"
              /\ \/ f.basis[g].unmarked
                 \/ NewRows(v.val, g, x, Facts(v.val, g, x) \cup {f.mine[x]})
  <2>1. InOrder(e, x) /\ f.mine = e.mine
    BY <1>11 DEF InOrder, Beside
  <2>2. ASSUME NEW row \in GroupOf(m.value, g).rows, row.id = x
        PROVE  t.held[x].k # "gone"
    BY <2>1, <2>2, MergingThere
  <2>3. ASSUME ~f.basis[g].unmarked
        PROVE  NewRows(m.value, g, x, Facts(m.value, g, x) \cup {e.mine[x]})
    BY <2>1, <2>3, MergingNew
  <2>. QED
    BY <1>1, <2>1, <2>2, <2>3
<1>12. ValueOk(v, f)
  BY <1>1, <1>3, <1>11 DEF ValueOk
<1>. QED
  BY <1>7, <1>8, <1>9, <1>10, <1>12 DEF Sane

\* An answer that may be written, and what it is merged into.
LEMMA AnswerMerging ==
    ASSUME NEW e, Sane(tab, {}, e), NEW r \in tab.reads, r.phase = "served", r.live,
           NEW t, t = Taken(r), NEW a, a = Reconciled(t, r, Decode(tab, r))
    PROVE  /\ Merging(t.val, a, r, t.source, Own(t, r), t, e)
           /\ IsRead(r) /\ Own(t, r) \in t.reads /\ Tame(r, Own(t, r))
           /\ MadeOn(t, r, a) = Replayed(BaseOf(t.val, a, r), a, Own(t, r).changes)
<1> DEFINE own == Own(t, r)
<1>1. Reading(t.val, a, r, t.source)
  BY AnswerReads
<1>2. Sane(t, {}, e) /\ Succeeded(tab, t)
  BY TakenSane
<1>3. own \in t.reads /\ Tame(r, own) /\ own.live
  BY <1>2, OwnIs
<1>4. MadeOn(t, r, a) = Replayed(BaseOf(t.val, a, r), a, own.changes)
  BY DEF MadeOn, BaseOf
<1>. HIDE DEF own
<1>5. LiveOk(own, t, e) /\ IsRead(own) /\ own.phase = "served" /\ own.snap = r.snap
  BY <1>2, <1>3 DEF Sane, ReadsOk, ReadOk, Tame, IsTab
<1>6. Len(own.changes) \in Nat
  BY <1>5 DEF IsRead, IsList
<1>7. Kept(own.changes)
  BY <1>5 DEF LiveOk
<1>8. Merging(t.val, a, r, t.source, own, t, e)
  BY <1>1, <1>2, <1>5, <1>6, <1>7 DEF Merging
<1>9. IsRead(r)
  BY DEF Sane, IsTab
<1>. QED
  BY <1>3, <1>4, <1>8, <1>9 DEF own

\* An answer that is written.
LEMMA PublishedSane ==
    ASSUME SaneInv, NEW r \in tab.reads, r.phase = "served", r.live,
           NEW t, t = Taken(r), NEW a, a = Reconciled(t, r, Decode(tab, r)),
           NEW u, u = Without(t, r), NEW m, m = MadeOn(t, r, a), m.safe,
           NEW unsure, basis' = Answers(u, r, unsure), UNCHANGED <<issues, clock, mine>>
    PROVE  Sane(Rounded(Drain(Require([u EXCEPT !.val = m.value], m.verify), r)), {}, Now')
<1> DEFINE e == Now
           f == Now'
           own == Own(t, r)
           v == [u EXCEPT !.val = m.value]
<1>1. Sane(tab, {}, e)
  BY DEF SaneInv
<1>2. Beside(e, f) /\ e.basis = basis /\ f.basis = basis'
  BY DEF Beside, Now
<1>. HIDE DEF e, f
<1>3. /\ Merging(t.val, a, r, t.source, own, t, e)
      /\ IsRead(r) /\ own \in t.reads /\ Tame(r, own)
      /\ m = Replayed(BaseOf(t.val, a, r), a, own.changes)
  BY <1>1, AnswerMerging
<1>4. Sane(t, {}, e)
  BY <1>3 DEF Merging
<1>5. Sane(u, {r}, e) /\ u.source = t.source + 1 /\ u.val = t.val /\ u.held = t.held
  BY <1>3, <1>4, WithoutSane
<1>6. FormOk(r, tab, e)
  BY <1>1 DEF Sane, ReadsOk, ReadOk
<1>7. IsServer(e)
  BY <1>1 DEF Sane
<1>8. r.part \in Parts /\ r.first \in BOOLEAN
  BY <1>6 DEF FormOk
<1>9. IsAccount(basis)
  BY <1>2, <1>7 DEF IsServer, IsAccount
<1>10. IsAccount(basis') /\ GoesBack(basis', basis, u.val, r)
  BY <1>8, <1>9, AnswersBasis
<1>11. IsServer(f)
  BY <1>2, <1>7, <1>10 DEF IsServer, IsAccount, Beside
<1>12. GoesBack(f.basis, e.basis, t.val, r)
  BY <1>2, <1>5, <1>10
<1>13. Reading(t.val, a, r, t.source) /\ Kept(own.changes) /\ Len(own.changes) \in Nat
  BY <1>3 DEF Merging
<1>. HIDE DEF own
<1>14. v = [u EXCEPT !.val = m.value]
  OBVIOUS
<1>. HIDE DEF v
<1>15. Sane(v, {r}, f)
  BY <1>2, <1>3, <1>5, <1>11, <1>12, <1>14, WrittenSane
<1>16. m.verify \subseteq Ids
  BY <1>3, <1>13, WrittenFine
<1>17. Sane(Require(v, m.verify), {r}, f)
  BY <1>15, <1>16, RequireSane
<1>18. Sane(Drain(Require(v, m.verify), r), {}, f)
  BY <1>17, DrainSane
<1>19. Sane(Rounded(Drain(Require(v, m.verify), r)), {}, f)
  BY <1>18, RoundedSane
<1>. QED
  BY <1>19 DEF v, f

\* An answer that throws.
LEMMA RefusedSane ==
    ASSUME NEW e, Sane(tab, {}, e), NEW r \in tab.reads, r.phase = "served", r.live,
           NEW t, t = Taken(r), NEW a, a = Reconciled(t, r, Decode(tab, r)),
           NEW u, u = Without(t, r), NEW m, m = MadeOn(t, r, a)
    PROVE  Sane(Rounded(EndRead(Fail(Require(u, m.verify), {r}, ReadError), r, ReadError)), {}, e)
<1> DEFINE own == Own(t, r)
           required == Require(u, m.verify)
           rs == {r}
<1>1. /\ Merging(t.val, a, r, t.source, own, t, e)
      /\ IsRead(r) /\ own \in t.reads /\ Tame(r, own)
      /\ m = Replayed(BaseOf(t.val, a, r), a, own.changes)
  BY AnswerMerging
<1>2. Sane(t, {}, e)
  BY <1>1 DEF Merging
<1>3. Sane(u, {r}, e)
  BY <1>1, <1>2, WithoutSane
<1>4. Reading(t.val, a, r, t.source) /\ Kept(own.changes) /\ Len(own.changes) \in Nat
  BY <1>1 DEF Merging
<1>. HIDE DEF own
<1>5. m.verify \subseteq Ids
  BY <1>1, <1>4, WrittenFine
<1>6. Sane(u, {}, e)
  BY <1>3, SaneLess
<1>7. Sane(required, {}, e)
  BY <1>5, <1>6, RequireSane
<1>8. \A x \in rs : x.part \in Parts
  BY DEF Sane, ReadsOk, ReadOk, FormOk
<1>. HIDE DEF required, rs
<1>9. Sane(Fail(required, rs, ReadError), {}, e)
  BY <1>7, <1>8, FailSane
<1>10. Sane(EndRead(Fail(required, rs, ReadError), r, ReadError), {}, e)
  BY <1>9, EndReadSane
<1>11. Sane(Rounded(EndRead(Fail(required, rs, ReadError), r, ReadError)), {}, e)
  BY <1>10, RoundedSane
<1>. QED
  BY <1>11 DEF required, rs

LEMMA NowSame ==
    ASSUME UNCHANGED <<issues, clock, mine, basis>>
    PROVE  Now' = Now
BY DEF Now

LEMMA ReadAnswerSane == ASSUME SaneInv, NEW r \in tab.reads, ReadAnswer(r) PROVE SaneInv'
<1> DEFINE t == Taken(r)
           a == Reconciled(t, r, Decode(tab, r))
           u == Without(t, r)
           m == MadeOn(t, r, a)
<1>1. r.phase = "served" /\ r.live /\ UNCHANGED <<issues, clock, mine>> /\ Publish(u, r, m)
  BY DEF ReadAnswer
<1>. HIDE DEF t, a, u, m
<1>2. t = Taken(r) /\ a = Reconciled(t, r, Decode(tab, r)) /\ u = Without(t, r) /\ m = MadeOn(t, r, a)
  BY DEF t, a, u, m
<1>3. CASE m.safe
  <2>1. PICK unsure : /\ basis' = Answers(u, r, unsure)
                      /\ tab' = Rounded(Drain(Require([u EXCEPT !.val = m.value], m.verify), r))
    BY <1>1, <1>3 DEF Publish
  <2>2. Sane(Rounded(Drain(Require([u EXCEPT !.val = m.value], m.verify), r)), {}, Now')
    BY <1>1, <1>2, <1>3, <2>1, PublishedSane
  <2>3. Sane(tab', {}, Now')
    BY <2>1, <2>2
  <2>. QED
    BY <2>3 DEF SaneInv
<1>4. CASE ~m.safe
  <2>1. /\ tab' = Rounded(EndRead(Fail(Require(u, m.verify), {r}, ReadError), r, ReadError))
        /\ UNCHANGED basis
    BY <1>1, <1>4 DEF Publish
  <2>2. Now' = Now
    BY <1>1, <2>1, NowSame
  <2>3. Sane(tab, {}, Now)
    BY DEF SaneInv
  <2>4. Sane(Rounded(EndRead(Fail(Require(u, m.verify), {r}, ReadError), r, ReadError)), {}, Now)
    BY <1>1, <1>2, <2>3, RefusedSane
  <2>5. Sane(tab', {}, Now')
    BY <2>1, <2>2, <2>4
  <2>. QED
    BY <2>5 DEF SaneInv
<1>. QED
  BY <1>3, <1>4

-----------------------------------------------------------------------------
(* The steps *)

LEMMA SaneNow ==
    ASSUME UNCHANGED <<issues, clock, mine, basis>>, Sane(tab', {}, Now)
    PROVE  SaneInv'
BY NowSame DEF SaneInv

LEMMA FetchFirstSane == ASSUME SaneInv, FetchFirst PROVE SaneInv'
<1>1. UNCHANGED <<issues, clock, mine, basis>> /\ tab' = SendWhole(tab, 0)
  BY DEF FetchFirst
<1>2. Sane(SendWhole(tab, 0), {}, Now)
  BY SendWholeSane DEF SaneInv
<1>. QED
  BY <1>1, <1>2, SaneNow

LEMMA FetchNextSane == ASSUME SaneInv, NEW g \in Groups, FetchNext(g) PROVE SaneInv'
<1> DEFINE r == Asked(tab, g, FALSE, "merge", 0)
           sent == {r}
<1>1. /\ UNCHANGED <<issues, clock, mine, basis>> /\ tab' = Send(tab, sent)
      /\ tab.val # NoVal
  BY DEF FetchNext, Shown
<1>2. Sendable(r, tab)
  <2>1. g \in Parts /\ g # Whole
    BY MarksAssumption DEF Parts
  <2>. QED
    BY <1>1, <2>1, AskedSendable
<1>. HIDE DEF r
<1>3. (\A x \in sent : Sendable(x, tab)) /\ (\A x, y \in sent : x.part = y.part => x = y)
  BY <1>2
<1>. HIDE DEF sent
<1>4. Sane(Send(tab, sent), {}, Now)
  BY <1>3, SendSane DEF SaneInv
<1>. QED
  BY <1>1, <1>4, SaneNow

LEMMA LookSane == ASSUME SaneInv, Look PROVE SaneInv'
<1> DEFINE e == Now
           attempted == (tab.attempted \cap StaleGroups(tab)) \cup Unread
           looked == [tab EXCEPT !.attempted = attempted]
           sent == {Asked(tab, g, TRUE, "merge", 0) : g \in Unread}
<1>1. /\ tab' = IF Unread = {} THEN looked ELSE Send(looked, sent)
      /\ UNCHANGED <<issues, clock, mine, basis>>
  BY DEF Look
<1>2. Sane(tab, {}, e)
  BY DEF SaneInv
<1>3. StaleGroups(tab) \subseteq Groups /\ Unread \subseteq StaleGroups(tab)
  <2>1. Shown(tab) => IsValue(tab.val)
    BY <1>2 DEF Sane, ValueOk, Shown, Fine, Sound
  <2>. QED
    BY <2>1 DEF StaleGroups, Unread, IsValue, IsGroups, KnownGroups
<1>4. Unread # {} => tab.val # NoVal
  BY <1>3 DEF StaleGroups, Shown
<1>5. attempted \subseteq Groups
  BY <1>3
<1>. HIDE DEF e, attempted
<1>6. /\ Quiets(tab, looked) /\ JobsOk(looked, e) /\ looked.reads \subseteq tab.reads
      /\ looked.serial = tab.serial /\ looked.perm = tab.perm /\ looked.val = tab.val
  BY <1>2, <1>5 DEF Quiets, Sane, Scalars, JobsOk, IsTab, TabFields
<1>. HIDE DEF looked
<1>7. Sane(looked, {}, e)
  BY <1>2, <1>6, QuietSame
<1>8. ASSUME NEW g \in Unread
      PROVE  Sendable(Asked(tab, g, TRUE, "merge", 0), tab)
             /\ Asked(tab, g, TRUE, "merge", 0).part = g
  <2>1. g \in Parts /\ TRUE \in BOOLEAN /\ tab.val # NoVal
    BY <1>3, <1>4 DEF Parts
  <2>. QED
    BY <2>1, AskedSendable
<1>9. (\A x \in sent : Sendable(x, looked)) /\ (\A x, y \in sent : x.part = y.part => x = y)
  <2>1. \A x : Sendable(x, tab) => Sendable(x, looked)
    BY <1>6 DEF Sendable
  <2>. QED
    BY <1>8, <2>1
<1>. HIDE DEF sent
<1>10. Sane(Send(looked, sent), {}, e)
  BY <1>7, <1>9, SendSane
<1>. QED
  BY <1>1, <1>7, <1>10, SaneNow DEF e

LEMMA ReadCountsNotSane == ASSUME SaneInv, NEW r \in tab.reads, ReadCountsNot(r) PROVE SaneInv'
<1> DEFINE rs == {r}
<1>1. /\ tab' = Rounded(EndRead(Drop(tab, rs), r, NoError))
      /\ UNCHANGED <<issues, clock, mine, basis>>
  BY DEF ReadCountsNot
<1>. HIDE DEF rs
<1>2. Sane(Drop(tab, rs), {}, Now)
  BY DropSane DEF SaneInv
<1>3. Sane(EndRead(Drop(tab, rs), r, NoError), {}, Now)
  BY <1>2, EndReadSane
<1>4. Sane(Rounded(EndRead(Drop(tab, rs), r, NoError)), {}, Now)
  BY <1>3, RoundedSane
<1>. QED
  BY <1>1, <1>4, SaneNow

LEMMA FailReadSane == ASSUME SaneInv, NEW r \in tab.reads, FailRead(r) PROVE SaneInv'
<1> DEFINE rs == {r}
           t == Drop(tab, rs)
           failed == Fail(t, rs, ReadError)
           u == IF r.live THEN EndRead(failed, r, ReadError) ELSE EndRead(t, r, NoError)
<1>1. tab' = Rounded(u) /\ UNCHANGED <<issues, clock, mine, basis>>
  BY DEF FailRead
<1>2. \A x \in rs : x.part \in Parts
  BY DEF SaneInv, Sane, ReadsOk, ReadOk, FormOk
<1>. HIDE DEF rs
<1>3. Sane(t, {}, Now)
  BY DropSane DEF SaneInv
<1>. HIDE DEF t
<1>4. Sane(failed, {}, Now)
  BY <1>2, <1>3, FailSane
<1>. HIDE DEF failed
<1>5. Sane(EndRead(failed, r, ReadError), {}, Now) /\ Sane(EndRead(t, r, NoError), {}, Now)
  BY <1>3, <1>4, EndReadSane
<1>6. Sane(u, {}, Now)
  BY <1>5
<1>. HIDE DEF u
<1>7. Sane(Rounded(u), {}, Now)
  BY <1>6, RoundedSane
<1>. QED
  BY <1>1, <1>7, SaneNow

LEMMA ReadOverdueSane == ASSUME SaneInv, NEW r \in tab.reads, ReadOverdue(r) PROVE SaneInv'
<1> DEFINE t == Taken(r)
           u == Without(t, r)
<1>1. /\ tab' = Rounded(EndRead(u, r, NoError))
      /\ UNCHANGED <<issues, clock, mine, basis>>
  BY DEF ReadOverdue
<1>2. Sane(t, {}, Now) /\ Succeeded(tab, t)
  BY TakenSane DEF SaneInv
<1>3. IsRead(r)
  BY DEF SaneInv, Sane, IsTab
<1>. HIDE DEF t
<1>4. Own(t, r) \in t.reads /\ Tame(r, Own(t, r))
  BY <1>2, OwnIs
<1>5. u = Without(t, r)
  OBVIOUS
<1>. HIDE DEF u
<1>6. Sane(u, {r}, Now)
  BY <1>2, <1>3, <1>4, <1>5, WithoutSane
<1>7. Sane(u, {}, Now)
  BY <1>6, SaneLess
<1>8. Sane(EndRead(u, r, NoError), {}, Now)
  BY <1>7, EndReadSane
<1>9. Sane(Rounded(EndRead(u, r, NoError)), {}, Now)
  BY <1>8, RoundedSane
<1>. QED
  BY <1>1, <1>9, SaneNow

\* A read is served: its answer has what is there, and all that was told.
LEMMA ServedOk ==
    ASSUME NEW t, NEW e, Sane(t, {}, e), NEW r \in t.reads, r.phase = "asked",
           NEW s, IsRead(s), s.part = r.part, s.token = r.token, s.perm = r.perm, s.first = r.first,
           s.how = r.how, s.live = r.live, s.changes = r.changes, s.phase = "served",
           s.snap = e.issues
    PROVE  ReadOk(s, t, e)
<1>1. ReadOk(r, t, e)
  BY DEF Sane, ReadsOk
<1>2. \A x \in Ids : Seen(e, x, s.snap[x].at, s.snap[x].ver)
  BY DEF Sane, IsServer, Seen
<1>3. FormOk(s, t, e)
  BY <1>1, <1>2 DEF ReadOk, FormOk
<1>4. ASSUME r.live
      PROVE  LiveOk(s, t, e)
  <2>1. LiveOk(r, t, e)
    BY <1>1, <1>4 DEF ReadOk
  <2>2. \A x \in Ids : e.mine[x] <= e.issues[x].ver
    BY DEF Sane, IsServer
  <2>3. \A x \in Ids : t.held[x].k = "gone" => e.issues[x].at = Gone
    BY DEF Sane, HeldOk
  <2>. QED
    BY <2>1, <2>2, <2>3 DEF LiveOk
<1>. QED
  BY <1>3, <1>4 DEF ReadOk

LEMMA ServeReadSane == ASSUME SaneInv, NEW r \in tab.reads, ServeRead(r) PROVE SaneInv'
<1> DEFINE s == [r EXCEPT !.phase = "served", !.snap = issues, !.others = others]
           u == [tab EXCEPT !.reads = (@ \ {r}) \cup {s}]
           e == Now
<1>1. tab' = u /\ UNCHANGED <<issues, clock, mine, basis>> /\ r.phase = "asked"
  BY DEF ServeRead
<1>2. Sane(tab, {}, e) /\ e.issues = issues
  BY DEF SaneInv, Now
<1>. HIDE DEF e
<1>3. IsRead(r) /\ Versions(issues)
  BY <1>2 DEF Sane, IsTab, IsServer, Versions
<1>4. /\ IsRead(s) /\ s.part = r.part /\ s.token = r.token /\ s.perm = r.perm /\ s.first = r.first
      /\ s.how = r.how /\ s.live = r.live /\ s.changes = r.changes /\ s.phase = "served"
      /\ s.snap = e.issues
  BY <1>2, <1>3 DEF IsRead, ReadFields
<1>. HIDE DEF s
<1>5. /\ DOMAIN u = TabFields
      /\ u.serial = tab.serial /\ u.perm = tab.perm /\ u.source = tab.source
      /\ u.deletion = tab.deletion /\ u.failed = tab.failed /\ u.attempted = tab.attempted
      /\ u.affected = tab.affected /\ u.error = tab.error /\ u.records = tab.records
      /\ u.held = tab.held /\ u.writes = tab.writes /\ u.jobs = tab.jobs /\ u.val = tab.val
      /\ u.reads = (tab.reads \ {r}) \cup {s}
  BY <1>2 DEF Sane, IsTab, TabFields
<1>. HIDE DEF u
<1>6. ReadOk(s, tab, e)
  BY <1>1, <1>2, <1>4, ServedOk
<1>7. \A x : ReadOk(x, tab, e) => ReadOk(x, u, e)
  <2>1. \A x : FormOk(x, tab, e) => FormOk(x, u, e)
    BY <1>5 DEF FormOk
  <2>2. \A x : LiveOk(x, tab, e) => LiveOk(x, u, e)
    BY <1>5 DEF LiveOk
  <2>. QED
    BY <2>1, <2>2 DEF ReadOk
<1>8. ReadsOk(u, e)
  BY <1>2, <1>5, <1>6, <1>7 DEF Sane, ReadsOk
<1>9. Keyed(u, {}, e)
  <2>1. \A p, q \in tab.reads : p.part = q.part /\ p.token = q.token => p = q
    BY <1>2 DEF Sane, Keyed
  <2>. QED
    BY <1>4, <1>5, <2>1 DEF Keyed
<1>10. IsTab(u) /\ Scalars(u)
  BY <1>2, <1>4, <1>5 DEF Sane, IsTab, Scalars
<1>11. HeldOk(u, e) /\ JobsOk(u, e) /\ ValueOk(u, e)
  BY <1>2, <1>5 DEF Sane, HeldOk, JobsOk, ValueOk
<1>12. WritesOk(u, e)
  BY <1>2, <1>5 DEF Sane, WritesOk, WriteOk
<1>13. Sane(u, {}, e)
  BY <1>2, <1>8, <1>9, <1>10, <1>11, <1>12 DEF Sane
<1>. QED
  BY <1>1, <1>13, SaneNow DEF e

LEMMA ServeJobSane == ASSUME SaneInv, NEW id \in Ids, ServeJob(id) PROVE SaneInv'
<1> DEFINE e == Now
           j == tab.jobs[id]
           job == [j EXCEPT !.phase = "served", !.answer = issues[id]]
           u == [tab EXCEPT !.jobs[id] = job]
<1>1. Sane(tab, {}, e) /\ e.issues = issues
  BY DEF SaneInv, Now
<1>. HIDE DEF e
<1>2. tab' = u /\ UNCHANGED <<issues, clock, mine, basis>>
  BY <1>1 DEF ServeJob, Sane, IsTab, TabFields
<1>3. IsJob(j) /\ Versions(issues)
  BY <1>1 DEF Sane, IsTab, IsServer, Versions
<1>4. IsJob(job) /\ job.answer = issues[id]
  BY <1>3 DEF IsJob, JobFields, Versions
<1>5. Seen(e, id, issues[id].at, issues[id].ver)
  BY <1>1 DEF Sane, IsServer, Seen
<1>. HIDE DEF job, j
<1>6. Quiets(tab, u) /\ u.reads \subseteq tab.reads
  BY <1>1, <1>4 DEF Quiets, Sane, Scalars, IsTab, TabFields
<1>7. JobsOk(u, e)
  <2>1. \A x \in Ids : u.jobs[x] = IF x = id THEN job ELSE tab.jobs[x]
    BY <1>1 DEF Sane, IsTab, TabFields
  <2>. HIDE DEF u
  <2>. QED
    BY <1>1, <1>4, <1>5, <2>1 DEF Sane, JobsOk
<1>. HIDE DEF u
<1>8. Sane(u, {}, e)
  BY <1>1, <1>6, <1>7, QuietSame
<1>. QED
  BY <1>2, <1>8, SaneNow DEF e

\* An error is shown.
LEMMA ErrorSane ==
    ASSUME NEW t, NEW K, NEW e, Sane(t, K, e), NEW id \in Ids, NEW u, u = [t EXCEPT !.error = id]
    PROVE  Sane(u, K, e)
<1>1. Quiets(t, u) /\ JobsOk(u, e) /\ u.reads \subseteq t.reads
  BY DEF Quiets, Sane, Scalars, JobsOk, IsTab, TabFields
<1>. QED
  BY <1>1, QuietSame

LEMMA FailJobSane == ASSUME SaneInv, NEW id \in Ids, FailJob(id) PROVE SaneInv'
<1> DEFINE job == tab.jobs[id]
           ended == Ended(tab, id, "error")
           shown == [ended EXCEPT !.error = id]
           refused == MarkDoubted(shown, {id})
           u == IF IsReadCurrent(tab, job.perm, job.token) THEN EndJob(refused, id, id)
                ELSE EndJob(tab, id, NoError)
<1>1. tab' = Rounded(u) /\ UNCHANGED <<issues, clock, mine, basis>>
  BY DEF FailJob
<1>2. Sane(tab, {}, Now)
  BY DEF SaneInv
<1>3. "error" \in Statuses
  BY DEF Statuses
<1>4. Sane(ended, {}, Now)
  BY <1>2, <1>3, EndedSane
<1>. HIDE DEF ended
<1>5. Sane(shown, {}, Now)
  BY <1>4, ErrorSane
<1>. HIDE DEF shown
<1>6. Sane(refused, {}, Now)
  BY <1>5, MarkDoubtedSane
<1>. HIDE DEF refused
<1>7. Sane(EndJob(refused, id, id), {}, Now) /\ Sane(EndJob(tab, id, NoError), {}, Now)
  BY <1>2, <1>6, EndJobSane
<1>8. Sane(u, {}, Now)
  BY <1>7
<1>. HIDE DEF u
<1>9. Sane(Rounded(u), {}, Now)
  BY <1>8, RoundedSane
<1>. QED
  BY <1>1, <1>9, SaneNow

\* An issue is asked for once more, or left open.
LEMMA AskedAgainSane ==
    ASSUME NEW t, NEW e, Sane(t, {}, e), NEW id \in Ids, NEW j, IsJob(j),
           NEW u, u = [t EXCEPT !.serial = @ + 1,
                         !.jobs[id] = [j EXCEPT !.phase = "asked", !.again = TRUE,
                                                !.token = t.serial + 1, !.answer = Unknown]]
    PROVE  Sane(u, {}, e)
<1> DEFINE job == [j EXCEPT !.phase = "asked", !.again = TRUE, !.token = t.serial + 1,
                            !.answer = Unknown]
<1>1. IsJob(job) /\ job.phase = "asked"
  BY DEF IsJob, JobFields, Unknown
<1>2. u = [t EXCEPT !.serial = @ + 1, !.jobs[id] = job]
  OBVIOUS
<1>. HIDE DEF job
<1>3. /\ DOMAIN u = TabFields
      /\ u.serial = t.serial + 1 /\ u.perm = t.perm /\ u.source = t.source
      /\ u.deletion = t.deletion /\ u.failed = t.failed /\ u.attempted = t.attempted
      /\ u.affected = t.affected /\ u.error = t.error /\ u.records = t.records
      /\ u.held = t.held /\ u.writes = t.writes /\ u.val = t.val /\ u.reads = t.reads
      /\ u.jobs = [t.jobs EXCEPT ![id] = job]
  BY <1>2 DEF Sane, IsTab, TabFields
<1>4. IsTab(u)
  BY <1>1, <1>3 DEF Sane, IsTab
<1>5. Quiets(t, u) /\ u.reads \subseteq t.reads
  BY <1>3, <1>4 DEF Quiets, Sane, Scalars
<1>6. JobsOk(u, e)
  <2>1. \A x \in Ids : u.jobs[x] = IF x = id THEN job ELSE t.jobs[x]
    BY <1>3 DEF Sane, IsTab
  <2>. QED
    BY <1>1, <2>1 DEF Sane, JobsOk
<1>. QED
  BY <1>6, <1>5, QuietSame

LEMMA LeftOpenSane ==
    ASSUME NEW t, NEW e, Sane(t, {}, e), NEW id \in Ids,
           NEW u, u = [t EXCEPT !.records[id].status = "unconfirmed", !.error = id]
    PROVE  Sane(u, {}, e)
<1> DEFINE record == [t.records[id] EXCEPT !.status = "unconfirmed"]
<1>1. IsRecord(record)
  BY DEF Sane, Scalars, IsRecord, Statuses
<1>2. u = [t EXCEPT !.records[id] = record, !.error = id]
  BY DEF Sane, IsTab, TabFields
<1>. HIDE DEF record
<1>3. /\ DOMAIN u = TabFields
      /\ u.serial = t.serial /\ u.perm = t.perm /\ u.source = t.source
      /\ u.deletion = t.deletion /\ u.failed = t.failed /\ u.attempted = t.attempted
      /\ u.affected = t.affected /\ u.error = id /\ u.records = [t.records EXCEPT ![id] = record]
      /\ u.held = t.held /\ u.writes = t.writes /\ u.val = t.val /\ u.reads = t.reads
      /\ u.jobs = t.jobs
  BY <1>2 DEF Sane, IsTab, TabFields
<1>4. DOMAIN u.records = Ids /\ \A x \in Ids : IsRecord(u.records[x])
  BY <1>1, <1>3 DEF Sane, Scalars
<1>5. Quiets(t, u) /\ JobsOk(u, e) /\ u.reads \subseteq t.reads
  BY <1>3, <1>4 DEF Quiets, Sane, Scalars, JobsOk, IsTab
<1>. QED
  BY <1>5, QuietSame

\* An issue that is there is taken in.
LEMMA JobTakenSane ==
    ASSUME NEW t, NEW e, Sane(t, {}, e), NEW id \in Ids, t.jobs[id].phase = "served",
           t.jobs[id].answer.at # Unmade, NEW token
    PROVE  Sane(AcceptRead(t, {id}, [NoSnap EXCEPT ![id] = t.jobs[id].answer], token, TRUE), {}, e)
<1> DEFINE snap == [NoSnap EXCEPT ![id] = t.jobs[id].answer]
           ids == {id}
           yes == TRUE
           none == {}
<1>1. Versions(snap)
  BY DEF Versions, NoSnap, Sane, IsTab, IsJob
<1>2. snap[id] = t.jobs[id].answer
  BY DEF NoSnap
<1>3. Seen(e, id, t.jobs[id].answer.at, t.jobs[id].answer.ver)
  BY DEF Sane, JobsOk
<1>. HIDE DEF snap
<1>4. /\ ids \subseteq Ids /\ yes \in BOOLEAN
      /\ \A x \in ids : Seen(e, x, snap[x].at, snap[x].ver) /\ snap[x].at # Unmade
  BY <1>2, <1>3
<1>5. Sane(t, none, e)
  OBVIOUS
<1>. HIDE DEF ids, yes, none
<1>6. Sane(AcceptRead(t, ids, snap, token, yes), none, e)
  BY <1>1, <1>4, <1>5, AcceptReadSane
<1>. QED
  BY <1>6 DEF ids, snap, yes, none

LEMMA JobAnswerSane == ASSUME SaneInv, NEW id \in Ids, JobAnswer(id) PROVE SaneInv'
<1> DEFINE job == tab.jobs[id]
           ended == Ended(tab, id, "missing")
           missing == MarkDoubted(ended, {id})
           read == AcceptRead(tab, {id}, [NoSnap EXCEPT ![id] = job.answer], job.token, TRUE)
           asked == [read EXCEPT !.serial = @ + 1,
                       !.jobs[id] = [job EXCEPT !.phase = "asked", !.again = TRUE,
                                                !.token = read.serial + 1, !.answer = Unknown]]
           again == MarkDoubted(asked, {id})
           unsure == [read EXCEPT !.records[id].status = "unconfirmed", !.error = id]
           open == MarkDoubted(unsure, {id})
           there == job.answer.at \notin {Gone, Unmade}
<1>1. /\ \/ tab' = Rounded(EndJob(tab, id, NoError))
         \/ tab' = Rounded(Refresh(missing, id))
         \/ there /\ tab' = Rounded(Refresh(read, id))
         \/ there /\ tab' = Rounded(again)
         \/ there /\ tab' = Rounded(EndJob(open, id, NoError))
      /\ UNCHANGED <<issues, clock, mine, basis>> /\ job.phase = "served"
  BY DEF JobAnswer
<1>2. Sane(tab, {}, Now)
  BY DEF SaneInv
<1>3. IsJob(job)
  BY <1>2 DEF Sane, IsTab
<1>4. there => Sane(read, {}, Now)
  BY <1>1, <1>2, JobTakenSane
<1>5. "missing" \in Statuses
  BY DEF Statuses
<1>. HIDE DEF read, there
<1>6. there => Sane(asked, {}, Now) /\ Sane(unsure, {}, Now)
  <2>1. there => Sane(asked, {}, Now)
    BY <1>3, <1>4, AskedAgainSane
  <2>2. there => Sane(unsure, {}, Now)
    BY <1>4, LeftOpenSane
  <2>. QED
    BY <2>1, <2>2
<1>7. Sane(missing, {}, Now)
  BY <1>2, <1>5, EndedSane, MarkDoubtedSane
<1>. HIDE DEF job, missing, asked, unsure
<1>8. there => Sane(again, {}, Now) /\ Sane(open, {}, Now)
  BY <1>6, MarkDoubtedSane
<1>. HIDE DEF again, open
<1>9. /\ Sane(EndJob(tab, id, NoError), {}, Now)
      /\ Sane(Refresh(missing, id), {}, Now)
      /\ there => Sane(Refresh(read, id), {}, Now)
      /\ there => Sane(EndJob(open, id, NoError), {}, Now)
  <2>1. NoError \in {NoError, ReadError} \cup Ids
    OBVIOUS
  <2>. QED
    BY <1>2, <1>4, <1>7, <1>8, <2>1, EndJobSane, RefreshSane
<1>10. Sane(tab', {}, Now)
  BY <1>1, <1>8, <1>9, RoundedSane
<1>. QED
  BY <1>1, <1>10, SaneNow

LEMMA RegainSane == ASSUME SaneInv, Regain PROVE SaneInv'
<1>1. tab' = [tab EXCEPT !.can = TRUE] /\ UNCHANGED <<issues, clock, mine, basis>>
  BY DEF Regain
<1>2. Sane(tab, {}, Now)
  BY DEF SaneInv
<1>3. Quiets(tab, tab') /\ JobsOk(tab', Now) /\ tab'.reads \subseteq tab.reads
  BY <1>1, <1>2 DEF Quiets, Sane, Scalars, JobsOk, IsTab, TabFields
<1>4. Sane(tab', {}, Now)
  BY <1>2, <1>3, QuietSame
<1>. QED
  BY <1>1, <1>4, SaneNow

\* Under another role no read may write.
LEMMA ChangeRoleSane == ASSUME SaneInv, NEW can, ChangeRole(can) PROVE SaneInv'
<1> DEFINE e == Now
           t == Invalidate(tab)
           f == [r \in t.reads |-> [r EXCEPT !.owns = FALSE]]
           u == tab'
<1>1. /\ u = [t EXCEPT !.can = can, !.perm = @ + 1, !.hidden = TRUE, !.error = NoError,
                       !.failed = {}, !.reads = {[r EXCEPT !.owns = FALSE] : r \in @}]
      /\ UNCHANGED <<issues, clock, mine, basis>>
  BY DEF ChangeRole
<1>2. Sane(t, {}, e) /\ \A r \in t.reads : ~r.live
  BY InvalidateSane DEF SaneInv
<1>. HIDE DEF e, t
<1>3. /\ DOMAIN u = TabFields
      /\ u.serial = t.serial /\ u.perm = t.perm + 1 /\ u.source = t.source
      /\ u.deletion = t.deletion /\ u.failed = {} /\ u.attempted = t.attempted
      /\ u.affected = t.affected /\ u.error = NoError /\ u.records = t.records
      /\ u.held = t.held /\ u.writes = t.writes /\ u.jobs = t.jobs /\ u.val = t.val
      /\ u.reads = {[r EXCEPT !.owns = FALSE] : r \in t.reads}
  BY <1>1, <1>2 DEF Sane, IsTab, TabFields
<1>4. \A r \in t.reads : IsRead(r) /\ ~r.live
  BY <1>2 DEF Sane, IsTab
<1>5. \A r \in t.reads : IsRead(f[r]) /\ Tame(r, f[r])
  BY <1>4 DEF IsRead, ReadFields, Tame
<1>6. u.reads = {f[r] : r \in t.reads}
  BY <1>3
<1>. HIDE DEF f, u
<1>7. Followed(t, u, f)
  BY <1>5, <1>6 DEF Followed
<1>8. Steady(t, u)
  BY <1>2, <1>3 DEF Steady, Sane, Scalars
<1>9. ReadsOk(u, e) /\ Keyed(u, {}, e)
  BY <1>2, <1>7, <1>8, FollowedReads DEF Sane
<1>10. IsTab(u)
  BY <1>2, <1>3, <1>5, <1>6 DEF Sane, IsTab
<1>11. Scalars(u)
  BY <1>2, <1>3 DEF Sane, Scalars
<1>12. HeldOk(u, e)
  <2>1. 0..t.perm \subseteq 0..u.perm
    BY <1>2, <1>3 DEF Sane, Scalars
  <2>2. ASSUME NEW x \in Ids
        PROVE  u.held[x] \in [k : {"none", "held", "gone"}, at : Places, ver : 0..e.clock,
                              full : BOOLEAN, perm : 0..u.perm]
    BY <1>2, <1>3, <2>1 DEF Sane, HeldOk
  <2>. QED
    BY <1>2, <1>3, <2>2 DEF Sane, HeldOk
<1>13. JobsOk(u, e) /\ ValueOk(u, e)
  BY <1>2, <1>3 DEF Sane, JobsOk, ValueOk
<1>14. WritesOk(u, e)
  BY <1>2, <1>3 DEF Sane, WritesOk, WriteOk
<1>15. Sane(u, {}, e)
  BY <1>2, <1>9, <1>10, <1>11, <1>12, <1>13, <1>14 DEF Sane
<1>. QED
  BY <1>1, <1>15, SaneNow DEF e, u

\* Only the changes that are out are others.
LEMMA OtherWritesSane ==
    ASSUME NEW t, NEW K, NEW e, Sane(t, K, e), NEW W, \A w \in W : IsWrite(w),
           NEW u, u = [t EXCEPT !.writes = W], WritesOk(u, e)
    PROVE  Sane(u, K, e)
<1>1. /\ DOMAIN u = TabFields
      /\ u.serial = t.serial /\ u.perm = t.perm /\ u.source = t.source
      /\ u.deletion = t.deletion /\ u.failed = t.failed /\ u.attempted = t.attempted
      /\ u.affected = t.affected /\ u.error = t.error /\ u.records = t.records
      /\ u.held = t.held /\ u.writes = W /\ u.jobs = t.jobs /\ u.val = t.val /\ u.reads = t.reads
  BY DEF Sane, IsTab, TabFields
<1>2. IsTab(u) /\ Scalars(u)
  BY <1>1 DEF Sane, IsTab, Scalars
<1>3. HeldOk(u, e) /\ JobsOk(u, e) /\ ValueOk(u, e)
  BY <1>1 DEF Sane, HeldOk, JobsOk, ValueOk
<1>4. \A r : FormOk(r, t, e) => FormOk(r, u, e)
  BY <1>1 DEF FormOk
<1>5. \A r : LiveOk(r, t, e) => LiveOk(r, u, e)
  BY <1>1 DEF LiveOk
<1>6. ReadsOk(u, e) /\ Keyed(u, K, e)
  BY <1>1, <1>4, <1>5 DEF Sane, ReadsOk, ReadOk, Keyed
<1>. QED
  BY <1>2, <1>3, <1>6 DEF Sane

LEMMA FewerWritesSane ==
    ASSUME NEW t, NEW K, NEW e, Sane(t, K, e), NEW W, W \subseteq t.writes,
           NEW u, u = [t EXCEPT !.writes = W]
    PROVE  Sane(u, K, e)
<1>1. u.writes = W /\ u.held = t.held
  BY DEF Sane, IsTab, TabFields
<1>2. \A w : WriteOk(w, t, e) => WriteOk(w, u, e)
  BY <1>1 DEF WriteOk
<1>3. WritesOk(u, e)
  BY <1>1, <1>2 DEF Sane, WritesOk
<1>4. \A w \in W : IsWrite(w)
  BY DEF Sane, IsTab
<1>. QED
  BY <1>3, <1>4, OtherWritesSane

\* One change is over, or goes on as another one that is not served.
LEMMA NextWriteSane ==
    ASSUME NEW t, NEW e, Sane(t, {}, e), NEW w \in t.writes, NEW v, IsWrite(v), v.id = w.id,
           v.issue = w.issue, v.kind = w.kind, v.to = w.to, v.phase # "served",
           \/ w.phase # "queued"
           \/ \A x \in t.writes \ {w} : x.id # w.id,
           NEW u, u = [t EXCEPT !.writes = (@ \ {w}) \cup {v}]
    PROVE  Sane(u, {}, e)
<1> DEFINE W == (t.writes \ {w}) \cup {v}
<1>1. u = [t EXCEPT !.writes = W]
  OBVIOUS
<1>2. u.writes = W /\ u.held = t.held
  BY <1>1 DEF Sane, IsTab, TabFields
<1>3. \A x \in W : IsWrite(x)
  BY DEF Sane, IsTab
<1>4. \A x \in t.writes : WriteOk(x, t, e)
  BY DEF Sane, WritesOk
<1>5. \A x : WriteOk(x, t, e) => WriteOk(x, u, e)
  BY <1>2 DEF WriteOk
<1>6. WriteOk(v, t, e)
  BY <1>4 DEF WriteOk
<1>7. \A x \in W : WriteOk(x, u, e)
  BY <1>4, <1>5, <1>6
<1>8. \A p, q \in W : p.id = q.id /\ p.id # 0 /\ p.phase # "queued" /\ q.phase # "queued" => p = q
  BY DEF Sane, WritesOk
<1>9. \A p, q \in W : p.kind = "creates" /\ q.kind = "moves" /\ p.phase = "served"
                      /\ q.phase = "served" /\ p.issue = q.issue => p.after.ver <= q.after.ver
  BY DEF Sane, WritesOk
<1>. HIDE DEF W
<1>10. WritesOk(u, e)
  BY <1>2, <1>7, <1>8, <1>9 DEF WritesOk
<1>. QED
  BY <1>1, <1>3, <1>10, OtherWritesSane

\* A change that is asked for, of an issue that is there.
LEMMA AskSane ==
    ASSUME SaneInv, NEW id, NEW kind, NEW to, Ask(id, kind, to), kind \in {"creates", "moves", "deletes"},
           kind # "creates" => id \in Ids, kind = "creates" => id = 0 /\ to \in Groups,
           kind = "moves" => to \in Groups \cup {Out}, kind = "deletes" => to = Gone
    PROVE  SaneInv'
<1> DEFINE e == Now
           w == NewWrite(id, kind, to)
           waits == \E x \in tab.writes : id # 0 /\ x.id = id
           v == IF waits THEN w ELSE Sent(w)
           W == tab.writes \cup {v}
<1>1. /\ tab' = [tab EXCEPT !.writes = W] /\ UNCHANGED <<issues, clock, mine, basis>>
      /\ id # 0 => Visible(tab, id)
  BY DEF Ask
<1>2. Sane(tab, {}, e)
  BY DEF SaneInv
<1>. HIDE DEF e
<1>3. IsWrite(w) /\ w.id = id /\ w.issue = id /\ w.kind = kind /\ w.to = to /\ w.phase = "queued"
  BY DEF NewWrite, IsWrite, WriteFields, Absent
<1>. HIDE DEF w
<1>4. /\ IsWrite(v) /\ v.id = id /\ v.issue = id /\ v.kind = kind /\ v.to = to
      /\ v.phase = IF waits THEN "queued" ELSE "sent"
  <2>1. Sent(w).id = w.id /\ Sent(w).issue = w.issue /\ Sent(w).kind = w.kind /\ Sent(w).to = w.to
        /\ Sent(w).phase = "sent" /\ IsWrite(Sent(w))
    BY <1>3, SentIsWrite DEF Sent, IsWrite, WriteFields
  <2>. QED
    BY <1>3, <2>1
<1>. HIDE DEF v
<1>5. id \in Ids => e.issues[id].at # Unmade
  <2>1. id \in Ids => id # 0
    BY IssueListsAssumption
  <2>. QED
    BY <1>1, <1>2, <2>1 DEF Visible, Sane, HeldOk
<1>6. WriteOk(v, tab, e)
  <2>1. v.phase # "served"
    BY <1>4
  <2>. QED
    BY <1>4, <1>5, <2>1 DEF WriteOk
<1>7. \A x \in W : IsWrite(x)
  BY <1>2, <1>4 DEF Sane, IsTab
<1>8. tab'.writes = W /\ tab'.held = tab.held
  BY <1>1, <1>2 DEF Sane, IsTab, TabFields
<1>9. \A x \in W : WriteOk(x, tab', e)
  <2>1. \A x : WriteOk(x, tab, e) => WriteOk(x, tab', e)
    BY <1>8 DEF WriteOk
  <2>. QED
    BY <1>2, <1>6, <2>1 DEF Sane, WritesOk
<1>10. \A p, q \in W : p.id = q.id /\ p.id # 0 /\ p.phase # "queued" /\ q.phase # "queued" => p = q
  BY <1>2, <1>4 DEF Sane, WritesOk
<1>11. \A p, q \in W : p.kind = "creates" /\ q.kind = "moves" /\ p.phase = "served"
                      /\ q.phase = "served" /\ p.issue = q.issue => p.after.ver <= q.after.ver
  BY <1>2, <1>4 DEF Sane, WritesOk
<1>. HIDE DEF W
<1>12. WritesOk(tab', e)
  BY <1>8, <1>9, <1>10, <1>11 DEF WritesOk
<1>13. Sane(tab', {}, e)
  BY <1>1, <1>2, <1>7, <1>12, OtherWritesSane
<1>. QED
  BY <1>1, <1>13, SaneNow DEF e

LEMMA AsksSane == ASSUME SaneInv, Move \/ Create \/ Delete PROVE SaneInv'
<1>1. CASE Move
  <2>1. PICK id \in Ids, to \in Groups \cup {Out} : Ask(id, "moves", to)
    BY <1>1 DEF Move
  <2>. QED
    BY <2>1, AskSane
<1>2. CASE Create
  <2>1. PICK to \in Groups : Ask(0, "creates", to)
    BY <1>2 DEF Create
  <2>. QED
    BY <2>1, AskSane
<1>3. CASE Delete
  <2>1. PICK id \in Ids : Ask(id, "deletes", Gone)
    BY <1>3 DEF Delete
  <2>. QED
    BY <2>1, AskSane
<1>. QED
  BY <1>1, <1>2, <1>3

LEMMA BeginSane == ASSUME SaneInv, NEW w \in tab.writes, Begin(w) PROVE SaneInv'
<1> DEFINE e == Now
           W == tab.writes \ {w}
           t == [tab EXCEPT !.writes = W]
           v == Sent(w)
           u == [tab EXCEPT !.writes = (@ \ {w}) \cup {v}]
<1>1. Sane(tab, {}, e)
  BY DEF SaneInv
<1>. HIDE DEF e
<1>2. /\ tab' = t \/ tab' = [t EXCEPT !.writes = @ \cup {v}]
      /\ UNCHANGED <<issues, clock, mine, basis>>
      /\ w.phase = "queued" /\ \A x \in tab.writes \ {w} : x.id # w.id
  BY DEF Begin
<1>3. [t EXCEPT !.writes = @ \cup {v}] = u
  BY <1>1 DEF Sane, IsTab, TabFields
<1>4. IsWrite(w)
  BY <1>1 DEF Sane, IsTab
<1>5. v.id = w.id /\ v.issue = w.issue /\ v.kind = w.kind /\ v.to = w.to /\ v.phase = "sent"
      /\ IsWrite(v)
  BY <1>4, SentIsWrite DEF Sent, IsWrite, WriteFields
<1>. HIDE DEF v
<1>6. v.phase # "served"
  BY <1>5
<1>7. Sane(t, {}, e)
  BY <1>1, FewerWritesSane
<1>8. Sane(u, {}, e)
  BY <1>1, <1>2, <1>5, <1>6, NextWriteSane
<1>9. Sane(tab', {}, e)
  BY <1>2, <1>3, <1>7, <1>8
<1>. QED
  BY <1>2, <1>9, SaneNow DEF e

\* A change is over, or its answer does not come, or does not count.
LEMMA DroppedSane ==
    ASSUME SaneInv, NEW w, tab' = [tab EXCEPT !.writes = @ \ {w}],
           UNCHANGED <<issues, clock, mine, basis>>
    PROVE  SaneInv'
<1> DEFINE W == tab.writes \ {w}
<1>1. tab' = [tab EXCEPT !.writes = W] /\ W \subseteq tab.writes
  OBVIOUS
<1>. HIDE DEF W
<1>2. Sane(tab', {}, Now)
  BY <1>1, FewerWritesSane DEF SaneInv
<1>. QED
  BY <1>2, SaneNow

LEMMA ClearedSane ==
    ASSUME NEW e, Sane(tab, {}, e), NEW w
    PROVE  Sane(Cleared(w), {}, e) /\ (w.after.k = "absent" => \A r \in Cleared(w).reads : ~r.live)
BY RemovedSane DEF Cleared

LEMMA AnswerThrowsSane == ASSUME SaneInv, NEW w \in tab.writes, AnswerThrows(w) PROVE SaneInv'
<1> DEFINE t == Cleared(w)
           W == t.writes \ {w}
<1>1. tab' = [t EXCEPT !.writes = W] /\ W \subseteq t.writes
      /\ UNCHANGED <<issues, clock, mine, basis>>
  BY DEF AnswerThrows
<1>2. Sane(t, {}, Now)
  BY ClearedSane DEF SaneInv
<1>. HIDE DEF t, W
<1>3. Sane(tab', {}, Now)
  BY <1>1, <1>2, FewerWritesSane
<1>. QED
  BY <1>1, <1>3, SaneNow

-----------------------------------------------------------------------------
(* What is not of the tab goes on                                            *)

\* Versions go up, and what is made or gone stays so.
Later(e, f) ==
    /\ f.mine = e.mine /\ f.basis = e.basis /\ f.clock >= e.clock
    /\ \A x \in Ids : /\ f.issues[x].ver >= e.issues[x].ver
                      /\ e.issues[x].at # Unmade => f.issues[x].at # Unmade
                      /\ e.issues[x].at = Gone => f.issues[x].at = Gone

LEMMA LaterOk ==
    ASSUME NEW t, NEW K, NEW e, NEW f, Sane(t, K, e), Later(e, f), IsServer(f)
    PROVE  /\ HeldOk(t, f) /\ JobsOk(t, f) /\ ReadsOk(t, f) /\ Keyed(t, K, f) /\ ValueOk(t, f)
           /\ \A w : WriteOk(w, t, e) => WriteOk(w, t, f)
<1>1. /\ \A x \in Ids : e.issues[x].ver \in Nat /\ f.issues[x].ver \in Nat
      /\ e.clock \in Nat /\ f.clock \in Nat
  BY DEF Sane, IsServer
<1>2. \A x \in Ids : 0..e.issues[x].ver \subseteq 0..f.issues[x].ver
  BY <1>1 DEF Later
<1>3. \A x \in Ids : \A at, ver : Seen(e, x, at, ver) => Seen(f, x, at, ver)
  BY <1>2 DEF Seen, Later
<1>4. f.mine = e.mine /\ f.basis = e.basis
  BY DEF Later
<1>5. \A x : InOrder(f, x) <=> InOrder(e, x)
  BY <1>4 DEF InOrder
<1>6. \A r : FormOk(r, t, e) => FormOk(r, t, f)
  BY <1>3 DEF FormOk
<1>7. \A r : LiveOk(r, t, e) => LiveOk(r, t, f)
  BY <1>4, <1>5 DEF LiveOk
<1>8. ReadsOk(t, f) /\ Keyed(t, K, f)
  BY <1>6, <1>7 DEF Sane, ReadsOk, ReadOk, Keyed
<1>9. HeldOk(t, f)
  <2>1. 0..e.clock \subseteq 0..f.clock
    BY <1>1 DEF Later
  <2>2. ASSUME NEW x \in Ids
        PROVE  t.held[x] \in [k : {"none", "held", "gone"}, at : Places, ver : 0..f.clock,
                              full : BOOLEAN, perm : 0..t.perm]
    BY <2>1 DEF Sane, HeldOk
  <2>3. \A x \in Ids : /\ t.held[x].k # "none" => f.issues[x].at # Unmade
                       /\ t.held[x].k = "gone" => f.issues[x].at = Gone
    BY DEF Sane, HeldOk, Later
  <2>. QED
    BY <2>2, <2>3 DEF HeldOk
<1>10. JobsOk(t, f)
  BY <1>3 DEF Sane, JobsOk
<1>11. ValueOk(t, f)
  BY <1>4, <1>5 DEF Sane, ValueOk
<1>12. ASSUME NEW w, WriteOk(w, t, e)
       PROVE  WriteOk(w, t, f)
  <2>1. \A x \in Ids : /\ e.issues[x].at # Unmade => f.issues[x].at # Unmade
                       /\ e.issues[x].at = Gone => f.issues[x].at = Gone
    BY DEF Later
  <2>. QED
    BY <1>2, <1>4, <1>5, <1>12, <2>1 DEF WriteOk
<1>. QED
  BY <1>8, <1>9, <1>10, <1>11, <1>12

LEMMA LaterSane ==
    ASSUME NEW t, NEW K, NEW e, NEW f, Sane(t, K, e), Later(e, f), IsServer(f)
    PROVE  Sane(t, K, f)
<1>1. WritesOk(t, f)
  BY LaterOk DEF Sane, WritesOk
<1>. QED
  BY <1>1, LaterOk DEF Sane

\* An issue gets a place and the next version.
LEMMA StepsLater ==
    ASSUME NEW t, NEW K, Sane(t, K, Now), NEW id \in Ids, NEW to \in Groups \cup {Out, Gone},
           issues[id].at # Gone,
           issues' = [issues EXCEPT ![id] = [at |-> to, ver |-> clock + 1]], clock' = clock + 1,
           UNCHANGED <<mine, basis>>
    PROVE  Later(Now, Now') /\ IsServer(Now')
<1> DEFINE e == Now
           f == Now'
           new == [at |-> to, ver |-> clock + 1]
<1>1. /\ e.issues = issues /\ e.clock = clock /\ e.mine = mine /\ e.basis = basis
      /\ f.issues = issues' /\ f.clock = clock' /\ f.mine = mine /\ f.basis = basis
  BY DEF Now
<1>2. IsServer(e)
  BY DEF Sane
<1>. HIDE DEF e, f
<1>3. /\ clock \in Nat /\ issues \in [Ids -> [at : Places, ver : 0..clock]]
      /\ DOMAIN mine = Ids /\ \A x \in Ids : mine[x] \in -1..issues[x].ver
  BY <1>1, <1>2 DEF IsServer
<1>4. to \in Places /\ to # Unmade
  BY MarksAssumption DEF Places, Unmade, Out, Gone
<1>5. 0..clock \subseteq 0..clock' /\ clock + 1 \in 0..clock' /\ clock' \in Nat
  BY <1>3
<1>6. new \in [at : Places, ver : 0..clock']
  BY <1>4, <1>5
<1>7. [at : Places, ver : 0..clock] \subseteq [at : Places, ver : 0..clock']
  BY <1>5
<1>8. new.ver = clock + 1 /\ new.at = to
  OBVIOUS
<1>9. issues' = [issues EXCEPT ![id] = new]
  OBVIOUS
<1>. HIDE DEF new
<1>10. issues' \in [Ids -> [at : Places, ver : 0..clock']]
  BY <1>3, <1>6, <1>7, <1>9
<1>11. \A x \in Ids : issues[x].ver \in 0..clock
  BY <1>3
<1>12. \A x \in Ids : issues'[x] = IF x = id THEN new ELSE issues[x]
  BY <1>3, <1>9
<1>13. \A x \in Ids : issues'[x].ver >= issues[x].ver
  BY <1>3, <1>8, <1>11, <1>12
<1>14. \A x \in Ids : mine[x] \in -1..issues'[x].ver
  <2>1. \A x \in Ids : issues'[x].ver \in Nat
    BY <1>5, <1>10
  <2>. QED
    BY <1>3, <1>11, <1>13, <2>1
<1>15. IsServer(f)
  BY <1>1, <1>2, <1>3, <1>5, <1>10, <1>14 DEF IsServer
<1>16. Later(e, f)
  <2>1. \A x \in Ids : /\ issues[x].at # Unmade => issues'[x].at # Unmade
                       /\ issues[x].at = Gone => issues'[x].at = Gone
    BY <1>4, <1>8, <1>12
  <2>2. clock' >= clock
    BY <1>3
  <2>. QED
    BY <1>1, <1>13, <2>1, <2>2 DEF Later
<1>. QED
  BY <1>15, <1>16 DEF e, f

LEMMA OthersSane ==
    ASSUME SaneInv, NEW id \in Ids, NEW to \in Groups \cup {Out, Gone}, Others(id, to)
    PROVE  SaneInv'
<1>1. /\ issues[id].at # Gone /\ issues' = [issues EXCEPT ![id] = [at |-> to, ver |-> clock + 1]]
      /\ clock' = clock + 1 /\ UNCHANGED <<mine, basis>> /\ tab' = tab
  BY DEF Others
<1>2. Sane(tab, {}, Now)
  BY DEF SaneInv
<1>3. Later(Now, Now') /\ IsServer(Now')
  BY <1>1, <1>2, StepsLater
<1>4. Sane(tab', {}, Now')
  BY <1>1, <1>2, <1>3, LaterSane
<1>. QED
  BY <1>4 DEF SaneInv

\* A change is made: its answer has the issue as it is now.
LEMMA MadeSane ==
    ASSUME SaneInv, NEW w \in tab.writes, w.phase = "sent", NEW id \in Ids,
           NEW now \in Outcomes(w, id), Makes(w, id, now), UNCHANGED <<mine, basis>>
    PROVE  SaneInv'
<1> DEFINE e == Now
           f == Now'
           t == tab
           after == IF w.to = Gone THEN Absent ELSE Issue(w.to, now.ver)
           s == Served(w, id, now)
           W == (tab.writes \ {w}) \cup {s}
<1>1. Sane(t, {}, e) /\ WriteOk(w, t, e) /\ IsWrite(w)
  BY DEF SaneInv, Sane, WritesOk, IsTab
<1>2. w.to \in Groups \cup {Out, Gone} /\ w.kind \in {"creates", "moves", "deletes"}
  BY <1>1 DEF WriteOk
<1>3. /\ issues[id].at # Gone
      /\ IF w.kind = "creates" THEN issues[id].at = Unmade ELSE id = w.id
      /\ issues' = [issues EXCEPT ![id] = now] /\ tab' = [tab EXCEPT !.writes = W]
      /\ clock' = IF now.ver > clock THEN now.ver ELSE clock
  BY DEF Makes, Gone, Unmade
<1>4. /\ e.issues = issues /\ e.clock = clock /\ e.mine = mine /\ e.basis = basis
      /\ f.issues = issues' /\ f.clock = clock' /\ f.mine = mine /\ f.basis = basis
  BY DEF Now
<1>5. /\ clock \in Nat /\ issues \in [Ids -> [at : Places, ver : 0..clock]]
      /\ \A x \in Ids : mine[x] \in -1..issues[x].ver
  BY <1>1, <1>4 DEF Sane, IsServer
<1>6. now.at = w.to /\ now.ver \in Nat /\ mine[id] <= now.ver /\ issues[id].ver <= now.ver
  <2>1. issues[id].ver \in 0..clock /\ mine[id] \in -1..issues[id].ver
    BY <1>5
  <2>2. CASE now = [at |-> w.to, ver |-> clock + 1]
    BY <1>5, <2>1, <2>2
  <2>3. CASE now = issues[id] /\ now.at = w.to
    BY <1>5, <2>1, <2>3
  <2>. QED
    BY <2>2, <2>3 DEF Outcomes
<1>7. Later(e, f) /\ IsServer(f)
  <2>1. CASE now = [at |-> w.to, ver |-> clock + 1]
    <3>1. clock' = clock + 1
      BY <1>3, <1>5, <2>1
    <3>. QED
      BY <1>1, <1>2, <1>3, <2>1, <3>1, StepsLater
  <2>2. CASE now = issues[id]
    <3>1. issues[id].ver \in 0..clock
      BY <1>5
    <3>2. issues' = issues /\ clock' = clock
      BY <1>3, <1>5, <2>2, <3>1
    <3>3. f.issues = e.issues /\ f.clock = e.clock /\ f.mine = e.mine /\ f.basis = e.basis
      BY <1>4, <3>2
    <3>4. \A x \in Ids : e.issues[x].ver >= e.issues[x].ver
      BY <1>4, <1>5
    <3>. QED
      BY <1>1, <1>4, <1>5, <3>3, <3>4 DEF Later, Sane, IsServer
  <2>. QED
    BY <2>1, <2>2 DEF Outcomes
<1>. HIDE DEF e, f, t
<1>8. after.ver \in Nat /\ (w.kind # "deletes" => after = Issue(w.to, now.ver))
      /\ (w.kind = "deletes" => after = Absent)
  <2>1. w.kind # "deletes" => w.to # Gone
    BY <1>1, <1>2, MarksAssumption DEF WriteOk, Gone, Out
  <2>2. w.kind = "deletes" => w.to = Gone
    BY <1>1 DEF WriteOk
  <2>. QED
    BY <1>2, <1>6, <2>1, <2>2 DEF Issue, Absent
<1>. HIDE DEF after
<1>9. /\ IsWrite(s) /\ s.id = w.id /\ s.kind = w.kind /\ s.to = w.to /\ s.phase = "served"
      /\ s.issue = id /\ s.after = after
  BY <1>1, <1>8 DEF IsWrite, WriteFields, Served, after
<1>. HIDE DEF s
<1>10. \A x : WriteOk(x, t, e) => WriteOk(x, t, f)
  BY <1>1, <1>7, LaterOk
<1>11. WriteOk(s, t, f)
  <2>1. f.issues[id].at = w.to /\ f.issues[id].ver = now.ver /\ now.ver \in 0..now.ver
    BY <1>3, <1>4, <1>5, <1>6
  <2>2. w.to # Unmade
    BY <1>2, MarksAssumption DEF Out, Gone, Unmade
  <2>3. /\ w.kind # "creates" => w.id \in Ids /\ w.id = id
        /\ w.kind = "creates" => w.id = 0 /\ w.to \in Groups
        /\ w.kind = "moves" => w.to \in Groups \cup {Out}
        /\ w.kind = "deletes" => w.to = Gone
    BY <1>1, <1>3 DEF WriteOk
  <2>4. w.kind # "deletes" => /\ after.k = "known" /\ after.at \in Groups \cup {Out}
                              /\ after.ver \in 0..f.issues[id].ver /\ after.ver = now.ver
    BY <1>2, <1>8, <2>1, <2>3 DEF Issue
  <2>5. f.mine[id] <= now.ver /\ t.held[id].k # "gone"
    <3>1. t.held[id].k = "gone" => e.issues[id].at = Gone
      BY <1>1 DEF Sane, HeldOk
    <3>. QED
      BY <1>3, <1>4, <1>6, <3>1
  <2>6. /\ s.kind = "deletes" => s.after = Absent /\ f.issues[s.issue].at = Gone
        /\ s.kind # "deletes" => /\ s.after.k = "known" /\ s.after.at \in Groups \cup {Out}
                                 /\ s.after.ver \in 0..f.issues[s.issue].ver
        /\ s.kind = "moves" => f.mine[s.issue] <= s.after.ver /\ t.held[s.issue].k # "gone"
    BY <1>2, <1>8, <1>9, <2>1, <2>3, <2>4, <2>5
  <2>7. f.issues[s.issue].at # Unmade /\ s.issue \in Ids
    BY <1>9, <2>1, <2>2
  <2>. QED
    BY <1>2, <1>9, <2>3, <2>6, <2>7 DEF WriteOk
<1>12. \A x \in W : IsWrite(x)
  BY <1>1, <1>9 DEF Sane, IsTab, t
<1>13. tab'.writes = W /\ tab'.held = t.held
  BY <1>1, <1>3 DEF Sane, IsTab, TabFields, t
<1>14. \A x \in W : WriteOk(x, tab', f)
  <2>1. \A x : WriteOk(x, t, f) => WriteOk(x, tab', f)
    BY <1>13 DEF WriteOk
  <2>2. \A x \in tab.writes : WriteOk(x, t, e)
    BY <1>1 DEF Sane, WritesOk, t
  <2>. QED
    BY <1>10, <1>11, <2>1, <2>2
<1>15. \A p, q \in W : p.id = q.id /\ p.id # 0 /\ p.phase # "queued" /\ q.phase # "queued" => p = q
  <2>1. \A p, q \in tab.writes :
           p.id = q.id /\ p.id # 0 /\ p.phase # "queued" /\ q.phase # "queued" => p = q
    BY <1>1 DEF Sane, WritesOk, t
  <2>2. w.phase # "queued" /\ s.phase # "queued" /\ s.id = w.id
    BY <1>9
  <2>3. ASSUME NEW p \in W, NEW q \in W, p.id = q.id, p.id # 0, p.phase # "queued",
               q.phase # "queued"
        PROVE  p = q
    <3>1. CASE p # s /\ q # s
      <4>1. p \in tab.writes /\ q \in tab.writes
        BY <3>1
      <4>. QED
        BY <2>1, <2>3, <4>1
    <3>2. CASE p = s /\ q # s
      <4>1. q \in tab.writes /\ q # w /\ q.id = w.id /\ w.id # 0
        BY <2>2, <2>3, <3>2
      <4>. QED
        BY <2>1, <2>2, <2>3, <4>1
    <3>3. CASE p # s /\ q = s
      <4>1. p \in tab.writes /\ p # w /\ p.id = w.id /\ w.id # 0
        BY <2>2, <2>3, <3>3
      <4>. QED
        BY <2>1, <2>2, <2>3, <4>1
    <3>. QED
      BY <3>1, <3>2, <3>3
  <2>. QED
    BY <2>3
<1>16. ASSUME NEW p \in W, NEW q \in W, p.kind = "creates", q.kind = "moves", p.phase = "served",
              q.phase = "served", p.issue = q.issue
       PROVE  p.after.ver <= q.after.ver
  <2>1. \A x \in tab.writes : WriteOk(x, t, e)
    BY <1>1 DEF Sane, WritesOk, t
  <2>2. CASE p # s /\ q # s
    <3>1. p \in tab.writes /\ q \in tab.writes
      BY <1>16, <2>2
    <3>. QED
      BY <1>1, <1>16, <3>1 DEF Sane, WritesOk, t
  <2>3. CASE p = s /\ q # s
    <3>1. q \in tab.writes /\ q.issue = id
      BY <1>9, <1>16, <2>3
    <3>2. issues[id].at = Unmade
      BY <1>3, <1>9, <1>16, <2>3
    <3>3. WriteOk(q, t, e)
      BY <2>1, <3>1
    <3>4. q.id = id /\ e.issues[q.id].at # Unmade
      BY <1>16, <3>1, <3>3 DEF WriteOk
    <3>. QED
      BY <1>4, <3>2, <3>4
  <2>4. CASE p # s /\ q = s
    <3>1. p \in tab.writes /\ p.issue = id
      BY <1>9, <1>16, <2>4
    <3>2. WriteOk(p, t, e)
      BY <2>1, <3>1
    <3>3. p.after.ver \in 0..issues[id].ver
      BY <1>4, <1>16, <3>1, <3>2 DEF WriteOk
    <3>4. q.after.ver = now.ver
      BY <1>8, <1>9, <1>16, <2>4 DEF Issue
    <3>5. issues[id].ver \in 0..clock
      BY <1>5
    <3>. QED
      BY <1>6, <3>3, <3>4, <3>5
  <2>5. CASE p = s /\ q = s
    BY <1>16, <2>5
  <2>. QED
    BY <2>2, <2>3, <2>4, <2>5
<1>17. WritesOk(tab', f)
  BY <1>13, <1>14, <1>15, <1>16 DEF WritesOk
<1>18. Sane(t, {}, f)
  BY <1>1, <1>7, LaterSane
<1>19. Sane(tab', {}, f)
  BY <1>3, <1>12, <1>17, <1>18, OtherWritesSane DEF t
<1>. QED
  BY <1>19 DEF SaneInv, f

LEMMA ServeWriteSane == ASSUME SaneInv, NEW w \in tab.writes, ServeWrite(w) PROVE SaneInv'
<1>1. ASSUME NEW id \in Ids, NEW now \in Outcomes(w, id), Makes(w, id, now)
      PROVE  SaneInv'
  BY <1>1, MadeSane, ServeWriteMakes
<1>. QED
  BY <1>1, ServeWriteMakes, DroppedSane

-----------------------------------------------------------------------------
(* What the tab is told of its own changes                                   *)

\* One more change is confirmed.
OneMore(changes, more, c, id) ==
    /\ \A x : x # id => Confirms(more, x, Len(more)) = Confirms(changes, x, Len(changes))
    /\ \A x : x # id => Told(more, x, Len(more)) = Told(changes, x, Len(changes))
    /\ Confirms(more, id, Len(more)) = Confirms(changes, id, Len(changes)) \cup {Len(changes) + 1}
    /\ Told(more, id, Len(more)) = Told(changes, id, Len(changes)) \cup {c.change.after.ver}
    /\ \A x : \A i \in Confirms(changes, x, Len(changes)) : more[i] = changes[i] /\ i \in 1..Len(changes)
    /\ more[Len(changes) + 1] = c /\ Len(changes) \in Nat
    /\ Kept(changes) => Kept(more)

LEMMA ConfirmAppended ==
    ASSUME NEW changes, IsList(changes), NEW c, IsConfirm(c), NEW more, more = Append(changes, c),
           NEW id, id = c.change.id
    PROVE  OneMore(changes, more, c, id)
<1>1. /\ Len(changes) \in Nat /\ Len(more) = Len(changes) + 1
      /\ \A i \in 1..Len(changes) : more[i] = changes[i]
      /\ more[Len(changes) + 1] = c
  BY Appended
<1>2. c.type = "confirm"
  BY DEF IsConfirm
<1>3. ASSUME NEW i \in 1..Len(more)
      PROVE  \/ i \in 1..Len(changes) /\ more[i] = changes[i]
             \/ i = Len(changes) + 1 /\ more[i] = c
  BY <1>1
<1>4. /\ \A x : x # id => Confirms(more, x, Len(more)) = Confirms(changes, x, Len(changes))
      /\ Confirms(more, id, Len(more)) = Confirms(changes, id, Len(changes)) \cup {Len(changes) + 1}
  <2>1. 1..Len(more) = 1..Len(changes) \cup {Len(changes) + 1}
    BY <1>1
  <2>2. Len(changes) + 1 \notin 1..Len(changes)
    BY <1>1
  <2>. QED
    BY <1>1, <1>2, <2>1, <2>2 DEF Confirms
<1>5. ASSUME NEW x, NEW i \in Confirms(changes, x, Len(changes))
      PROVE  more[i] = changes[i] /\ i \in 1..Len(changes)
  BY <1>1 DEF Confirms
<1>6. ASSUME NEW x
      PROVE  {more[i].change.after.ver : i \in Confirms(changes, x, Len(changes))}
             = Told(changes, x, Len(changes))
  <2> DEFINE S == Confirms(changes, x, Len(changes))
  <2>1. \A i \in S : more[i] = changes[i]
    BY <1>5
  <2>. HIDE DEF S
  <2>2. {more[i].change.after.ver : i \in S} = {changes[i].change.after.ver : i \in S}
    BY <2>1
  <2>. QED
    BY <2>2 DEF Told, S
<1>7. ASSUME NEW x, x # id
      PROVE  Told(more, x, Len(more)) = Told(changes, x, Len(changes))
  BY <1>4, <1>6, <1>7 DEF Told
<1>8. Told(more, id, Len(more)) = Told(changes, id, Len(changes)) \cup {c.change.after.ver}
  <2> DEFINE S == Confirms(changes, id, Len(changes))
             n == Len(changes) + 1
  <2>1. Told(more, id, Len(more)) = {more[i].change.after.ver : i \in S \cup {n}}
    BY <1>4 DEF Told
  <2>2. {more[i].change.after.ver : i \in S} = Told(changes, id, Len(changes)) /\ more[n] = c
    BY <1>1, <1>6
  <2>. HIDE DEF S, n
  <2>3. {more[i].change.after.ver : i \in S \cup {n}}
        = {more[i].change.after.ver : i \in S} \cup {more[n].change.after.ver}
    OBVIOUS
  <2>. QED
    BY <2>1, <2>2, <2>3
<1>9. Kept(changes) => Kept(more)
  BY <1>3 DEF Kept
<1>. QED
  BY <1>1, <1>4, <1>5, <1>9, <1>7, <1>8 DEF OneMore

\* Of one issue another change was told, in order or not.
Tells(t, u, e, f, id, ver) ==
    /\ f.issues = e.issues /\ f.clock = e.clock
    /\ \A g \in Groups : f.basis[g].unmarked <=> e.basis[g].unmarked
    /\ \A x \in Ids : x # id => f.mine[x] = e.mine[x] /\ u.held[x] = t.held[x]
    /\ InOrder(f, id) => InOrder(e, id) /\ f.mine[id] = ver

\* It was not overtaken: the issue is there.
Onward(t, u, e, f, id, ver) ==
    /\ u.held[id].k = "gone" => t.held[id].k = "gone"
    /\ InOrder(f, id) => e.mine[id] <= ver /\ u.held[id].k # "gone"

\* A change that is told is the last one kept for the reads.
LEMMA ToldLive ==
    ASSUME NEW t, NEW u, NEW e, NEW f, NEW id \in Ids, NEW ver \in Nat, Tells(t, u, e, f, id, ver),
           Onward(t, u, e, f, id, ver), IsServer(e),
           NEW r, LiveOk(r, t, e), IsList(r.changes), NEW c, IsConfirm(c), c.change.id = id,
           c.change.after.ver = ver,
           NEW s, s.changes = Append(r.changes, c), s.snap = r.snap, s.phase = r.phase
    PROVE  LiveOk(s, u, f)
<1> DEFINE old == r.changes
           new == s.changes
<1>1. OneMore(old, new, c, id)
  <2>1. new = Append(old, c) /\ IsList(old) /\ id = c.change.id
    OBVIOUS
  <2>. HIDE DEF new, old
  <2>. QED
    BY <2>1, ConfirmAppended
<1>2. /\ Kept(old)
      /\ \A x \in Ids :
            InOrder(e, x) =>
               /\ Line(old, x, e.mine[x])
               /\ Confirms(old, x, Len(old)) # {} => t.held[x].k # "gone"
               /\ Confirms(old, x, Len(old)) = {} /\ s.phase = "served" => e.mine[x] <= s.snap[x].ver
      /\ \A x \in Ids : s.phase = "served" /\ t.held[x].k = "gone" => s.snap[x].at = Gone
  BY DEF LiveOk
<1>. HIDE DEF old, new
<1>3. ASSUME NEW x \in Ids, InOrder(f, x), x # id
      PROVE  /\ Line(new, x, f.mine[x])
             /\ Confirms(new, x, Len(new)) # {} => u.held[x].k # "gone"
             /\ Confirms(new, x, Len(new)) = {} /\ s.phase = "served" => f.mine[x] <= s.snap[x].ver
  <2>1. f.mine[x] = e.mine[x] /\ u.held[x] = t.held[x] /\ InOrder(e, x)
    BY <1>3 DEF Tells, InOrder
  <2>2. /\ Confirms(new, x, Len(new)) = Confirms(old, x, Len(old))
        /\ Told(new, x, Len(new)) = Told(old, x, Len(old))
        /\ \A i \in Confirms(old, x, Len(old)) : new[i] = old[i]
    BY <1>1, <1>3 DEF OneMore
  <2>3. Line(old, x, e.mine[x])
    BY <1>2, <2>1
  <2>4. Line(new, x, f.mine[x])
    BY <2>1, <2>2, <2>3 DEF Line
  <2>. QED
    BY <1>2, <2>1, <2>2, <2>4
<1>4. ASSUME InOrder(f, id)
      PROVE  /\ Line(new, id, f.mine[id])
             /\ u.held[id].k # "gone"
             /\ Confirms(new, id, Len(new)) # {}
  <2>1. InOrder(e, id) /\ f.mine[id] = ver /\ e.mine[id] <= ver /\ u.held[id].k # "gone"
    BY <1>4 DEF Tells, Onward
  <2> DEFINE S == Confirms(old, id, Len(old))
             n == Len(old) + 1
             last == e.mine[id]
  <2>2. /\ Confirms(new, id, Len(new)) = S \cup {n}
        /\ Told(new, id, Len(new)) = Told(old, id, Len(old)) \cup {ver}
        /\ \A i \in S : new[i] = old[i] /\ i < n /\ i \in Nat
        /\ new[n].change.after.ver = ver /\ n \in Nat
    BY <1>1 DEF OneMore
  <2>3. Line(old, id, last)
    BY <1>2, <2>1
  <2>4. Kept(new) /\ Confirms(new, id, Len(new)) \subseteq 1..Len(new)
    BY <1>1, <1>2 DEF Confirms, OneMore
  <2>5. \A i \in Confirms(new, id, Len(new)) : new[i].change.after.ver \in Nat
    BY <2>4 DEF Kept, IsConfirm, Confirms
  <2>6. last \in Int
    BY DEF IsServer
  <2>7. \A i \in S : new[i].change.after.ver <= last
    BY <2>2, <2>3 DEF Line
  <2>8. \A i, j \in S : i <= j => new[i].change.after.ver <= new[j].change.after.ver
    BY <2>2, <2>3 DEF Line
  <2>. HIDE DEF S, n, last
  <2>9. \A i \in S : new[i].change.after.ver <= ver
    BY <2>1, <2>2, <2>5, <2>6, <2>7 DEF last
  <2>10. \A i \in S \cup {n} : new[i].change.after.ver <= ver
    BY <2>2, <2>9
  <2>11. ASSUME NEW i \in S \cup {n}, NEW j \in S \cup {n}, i <= j
         PROVE  new[i].change.after.ver <= new[j].change.after.ver
    <3>1. CASE j = n
      BY <2>2, <2>10, <3>1
    <3>2. CASE j \in S /\ i \in S
      BY <2>8, <2>11, <3>2
    <3>3. CASE j \in S /\ i = n
      BY <2>2, <2>11, <3>3
    <3>. QED
      BY <3>1, <3>2, <3>3
  <2>12. Line(new, id, ver)
    BY <2>2, <2>10, <2>11 DEF Line
  <2>. QED
    BY <2>1, <2>2, <2>12
<1>5. \A x \in Ids : u.held[x].k = "gone" => t.held[x].k = "gone"
  BY DEF Tells, Onward
<1>. QED
  BY <1>1, <1>2, <1>3, <1>4, <1>5 DEF LiveOk, OneMore, new

LEMMA ConfirmBounded ==
    ASSUME NEW v, NEW change, NEW heldSources, NEW u, Fine(v), NEW s \in Int, Bounded(v, s),
           u = ConfirmGroups(v, change, heldSources).value
    PROVE  Bounded(u, s)
<1> DEFINE open == {c \in Counters(u) : ~CounterSupersedes(EvidenceOf(v, c), change)}
<1>1. IsValue(v)
  BY DEF Fine, Sound
<1>2. u = v \/ Change(v, u, change.id, change.after.ver, open)
  BY <1>1, ConfirmIs
<1>. HIDE DEF open
<1>. QED
  BY <1>1, <1>2, ChangeBounded

\* The list with the change worked in shows the issue as it was told.
LEMMA ToldValue ==
    ASSUME NEW t, NEW u, NEW e, NEW f, NEW id \in Ids, NEW ver \in Nat, Tells(t, u, e, f, id, ver),
           ValueOk(t, e), t.source \in Nat, t.val # NoVal, NEW change, change.id = id,
           change.after.ver = ver, change.after.k \in {"known", "absent"}, NEW heldSources,
           u.val = ConfirmGroups(t.val, change, heldSources).value, SafeCounts(u.val),
           u.source = t.source,
           change.after.k = "known" => Onward(t, u, e, f, id, ver)
    PROVE  ValueOk(u, f)
<1> DEFINE v == t.val
           w == u.val
<1>1. /\ Fine(v) /\ Bounded(v, t.source) /\ t.source \in Int
      /\ w = ConfirmGroups(v, change, heldSources).value
      /\ \A g \in Groups, x \in Ids :
             InOrder(e, x) =>
                /\ \A row \in GroupOf(v, g).rows : row.id = x => t.held[x].k # "gone"
                /\ \/ e.basis[g].unmarked
                   \/ NewRows(v, g, x, Facts(v, g, x) \cup {e.mine[x]})
  BY DEF ValueOk
<1>2. SafeCounts(w) /\ u.val = w
  OBVIOUS
<1>. HIDE DEF v, w
<1>3. /\ Fine(w)
      /\ change.after.k = "absent" => \A g \in KnownGroups(w) : \A row \in w.groups[g].rows : row.id # id
      /\ \A g \in KnownGroups(w) : \A row \in w.groups[g].rows :
            row.id = id \/ (g \in KnownGroups(v) /\ row \in v.groups[g].rows)
      /\ \A g \in KnownGroups(w), x \in Ids : \A least :
            NewRows(v, g, x, Facts(v, g, x) \cup {least})
            => NewRows(w, g, x, Facts(w, g, x) \cup {IF x = id THEN ver ELSE least})
  BY <1>1, ConfirmNew
<1>4. Bounded(w, u.source)
  BY <1>1, ConfirmBounded
<1>5. w # NoVal
  BY <1>3, ValNotNoVal DEF Fine, Sound
<1>6. \A x \in Ids : InOrder(f, x) => InOrder(e, x)
  BY DEF Tells, InOrder
<1>7. ASSUME NEW g \in Groups, NEW x \in Ids, InOrder(f, x), NEW row \in GroupOf(w, g).rows, row.id = x
      PROVE  u.held[x].k # "gone"
  <2>1. g \in KnownGroups(w) /\ row \in w.groups[g].rows
    BY <1>7 DEF GroupOf, EmptyGroup
  <2>2. CASE x = id
    <3>1. change.after.k = "known"
      BY <1>3, <1>7, <2>1, <2>2
    <3>. QED
      BY <1>7, <2>2, <3>1 DEF Onward
  <2>3. CASE x # id
    <3>1. g \in KnownGroups(v) /\ row \in v.groups[g].rows
      BY <1>3, <1>7, <2>1, <2>3
    <3>2. row \in GroupOf(v, g).rows
      BY <3>1 DEF GroupOf
    <3>3. t.held[x].k # "gone"
      BY <1>1, <1>6, <1>7, <3>2
    <3>. QED
      BY <2>3, <3>3 DEF Tells
  <2>. QED
    BY <2>2, <2>3
<1>8. ASSUME NEW g \in Groups, NEW x \in Ids, InOrder(f, x), ~f.basis[g].unmarked
      PROVE  NewRows(w, g, x, Facts(w, g, x) \cup {f.mine[x]})
  <2>1. ~e.basis[g].unmarked /\ InOrder(e, x)
    BY <1>6, <1>8 DEF Tells
  <2>2. f.mine[x] = IF x = id THEN ver ELSE e.mine[x]
    BY <1>8 DEF Tells
  <2>3. CASE g \in KnownGroups(w)
    <3> DEFINE least == e.mine[x]
    <3>1. NewRows(v, g, x, Facts(v, g, x) \cup {least})
      BY <1>1, <2>1
    <3>. HIDE DEF least
    <3>2. NewRows(w, g, x, Facts(w, g, x) \cup {IF x = id THEN ver ELSE least})
      BY <1>3, <2>3, <3>1
    <3>. QED
      BY <2>2, <3>2 DEF least
  <2>4. CASE g \notin KnownGroups(w)
    BY <2>4 DEF NewRows, GroupOf, EmptyGroup
  <2>. QED
    BY <2>3, <2>4
<1>. QED
  BY <1>2, <1>3, <1>4, <1>5, <1>7, <1>8 DEF ValueOk

\* The tab with a change told: kept for the reads, worked into the list, the issue's.
ToldTab(t, c, value, W, id, after) ==
    ConfirmEntity([Keep(t, c) EXCEPT !.val = value, !.writes = W], id, after)

ToldRead(r, c) == [r EXCEPT !.changes = IF r.live THEN Append(@, c) ELSE @]

\* What that leaves of a tab, and makes of it.
ToldFrom(t, u, c, value, W, id, after) ==
    /\ DOMAIN u = TabFields
    /\ u.serial = t.serial /\ u.perm = t.perm /\ u.source = t.source
    /\ u.deletion = t.deletion /\ u.failed = t.failed /\ u.attempted = t.attempted
    /\ u.error = t.error /\ u.jobs = t.jobs /\ u.val = value /\ u.writes = W
    /\ u.reads = {ToldRead(r, c) : r \in t.reads}
    /\ u.affected \subseteq t.affected
    /\ u.records = t.records \/ u.records = [t.records EXCEPT ![id] = NoRecord]
    /\ u.held = [x \in Ids |-> u.held[x]] /\ \A x \in Ids : x # id => u.held[x] = t.held[x]
    /\ after.k = "absent" /\ id \in Ids => u.held[id] = Tombstone
    /\ after.k # "absent" /\ id \in Ids =>
         \/ u.held[id] = t.held[id]
         \/ /\ t.held[id].k # "gone"
            /\ u.held[id] = [k |-> "held", at |-> after.at, ver |-> after.ver,
                             full |-> TRUE, perm |-> t.perm]

LEMMA ToldFields ==
    ASSUME NEW t, IsTab(t), NEW c, NEW value, NEW W, NEW id, NEW after, NEW u,
           u = ToldTab(t, c, value, W, id, after)
    PROVE  ToldFrom(t, u, c, value, W, id, after)
<1> DEFINE told == [Keep(t, c) EXCEPT !.val = value, !.writes = W]
<1>1. Keep(t, c) = [t EXCEPT !.reads = {ToldRead(r, c) : r \in @}]
  BY DEF Keep, ToldRead
<1>2. /\ DOMAIN told = TabFields
      /\ told.serial = t.serial /\ told.perm = t.perm /\ told.source = t.source
      /\ told.deletion = t.deletion /\ told.failed = t.failed /\ told.attempted = t.attempted
      /\ told.error = t.error /\ told.jobs = t.jobs /\ told.val = value /\ told.writes = W
      /\ told.reads = {ToldRead(r, c) : r \in t.reads}
      /\ told.affected = t.affected /\ told.records = t.records /\ told.held = t.held
  BY <1>1 DEF IsTab, TabFields
<1>3. u = ConfirmEntity(told, id, after)
  BY DEF ToldTab
<1>4. DOMAIN t.held = Ids /\ t.held = [x \in Ids |-> t.held[x]]
  BY DEF IsTab, IsHeld
<1>. HIDE DEF told
<1>5. CASE after.k = "absent"
  <2>1. u = [told EXCEPT !.held[id] = Tombstone, !.records[id] = NoRecord, !.affected = @ \ {id}]
    BY <1>3, <1>5 DEF ConfirmEntity
  <2>. QED
    BY <1>2, <1>4, <1>5, <2>1 DEF TabFields, ToldFrom
<1>6. CASE after.k # "absent" /\ t.held[id].k # "gone" /\ t.held[id].ver <= after.ver
  <2> DEFINE entity == [k |-> "held", at |-> after.at, ver |-> after.ver, full |-> TRUE, perm |-> t.perm]
  <2>1. u = [told EXCEPT !.held[id] = entity]
    BY <1>2, <1>3, <1>6 DEF ConfirmEntity
  <2>2. /\ DOMAIN u = TabFields
        /\ u.serial = t.serial /\ u.perm = t.perm /\ u.source = t.source
        /\ u.deletion = t.deletion /\ u.failed = t.failed /\ u.attempted = t.attempted
        /\ u.error = t.error /\ u.jobs = t.jobs /\ u.val = value /\ u.writes = W
        /\ u.reads = {ToldRead(r, c) : r \in t.reads}
        /\ u.affected = t.affected /\ u.records = t.records
        /\ u.held = [t.held EXCEPT ![id] = entity]
    BY <1>2, <2>1 DEF TabFields
  <2>. QED
    BY <1>4, <1>6, <2>2 DEF ToldFrom
<1>7. CASE after.k # "absent" /\ ~(t.held[id].k # "gone" /\ t.held[id].ver <= after.ver)
  <2>1. u = told
    BY <1>2, <1>3, <1>7 DEF ConfirmEntity
  <2>2. u.held = t.held
    BY <1>2, <2>1
  <2>3. u.held = [x \in Ids |-> u.held[x]]
    BY <1>4, <2>2
  <2>. QED
    BY <1>2, <1>7, <2>1, <2>2, <2>3 DEF ToldFrom
<1>. QED
  BY <1>5, <1>6, <1>7

\* What the tab was told of an issue: where it is now, or that it is deleted.
IsToldOf(t, e, f, id, after) ==
    /\ IsServer(f) /\ id \in Ids /\ after.k \in {"known", "absent"} /\ after.ver \in Nat
    /\ f.issues = e.issues /\ f.clock = e.clock
    /\ \A g \in Groups : f.basis[g].unmarked <=> e.basis[g].unmarked
    /\ \A x \in Ids : x # id => f.mine[x] = e.mine[x]
    /\ InOrder(f, id) => InOrder(e, id) /\ f.mine[id] = after.ver
    /\ after.k = "absent" => e.issues[id].at = Gone /\ \A r \in t.reads : ~r.live
    /\ after.k = "known" => /\ after.at \in Groups \cup {Out} /\ after.ver \in 0..e.issues[id].ver
                            /\ e.issues[id].at # Unmade
                            /\ InOrder(f, id) => e.mine[id] <= after.ver /\ t.held[id].k # "gone"

LEMMA ToldHeld ==
    ASSUME NEW t, NEW e, NEW f, NEW id, NEW after, NEW c, NEW value, NEW W, NEW u,
           u = ToldTab(t, c, value, W, id, after), Sane(t, {}, e), IsToldOf(t, e, f, id, after)
    PROVE  /\ Tells(t, u, e, f, id, after.ver)
           /\ after.k = "known" => Onward(t, u, e, f, id, after.ver)
           /\ HeldOk(u, f)
<1>1. IsTab(t) /\ IsServer(e) /\ id \in Ids /\ after.k \in {"known", "absent"}
  BY DEF Sane, IsToldOf
<1>2. ToldFrom(t, u, c, value, W, id, after)
  BY <1>1, ToldFields
<1>3. /\ \A x \in Ids : x # id => u.held[x] = t.held[x]
      /\ after.k = "absent" => u.held[id] = Tombstone
      /\ after.k # "absent" =>
           \/ u.held[id] = t.held[id]
           \/ /\ t.held[id].k # "gone"
              /\ u.held[id] = [k |-> "held", at |-> after.at, ver |-> after.ver,
                               full |-> TRUE, perm |-> t.perm]
      /\ u.perm = t.perm
  BY <1>1, <1>2 DEF ToldFrom
<1>4. Tells(t, u, e, f, id, after.ver)
  BY <1>3 DEF Tells, IsToldOf
<1>5. ASSUME after.k = "known"
      PROVE  Onward(t, u, e, f, id, after.ver)
  BY <1>3, <1>5 DEF Onward, IsToldOf
<1>6. f.issues = e.issues /\ f.clock = e.clock /\ e.issues[id].ver \in 0..e.clock /\ e.clock \in Nat
  BY <1>1 DEF IsServer, IsToldOf
<1>7. HeldOk(t, e) /\ t.perm \in Nat
  BY DEF Sane, Scalars
<1>8. ASSUME NEW x \in Ids, u.held[x] = t.held[x]
      PROVE  /\ u.held[x] \in [k : {"none", "held", "gone"}, at : Places, ver : 0..f.clock,
                               full : BOOLEAN, perm : 0..u.perm]
             /\ u.held[x].k # "none" => f.issues[x].at # Unmade
             /\ u.held[x].k = "gone" => f.issues[x].at = Gone
  BY <1>3, <1>6, <1>7, <1>8 DEF HeldOk
<1>9. CASE after.k = "absent"
  <2>1. u.held[id] = [k |-> "gone", at |-> Out, ver |-> 0, full |-> FALSE, perm |-> 0]
    BY <1>3, <1>9 DEF Tombstone, NoEntity
  <2>2. f.issues[id].at = Gone /\ Gone # Unmade
    BY <1>9 DEF IsToldOf, Gone, Unmade
  <2>3. 0 \in 0..f.clock /\ 0 \in 0..u.perm /\ Out \in Places
    BY <1>3, <1>6, <1>7 DEF Places
  <2>4. /\ u.held[id] \in [k : {"none", "held", "gone"}, at : Places, ver : 0..f.clock,
                           full : BOOLEAN, perm : 0..u.perm]
        /\ u.held[id].k # "none" => f.issues[id].at # Unmade
        /\ u.held[id].k = "gone" => f.issues[id].at = Gone
    BY <2>1, <2>2, <2>3
  <2>. QED
    BY <1>3, <1>4, <1>5, <1>8, <1>9, <2>4 DEF HeldOk
<1>10. CASE after.k = "known"
  <2>1. /\ after.at \in Places /\ after.ver \in 0..f.clock /\ t.perm \in 0..u.perm
        /\ f.issues[id].at # Unmade
    BY <1>3, <1>6, <1>7, <1>10 DEF IsToldOf, Places
  <2>2. ASSUME u.held[id] = [k |-> "held", at |-> after.at, ver |-> after.ver, full |-> TRUE, perm |-> t.perm]
        PROVE  /\ u.held[id] \in [k : {"none", "held", "gone"}, at : Places, ver : 0..f.clock,
                                  full : BOOLEAN, perm : 0..u.perm]
               /\ u.held[id].k # "none" => f.issues[id].at # Unmade
               /\ u.held[id].k = "gone" => f.issues[id].at = Gone
    BY <2>1, <2>2
  <2>3. /\ u.held[id] \in [k : {"none", "held", "gone"}, at : Places, ver : 0..f.clock,
                           full : BOOLEAN, perm : 0..u.perm]
        /\ u.held[id].k # "none" => f.issues[id].at # Unmade
        /\ u.held[id].k = "gone" => f.issues[id].at = Gone
    BY <1>3, <1>8, <1>10, <2>2, <1>1
  <2>. QED
    BY <1>3, <1>4, <1>5, <1>8, <1>10, <2>3 DEF HeldOk
<1>. QED
  BY <1>1, <1>9, <1>10

\* Reads are as they were, but for the change kept.
LEMMA ToldReads ==
    ASSUME NEW t, NEW e, NEW f, NEW id, NEW after, NEW c, NEW value, NEW W, NEW u,
           u = ToldTab(t, c, value, W, id, after), Sane(t, {}, e), IsToldOf(t, e, f, id, after),
           c.type = "confirm", c.change.id = id, c.change.after = after,
           t.val # NoVal => value # NoVal
    PROVE  ReadsOk(u, f) /\ Keyed(u, {}, f) /\ \A r \in u.reads : IsRead(r)
<1>1. IsTab(t) /\ IsServer(e) /\ id \in Ids
  BY DEF Sane, IsToldOf
<1>2. ToldFrom(t, u, c, value, W, id, after)
  BY <1>1, ToldFields
<1>3. /\ u.reads = {ToldRead(r, c) : r \in t.reads} /\ u.perm = t.perm /\ u.serial = t.serial
      /\ u.val = value
  BY <1>1, <1>2 DEF ToldFrom
<1>4. ASSUME NEW r \in t.reads
      PROVE  LET s == ToldRead(r, c) IN
             /\ IsRead(s) /\ FormOk(s, u, f) /\ s.part = r.part /\ s.token = r.token
             /\ s.live => LiveOk(s, u, f)
  <2> DEFINE s == ToldRead(r, c)
  <2>1. IsRead(r) /\ FormOk(r, t, e) /\ (r.live => LiveOk(r, t, e))
    BY <1>1, <1>4 DEF IsTab, Sane, ReadsOk, ReadOk
  <2>2. /\ DOMAIN s = ReadFields /\ s.part = r.part /\ s.token = r.token /\ s.perm = r.perm
        /\ s.first = r.first /\ s.how = r.how /\ s.snap = r.snap /\ s.live = r.live
        /\ s.phase = r.phase
        /\ s.changes = IF r.live THEN Append(r.changes, c) ELSE r.changes
    BY <2>1 DEF ToldRead, IsRead, ReadFields
  <2>. HIDE DEF s
  <2>3. IsList(r.changes) => IsList(Append(r.changes, c))
    BY Appended
  <2>4. IsRead(s)
    BY <2>1, <2>2, <2>3 DEF IsRead
  <2>5. f.issues = e.issues
    BY DEF IsToldOf
  <2>6. FormOk(s, u, f)
    BY <1>3, <2>1, <2>2, <2>5 DEF FormOk, Seen
  <2>7. ASSUME s.live
        PROVE  LiveOk(s, u, f)
    <3>1. after.k = "known" /\ after.ver \in Nat
      BY <2>2, <2>7 DEF IsToldOf
    <3>2. Tells(t, u, e, f, id, after.ver) /\ Onward(t, u, e, f, id, after.ver)
      BY <3>1, ToldHeld
    <3>3. IsConfirm(c) /\ c.change.after.ver = after.ver
      BY <1>1, <3>1 DEF IsConfirm
    <3>4. LiveOk(r, t, e) /\ IsList(r.changes) /\ s.changes = Append(r.changes, c)
      BY <2>1, <2>2, <2>7 DEF IsRead
    <3>. QED
      BY <1>1, <2>2, <3>1, <3>2, <3>3, <3>4, ToldLive
  <2>. QED
    BY <2>2, <2>4, <2>6, <2>7 DEF s
<1>5. ReadsOk(u, f) /\ \A r \in u.reads : IsRead(r)
  BY <1>3, <1>4 DEF ReadsOk, ReadOk
<1>6. \A r, s \in t.reads : r.part = s.part /\ r.token = s.token => r = s
  BY DEF Sane, Keyed
<1>7. \A p, q \in u.reads : p.part = q.part /\ p.token = q.token => p = q
  BY <1>3, <1>4, <1>6
<1>. QED
  BY <1>5, <1>7 DEF Keyed

LEMMA ToldSane ==
    ASSUME NEW t, NEW e, NEW f, NEW id, NEW after, NEW change, NEW src, NEW value, NEW W, NEW u,
           u = ToldTab(t, Confirmed(change, src), value, W, id, after), Sane(t, {}, e),
           IsToldOf(t, e, f, id, after), change.id = id, change.after = after,
           value = IF t.val = NoVal THEN NoVal ELSE ConfirmGroups(t.val, change, src).value,
           Safe(value), \A w \in W : IsWrite(w), WritesOk(u, f)
    PROVE  Sane(u, {}, f)
<1> DEFINE c == Confirmed(change, src)
<1>1. /\ IsTab(t) /\ IsServer(e) /\ id \in Ids /\ IsServer(f) /\ after.k \in {"known", "absent"}
      /\ after.ver \in Nat
  BY DEF Sane, IsToldOf
<1>2. c.type = "confirm" /\ c.change.id = id /\ c.change.after = after
  BY DEF Confirmed
<1>. HIDE DEF c
<1>3. u = ToldTab(t, c, value, W, id, after)
  BY DEF c
<1>4. ToldFrom(t, u, c, value, W, id, after)
  BY <1>1, <1>3, ToldFields
<1>5. /\ DOMAIN u = TabFields
      /\ u.serial = t.serial /\ u.perm = t.perm /\ u.source = t.source
      /\ u.deletion = t.deletion /\ u.failed = t.failed /\ u.attempted = t.attempted
      /\ u.error = t.error /\ u.jobs = t.jobs /\ u.val = value /\ u.writes = W
      /\ u.affected \subseteq t.affected
      /\ u.records = t.records \/ u.records = [t.records EXCEPT ![id] = NoRecord]
      /\ u.held = [x \in Ids |-> u.held[x]]
  BY <1>4 DEF ToldFrom
<1>6. /\ Tells(t, u, e, f, id, after.ver)
      /\ after.k = "known" => Onward(t, u, e, f, id, after.ver)
      /\ HeldOk(u, f)
  BY <1>3, ToldHeld
<1>7. ValueOk(t, e) /\ Scalars(t) /\ JobsOk(t, e)
  BY DEF Sane
<1>8. ASSUME t.val # NoVal
      PROVE  ValueOk(u, f) /\ value # NoVal
  <2>1. u.val = ConfirmGroups(t.val, change, src).value
    BY <1>5, <1>8
  <2>2. value # NoVal
    <3>1. Fine(t.val) /\ t.source \in Int /\ Bounded(t.val, t.source)
      BY <1>7, <1>8 DEF ValueOk, Scalars
    <3> DEFINE v == t.val
    <3>2. Fine(v) /\ u.val = ConfirmGroups(v, change, src).value
      BY <2>1, <3>1
    <3>. HIDE DEF v
    <3>3. Fine(u.val)
      BY <1>1, <3>2, ConfirmNew
    <3>. QED
      BY <1>5, <3>3, ValNotNoVal DEF Fine, Sound
  <2>3. SafeCounts(u.val)
    BY <1>5, <2>2 DEF Safe
  <2>4. t.source \in Nat
    BY <1>7 DEF Scalars
  <2>5. ValueOk(u, f)
    BY <1>1, <1>5, <1>6, <1>7, <1>8, <2>1, <2>3, <2>4, ToldValue
  <2>. QED
    BY <2>2, <2>5
<1>9. ValueOk(u, f)
  <2>1. t.val = NoVal => u.val = NoVal
    BY <1>5
  <2>. QED
    BY <1>8, <2>1 DEF ValueOk
<1>10. ReadsOk(u, f) /\ Keyed(u, {}, f) /\ \A r \in u.reads : IsRead(r)
  BY <1>2, <1>3, <1>8, ToldReads
<1>11. IsHeld(u.held)
  BY <1>5, <1>6, <1>1 DEF HeldOk, IsHeld, IsServer
<1>12. IsTab(u)
  BY <1>1, <1>5, <1>10, <1>11 DEF IsTab
<1>13. Scalars(u)
  <2>1. IsRecord(NoRecord)
    BY DEF IsRecord, NoRecord, Statuses
  <2>. QED
    BY <1>5, <1>7, <2>1 DEF Scalars
<1>14. JobsOk(u, f)
  BY <1>5, <1>7 DEF JobsOk, Seen, IsToldOf
<1>. QED
  BY <1>1, <1>6, <1>9, <1>10, <1>12, <1>13, <1>14 DEF Sane

\* The other changes that are out stay as they have to be, with one answered, and
\* perhaps still open.
LEMMA ToldWrites ==
    ASSUME NEW t, NEW e, NEW f, NEW w \in t.writes, w.phase = "served", NEW c, NEW value, NEW u,
           NEW open \in BOOLEAN, open => w.kind # "creates",
           NEW W, W = (t.writes \ {w}) \cup IF open THEN {[w EXCEPT !.phase = "over"]} ELSE {},
           u = ToldTab(t, c, value, W, w.issue, w.after), Sane(t, {}, e),
           IsToldOf(t, e, f, w.issue, w.after)
    PROVE  WritesOk(u, f) /\ \A v \in W : IsWrite(v)
<1> DEFINE over == [w EXCEPT !.phase = "over"]
<1>1. IsTab(t) /\ WritesOk(t, e)
  BY DEF Sane
<1>2. IsWrite(w) /\ WriteOk(w, t, e)
  BY <1>1 DEF IsTab, WritesOk
<1>3. /\ IsWrite(over) /\ over.phase = "over" /\ over.id = w.id /\ over.issue = w.issue
      /\ over.kind = w.kind /\ over.to = w.to
  BY <1>2 DEF IsWrite, WriteFields
<1>. HIDE DEF over
<1>4. \A v \in W : (v \in t.writes /\ v # w) \/ (open /\ v = over)
  BY DEF over
<1>5. ToldFrom(t, u, c, value, W, w.issue, w.after)
  BY <1>1, ToldFields
<1>6. u.writes = W
  BY <1>5 DEF ToldFrom
<1>7. Tells(t, u, e, f, w.issue, w.after.ver) /\ (w.after.k = "known" => Onward(t, u, e, f, w.issue, w.after.ver))
  BY ToldHeld
<1>8. f.issues = e.issues
  BY DEF IsToldOf
<1>9. ASSUME NEW v \in t.writes, v # w
      PROVE  WriteOk(v, u, f)
  <2>1. WriteOk(v, t, e)
    BY <1>1, <1>9 DEF WritesOk
  <2>2. ASSUME v.phase = "served", v.kind = "moves", InOrder(f, v.issue)
        PROVE  f.mine[v.issue] <= v.after.ver /\ u.held[v.issue].k # "gone"
    <3>1. v.issue \in Ids /\ v.issue = v.id
      BY <2>1, <2>2 DEF WriteOk
    <3>2. CASE v.issue # w.issue
      <4>1. f.mine[v.issue] = e.mine[v.issue] /\ u.held[v.issue] = t.held[v.issue]
        BY <1>7, <3>1, <3>2 DEF Tells
      <4>2. InOrder(e, v.issue)
        BY <2>2, <4>1 DEF InOrder
      <4>. QED
        BY <2>1, <2>2, <4>1, <4>2 DEF WriteOk
    <3>3. CASE v.issue = w.issue
      <4>1. w.kind = "creates"
        <5>1. ASSUME w.kind # "creates"
              PROVE  FALSE
          <6>1. w.id = v.id
            BY <1>2, <3>1, <3>3, <5>1 DEF WriteOk
          <6>2. w.id # 0
            BY <3>1, <6>1, IssueListsAssumption
          <6>. QED
            BY <1>1, <1>9, <2>2, <6>1, <6>2 DEF WritesOk
        <5>. QED
          BY <5>1
      <4>2. w.after.ver <= v.after.ver
        BY <1>1, <1>9, <2>2, <3>3, <4>1 DEF WritesOk
      <4>3. w.after.k = "known"
        BY <1>2, <4>1 DEF WriteOk
      <4>4. InOrder(f, w.issue)
        BY <2>2, <3>3
      <4>5. f.mine[w.issue] = w.after.ver
        BY <1>7, <4>4 DEF Tells
      <4>6. u.held[w.issue].k # "gone"
        BY <1>7, <4>3, <4>4 DEF Onward
      <4>. QED
        BY <3>3, <4>2, <4>5, <4>6
    <3>. QED
      BY <3>2, <3>3
  <2>. QED
    BY <1>8, <2>1, <2>2 DEF WriteOk
<1>10. ASSUME open
       PROVE  WriteOk(over, u, f)
  BY <1>2, <1>3, <1>8, <1>10 DEF WriteOk
<1>11. \A v \in u.writes : WriteOk(v, u, f)
  BY <1>4, <1>6, <1>9, <1>10
<1>12. \A p, q \in W : p.id = q.id /\ p.id # 0 /\ p.phase # "queued" /\ q.phase # "queued" => p = q
  <2>1. ASSUME NEW p \in t.writes, p # w, p.id = w.id, p.id # 0, p.phase # "queued"
        PROVE  FALSE
    BY <1>1, <2>1 DEF WritesOk
  <2>. QED
    BY <1>1, <1>3, <1>4, <2>1 DEF WritesOk
<1>13. \A p, q \in W : p.kind = "creates" /\ q.kind = "moves" /\ p.phase = "served"
                       /\ q.phase = "served" /\ p.issue = q.issue => p.after.ver <= q.after.ver
  BY <1>1, <1>3, <1>4 DEF WritesOk
<1>14. \A v \in W : IsWrite(v)
  BY <1>1, <1>3, <1>4 DEF IsTab
<1>. QED
  BY <1>6, <1>11, <1>12, <1>13, <1>14 DEF WritesOk

\* What the answer of a change tells is where its issue is, or that it is deleted.
LEMMA AnswerTells ==
    ASSUME SaneInv, NEW w \in tab.writes, w.phase = "served", NEW unsure,
           UNCHANGED <<issues, clock>>,
           basis' = [c \in AllCounters |-> [basis[c] EXCEPT !.unsure = @ \/ unsure[c]]],
           mine' = [mine EXCEPT ![w.issue] =
                      IF @ = OutOfOrder \/ Overtaken(w) THEN OutOfOrder ELSE w.after.ver]
    PROVE  IsToldOf(Cleared(w), Now, Now', w.issue, w.after)
<1> DEFINE id == w.issue
           after == w.after
           t == Cleared(w)
           e == Now
           f == Now'
<1>1. Sane(tab, {}, Now)
  BY DEF SaneInv
<1>2. /\ e.issues = issues /\ e.clock = clock /\ e.mine = mine /\ e.basis = basis
      /\ f.issues = issues /\ f.clock = clock /\ f.mine = mine' /\ f.basis = basis'
  BY DEF Now
<1>3. WriteOk(w, tab, e) /\ IsWrite(w) /\ IsServer(e)
  BY <1>1 DEF Sane, WritesOk, IsTab
<1>4. after.k = "absent" => \A r \in t.reads : ~r.live
  BY <1>1, ClearedSane
<1>5. t.held = tab.held
  <2>1. CASE after.k = "absent"
    <3> DEFINE tr == [tab EXCEPT !.serial = @ + 1, !.deletion = tab.serial + 1]
               inv == Invalidate(tr)
    <3>1. t = Doubt(inv, Groups)
      BY <2>1 DEF Cleared, Removed
    <3>2. IsTab(tab)
      BY <1>1 DEF Sane
    <3>3. DOMAIN inv = TabFields /\ inv.held = tab.held
      BY <3>2 DEF Invalidate, IsTab, TabFields
    <3>. HIDE DEF inv
    <3>. QED
      BY <3>1, <3>3 DEF Doubt, Keep, TabFields
  <2>2. CASE after.k # "absent"
    BY <2>2 DEF Cleared
  <2>. QED
    BY <2>1, <2>2
<1>. HIDE DEF t, e, f
<1>6. /\ id \in Ids /\ issues[id].at # Unmade
      /\ w.kind = "deletes" => after = Absent /\ issues[id].at = Gone
      /\ w.kind # "deletes" => after.k = "known" /\ after.at \in Groups \cup {Out}
                               /\ after.ver \in 0..issues[id].ver
      /\ w.kind \in {"creates", "moves", "deletes"}
  BY <1>2, <1>3 DEF WriteOk
<1>7. after.k \in {"known", "absent"} /\ (after.k = "known" <=> w.kind # "deletes")
  BY <1>6 DEF Absent
<1>8. /\ clock \in Nat /\ issues \in [Ids -> [at : Places, ver : 0..clock]]
      /\ DOMAIN mine = Ids /\ \A x \in Ids : mine[x] \in -1..issues[x].ver
      /\ DOMAIN basis = AllCounters
      /\ \A c \in AllCounters : DOMAIN basis[c] = DOMAIN NoBasis
  BY <1>2, <1>3 DEF IsServer
<1>9. after.ver \in 0..issues[id].ver /\ issues[id].ver \in Nat
  BY <1>6, <1>7, <1>8 DEF Absent
<1>10. mine'[id] = (IF mine[id] = OutOfOrder \/ Overtaken(w) THEN OutOfOrder ELSE after.ver)
       /\ (\A x \in Ids : x # id => mine'[x] = mine[x]) /\ DOMAIN mine' = Ids
  BY <1>6, <1>8
<1>11. \A x \in Ids : mine'[x] \in -1..issues[x].ver
  BY <1>8, <1>9, <1>10 DEF OutOfOrder
<1>12. /\ DOMAIN basis' = AllCounters
       /\ \A c \in AllCounters : DOMAIN basis'[c] = DOMAIN NoBasis /\ basis'[c].unmarked = basis[c].unmarked
  BY <1>8 DEF NoBasis
<1>13. IsServer(f)
  BY <1>2, <1>8, <1>11, <1>12 DEF IsServer
<1>14. \A g \in Groups : f.basis[g].unmarked <=> e.basis[g].unmarked
  BY <1>2, <1>12 DEF AllCounters
<1>15. ASSUME InOrder(f, id)
       PROVE  InOrder(e, id) /\ f.mine[id] = after.ver /\ ~Overtaken(w)
  BY <1>2, <1>10, <1>15 DEF InOrder
<1>16. ASSUME after.k = "known", InOrder(f, id)
       PROVE  e.mine[id] <= after.ver /\ t.held[id].k # "gone"
  <2>1. CASE w.kind = "creates"
    BY <1>2, <1>5, <1>6, <1>8, <1>9, <1>15, <1>16, <2>1 DEF Overtaken
  <2>2. CASE w.kind = "moves"
    BY <1>2, <1>3, <1>5, <1>8, <1>9, <1>6, <1>15, <1>16, <2>2 DEF WriteOk
  <2>. QED
    BY <1>6, <1>7, <1>16, <2>1, <2>2
<1>. QED
  BY <1>2, <1>4, <1>6, <1>7, <1>9, <1>10, <1>13, <1>14, <1>15, <1>16 DEF IsToldOf, t, e, f

LEMMA WriteAnswerSane ==
    ASSUME SaneInv, NEW w \in tab.writes, NEW open \in BOOLEAN, WriteAnswer(w, open),
           open => w.kind # "creates"
    PROVE  SaneInv'
<1> DEFINE t == Cleared(w)
           change == ChangeOf(w)
           rest == IF open THEN {[w EXCEPT !.phase = "over"]} ELSE {}
           c == Confirmed(change, w.sources)
           W == (t.writes \ {w}) \cup rest
           value == IF t.val = NoVal THEN NoVal ELSE ConfirmGroups(t.val, change, w.sources).value
<1>1. Sane(tab, {}, Now)
  BY DEF SaneInv
<1>2. Sane(t, {}, Now)
  BY <1>1, ClearedSane
<1>3. t.writes = tab.writes
  <2>1. CASE w.after.k = "absent"
    <3> DEFINE inv == Invalidate([tab EXCEPT !.serial = @ + 1, !.deletion = tab.serial + 1])
    <3>1. t = Doubt(inv, Groups)
      BY <2>1 DEF Cleared, Removed
    <3>2. IsTab(tab)
      BY <1>1 DEF Sane
    <3>3. DOMAIN inv = TabFields /\ inv.writes = tab.writes
      BY <3>2 DEF Invalidate, IsTab, TabFields
    <3>. HIDE DEF inv
    <3>. QED
      BY <3>1, <3>3 DEF Doubt, Keep, TabFields
  <2>2. CASE w.after.k # "absent"
    BY <2>2 DEF Cleared
  <2>. QED
    BY <2>1, <2>2
<1>4. PICK made \in {Worked(t, w)} :
         /\ Safe(made.value)
         /\ Tell(t, w, change, made, IF made.verify THEN {w.issue} ELSE {}, rest)
  BY DEF WriteAnswer
<1>5. w.phase = "served" /\ UNCHANGED <<issues, clock>>
  BY DEF WriteAnswer
<1>6. made.value = value
  BY <1>4 DEF Worked
<1>7. change.id = w.issue /\ change.after = w.after
  BY DEF ChangeOf
<1> DEFINE verify == IF made.verify THEN {w.issue} ELSE {}
           u == ToldTab(t, c, value, W, w.issue, w.after)
<1>. HIDE DEF t, change, rest
<1>8. [Keep(t, c) EXCEPT !.val = made.value, !.writes = (@ \ {w}) \cup rest]
      = [Keep(t, c) EXCEPT !.val = value, !.writes = W]
  <2>1. IsTab(t)
    BY <1>2 DEF Sane
  <2>2. Keep(t, c).writes = t.writes
    BY <2>1 DEF Keep, IsTab, TabFields
  <2>. QED
    BY <1>6, <2>2
<1>9. tab' = Require(u, verify)
  BY <1>4, <1>8 DEF Tell, ToldTab
<1>10. mine' = [mine EXCEPT ![w.issue] =
                   IF @ = OutOfOrder \/ Overtaken(w) THEN OutOfOrder ELSE w.after.ver]
  BY <1>4 DEF Tell
<1> DEFINE unsure == [x \in AllCounters |-> x \in made.unsure \/ made.verify]
<1>11. basis' = [x \in AllCounters |-> [basis[x] EXCEPT !.unsure = @ \/ unsure[x]]]
  BY <1>4 DEF Tell
<1>12. Safe(value)
  BY <1>4, <1>6
<1>. HIDE DEF c, W, value, verify, u, unsure
<1>13. IsToldOf(t, Now, Now', w.issue, w.after)
  BY <1>5, <1>10, <1>11, AnswerTells DEF t
<1>14. W = (t.writes \ {w}) \cup IF open THEN {[w EXCEPT !.phase = "over"]} ELSE {}
  BY DEF W, rest
<1>15. u = ToldTab(t, c, value, W, w.issue, w.after) /\ w \in t.writes
  BY <1>3 DEF u
<1>16. WritesOk(u, Now') /\ \A v \in W : IsWrite(v)
  BY <1>2, <1>5, <1>13, <1>14, <1>15, ToldWrites
<1>17. u = ToldTab(t, Confirmed(change, w.sources), value, W, w.issue, w.after)
  BY <1>15 DEF c
<1>18. value = IF t.val = NoVal THEN NoVal ELSE ConfirmGroups(t.val, change, w.sources).value
  BY DEF value
<1>19. Sane(u, {}, Now')
  BY <1>2, <1>7, <1>12, <1>13, <1>16, <1>17, <1>18, ToldSane
<1>20. verify \subseteq Ids
  BY <1>13 DEF verify, IsToldOf
<1>21. Sane(tab', {}, Now')
  BY <1>9, <1>19, <1>20, RequireSane
<1>. QED
  BY <1>21 DEF SaneInv

-----------------------------------------------------------------------------
(* The theorems *)

LEMMA InitInv == Init => IInv
<1> SUFFICES ASSUME Init PROVE IInv
  OBVIOUS
<1>1. Versions(issues) /\ clock \in Nat
  BY StartsAssumption DEF Init, Versions
<1>2. /\ DOMAIN tab = TabFields /\ tab.held = [id \in Ids |-> NoEntity]
      /\ tab.jobs = [id \in Ids |-> NoJob] /\ tab.reads = {} /\ tab.writes = {}
  BY DEF Init, TabFields
<1>3. IsHeld(tab.held)
  BY <1>2 DEF IsHeld, NoEntity
<1>4. DOMAIN tab.jobs = Ids /\ \A id \in Ids : IsJob(tab.jobs[id])
  <2>1. \A id \in Ids : tab.jobs[id] = NoJob
    BY <1>2
  <2>. QED
    BY <1>2, <2>1, NoJobIsJob
<1>5. IsTab(tab)
  BY <1>2, <1>3, <1>4 DEF IsTab
<1>. QED
  BY <1>1, <1>5 DEF IInv

LEMMA AnswerGood == ASSUME IInv, Answer PROVE Good
<1>1. ASSUME NEW r \in tab.reads,
             ServeRead(r) \/ ReadCountsNot(r) \/ ReadOverdue(r) \/ ReadAnswer(r)
      PROVE  Good
  BY <1>1, ServeReadGood, ReadCountsNotGood, ReadOverdueGood, ReadAnswerGood
<1>2. ASSUME NEW id \in Ids, ServeJob(id) \/ JobAnswer(id)
      PROVE  Good
  BY <1>2, ServeJobGood, JobAnswerGood
<1>3. ASSUME NEW w \in tab.writes,
             Begin(w) \/ ServeWrite(w) \/ Answered(w) \/ AnswerThrows(w)
      PROVE  Good
  BY <1>3, BeginGood, ServeWriteGood, WriteAnswerGood, AnswerThrowsGood DEF Answered
<1>4. ASSUME NEW w \in tab.writes, AnsweredLate(w) \/ EndWrite(w)
      PROVE  Good
  BY <1>4, DroppedGood DEF AnsweredLate, EndWrite
<1>. QED
  BY <1>1, <1>2, <1>3, <1>4 DEF Answer

LEMMA DeedGood == ASSUME IInv, Deed PROVE Good
<1>1. CASE FetchFirst \/ \E g \in Groups : FetchNext(g)
  BY <1>1, FetchFirstGood, FetchNextGood
<1>2. CASE Move \/ Create \/ Delete
  BY <1>2, AskGood DEF Move, Create, Delete
<1>3. CASE (\E r \in tab.reads : FailRead(r)) \/ (\E id \in Ids : FailJob(id))
  BY <1>3, FailReadGood, FailJobGood
<1>4. CASE \E w \in tab.writes : FailWrite(w)
  BY <1>4, DroppedGood DEF FailWrite
<1>5. CASE \E w \in tab.writes : AnsweredBeside(w)
  BY <1>5, WriteAnswerGood DEF AnsweredBeside
<1>6. CASE (\E can \in BOOLEAN : ChangeRole(can)) \/ Regain
  BY <1>6, ChangeRoleGood, RegainGood
<1>7. CASE \E id \in Ids, to \in Groups \cup {Out, Gone} : Others(id, to)
  BY <1>7, OthersGood
<1>. QED
  BY <1>1, <1>2, <1>3, <1>4, <1>5, <1>6, <1>7 DEF Deed

\* No step takes an issue back under one role, and the requests stay well formed.
LEMMA NextGood == ASSUME IInv, [Next]_vars PROVE Good
<1>1. CASE Next
  <2>1. CASE Rest
    <3>1. Keeps(tab, tab')
      BY <2>1, KeepsSelf DEF Rest, vars, IInv
    <3>. QED
      BY <2>1, <3>1, GoodKeeps DEF Rest, vars
  <2>. QED
    BY <1>1, <2>1, LookGood, AnswerGood, DeedGood DEF Next, Progress, Event
<1>2. CASE UNCHANGED vars
  <2>1. Keeps(tab, tab')
    BY <1>2, KeepsSelf DEF vars, IInv
  <2>. QED
    BY <1>2, <2>1, GoodKeeps DEF vars
<1>. QED
  BY <1>1, <1>2

\* Under one role an issue of a tab never goes back to an earlier version, and
\* one it deleted never comes back (issue.store.ts:38-77), whichever reads,
\* verifications and changes cross each other.
THEOREM IssuesOnlyGoForward == Spec => IssuesGoForward
<1>1. IInv /\ [Next]_vars => IInv'
  BY NextGood DEF Good
<1>2. IInv /\ [Next]_vars =>
        [\A id \in Ids :
           /\ tab.held[id].k = "gone" => tab'.held[id].k = "gone"
           /\ HeldCurrent(tab, id) /\ tab'.perm = tab.perm /\ tab'.held[id].k = "held"
              => tab'.held[id].ver >= tab.held[id].ver]_vars
  BY NextGood DEF Good, Forward, HeldCurrent
<1>. QED
  BY InitInv, <1>1, <1>2, PTL DEF Spec, IssuesGoForward

\* What is on the screen was read, every count of it, under the role the person
\* has now (permission-reads.ts, issue-list-binding.ts): whichever reads and
\* verifications were out when it changed, and whenever they end.
THEOREM ListsAreOfThisRole == Spec => []ReadUnderThisRole
<1>1. Init => RoleInv
  <2>1. SUFFICES ASSUME Init PROVE RoleInv
    OBVIOUS
  <2>2. /\ tab.perm = 0 /\ tab.reads = {} /\ tab.val = NoVal
        /\ basis = [c \in AllCounters |-> NoBasis]
    BY <2>1 DEF Init
  <2>3. NoBasis.perm = -1 /\ "perm" \in DOMAIN NoBasis
    BY DEF NoBasis
  <2>4. IsBasis /\ Fresh(basis, tab.perm)
    BY <2>2, <2>3 DEF IsBasis, Fresh
  <2>. QED
    BY <2>1, <2>2, <2>4, InitInv DEF RoleInv, Ruled
<1>2. RoleInv /\ [Next]_vars => RoleInv'
  BY NextGood, NextRole DEF RoleInv, RoleKept, Good
<1>3. RoleInv => ReadUnderThisRole
  BY DEF RoleInv, Ruled, Fresh, Filled, Shown, ReadUnderThisRole
<1>. QED
  BY <1>1, <1>2, <1>3, PTL DEF Spec

LEMMA InitSane == Init => SaneInv
<1>1. SUFFICES ASSUME Init PROVE SaneInv
  OBVIOUS
<1>2. /\ Now.issues = issues /\ Now.clock = 1 /\ Now.mine = [id \in Ids |-> 0]
      /\ Now.basis = [c \in AllCounters |-> NoBasis]
      /\ issues \in [Ids -> [at : Places, ver : 0..1]]
  BY <1>1, StartsAssumption DEF Init, Now
<1>3. IsServer(Now)
  BY <1>2 DEF IsServer
<1>4. /\ tab.serial = 0 /\ tab.perm = 0 /\ tab.source = 0 /\ tab.deletion = 0 /\ tab.failed = {}
      /\ tab.attempted = {} /\ tab.affected = {} /\ tab.error = NoError /\ tab.val = NoVal
      /\ tab.records = [id \in Ids |-> NoRecord] /\ tab.held = [id \in Ids |-> NoEntity]
      /\ tab.jobs = [id \in Ids |-> NoJob] /\ tab.reads = {} /\ tab.writes = {}
  BY <1>1 DEF Init
<1>5. IsTab(tab)
  BY <1>1, InitInv DEF IInv
<1>6. Scalars(tab)
  BY <1>4 DEF Scalars, IsRecord, NoRecord, Statuses
<1>7. NoEntity \in [k : {"none", "held", "gone"}, at : Places, ver : 0..1, full : BOOLEAN, perm : 0..0]
      /\ NoEntity.k = "none"
  BY DEF NoEntity, Places
<1>8. HeldOk(tab, Now)
  BY <1>2, <1>4, <1>7 DEF HeldOk
<1>9. JobsOk(tab, Now)
  BY <1>4 DEF JobsOk, NoJob
<1>10. ReadsOk(tab, Now) /\ Keyed(tab, {}, Now) /\ ValueOk(tab, Now) /\ WritesOk(tab, Now)
  BY <1>4 DEF ReadsOk, Keyed, ValueOk, WritesOk
<1>. QED
  BY <1>3, <1>5, <1>6, <1>8, <1>9, <1>10 DEF Sane, SaneInv

LEMMA AnswerSane == ASSUME SaneInv, Answer PROVE SaneInv'
<1>1. ASSUME NEW r \in tab.reads,
             ServeRead(r) \/ ReadCountsNot(r) \/ ReadOverdue(r) \/ ReadAnswer(r)
      PROVE  SaneInv'
  BY <1>1, ServeReadSane, ReadCountsNotSane, ReadOverdueSane, ReadAnswerSane
<1>2. ASSUME NEW id \in Ids, ServeJob(id) \/ JobAnswer(id)
      PROVE  SaneInv'
  BY <1>2, ServeJobSane, JobAnswerSane
<1>3. ASSUME NEW w \in tab.writes, Begin(w) \/ ServeWrite(w) \/ AnswerThrows(w)
      PROVE  SaneInv'
  BY <1>3, BeginSane, ServeWriteSane, AnswerThrowsSane
<1>4. ASSUME NEW w \in tab.writes, Answered(w)
      PROVE  SaneInv'
  <2> DEFINE open == FALSE
  <2>1. open \in BOOLEAN /\ WriteAnswer(w, open) /\ (open => w.kind # "creates")
    BY <1>4 DEF Answered
  <2>. HIDE DEF open
  <2>. QED
    BY <2>1, WriteAnswerSane
<1>5. ASSUME NEW w \in tab.writes, AnsweredLate(w) \/ EndWrite(w)
      PROVE  SaneInv'
  BY <1>5, DroppedSane DEF AnsweredLate, EndWrite
<1>. QED
  BY <1>1, <1>2, <1>3, <1>4, <1>5 DEF Answer

LEMMA DeedSane == ASSUME SaneInv, Deed PROVE SaneInv'
<1>1. CASE FetchFirst \/ \E g \in Groups : FetchNext(g)
  BY <1>1, FetchFirstSane, FetchNextSane
<1>2. CASE Move \/ Create \/ Delete
  BY <1>2, AsksSane
<1>3. CASE (\E r \in tab.reads : FailRead(r)) \/ (\E id \in Ids : FailJob(id))
  BY <1>3, FailReadSane, FailJobSane
<1>4. CASE \E w \in tab.writes : FailWrite(w)
  BY <1>4, DroppedSane DEF FailWrite
<1>5. ASSUME NEW w \in tab.writes, AnsweredBeside(w)
      PROVE  SaneInv'
  <2> DEFINE open == TRUE
  <2>1. open \in BOOLEAN /\ WriteAnswer(w, open) /\ (open => w.kind # "creates")
    BY <1>5 DEF AnsweredBeside
  <2>. HIDE DEF open
  <2>. QED
    BY <2>1, WriteAnswerSane
<1>6. CASE (\E can \in BOOLEAN : ChangeRole(can)) \/ Regain
  BY <1>6, ChangeRoleSane, RegainSane
<1>7. CASE \E id \in Ids, to \in Groups \cup {Out, Gone} : Others(id, to)
  BY <1>7, OthersSane
<1>. QED
  BY <1>1, <1>2, <1>3, <1>4, <1>5, <1>6, <1>7 DEF Deed

\* Every step leaves what holds of the tab and its list.
LEMMA NextSane == ASSUME SaneInv, [Next]_vars PROVE SaneInv'
<1>1. ASSUME UNCHANGED vars
      PROVE  SaneInv'
  BY <1>1 DEF vars, SaneInv, Now
<1>. QED
  BY <1>1, LookSane, AnswerSane, DeedSane DEF Next, Progress, Event, Rest

LEMMA AlwaysSane == Spec => []SaneInv
BY InitSane, NextSane, PTL DEF Spec

\* What a tab keeps is of its type: of each list no count is below zero, every
\* request carries a number that was given and a permission that was had, and
\* what is held of an issue is no newer than the server's (issue-list-binding.ts,
\* root.store.ts, issue-verification.ts).
THEOREM TypesHold == Spec => []TypeOK
<1>1. SaneInv => TypeOK
  <2>1. SUFFICES ASSUME SaneInv PROVE TypeOK
    OBVIOUS
  <2>2. /\ Now.issues = issues /\ Now.clock = clock
        /\ IsTab(tab) /\ IsServer(Now) /\ Scalars(tab) /\ HeldOk(tab, Now)
        /\ ReadsOk(tab, Now) /\ ValueOk(tab, Now)
    BY <2>1 DEF SaneInv, Sane, Now
  <2>3. issues \in [Ids -> [at : Places, ver : 0..clock]]
    BY <2>2 DEF IsServer
  <2>4. tab.held \in [Ids -> Entities]
    <3>1. \A x \in Ids : tab.held[x] \in Entities
      BY <2>2 DEF HeldOk, Entities
    <3>2. tab.held = [x \in Ids |-> tab.held[x]]
      BY <2>2 DEF IsTab, IsHeld
    <3>. QED
      BY <3>1, <3>2
  <2>5. \A r \in tab.reads : r.token \in 1..tab.serial /\ r.perm \in 0..tab.perm
    BY <2>2 DEF ReadsOk, ReadOk, FormOk
  <2>6. tab.val # NoVal => \A c \in Counters(tab.val) : CounterValue(tab.val, c) \in Nat
    BY <2>2 DEF ValueOk, SafeCounts
  <2>. QED
    BY <2>2, <2>3, <2>4, <2>5, <2>6 DEF TypeOK, Scalars, IsRecord, Statuses
<1>. QED
  BY <1>1, AlwaysSane, PTL

\* Once a tab was told that its change of an issue was made, its list does not
\* show the issue as it was before, nor at all when it was deleted (lib/reconciled.ts,
\* issue-list-binding.ts:411-420): whichever reads were out, whatever each was
\* served before or after, and in whatever order the answers come.
THEOREM OwnChangesAreShown == Spec => []OwnChangesStay
<1>1. SaneInv => OwnChangesStay
  <2>1. SUFFICES ASSUME SaneInv, tab.val # NoVal
                 PROVE  OwnChangesStay
    BY DEF OwnChangesStay
  <2>2. /\ Now.mine = mine /\ Now.basis = basis /\ ValueOk(tab, Now) /\ IsServer(Now)
    BY <2>1 DEF SaneInv, Sane, Now
  <2>3. ASSUME NEW g \in KnownGroups(tab.val), NEW row \in tab.val.groups[g].rows
        PROVE  /\ mine[row.id] # OutOfOrder => tab.held[row.id].k # "gone"
               /\ Shown(tab) /\ g \notin StaleGroups(tab) /\ ~basis[g].unmarked
                  => row.ver >= mine[row.id]
    <3>1. row.id \in Ids /\ row.ver \in Nat
      BY <2>1, <2>2, <2>3 DEF ValueOk, Fine
    <3>2. g \in Groups
      BY <2>3, <2>1, <2>2 DEF ValueOk, Fine, Sound, IsValue, IsGroups, KnownGroups
    <3>3. row \in GroupOf(tab.val, g).rows /\ GroupOf(tab.val, g) = tab.val.groups[g]
      BY <2>3 DEF GroupOf
    <3>4. mine[row.id] \in Int
      BY <2>2, <3>1 DEF IsServer
    <3>5. CASE mine[row.id] = OutOfOrder
      BY <3>1, <3>5 DEF OutOfOrder
    <3>6. CASE mine[row.id] # OutOfOrder
      <4>1. InOrder(Now, row.id)
        BY <2>2, <3>6 DEF InOrder
      <4>2. tab.held[row.id].k # "gone"
        BY <2>1, <2>2, <3>1, <3>2, <3>3, <4>1 DEF ValueOk
      <4>3. ASSUME Shown(tab), g \notin StaleGroups(tab), ~basis[g].unmarked
            PROVE  row.ver >= mine[row.id]
        <5>1. ~GroupOf(tab.val, g).stale
          BY <2>3, <3>3, <4>3 DEF StaleGroups
        <5>2. NewRows(tab.val, g, row.id, Facts(tab.val, g, row.id) \cup {mine[row.id]})
          BY <2>1, <2>2, <3>1, <3>2, <4>1, <4>3 DEF ValueOk
        <5>3. mine[row.id] \in 0..row.ver
          BY <3>3, <5>1, <5>2 DEF NewRows
        <5>. QED
          BY <3>1, <3>4, <5>3
      <4>. QED
        BY <3>6, <4>2, <4>3
    <3>. QED
      BY <3>5, <3>6
  <2>. QED
    BY <2>3 DEF OwnChangesStay
<1>. QED
  BY <1>1, AlwaysSane, PTL

=============================================================================
