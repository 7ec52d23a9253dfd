------------------------------ MODULE IssueLists ------------------------------
(***************************************************************************)
(* One tab's list of a project's work items, kept exact between reads      *)
(* (web/apps/web/core: lib/reconciled, store/issue/root.store, issue.store,*)
(* issue-verification, permission-reads, helpers/issue-list-binding and    *)
(* the hook use-issue-list-refresh).                                       *)
(*                                                                         *)
(* The tab holds the issues it has read, and a list of them: counts and    *)
(* pages per group (PagedGroups). It reads the list whole, a group's first *)
(* page or its next one; several reads may be out, and an answer says what *)
(* was true when it was served. A change this tab makes is worked into the *)
(* list when its answer comes, and again into every answer still out,      *)
(* which may have it or not. Where that cannot be told the group is stale  *)
(* and read again, and where it was only inferred the issue is verified:   *)
(* read by itself, then the list. When the person's role in the project    *)
(* changes, nothing read before is shown, and no answer to an earlier      *)
(* request counts.                                                         *)
(*                                                                         *)
(* Abstractions. One project, one list, always on the screen. What runs    *)
(* between two awaits is one step. Tokens captured in one step share their *)
(* serial. The server is its issues and a clock for their versions; other  *)
(* people change them. Bounds: a plan is how often each thing may happen.  *)
(***************************************************************************)
EXTENDS PagedGroups, SequencesExt

CONSTANTS PageSize,  \* the issues of a page
          Plans,     \* how often each thing may happen, see Spend
          Starts     \* where the issues may be at first

ASSUME IssueListsAssumption ==
    /\ Ids \subseteq Nat \ {0} /\ IsFiniteSet(Ids)
    /\ PageSize \in Nat \ {0}

VARIABLES issues,  \* the server's issues: where each is, and its version
          clock,   \* the last version given
          tab,     \* this tab, see Init
          left,    \* what the plan still allows
          others,  \* how many changes other people have made
          basis,   \* of each counter, what the answer was that it goes back to
          lost,    \* whether the list was not told of a change that was made, was
                   \* told wrongly, or an inference was not verified, or the list
                   \* not read again after a verification
          mine     \* the version of each issue's last change that this tab was told of,
                   \* unless it was told of them out of order

vars == <<issues, clock, tab, left, others, basis, lost, mine>>

Gone == "gone"
Unmade == "unmade"
Places == Groups \cup {Out, Gone, Unmade}
Whole == "whole"
Parts == Groups \cup {Whole}

ASSUME MarksAssumption == {Gone, Unmade, Whole} \cap Groups = {}

\* Where the issues may be at first: the server has a version of each, none of
\* them above the clock.
ASSUME StartsAssumption == Starts \subseteq [Ids -> [at : Places, ver : 0..1]]

NoVal == [none |-> TRUE]
NoEntity == [k |-> "none", at |-> Out, ver |-> 0, full |-> FALSE, perm |-> 0]
Tombstone == [NoEntity EXCEPT !.k = "gone"]
NoRecord == [status |-> "none", floor |-> 0, perm |-> 0]
NoJob == [phase |-> "none", token |-> 0, perm |-> 0, again |-> FALSE, answer |-> Unknown]
NoRound == [ids |-> [id \in Ids |-> -1], scoped |-> FALSE]
NoSnap == [id \in Ids |-> [at |-> Unmade, ver |-> 0]]
NoBasis == [others |-> -1, perm |-> -1, further |-> FALSE, gap |-> FALSE,
            twice |-> FALSE, unsure |-> FALSE, unmarked |-> FALSE]
NoError == 0
ReadError == -1
OutOfOrder == -1

Init ==
    /\ issues \in Starts
    /\ clock = 1
    /\ tab = [val |-> NoVal, hidden |-> FALSE, source |-> 0, error |-> NoError,
              failed |-> {}, attempted |-> {}, can |-> TRUE, perm |-> 0,
              serial |-> 0, deletion |-> 0, held |-> [id \in Ids |-> NoEntity],
              records |-> [id \in Ids |-> NoRecord], affected |-> {},
              jobs |-> [id \in Ids |-> NoJob], round |-> NoRound,
              reads |-> {}, writes |-> {}]
    /\ left \in Plans
    /\ others = 0
    /\ basis = [r \in AllCounters |-> NoBasis]
    /\ lost = FALSE
    /\ mine = [id \in Ids |-> 0]

Spend(what) == left[what] > 0 /\ left' = [left EXCEPT ![what] = @ - 1]

-----------------------------------------------------------------------------
(* What the tab shows *)

Shown(t) == t.val # NoVal /\ ~t.hidden

\* The issue as the tab's views get it.
Visible(t, id) ==
    /\ t.held[id].k = "held" /\ t.can /\ t.held[id].perm = t.perm
    /\ t.records[id] = NoRecord

Pending(t, id) == \E w \in t.writes : w.id = id /\ w.phase # "queued"

StaleGroups(t) ==
    IF Shown(t) THEN {g \in KnownGroups(t.val) : t.val.groups[g].stale} ELSE {}

Verifying(t) == \E id \in Ids : t.jobs[id].phase # "none"

\* The groups the list has the issue in, when it has it.
HeldParts(t, id) == {t.held[id].at} \cap Groups

-----------------------------------------------------------------------------
(* The value and its changes *)

\* A change of the value: a confirmed one, or groups that became stale.
Stale(groups) == [type |-> "stale", groups |-> groups]
Confirmed(change, sources) == [type |-> "confirm", change |-> change, sources |-> sources]
Deleted(change) == [type |-> "delete", change |-> change]

KeepNothing(t, c) == t

\* A change is kept for each read that may write, and made on the value held.
Keep(t, c) ==
    [t EXCEPT !.reads = {[r EXCEPT !.changes = IF r.live THEN Append(@, c) ELSE @] : r \in @}]

Doubt(t, groups) ==
    [Keep(t, Stale(groups)) EXCEPT !.val = IF @ = NoVal THEN @ ELSE MarkStale(@, groups)]

\* A change of an answer: a kept one, made again, or an issue of it that this tab
\* deleted.
MadeAgain(value, c, answer) ==
    CASE c.type = "stale" ->
           [value |-> MarkStale(value, c.groups), verify |-> FALSE, unsure |-> {}]
      [] c.type = "confirm" -> ReplayGroups(value, c.change, answer)
      [] c.type = "delete" -> ConfirmGroups(value, c.change, {})

SafeAlways(value) == TRUE

\* A count below zero is refused: it throws, and the answer or the change with it.
SafeCounts(value) == \A c \in Counters(value) : CounterValue(value, c) \in Nat

\* What was made of an answer so far, and the issues to verify.
Also(made, next, c) ==
    IF made.safe /\ SafeCounts(next.value)
    THEN [made EXCEPT !.value = next.value, !.unsure = @ \cup next.unsure,
                      !.verify = @ \cup IF next.verify THEN {c.change.id} ELSE {}]
    ELSE [made EXCEPT !.safe = FALSE]

MadeOf(value) == [value |-> value, safe |-> SafeCounts(value), verify |-> {}, unsure |-> {}]

MadeWith(made, c, answer) == Also(made, MadeAgain(made.value, c, answer), c)

\* An answer with changes worked into it, one after the other, until one throws.
Replayed(value, answer, changes) ==
    LET made[i \in 0..Len(changes)] ==
            IF i = 0 THEN MadeOf(value) ELSE MadeWith(made[i - 1], changes[i], answer)
    IN made[Len(changes)]

Invalidate(t) == [t EXCEPT !.reads = {[r EXCEPT !.live = FALSE] : r \in @}]

-----------------------------------------------------------------------------
(* Reads of the list *)

Loading(t, part) == \E r \in t.reads : r.part = part /\ r.owns

\* A read as it is sent, with the serial and the permission of now.
Asked(t, part, first, how, job) ==
    [part |-> part, how |-> how, first |-> first, token |-> t.serial + 1, perm |-> t.perm,
     lower |-> IF first THEN 0 ELSE t.val.groups[part].cursor, live |-> TRUE, owns |-> TRUE,
     changes |-> <<>>, job |-> job, phase |-> "asked", snap |-> NoSnap, others |-> 0,
     waits |-> {}]

\* The newest read of a part is the one that may write.
Send(t, sent) ==
    LET parts == {r.part : r \in sent} IN
    [t EXCEPT !.serial = @ + 1,
              !.reads = {[r EXCEPT !.live = @ /\ r.part \notin parts,
                                   !.owns = @ /\ r.part \notin parts] : r \in @} \cup sent]

\* A list not held, or held under a lost permission, is fetched; another one
\* is refreshed, which keeps its value until the answer.
SendWhole(t, job) ==
    Send(Invalidate(t), {Asked(t, Whole, TRUE, IF Shown(t) THEN "merge" ELSE "fetch", job)})

\* One page of a group in the order, as the server gives it.
PageOf(snap, g, lower) ==
    LET all == {id \in Ids : snap[id].at = g}
        after == {id \in all : id > lower}
        page == {id \in after : Cardinality({x \in after : x <= id}) <= PageSize}
    IN [total |-> Cardinality(all), rows |-> {[id |-> id, ver |-> snap[id].ver] : id \in page},
        more |-> page # after, boundary |-> IF page = {} THEN lower ELSE Max(page),
        cursor |-> IF page = {} THEN lower ELSE Max(page), stale |-> FALSE]

\* The answer of a read: the groups with issues, and the other groups the list
\* knows, which are empty.
Decode(t, r) ==
    LET there == {g \in Groups : \E id \in Ids : r.snap[id].at = g}
        known == IF t.val = NoVal THEN {} ELSE KnownGroups(t.val)
        parts == IF r.part = Whole THEN there \cup known ELSE {r.part}
        pages == [g \in parts |-> PageOf(r.snap, g, r.lower)]
    IN [total |-> IF r.part = Whole THEN Cardinality({id \in Ids : r.snap[id].at \in Groups}) ELSE 0,
        groups |-> pages,
        read |-> [source |-> t.source + 1, whole |-> r.part = Whole, first |-> r.first,
                  ranges |-> [g \in parts |->
                     [lower |-> r.lower, complete |-> ~pages[g].more,
                      upper |-> IF pages[g].rows = {} THEN 0 ELSE pages[g].boundary]]],
        counted |-> FALSE, evidence |-> [c \in AllCounters |-> NoEvidence]]

RowIds(answer) ==
    {row.id : row \in UNION {answer.groups[g].rows : g \in DOMAIN answer.groups}}

IsReadCurrent(t, perm, token) == perm = t.perm /\ token >= t.deletion

\* A read sent before a verification is no answer for what that verifies.
BlocksPage(t, token) ==
    \E id \in Ids : /\ t.records[id] # NoRecord
                    /\ id \in t.affected \/ t.held[id].k = "held"
                    /\ token <= t.records[id].floor

-----------------------------------------------------------------------------
(* Issues *)

HeldCurrent(t, id) == t.held[id].k = "held" /\ t.held[id].perm = t.perm

AcceptedUnversioned(t, ids, snap, token) ==
    {id \in ids : /\ t.records[id] # NoRecord => token > t.records[id].floor
                  /\ t.held[id].k # "gone"}

\* Which issues of an answer are taken in: none that is deleted or held newer.
Accepted(t, ids, snap, token) ==
    {id \in ids : /\ t.records[id] # NoRecord => token > t.records[id].floor
                  /\ t.held[id].k # "gone"
                  /\ HeldCurrent(t, id) => snap[id].ver >= t.held[id].ver}

\* The issues of an answer are taken in. A write of an issue that is out
\* remembers what was read meanwhile; else a move makes both groups stale. An
\* issue read since its verification began is verified.
AcceptRead(t, ids, snap, token, detail) ==
    LET taken == Accepted(t, ids, snap, token)
        moved == {id \in taken : /\ ~Pending(t, id) /\ t.held[id].k = "held"
                                 /\ t.held[id].at # snap[id].at}
        cleared == t.error \in taken /\ t.records[t.error].status \in {"error", "unconfirmed"}
        entity(id) == [k |-> "held", at |-> snap[id].at, ver |-> snap[id].ver, perm |-> t.perm,
                       full |-> detail \/ (HeldCurrent(t, id) /\ t.held[id].full)]
        seen(w) == IF w.id \in taken /\ w.phase # "queued"
                   THEN [w EXCEPT !.seen = @ \cup {snap[w.id]}] ELSE w
        read == [t EXCEPT
                   !.held = [id \in Ids |-> IF id \in taken THEN entity(id) ELSE @[id]],
                   !.records = [id \in Ids |-> IF id \in taken THEN NoRecord ELSE @[id]],
                   !.error = IF cleared THEN NoError ELSE @,
                   !.failed = IF cleared THEN {} ELSE @,
                   !.writes = {seen(w) : w \in @}]
        places == UNION {HeldParts(t, id) \cup ({snap[id].at} \cap Groups) : id \in moved}
    IN IF moved = {} THEN read ELSE Doubt(read, places)

-----------------------------------------------------------------------------
(* Verification *)

\* What of a list a verification makes stale: the issue's group, or all of it.
Doubted(t, id) == IF t.held[id].k = "held" THEN HeldParts(t, id) ELSE Groups

Pend(t, ids) ==
    [t EXCEPT !.records = [id \in Ids |->
        IF id \in ids THEN [status |-> "pending", floor |-> t.serial, perm |-> t.perm] ELSE @[id]]]

MarkDoubted(t, ids) ==
    IF ids = {} THEN t ELSE Doubt(t, UNION {Doubted(t, id) : id \in ids})

\* Issues are asked for by their own read, but one that this round has asked
\* for, and one whose record says how its last read ended.
Joined(t, id) ==
    (t.jobs[id].phase # "none" /\ t.jobs[id].perm = t.perm) \/ t.round.ids[id] = t.perm

Decided(t, id) ==
    t.records[id].status \notin {"none", "pending"} /\ t.records[id].perm = t.perm

Refused(t, ids) ==
    {id \in ids : /\ ~Joined(t, id) /\ Decided(t, id)
                  /\ t.records[id].status \in {"error", "unconfirmed"}}

Request(t, ids) ==
    LET fresh == {id \in ids : ~Joined(t, id) /\ ~Decided(t, id)}
        joined == {id \in ids : Joined(t, id)}
        unknown == {id \in fresh : t.records[id] = NoRecord \/ t.records[id].perm # t.perm}
        sent == [Pend(t, unknown) EXCEPT
                   !.serial = IF fresh = {} THEN @ ELSE @ + 1,
                   !.jobs = [id \in Ids |->
                       IF id \in fresh THEN [NoJob EXCEPT !.phase = "asked", !.perm = t.perm,
                                                          !.token = t.serial + 1]
                       ELSE @[id]],
                   !.round.ids = [id \in Ids |-> IF id \in fresh \cup joined THEN t.perm ELSE @[id]]]
    IN MarkDoubted(sent, fresh)

\* Nothing that is read from now on answers for these.
Unverified(t, ids) == \E id \in ids : Joined(t, id) /\ t.jobs[id].phase # "asked"

\* A change left no more than an inference: the issue must be verified.
Require(t, ids) ==
    LET open == {id \in ids : t.round.ids[id] = t.perm => t.records[id] # NoRecord}
        noted == Pend([t EXCEPT !.affected = @ \cup ids],
                      {id \in open : t.records[id] = NoRecord})
    IN Request(noted, open)

-----------------------------------------------------------------------------
(* The end of a read *)

Drop(t, rs) == [t EXCEPT !.reads = @ \ rs]

FinishUnderAnyRole(t, rs) ==
    LET whole == \E r \in rs : r.part = Whole
        failed == IF whole THEN {} ELSE t.failed \ {r.part : r \in rs}
    IN [Drop(t, rs) EXCEPT !.failed = failed, !.hidden = @ /\ ~whole,
                           !.error = IF failed = {} THEN NoError ELSE @]

\* Reads that are through: a whole one shows the list again, and no error is
\* left when no read's failure is.
Finish(t, rs) ==
    LET current == {r \in rs : r.perm = t.perm}
        whole == \E r \in current : r.part = Whole
        failed == IF whole THEN {} ELSE t.failed \ {r.part : r \in current}
    IN IF current = {} THEN Drop(t, rs)
       ELSE [Drop(t, rs) EXCEPT !.failed = failed,
                                !.hidden = @ /\ ~whole,
                                !.error = IF failed = {} THEN NoError ELSE @]

Fail(t, rs, error) ==
    IF rs = {} THEN t
    ELSE [Drop(t, rs) EXCEPT !.failed = @ \cup {r.part : r \in rs}, !.error = error]

\* A verification ends, and with it what waits for it; it ends with an error
\* only where its own read, or the read of the list after it, failed.
EndJob(t, id, error) ==
    LET waiting == {r \in t.reads : id \in r.waits}
        further == {[r EXCEPT !.waits = @ \ {id}] : r \in waiting}
        through == {r \in further : r.waits = {}}
        none == [t EXCEPT !.jobs[id] = NoJob]
    IN IF error # NoError THEN Fail(none, waiting, error)
       ELSE Finish([none EXCEPT !.reads = (@ \ waiting) \cup further], through)

\* A read ends, and with it the verification it was sent for.
EndRead(t, r, error) ==
    IF r.job # 0 /\ t.jobs[r.job].phase = "refreshing" THEN EndJob(t, r.job, error) ELSE t

\* The round of verifications ends with the last read in it.
Rounded(t) ==
    IF t.reads = {} /\ ~Verifying(t) THEN [t EXCEPT !.round = NoRound] ELSE t

-----------------------------------------------------------------------------
(* Reads of the list: the steps *)

FetchFirst ==
    /\ tab.can
    /\ Spend("reads")
    /\ tab' = SendWhole(tab, 0)
    /\ UNCHANGED <<issues, clock, others, basis, lost, mine>>

FetchNext(g) ==
    /\ Shown(tab) /\ g \in KnownGroups(tab.val)
    /\ tab.val.groups[g].more /\ ~Loading(tab, g)
    /\ Spend("pages")
    /\ tab' = Send(tab, {Asked(tab, g, FALSE, "merge", 0)})
    /\ UNCHANGED <<issues, clock, others, basis, lost, mine>>

\* What the screen does after each change of the list: a group that is stale is
\* read again, once in each time it is stale, and not beside an error.
Unread == IF tab.error = NoError /\ ~Verifying(tab) THEN StaleGroups(tab) \ tab.attempted ELSE {}
LookDue == Unread # {} \/ ~(tab.attempted \subseteq StaleGroups(tab))

Look ==
    LET looked == [tab EXCEPT !.attempted = (@ \cap StaleGroups(tab)) \cup Unread]
    IN /\ LookDue
       /\ tab' = IF Unread = {} THEN looked
                 ELSE Send(looked, {Asked(tab, g, TRUE, "merge", 0) : g \in Unread})
       /\ UNCHANGED <<issues, clock, left, others, basis, lost, mine>>

ServeRead(r) ==
    /\ r.phase = "asked"
    /\ tab' = [tab EXCEPT !.reads = (@ \ {r})
                  \cup {[r EXCEPT !.phase = "served", !.snap = issues, !.others = others]}]
    /\ UNCHANGED <<issues, clock, left, others, basis, lost, mine>>

FailRead(r) ==
    /\ r.phase \in {"asked", "served"}
    /\ Spend("failures")
    /\ tab' = LET t == Drop(tab, {r}) IN
              Rounded(IF r.live THEN EndRead(Fail(t, {r}, ReadError), r, ReadError)
                      ELSE EndRead(t, r, NoError))
    /\ UNCHANGED <<issues, clock, others, basis, lost, mine>>

\* What the answer's counters go back to: what other people had changed (a
\* further page is no newer than the first ones), the permission, whether it was
\* a further page, one that does not begin where the held ones end, and one that
\* left a stale group unmarked, whether one issue was changed twice while it was
\* out, and what changes left unsure.
Answers(t, r, unsure) ==
    LET twice == \E i, j \in DOMAIN r.changes :
                    /\ i < j /\ r.changes[i].type = "confirm" /\ r.changes[j].type = "confirm"
                    /\ r.changes[i].change.id = r.changes[j].change.id
        now == [others |-> r.others, perm |-> r.perm, further |-> ~r.first, twice |-> twice,
                gap |-> ~r.first /\ r.lower # GroupOf(t.val, r.part).cursor, unsure |-> FALSE,
                unmarked |-> ~r.first /\ GroupOf(t.val, r.part).stale]
        on(old) == IF r.first THEN now
                   ELSE [now EXCEPT !.others = Min({@, old.others}), !.gap = @ \/ old.gap,
                                    !.unmarked = @ \/ old.unmarked]
    IN IF r.part = Whole THEN [c \in AllCounters |-> [now EXCEPT !.unsure = c \in unsure]]
       ELSE [basis EXCEPT ![r.part] = on(@)]

Counts(r) == IsReadCurrent(tab, r.perm, r.token) /\ ~BlocksPage(tab, r.token)
Taken(r) == AcceptRead(tab, RowIds(Decode(tab, r)), r.snap, r.token, FALSE)

\* The read as its issues, taken in, left it.
Own(t, r) == CHOOSE x \in t.reads : x.part = r.part /\ x.token = r.token
Without(t, r) == [t EXCEPT !.source = @ + 1, !.reads = @ \ {Own(t, r)}]

\* The answer without the issues this tab deleted; a group with an issue to be
\* verified is stale.
Reconciled(t, r, raw) ==
    LET gone == {id \in RowIds(raw) : t.held[id].k = "gone"}
        doubted == {id \in RowIds(raw) \ gone : t.records[id] # NoRecord}
        ids == SetToSeq(gone)
        deleted == [i \in 1..Len(ids) |->
                      Deleted([id |-> ids[i], after |-> Absent,
                               before |-> Issue(r.snap[ids[i]].at, r.snap[ids[i]].ver)])]
    IN MarkStale([Replayed(raw, raw, deleted).value EXCEPT !.read = raw.read],
                 {r.snap[id].at : id \in doubted})

MadeOn(t, r, answer) ==
    Replayed(IF r.how = "fetch" THEN answer ELSE MergePages(t.val, answer), answer,
             Own(t, r).changes)

\* The list is written; then the verifications of its issues are waited for, but
\* not by the read one of them has sent.
Wait(t, r, ids) ==
    IF ids = {} THEN Finish(t, {r})
    ELSE [t EXCEPT !.reads = @ \cup {[r EXCEPT !.phase = "draining", !.live = FALSE,
                                                !.changes = <<>>, !.waits = ids]}]

Join(t, r, refused, drained) ==
    IF refused # {} THEN Fail(t, {r}, CHOOSE id \in refused : TRUE)
    ELSE Wait(t, r, {id \in drained : t.jobs[id].phase # "none"})

Drain(t, r) ==
    LET drained == {id \in t.affected : t.records[id] # NoRecord \/ t.round.ids[id] # -1}
    IN IF r.job # 0 THEN EndRead(Finish(t, {r}), r, NoError)
       ELSE Join(Request(t, drained), r, Refused(t, drained), drained)

Publish(t, r, made) ==
    /\ IF made.safe
       THEN /\ basis' = Answers(t, r, IF made.verify = {} THEN made.unsure ELSE AllCounters)
            /\ tab' = Rounded(Drain(Require([t EXCEPT !.val = made.value], made.verify), r))
       ELSE /\ tab' = Rounded(EndRead(Fail(Require(t, made.verify), {r}, ReadError), r, ReadError))
            /\ UNCHANGED basis
    /\ lost' = (lost \/ Unverified(t, made.verify))

\* An answer to an earlier permission, or from before a deletion or a
\* verification, counts for nothing.
ReadCountsNot(r) ==
    /\ r.phase = "served" /\ ~Counts(r)
    /\ tab' = Rounded(EndRead(Drop(tab, {r}), r, NoError))
    /\ UNCHANGED <<issues, clock, left, others, basis, lost, mine>>

\* The issues of another answer are taken in, whether or not the read may still
\* write the list.
ReadOverdue(r) ==
    /\ r.phase = "served" /\ Counts(r) /\ ~r.live
    /\ tab' = Rounded(EndRead(Without(Taken(r), r), r, NoError))
    /\ UNCHANGED <<issues, clock, left, others, basis, lost, mine>>

\* The list is written by the newest read only, with the changes made meanwhile.
ReadAnswer(r) ==
    /\ r.phase = "served" /\ Counts(r) /\ r.live
    /\ \E t \in {Taken(r)} :
          Publish(Without(t, r), r, MadeOn(t, r, Reconciled(t, r, Decode(tab, r))))
    /\ UNCHANGED <<issues, clock, left, others, mine>>

-----------------------------------------------------------------------------
(* Verifications: the steps *)

ServeJob(id) ==
    /\ tab.jobs[id].phase = "asked"
    /\ tab' = [tab EXCEPT !.jobs[id].phase = "served", !.jobs[id].answer = issues[id]]
    /\ UNCHANGED <<issues, clock, left, others, basis, lost, mine>>

\* The list is read again after a verification, once in a round.
Refresh(t, id) ==
    IF Shown(t) /\ ~t.round.scoped
    THEN SendWhole([t EXCEPT !.round.scoped = TRUE, !.jobs[id].phase = "refreshing"], id)
    ELSE EndJob(t, id, NoError)

Ended(t, id, status) ==
    [t EXCEPT !.records[id] = [status |-> status, floor |-> t.serial, perm |-> t.perm]]

FailJob(id) ==
    LET job == tab.jobs[id]
        refused == MarkDoubted([Ended(tab, id, "error") EXCEPT !.error = id], {id})
    IN /\ job.phase \in {"asked", "served"}
       /\ Spend("failures")
       /\ tab' = Rounded(IF IsReadCurrent(tab, job.perm, job.token) THEN EndJob(refused, id, id)
                         ELSE EndJob(tab, id, NoError))
       /\ UNCHANGED <<issues, clock, others, basis, lost, mine>>

\* An issue that is not there is missing; one that was taken in is verified;
\* one held newer, or deleted, is asked for once more and then left open.
JobAnswer(id) ==
    LET job == tab.jobs[id]
        missing == MarkDoubted(Ended(tab, id, "missing"), {id})
        read == AcceptRead(tab, {id}, [NoSnap EXCEPT ![id] = job.answer], job.token, TRUE)
        again == MarkDoubted([read EXCEPT !.serial = @ + 1,
                                !.jobs[id] = [job EXCEPT !.phase = "asked", !.again = TRUE,
                                                         !.token = read.serial + 1,
                                                         !.answer = Unknown]], {id})
        open == MarkDoubted([read EXCEPT !.records[id].status = "unconfirmed", !.error = id], {id})
    IN /\ job.phase = "served"
       /\ tab' = Rounded(
            CASE ~IsReadCurrent(tab, job.perm, job.token) -> EndJob(tab, id, NoError)
              [] IsReadCurrent(tab, job.perm, job.token) /\ job.answer.at \in {Gone, Unmade} ->
                   Refresh(missing, id)
              [] OTHER ->
                   IF read.records[id] = NoRecord THEN Refresh(read, id)
                   ELSE IF ~job.again /\ read.held[id].k = "held" /\ ~read.held[id].full THEN again
                   ELSE EndJob(open, id, NoError))
       /\ lost' = (lost \/ (tab.hidden /\ tab.val # NoVal))
       /\ UNCHANGED <<issues, clock, left, others, basis, mine>>

-----------------------------------------------------------------------------
(* Changes this tab makes *)

NewWrite(id, kind, to) ==
    [id |-> id, issue |-> id, kind |-> kind, to |-> to, perm |-> tab.perm, phase |-> "queued",
     before |-> Absent, sources |-> {}, seen |-> {}, after |-> Absent,
     was |-> [at |-> Unmade, ver |-> 0]]

\* What the tab holds is frozen before the request is sent: the issue, and what
\* the list's counts go back to.
Sent(w) ==
    [w EXCEPT !.phase = "sent",
        !.before = CASE w.id = 0 -> Absent
                     [] w.id # 0 /\ Visible(tab, w.id) -> Issue(tab.held[w.id].at, tab.held[w.id].ver)
                     [] OTHER -> Unknown,
        !.sources = IF tab.val = NoVal THEN {} ELSE HeldCounterSources(tab.val)]

\* A change of an issue waits for the one before it, of the same issue.
Ask(id, kind, to) ==
    LET w == NewWrite(id, kind, to) IN
    /\ tab.can /\ (id # 0 => Visible(tab, id))
    /\ Spend(kind)
    /\ tab' = [tab EXCEPT !.writes = @ \cup
                 {IF \E x \in tab.writes : id # 0 /\ x.id = id THEN w ELSE Sent(w)}]
    /\ UNCHANGED <<issues, clock, others, basis, lost, mine>>

Move == \E id \in Ids, to \in Groups \cup {Out} :
    /\ tab.held[id].at # to
    /\ \A w \in tab.writes : w.id = id => w.phase # "queued"
    /\ Ask(id, "moves", to)
Create == \E to \in Groups : Ask(0, "creates", to)
Delete == \E id \in Ids :
    /\ \A w \in tab.writes : w.id = id => w.phase # "queued"
    /\ Ask(id, "deletes", Gone)

\* A change that waited is sent only under the permission it was asked with,
\* and a move only of an issue the tab can still see.
Begin(w) ==
    LET t == [tab EXCEPT !.writes = @ \ {w}] IN
    /\ w.phase = "queued"
    /\ \A x \in tab.writes \ {w} : x.id # w.id
    /\ tab' = IF w.perm = tab.perm /\ (w.kind = "moves" => Visible(tab, w.id))
              THEN [t EXCEPT !.writes = @ \cup {Sent(w)}] ELSE t
    /\ UNCHANGED <<issues, clock, left, others, basis, lost, mine>>

\* What a change may leave its issue as: where it was to go, at the next version,
\* or as it was, when nothing is asked for that is not so already.
Outcomes(w, id) ==
    {[at |-> w.to, ver |-> clock + 1]} \cup {now \in {issues[id]} : now.at = w.to}

\* The answer: the issue as it is now, nothing of one that is deleted.
Served(w, id, now) ==
    [w EXCEPT !.phase = "served", !.issue = id, !.was = issues[id],
              !.after = IF w.to = Gone THEN Absent ELSE Issue(w.to, now.ver)]

\* The server makes the change, or refuses it: the issue is gone, or (a bound of
\* the model) no further one can be made. That it refuses to move an archived issue
\* to a group is left out: the model allows more than the server does.
ServeWrite(w) ==
    LET can == {id \in Ids : IF w.kind = "creates" THEN issues[id].at = Unmade
                             ELSE id = w.id /\ issues[id].at # Gone}
        id == Min(can)
    IN /\ w.phase = "sent"
       /\ IF can = {}
          THEN tab' = [tab EXCEPT !.writes = @ \ {w}] /\ UNCHANGED <<issues, clock>>
          ELSE \E now \in Outcomes(w, id) :
                  /\ tab' = [tab EXCEPT !.writes = (@ \ {w}) \cup {Served(w, id, now)}]
                  /\ issues' = [issues EXCEPT ![id] = now]
                  /\ clock' = IF now.ver > clock THEN now.ver ELSE clock
       /\ UNCHANGED <<left, others, basis, lost, mine>>

\* No answer comes, whether or not the change was made: the list is not told.
FailWrite(w) ==
    /\ w.phase \in {"sent", "served"}
    /\ Spend("failures")
    /\ tab' = [tab EXCEPT !.writes = @ \ {w}]
    /\ lost' = (lost \/ w.phase = "served")
    /\ UNCHANGED <<issues, clock, others, basis, mine>>

ContradictedNever(w) == FALSE

\* What was read of the issue while its change was out contradicts the frozen
\* issue or the answer: what it was before is not known.
Contradicted(w) ==
    /\ w.after.k = "known" /\ w.before.k = "known"
    /\ \E read \in w.seen :
          \/ read.ver > w.after.ver
          \/ /\ read.ver > w.before.ver
             /\ IF read.ver = w.after.ver THEN read.at # w.after.at ELSE read.at # w.before.at

\* The held issue becomes the answer's, but none that is deleted or held newer.
ConfirmEntity(t, id, after) ==
    CASE after.k = "absent" ->
           [t EXCEPT !.held[id] = Tombstone, !.records[id] = NoRecord, !.affected = @ \ {id}]
      [] after.k # "absent" /\ t.held[id].k # "gone" /\ t.held[id].ver <= after.ver ->
           [t EXCEPT !.held[id] = [k |-> "held", at |-> after.at, ver |-> after.ver,
                                   full |-> TRUE, perm |-> t.perm]]
      [] OTHER -> t

\* After a deletion no answer to an earlier request counts.
Removed(t) ==
    Doubt(Invalidate([t EXCEPT !.serial = @ + 1, !.deletion = t.serial + 1]), Groups)

\* A creation waits for nothing, and nothing for it: the issue may be read, changed
\* or deleted, and that be answered, before the creation is.
Overtaken(w) ==
    /\ w.kind = "creates"
    /\ tab.held[w.issue].k = "gone" \/ w.after.ver < mine[w.issue]

Tell(t, w, change, made, verify, rest) ==
    LET told == [Keep(t, Confirmed(change, w.sources)) EXCEPT !.val = made.value,
                                                              !.writes = (@ \ {w}) \cup rest]
    IN /\ tab' = Require(ConfirmEntity(told, w.issue, w.after), verify)
       /\ lost' = (lost \/ Unverified(t, verify) \/ Overtaken(w)
                        \/ (w.before.k = "known" /\ w.before.at # w.was.at /\ w.was \notin w.seen))
       /\ basis' = [c \in AllCounters |->
                      [basis[c] EXCEPT !.unsure = @ \/ c \in made.unsure \/ made.verify]]
       /\ mine' = [mine EXCEPT ![w.issue] =
                      IF @ = OutOfOrder \/ Overtaken(w) THEN OutOfOrder ELSE w.after.ver]

ChangeOf(w) ==
    [id |-> w.issue, before |-> IF Contradicted(w) THEN Unknown ELSE w.before, after |-> w.after]

Cleared(w) == IF w.after.k = "absent" THEN Removed(tab) ELSE tab

Worked(t, w) ==
    IF t.val = NoVal THEN [value |-> NoVal, verify |-> FALSE, unsure |-> {}]
    ELSE ConfirmGroups(t.val, ChangeOf(w), w.sources)

Safe(value) == value # NoVal => SafeCounts(value)

\* The answer of a change, worked into the list and kept for the answers out.
\* The write is over at once, or once what shows the issue's details was read
\* again. Under another permission the list is not told.
WriteAnswer(w, open) ==
    LET t == Cleared(w) IN
    /\ w.phase = "served" /\ w.perm = tab.perm
    /\ \E made \in {Worked(t, w)} :
          /\ Safe(made.value)
          /\ Tell(t, w, ChangeOf(w), made, IF made.verify THEN {w.issue} ELSE {},
                  IF open THEN {[w EXCEPT !.phase = "over"]} ELSE {})
    /\ UNCHANGED <<issues, clock, others>>

\* A count would go below zero: the answer throws, and nothing was told.
AnswerThrows(w) ==
    /\ w.phase = "served" /\ w.perm = tab.perm
    /\ ~Safe(Worked(Cleared(w), w).value)
    /\ tab' = [Cleared(w) EXCEPT !.writes = @ \ {w}]
    /\ lost' = TRUE
    /\ UNCHANGED <<issues, clock, left, others, basis, mine>>

AnsweredLate(w) ==
    /\ w.phase = "served" /\ w.perm # tab.perm
    /\ tab' = [tab EXCEPT !.writes = @ \ {w}]
    /\ lost' = TRUE
    /\ UNCHANGED <<issues, clock, left, others, basis, mine>>

Answered(w) == WriteAnswer(w, FALSE) /\ UNCHANGED left
AnsweredBeside(w) ==
    w.kind # "creates" /\ Spend("details") /\ WriteAnswer(w, TRUE)

EndWrite(w) ==
    /\ w.phase = "over"
    /\ tab' = [tab EXCEPT !.writes = @ \ {w}]
    /\ UNCHANGED <<issues, clock, left, others, basis, lost, mine>>

-----------------------------------------------------------------------------
(* What other people do *)

ChangeRole(can) ==
    /\ tab.can
    /\ Spend("roles")
    /\ tab' = [Invalidate(tab) EXCEPT
                 !.can = can, !.perm = @ + 1, !.hidden = TRUE, !.error = NoError, !.failed = {},
                 !.reads = {[r EXCEPT !.owns = FALSE] : r \in @}]
    /\ UNCHANGED <<issues, clock, others, basis, lost, mine>>

Regain ==
    /\ ~tab.can
    /\ tab' = [tab EXCEPT !.can = TRUE]
    /\ UNCHANGED <<issues, clock, left, others, basis, lost, mine>>

Others(id, to) ==
    /\ issues[id].at \notin {to, Gone}
    /\ issues[id].at = Unmade => to \in Groups
    /\ Spend("others")
    /\ issues' = [issues EXCEPT ![id] = [at |-> to, ver |-> clock + 1]]
    /\ clock' = clock + 1
    /\ others' = others + 1
    /\ UNCHANGED <<tab, basis, lost, mine>>

-----------------------------------------------------------------------------
(* What comes by itself, and what somebody does *)

\* The screen's look comes before the next answer, and before the next click.
Answer ==
    \/ \E r \in tab.reads : ServeRead(r) \/ ReadCountsNot(r) \/ ReadOverdue(r) \/ ReadAnswer(r)
    \/ \E id \in Ids : ServeJob(id) \/ JobAnswer(id)
    \/ \E w \in tab.writes : Begin(w) \/ ServeWrite(w) \/ Answered(w) \/ AnswerThrows(w)
                              \/ AnsweredLate(w) \/ EndWrite(w)

Progress == Look \/ (~LookDue /\ Answer)

Deed ==
    \/ FetchFirst
    \/ \E g \in Groups : FetchNext(g)
    \/ Move \/ Create \/ Delete
    \/ \E r \in tab.reads : FailRead(r)
    \/ \E id \in Ids : FailJob(id)
    \/ \E w \in tab.writes : FailWrite(w) \/ AnsweredBeside(w)
    \/ \E can \in BOOLEAN : ChangeRole(can)
    \/ Regain
    \/ \E id \in Ids, to \in Groups \cup {Out, Gone} : Others(id, to)

Event == ~LookDue /\ Deed

\* Nothing is out: without this step a state where something waits for an answer
\* that never comes is one the checker reports.
Quiet == tab.reads = {} /\ tab.writes = {} /\ ~Verifying(tab)
Rest == Quiet /\ ~LookDue /\ UNCHANGED vars

Next == Progress \/ Event \/ Rest

Spec == Init /\ [][Next]_vars

-----------------------------------------------------------------------------
(* Properties *)

Entities == [k : {"none", "held", "gone"}, at : Places, ver : 0..clock, full : BOOLEAN,
             perm : 0..tab.perm]

\* Of each group at most one page more is asked for at a time, a total is a
\* count (one below zero throws), and what verifies an issue is one request.
TypeOK ==
    /\ issues \in [Ids -> [at : Places, ver : 0..clock]]
    /\ tab.held \in [Ids -> Entities]
    /\ tab.deletion \in 0..tab.serial
    /\ tab.failed \subseteq Parts /\ tab.attempted \subseteq Groups
    /\ tab.error \in {NoError, ReadError} \cup Ids
    /\ \A r \in tab.reads : r.token \in 1..tab.serial /\ r.perm \in 0..tab.perm
    /\ \A id \in Ids : tab.records[id].status \in
          {"none", "pending", "missing", "error", "unconfirmed"}
    /\ tab.val # NoVal =>
          \A c \in Counters(tab.val) : CounterValue(tab.val, c) \in Nat

Members(g) == {id \in Ids : issues[id].at = g}

Listed(id) == \E g \in KnownGroups(tab.val) : RowsOf(tab.val.groups[g].rows, id) # {}

\* Nothing is out, nothing stale, failed or left open (no issue of the list is
\* missing), and nobody else has changed anything since the list was read.
Settled ==
    /\ Quiet /\ Shown(tab) /\ StaleGroups(tab) = {} /\ tab.error = NoError /\ ~lost
    /\ \A id \in Ids :
          \/ tab.records[id] = NoRecord
          \/ tab.records[id].status = "missing" /\ ~Listed(id)
    /\ \A c \in Counters(tab.val) : basis[c].others = others

Exact(c) ==
    CounterValue(tab.val, c)
    = Cardinality(IF c = Outer THEN UNION {Members(g) : g \in Groups} ELSE Members(c))

HasTheFirst(g) ==
    LET ids == {row.id : row \in GroupOf(tab.val, g).rows} IN
    /\ \A id \in Members(g) \ ids : \A x \in ids : x < id
    /\ ids # Members(g) => GroupOf(tab.val, g).more

\* The list is then the server's: each count, and of each group the first issues
\* in the order, at their versions. Left out is what does not hold: a count where
\* one of the next two properties is refuted, or a change left the whole list's
\* count unsure, which no group's reading mends; and the first issues of a group
\* that a further page and a refresh were read of at once, which may leave a gap.
SettledIsExact ==
    Settled =>
        /\ \A c \in AllCounters :
              \/ basis[c].further \/ basis[c].twice \/ (c = Outer /\ basis[c].unsure)
              \/ Exact(c)
        /\ \A g \in Groups :
              /\ \A row \in GroupOf(tab.val, g).rows :
                    row.id \in Members(g) /\ row.ver = issues[row.id].ver
              /\ basis[g].gap \/ HasTheFirst(g)

\* The last page of a group proves nothing of the issues before it.
FinalPageProvesNothingBefore ==
    Settled => \A g \in Groups : basis[g].further /\ ~basis[g].twice /\ ~basis[g].gap => Exact(g)

\* Two changes of one issue, made again on one answer, count as both.
ChangesAddUp ==
    Settled => \A c \in AllCounters :
                  basis[c].twice /\ ~basis[c].further /\ ~basis[c].unsure => Exact(c)

\* What is on the screen was read, every count and group of it, under the role
\* the person has now.
ReadUnderThisRole ==
    Shown(tab) => \A c \in AllCounters : basis[c].perm = tab.perm

\* Once this tab was told that its change was made, the list does not show the
\* issue as it was before, and one it deleted not at all, whichever answers were
\* out and in whatever order they come. Left out is a group that a further page
\* unmarked: it takes the mark of a stale group away and leaves its rows; and an
\* issue whose creation was answered after a later change of it.
OwnChangesStay ==
    tab.val # NoVal =>
        \A g \in KnownGroups(tab.val) :
            \A row \in tab.val.groups[g].rows :
                /\ mine[row.id] # OutOfOrder => tab.held[row.id].k # "gone"
                /\ Shown(tab) /\ g \notin StaleGroups(tab) /\ ~basis[g].unmarked
                   => row.ver >= mine[row.id]

\* A stale group is read again, or an error says that it was not.
StaleIsRetried ==
    Quiet /\ Shown(tab) /\ tab.error = NoError =>
        StaleGroups(tab) \cap tab.attempted = {}

\* Under one role an issue never goes back to an earlier version, and a deleted
\* one never comes back.
IssuesGoForward ==
    [][\A id \in Ids :
         /\ tab.held[id].k = "gone" => tab'.held[id].k = "gone"
         /\ HeldCurrent(tab, id) /\ tab'.perm = tab.perm /\ tab'.held[id].k = "held"
            => tab'.held[id].ver >= tab.held[id].ver]_vars

=============================================================================
