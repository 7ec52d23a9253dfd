------------------------------ MODULE PagedGroups ------------------------------
(***************************************************************************)
(* What a grouped list of work items shows, as a value, and what an answer *)
(* and a confirmed change make of it (web/apps/web/core/lib: paged-groups, *)
(* its evidence and its replay, and the membership of an issue).           *)
(*                                                                         *)
(* A list shows, of each group, how many issues the server counts in it    *)
(* and the first pages of them; a change this tab made is worked into that *)
(* value without a new read. Whether a count has a change in it already    *)
(* depends on what the count was read from: that is its evidence.          *)
(*                                                                         *)
(* Abstractions. One field groups the list, nothing subgroups it. The      *)
(* order is one no change touches, as the default, the creation: issues    *)
(* are numbers in that order. An issue is what decides where it is shown:  *)
(* its group, or Out when the query leaves it out (archived), and its      *)
(* version, which stands for updated_at.                                   *)
(***************************************************************************)
EXTENDS Integers, FiniteSets, FiniteSetsExt

CONSTANTS Ids,     \* the issues, as numbers in the list's order
          Groups   \* the list's groups

Out == "out"
Outer == "outer"
AllCounters == Groups \cup {Outer}

ASSUME PagedGroupsAssumption == {Out, Outer} \cap Groups = {}

\* An issue as a change or an answer has it: known, absent (not made yet, or
\* deleted), or unknown.
Issue(at, ver) == [k |-> "known", at |-> at, ver |-> ver]
Absent == [k |-> "absent", at |-> Out, ver |-> 0]
Unknown == [k |-> "unknown", at |-> Out, ver |-> 0]

-----------------------------------------------------------------------------
(* Membership: yes, no, or not known *)

IssueMembership(issue, ref) ==
    CASE issue.k = "unknown" -> "?"
      [] issue.k = "absent" -> "no"
      [] issue.k = "known" -> IF issue.at # Out /\ ref \in {Outer, issue.at}
                              THEN "yes" ELSE "no"

IssueParts(issue) == IF issue.k = "known" THEN {issue.at} \cap Groups ELSE {}

One(membership) == IF membership = "yes" THEN 1 ELSE 0

-----------------------------------------------------------------------------
(* Values. Zero is no issue: a boundary or a cursor that is not there. *)

EmptyGroup == [total |-> 0, rows |-> {}, more |-> FALSE, boundary |-> 0,
               cursor |-> 0, stale |-> FALSE]

\* A value has the groups it was told of; another one is an empty group.
KnownGroups(value) == DOMAIN value.groups
Counters(value) == KnownGroups(value) \cup {Outer}
GroupOf(value, g) == IF g \in KnownGroups(value) THEN value.groups[g] ELSE EmptyGroup

\* Which groups a counter is over.
CounterParts(value, ref) == IF ref = Outer THEN KnownGroups(value) ELSE {ref}

RowsOf(rows, id) == {r \in rows : r.id = id}

CounterRows(value, ref) ==
    [rows |-> UNION {GroupOf(value, g).rows : g \in CounterParts(value, ref)},
     complete |-> \A g \in CounterParts(value, ref) : ~GroupOf(value, g).more]

CounterValue(value, ref) ==
    IF ref = Outer THEN value.total ELSE GroupOf(value, ref).total

-----------------------------------------------------------------------------
(* Evidence: what a count was read from *)

NoRead == [whole |-> FALSE, parts |-> {}, none |-> TRUE]
NoEvidence == [source |-> -1]

\* The untouched answer: its rows, and which range of each group it covers.
PageEvidence(answer) ==
    [whole |-> answer.read.whole, none |-> FALSE,
     parts |-> {[group |-> g, rows |-> answer.groups[g].rows,
                 range |-> answer.read.ranges[g]] : g \in DOMAIN answer.read.ranges}]

CounterSource(value, ref) ==
    LET same == {e \in {value.evidence[r] : r \in AllCounters} :
                    e.source = value.read.source}
    IN [source |-> value.read.source, held |-> CounterRows(value, ref),
        read |-> CASE ~value.counted -> PageEvidence(value)
                   [] value.counted /\ same # {} -> (CHOOSE e \in same : TRUE).read
                   [] OTHER -> NoRead,
        confirmed |-> {}]

EvidenceOf(value, ref) ==
    IF value.evidence[ref] # NoEvidence THEN value.evidence[ref]
    ELSE CounterSource(value, ref)

\* The sources a value's counts go back to now.
HeldCounterSources(value) ==
    IF value.counted THEN {value.evidence[r].source : r \in AllCounters} \ {-1}
    ELSE {value.read.source}

Matches(ref, part) == ref \in {Outer, part.group}

\* Whether an answer would show an issue, were it in that group.
Covers(read, g, id) ==
    LET entries == {p \in read.parts : p.group = g} IN
    IF entries = {} THEN read.whole
    ELSE \A p \in entries :
            /\ p.range.lower = 0 \/ id > p.range.lower
            /\ p.range.complete \/ (p.range.upper # 0 /\ id <= p.range.upper)

\* Whether an answer was read before or after a change.
AnswerTiming(read, change) ==
    LET rows == UNION {RowsOf(p.rows, change.id) : p \in read.parts}
        known == change.after.k = "known"
        covered(issue) == \E g \in IssueParts(issue) : Covers(read, g, change.id)
    IN CASE rows # {} /\ known /\ (\E r \in rows : r.ver > change.after.ver) ->
              [phase |-> "newer", inferred |-> FALSE]
         [] rows # {} /\ known /\ (\A r \in rows : r.ver <= change.after.ver)
              /\ (\E r \in rows : r.ver = change.after.ver) ->
              [phase |-> "after", inferred |-> FALSE]
         [] rows # {} /\ (known => \A r \in rows : r.ver < change.after.ver) ->
              [phase |-> "before", inferred |-> FALSE]
         [] rows = {} /\ covered(change.after) ->
              [phase |-> "before", inferred |-> TRUE]
         [] rows = {} /\ ~covered(change.after) /\ covered(change.before) ->
              [phase |-> "after", inferred |-> TRUE]
         [] OTHER -> [phase |-> "unknown", inferred |-> FALSE]

\* Whether a counter of an answer read before a change counted the issue.
PriorAnswerMembership(read, change, ref) ==
    LET parts == {p \in read.parts : Matches(ref, p)}
        before == IssueMembership(change.before, ref)
        relevant == IF change.before.k = "known"
                    THEN {g \in IssueParts(change.before) : ref \in {Outer, g}}
                    ELSE {p.group : p \in parts}
        notThere ==
            /\ relevant # {}
            /\ \A g \in relevant :
                 IF change.before.k = "known" THEN Covers(read, g, change.id)
                 ELSE \E p \in parts : p.group = g /\ p.range.lower = 0 /\ p.range.complete
    IN CASE \E p \in parts : RowsOf(p.rows, change.id) # {} -> "yes"
         [] OTHER -> IF before = "no" \/ notThere THEN "no" ELSE before

\* The same, for the rows the list holds.
PriorRowMembership(held, change, ref) ==
    LET rows == RowsOf(held.rows, change.id) IN
    IF rows # {}
    THEN IF change.after.k = "known" /\ (\E r \in rows : r.ver = change.after.ver)
         THEN IssueMembership(change.after, ref) ELSE "yes"
    ELSE IF held.complete THEN "no" ELSE IssueMembership(change.before, ref)

\* Whether a count has the issue in it, from its own evidence: what a change
\* made of it, the rows it was held with, or the answer it came with.
PriorCounterMembership(source, change, ref, heldSources) ==
    LET facts == {f \in source.confirmed : f.id = change.id}
        timing == AnswerTiming(source.read, change)
    IN CASE facts # {} ->
              LET f == CHOOSE x \in facts : TRUE IN
              [old |-> CASE f.ver = 0 -> "no"
                         [] f.ver # 0 /\ change.after.k = "known" /\ f.ver = change.after.ver ->
                              IssueMembership(change.after, ref)
                         [] OTHER -> f.member,
               inferred |-> FALSE]
         [] facts = {} /\ source.source \in heldSources ->
              [old |-> PriorRowMembership(source.held, change, ref), inferred |-> FALSE]
         [] facts = {} /\ source.source \notin heldSources /\ source.read.none ->
              [old |-> "?", inferred |-> FALSE]
         [] OTHER ->
              [old |-> CASE timing.phase \in {"unknown", "newer"} -> "?"
                         [] timing.phase = "after" -> IssueMembership(change.after, ref)
                         [] OTHER -> PriorAnswerMembership(source.read, change, ref),
               inferred |-> timing.inferred /\ change.after.k = "known"]

\* A later fact about the issue leaves a counter as it is.
CounterSupersedes(source, change) ==
    /\ change.after.k = "known"
    /\ LET newer(r) == r.id = change.id /\ r.ver > change.after.ver IN
       \/ \E f \in source.confirmed : newer(f)
       \/ \E r \in source.held.rows : newer(r)
       \/ \E p \in source.read.parts : \E r \in p.rows : newer(r)

-----------------------------------------------------------------------------
(* A confirmed change *)

\* What is known of a change: the counters it is for ("refs"), those no later
\* fact has ("open"), and of these whether the issue was in the count, and among
\* the rows. What that does not tell leaves the groups concerned stale.
MakeChange(value, change, phase, known, refs, open, was, rowWas) ==
    LET next(r) == IssueMembership(change.after, r)
        unsure(r, old) == phase = "unknown" \/ old = "?" \/ next(r) = "?"
        touched(r, old) == old # "no" \/ next(r) # "no"
        there(g) == RowsOf(GroupOf(value, g).rows, change.id) # {}
        settled == {r \in open : ~unsure(r, was[r].old)}
        unsettled == {r \in open \ settled : touched(r, was[r].old)}
        doubted(g) == /\ unsettled \cap {g, Outer} # {}
                      /\ IssueMembership(change.before, g) # "no" \/ next(g) # "no" \/ there(g)
        count(r) == CounterValue(value, r)
                    + IF r \in settled /\ phase # "after"
                      THEN One(next(r)) - One(was[r].old) ELSE 0
        fact(r) == [id |-> change.id, ver |-> change.after.ver, member |-> next(r)]
        evidence(r) ==
            CASE r \in settled ->
                   [EvidenceOf(value, r) EXCEPT
                      !.confirmed = {f \in @ : f.id # change.id} \cup {fact(r)}]
              [] r \in open \ settled -> EvidenceOf(value, r)
              [] OTHER -> value.evidence[r]
        placed(g, group) ==
            {r \in group.rows : r.id # change.id}
            \cup IF /\ next(g) = "yes"
                    /\ ~group.more \/ (group.boundary # 0 /\ change.id <= group.boundary)
                 THEN {[id |-> change.id, ver |-> change.after.ver]} ELSE {}
        changed(g, group) ==
            CASE ~(touched(g, rowWas[g]) \/ there(g)) -> [group EXCEPT !.stale = @ \/ doubted(g)]
              [] unsure(g, rowWas[g]) /\ (touched(g, rowWas[g]) \/ there(g)) ->
                   [group EXCEPT !.stale = TRUE]
              [] OTHER -> [group EXCEPT !.rows = placed(g, group), !.stale = @ \/ doubted(g)]
    IN [value |->
          [value EXCEPT
             !.total = IF Outer \in refs THEN count(Outer) ELSE @,
             !.groups = [g \in known |->
                IF g \in open THEN changed(g, [GroupOf(value, g) EXCEPT !.total = count(g)])
                ELSE GroupOf(value, g)],
             !.evidence = [r \in AllCounters |-> evidence(r)],
             !.counted = TRUE],
        verify |-> \E r \in open : was[r].inferred,
        unsure |-> unsettled]

\* The change is worked into every counter and group of a value, those it was
\* in and comes to included. When it is made again on an answer, "replay" says
\* whether the answer was read before or after it, and only what the answer
\* brought is touched.
ApplyGroupChange(value, change, replay, heldSources) ==
    LET direct == replay.phase = "direct"
        whole == direct \/ replay.read.whole
        known == KnownGroups(value)
                 \cup IF whole THEN IssueParts(change.before) \cup IssueParts(change.after)
                      ELSE {}
        refs == IF whole THEN known \cup {Outer} ELSE replay.groups
        open == {r \in refs : direct => ~CounterSupersedes(EvidenceOf(value, r), change)}
        answered(r) == IF replay.phase = "after" THEN IssueMembership(change.after, r)
                       ELSE PriorAnswerMembership(replay.read, change, r)
        was(r) == IF direct
                  THEN PriorCounterMembership(EvidenceOf(value, r), change, r, heldSources)
                  ELSE [old |-> answered(r), inferred |-> FALSE]
        rowWas(g) == IF direct THEN PriorRowMembership(CounterRows(value, g), change, g)
                     ELSE answered(g)
    IN IF direct /\ Counters(value) \cap open = {}
       THEN [value |-> value, verify |-> FALSE, unsure |-> {}]
       ELSE MakeChange(value, change, replay.phase, known, refs, open,
                       [r \in open |-> was(r)], [g \in open \ {Outer} |-> rowWas(g)])

ConfirmGroups(value, change, heldSources) ==
    ApplyGroupChange(value, change, [phase |-> "direct"], heldSources)

\* The change made again on an answer: only the untouched answer says whether
\* it has the change already.
ReplayGroups(value, change, answer) ==
    LET read == PageEvidence(answer)
        timing == AnswerTiming(read, change)
        made == ApplyGroupChange(value, change,
                    [phase |-> timing.phase, read |-> read,
                     groups |-> DOMAIN answer.read.ranges], {})
    IN IF timing.phase = "newer" THEN [value |-> value, verify |-> FALSE, unsure |-> {}]
       ELSE [made EXCEPT !.verify = timing.inferred /\ change.after.k = "known"]

-----------------------------------------------------------------------------
(* An answer *)

\* An answer is merged into the value held: of the groups it has it brings
\* everything, a further page adds its rows.
MergePages(value, answer) ==
    LET brought == DOMAIN answer.read.ranges
        whole == answer.read.whole
        merged(g) ==
            LET old == GroupOf(value, g)
                raw == GroupOf(answer, g)
                kept == IF answer.read.first THEN {}
                        ELSE {r \in old.rows : RowsOf(raw.rows, r.id) = {}}
            IN [raw EXCEPT !.rows = kept \cup @,
                           !.boundary = IF old.boundary > @ THEN old.boundary ELSE @]
    IN [total |-> IF whole THEN answer.total ELSE value.total,
        groups |-> [g \in KnownGroups(value) \cup brought |->
                       IF whole \/ g \in brought THEN merged(g) ELSE value.groups[g]],
        read |-> IF whole THEN answer.read ELSE value.read,
        counted |-> ~whole,
        evidence |-> [r \in AllCounters |->
            CASE ~whole /\ r \in brought ->
                   [CounterSource(answer, r) EXCEPT !.read = PageEvidence(answer)]
              [] ~whole /\ r \in (Counters(value) \ brought) -> EvidenceOf(value, r)
              [] OTHER -> NoEvidence]]

MarkStale(value, groups) ==
    [value EXCEPT !.groups =
        [g \in KnownGroups(value) |-> [value.groups[g] EXCEPT !.stale = @ \/ g \in groups]]]

=============================================================================
