----------------------------- MODULE MCIssueLists -----------------------------
\* Instances of IssueLists for TLC.
EXTENDS IssueLists, TLC

CONSTANTS a, b

MCGroups == {a, b}
MCIds == 1..3

Plan(what) ==
    [x \in {"reads", "pages", "moves", "creates", "deletes", "others", "roles", "failures",
            "details"} |-> IF x \in DOMAIN what THEN what[x] ELSE 0]

At(x, y) ==
    <<[at |-> x, ver |-> 1], [at |-> y, ver |-> 1], [at |-> Unmade, ver |-> 0]>>
MCTogether == {At(a, a)}
MCApart == {At(a, b)}
MCStarts == MCTogether \cup MCApart

\* Each with two reads of the list: two moves and a change of the role; a move
\* beside what other people do, with a view of the details, a failure, a further
\* page or a change of the role; a deletion; a creation, alone or beside a move or a
\* deletion.
MCPlans ==
    {Plan([reads |-> 2, moves |-> 2, roles |-> 1]),
     Plan([reads |-> 2, moves |-> 1, others |-> 1, details |-> 1]),
     Plan([reads |-> 2, moves |-> 1, others |-> 1, failures |-> 1]),
     Plan([reads |-> 2, moves |-> 1, others |-> 1, pages |-> 1]),
     Plan([reads |-> 2, moves |-> 1, others |-> 1, roles |-> 1]),
     Plan([reads |-> 2, moves |-> 1, deletes |-> 1]),
     Plan([reads |-> 2, moves |-> 2, others |-> 1]),
     Plan([reads |-> 2, others |-> 1, creates |-> 1]),
     Plan([reads |-> 2, moves |-> 1, creates |-> 1]),
     Plan([reads |-> 2, deletes |-> 1, creates |-> 1]),
     Plan([reads |-> 2, moves |-> 3])}

\* Enough to refute what the sources say of the list.
MCFurtherPage == {Plan([reads |-> 2, pages |-> 1, moves |-> 1])}
MCTwoMoves == {Plan([reads |-> 2, moves |-> 2])}
MCMoveAndOther == {Plan([reads |-> 2, moves |-> 1, others |-> 1])}
=============================================================================
