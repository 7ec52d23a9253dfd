-------------------------------- MODULE MCTabs --------------------------------
\* Instances of Tabs for TLC.
EXTENDS Tabs, TLC

CONSTANTS t1, t2

MCTabs == {t1, t2}
TabPerms == Permutations(MCTabs)

Plan(lock, signIns, requests, closes, failures) ==
    [lock |-> lock, signIns |-> signIns, requests |-> requests, closes |-> closes,
     failures |-> failures]

\* Under the Web Locks lock: a sign-in beside a request, or beside a failure
\* and a closed tab. Under the lease: a sign-in beside a request, or beside a
\* failure, or a closed tab and a failure.
MCPlans ==
    {Plan("web", 1, 1, 0, 0), Plan("web", 1, 0, 1, 1), Plan("web", 0, 1, 1, 1),
     Plan("lease", 1, 1, 0, 0), Plan("lease", 1, 0, 0, 1), Plan("lease", 0, 0, 1, 1)}

\* Fewer of each, where every request must come to an end.
MCFewPlans ==
    {Plan("web", 1, 0, 0, 0), Plan("web", 0, 1, 0, 1), Plan("web", 0, 1, 1, 0),
     Plan("lease", 1, 0, 0, 0), Plan("lease", 0, 1, 1, 0), Plan("lease", 0, 1, 0, 1)}
===============================================================================
