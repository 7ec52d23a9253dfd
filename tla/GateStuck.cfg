\* Two projects, one place each, one waiter in line: three writes, across
\* both projects or on one, reach a full queue, a timeout and a hand-over to
\* a caller that gives up. A write may hold its projects for ever: the others
\* give up in time.
SPECIFICATION StuckSpec
CONSTANTS
    c1 = c1
    c2 = c2
    c3 = c3
    Callers <- MCCallers
    Keys <- MCKeys
    Plans <- MCPlans
    PerKey = 1
    MaxQueue = 1
INVARIANTS
    TypeOK
    CountsAgree
PROPERTIES
    ImplementsSlots
    WaitEnds
