\* Two projects, one place each, room in line for everyone: only the order of
\* the keys keeps the writes across both from waiting for each other, and two
\* may wait in one line.
SPECIFICATION FairSpec
CONSTANTS
    c1 = c1
    c2 = c2
    c3 = c3
    Callers <- MCCallers
    Keys <- MCKeys
    Plans <- MCPlans
    PerKey = 1
    MaxQueue = 2
INVARIANTS
    NoIdlePlace
PROPERTIES
    NoOvertaking
    EnterReturns
