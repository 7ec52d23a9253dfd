SPECIFICATION Spec
CONSTANTS
    c1 = c1
    c2 = c2
    good = good
    bad = bad
    Assets <- MCTwo
    Callers <- MCCallers
    Contents <- MCContents
    Good <- MCGood
    Purposes <- MCImages
    UploadTTL = 1
    Lease = 1
    Settle = 0
    KeepUnbound = 0
    PurgeAfter = 0
    OrphanAge = 0
    MaxCandidates = 2
    MaxTime = 3
    MaxKeys = 2
    Plans <- MCPlans
SYMMETRY CallerPerms
INVARIANTS
    TypeOK
    KeptIsThere
    OrphansAreNobodys
    SweepIsThorough
    ShownIsKept
    ScopeIsEmptied
PROPERTIES
    PublishedOnce
CHECK_DEADLOCK FALSE
