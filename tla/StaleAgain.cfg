SPECIFICATION Spec
CONSTANTS
    a = a
    b = b
    Groups <- MCGroups
    Ids <- MCIds
    PageSize = 1
    Plans <- MCMoveAndOther
    Starts <- MCApart
INVARIANT StaleIsRetried
