SPECIFICATION Spec
CONSTANTS
    a = a
    b = b
    Groups <- MCGroups
    Ids <- MCIds
    PageSize = 1
    Plans <- MCPlans
    Starts <- MCStarts
INVARIANTS
    TypeOK
    SettledIsExact
    ReadUnderThisRole
    OwnChangesStay
PROPERTIES
    IssuesGoForward
