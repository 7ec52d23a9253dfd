SPECIFICATION Spec
CONSTANTS
    a = a
    b = b
    Groups <- MCGroups
    Ids <- MCIds
    PageSize = 1
    Plans <- MCTwoMoves
    Starts <- MCApart
INVARIANT ChangesAddUp
