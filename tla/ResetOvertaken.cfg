SPECIFICATION Spec
CONSTANTS
    w1 = w1
    w2 = w2
    w3 = w3
    Workers <- MCThree
    Passwords <- MCPasswords
    TokenIds <- MCOne
    SessionTTL = 1
    Plans <- MCPlans
SYMMETRY ThreePerms
INVARIANT
    ResetRevokesTokens
CHECK_DEADLOCK FALSE
