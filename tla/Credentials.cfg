SPECIFICATION Spec
CONSTANTS
    w1 = w1
    w2 = w2
    w3 = w3
    Workers <- MCThree
    Passwords <- MCPasswords
    TokenIds <- MCOne
    SessionTTL = 1
    Plans <- MCPlans
SYMMETRY ThreePerms
INVARIANTS
    TypeOK
    ExchangedOnce
    RefusedMeansEnded
    ResetIsFinal
    OthersSignedOut
    PasswordKept
    InactiveIsOut
PROPERTIES
    RevokedRotatesNot
CHECK_DEADLOCK FALSE
