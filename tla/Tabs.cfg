\* Two tabs under either lock: a sign-in, a request, a closed tab and a
\* failure beside each other; a session lasts for three refresh tokens.
SPECIFICATION Spec
CONSTANTS
    t1 = t1
    t2 = t2
    Tabs <- MCTabs
    Plans <- MCPlans
    MaxLogins = 2
    MaxTokens = 3
SYMMETRY TabPerms
INVARIANTS
    TypeOK
    TokensStayInSession
    SpentOnlyAfterLoss
PROPERTIES
    RecordMovesOn
CHECK_DEADLOCK FALSE
