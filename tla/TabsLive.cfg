\* Two tabs under either lock, with fewer deeds, that must come to an end.
SPECIFICATION FairSpec
CONSTANTS
    t1 = t1
    t2 = t2
    Tabs <- MCTabs
    Plans <- MCFewPlans
    MaxLogins = 2
    MaxTokens = 2
PROPERTIES
    TabsAgree
    RequestsEnd
CHECK_DEADLOCK FALSE
