SPECIFICATION Spec
CONSTANTS
    x1 = x1
    x2 = x2
    x3 = x3
    Workers <- MCThree
    Users <- MCUsers
    Workspaces <- MCOneTwo
    Projects <- MCOneTwo
    Invitations <- MCInvitations
    HomeOf <- MCHome
    MaxRequests = 3
    Plans <- MCPlans
SYMMETRY ThreePerms
INVARIANTS
    TypeOK
    InvitationsStand
    InactiveIsNowhere
    WithinWorkspace
    NoDeadlock
PROPERTIES
    AdminKept
    NoWayBack
CHECK_DEADLOCK FALSE
