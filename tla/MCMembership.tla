---------------------------- MODULE MCMembership ----------------------------
\* Instances of Membership for TLC.
EXTENDS Membership, TLC

CONSTANTS x1, x2, x3

MCThree == {x1, x2, x3}
MCOneTwo == {1, 2}
MCUsers == 1..4
MCInvitations == 1..4
MCHome == [p \in {1, 2} |-> 1]

Row(role) == [role |-> role, active |-> TRUE]
Ended(role) == [role |-> role, active |-> FALSE]
FirstRows(first) == [u \in MCUsers |-> IF u \in DOMAIN first THEN first[u] ELSE NoRow]
Invite(w, u, role) == [ws |-> w, to |-> u, role |-> role, state |-> "pending"]

\* One workspace: an admin, a member, and a former member who is invited.
MCMembers ==
    [users |-> 1..3, asked |-> {Guest, Admin}, atOnce |-> 2, invitations |-> 1..2,
     members |-> <<FirstRows(<<Row(Admin), Row(Member), Ended(Guest)>>)>>,
     projects |-> <<>>, invited |-> <<Invite(1, 3, Admin)>>,
     kinds |-> {"createInvitations", "accept", "leave", "remove", "updateRole",
        "deactivate", "deactivateByEmail", "reactivate", "activate"}]

\* A workspace with its project: an admin, a member, and a former member.
MCProjects ==
    [users |-> 1..3, asked |-> {Guest, Admin}, atOnce |-> 2, invitations |-> {1},
     members |-> <<FirstRows(<<Row(Admin), Row(Member), Ended(Member)>>)>>,
     projects |-> <<FirstRows(<<Row(Member), Row(Admin), Ended(Admin)>>)>>,
     invited |-> <<Invite(1, 3, Guest)>>,
     kinds |-> {"accept", "leave", "updateRole", "joinProject",
        "addMember", "changeMember", "removeMember", "leaveProject", "deactivate",
        "deleteProject"}]

\* Two workspaces, invitations across them: 1 is alone in the second.
MCLocks ==
    [users |-> 1..3, asked |-> {}, atOnce |-> 3, invitations |-> 1..3,
     members |-> <<FirstRows(<<NoRow, NoRow, Row(Admin)>>), FirstRows(<<Row(Admin)>>)>>,
     projects |-> <<>>,
     invited |-> <<Invite(1, 2, Member), Invite(2, 2, Member), Invite(1, 1, Member)>>,
     kinds |-> {"accept", "decline", "leave", "deactivate", "deleteWorkspace"}]

\* A workspace of two admins, who invite two others.
MCBatches ==
    [users |-> 1..4, asked |-> {Member}, atOnce |-> 2, invitations |-> 1..4,
     members |-> <<FirstRows(<<Row(Admin), Row(Admin)>>)>>,
     projects |-> <<>>, invited |-> <<>>,
     kinds |-> {"createInvitations", "deleteInvitation", "accept", "deactivate"}]

\* What is made and unmade beside leaving: workspaces, projects, invitations.
MCHomes ==
    [users |-> 1..3, asked |-> {Member}, atOnce |-> 2, invitations |-> {1},
     members |-> <<FirstRows(<<Row(Admin), Row(Member)>>)>>,
     projects |-> <<FirstRows(<<Row(Admin), Row(Admin)>>)>>,
     invited |-> <<Invite(1, 3, Guest)>>,
     kinds |-> {"createWorkspace", "deleteWorkspace", "createProject",
        "updateInvitation", "deleteInvitation", "accept", "leave", "deactivate"}]

\* A membership is reactivated while its account is not active, and projects
\* take it in.
MCRevived ==
    [users |-> 1..2, asked |-> {Member}, atOnce |-> 2, invitations |-> {},
     members |-> <<FirstRows(<<Row(Admin), Row(Member)>>)>>,
     projects |-> <<FirstRows(<<Row(Admin)>>)>>, invited |-> <<>>,
     kinds |-> {"deactivateByEmail", "activate", "reactivate", "addMember",
        "joinProject", "createProject", "remove"}]

MCPlans == {MCRevived, MCMembers, MCProjects, MCLocks, MCBatches, MCHomes}

ThreePerms == Permutations(MCThree)
=============================================================================
