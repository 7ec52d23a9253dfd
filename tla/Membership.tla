------------------------------ MODULE Membership -----------------------------
(***************************************************************************)
(* Who belongs to which workspace and project: the writes of               *)
(* server/internal/modules/workspace/app and modules/project/app on        *)
(* memberships, invitations and what they belong to, and identity's        *)
(* deactivation of an account, as concurrent transactions on PostgreSQL.   *)
(*                                                                         *)
(* A worker is one request or administrator's command at a time: one       *)
(* transaction. It goes through the stages of its route: in each it takes  *)
(* the row locks of that stage's statement one after another, then makes   *)
(* the checks the code makes under them. What it writes others see when it *)
(* commits. One action is the locking of one row, or a stage's checks with *)
(* the next statement's choice of the rows to lock, or the writes with the *)
(* commit. READ COMMITTED: a statement sees what is committed as it        *)
(* begins, and a row it waited for is judged by its newest version.        *)
(*                                                                         *)
(* Abstractions. FOR NO KEY UPDATE, FOR UPDATE and the lock of an UPDATE   *)
(* are one mode, "own": nothing here locks FOR KEY SHARE what another has  *)
(* FOR UPDATE. Rows of workspace_members are locked only under their       *)
(* workspace's lock, own under own and share under share, and rows of      *)
(* project_members only under their project's: neither is ever waited for, *)
(* and both are left out. An account has one address, its own, and a       *)
(* working credential while it is active (module Credentials). A batch of  *)
(* invitations has one role, and addMember adds one account. Projects are  *)
(* public. Why a request is refused is left out, and so are display        *)
(* settings, states, labels, images and moments.                           *)
(***************************************************************************)
EXTENDS Integers, Sequences, FiniteSets

CONSTANTS Workers,        \* the transactions in flight
          Users,          \* the accounts, as numbers in the order of ids
          Workspaces,     \* as numbers in the order of ids
          Projects,       \* as numbers in the order of ids
          Invitations,    \* bound: the invitations ever made, ordered by id
          HomeOf,         \* the workspace of each project
          MaxRequests,    \* bound: how many come
          Plans           \* what there is at first, who asks, for what, and how
                          \* many at a time

Guest == 1
Member == 2
Admin == 3
Roles == {Guest, Member, Admin}
Nothing == 0

\* A row of workspace_members or project_members.
Rows == [role : Roles, active : BOOLEAN]
NoRow == [role |-> Nothing, active |-> FALSE]
NoRows == [u \in Users |-> NoRow]

\* An undeleted invitation is pending or declined.
InvitationRows == [ws : Workspaces, to : Users, role : Roles,
                   state : {"pending", "declined", "deleted"}]

RoleIn(rows, u) == IF rows[u].active THEN rows[u].role ELSE Nothing
IsAdmin(rows, u) == RoleIn(rows, u) = Admin
HasAdmin(rows) == \E u \in Users : IsAdmin(rows, u)

\* What is typed, stands and is within what, of any memberships and invitations.
MembersTyped(ms) ==
    /\ DOMAIN ms \subseteq Workspaces
    /\ \A w \in DOMAIN ms : ms[w] \in [Users -> Rows \cup {NoRow}]
ProjectsTyped(ms, ps) ==
    /\ DOMAIN ps \subseteq Projects
    /\ \A p \in DOMAIN ps :
          HomeOf[p] \in DOMAIN ms /\ ps[p] \in [Users -> Rows \cup {NoRow}]
InvitationsTyped(is) ==
    /\ DOMAIN is \subseteq Invitations
    /\ \A i \in DOMAIN is : is[i] \in InvitationRows

Within(ms, ps) ==
    \A p \in DOMAIN ps, u \in Users :
        LET row == ms[HomeOf[p]][u] IN
        /\ ps[p][u].active => row.active
        /\ row.role = Guest => ps[p][u].role \in {Guest, Nothing}

OneToAnAddress(is) ==
    \A i, k \in DOMAIN is :
        /\ i # k /\ is[i].state # "deleted" /\ is[k].state # "deleted"
        /\ is[i].ws = is[k].ws
        => is[i].to # is[k].to

ASSUME MembershipAssumption ==
    /\ IsFiniteSet(Workers)
    /\ IsFiniteSet(Users) /\ Users \subseteq Nat
    /\ Workspaces \subseteq Nat \ {Nothing}
    /\ Projects \subseteq Nat \ {Nothing} /\ Invitations \subseteq Nat \ {Nothing}
    /\ HomeOf \in [Projects -> Workspaces]
    /\ MaxRequests \in Nat

\* What there is at first, the program has left so: it keeps the rules below,
\* and invitations are numbered as they were made.
ASSUME PlansAssumption ==
    \A p \in Plans :
        /\ p.users \subseteq Users /\ p.asked \subseteq Roles /\ p.atOnce \in Nat
        /\ p.invitations \subseteq Invitations
        /\ MembersTyped(p.members) /\ ProjectsTyped(p.members, p.projects)
        /\ InvitationsTyped(p.invited)
        /\ IsFiniteSet(DOMAIN p.invited)
        /\ DOMAIN p.invited = 1..Cardinality(DOMAIN p.invited)
        /\ \A w \in DOMAIN p.members, u \in Users \ p.users : ~ p.members[w][u].active
        /\ Within(p.members, p.projects)
        /\ \A q \in DOMAIN p.projects, u \in Users :
              p.projects[q][u] # NoRow => p.members[HomeOf[q]][u] # NoRow
        /\ \A i \in DOMAIN p.invited : p.invited[i].state = "pending" =>
              /\ p.invited[i].ws \in DOMAIN p.members
              /\ HasAdmin(p.members[p.invited[i].ws])
        /\ OneToAnAddress(p.invited)

VARIABLES
    plan,         \* the one of Plans this behavior is about
    active,       \* users.is_active
    members,      \* workspace_members of the undeleted workspaces
    projects,     \* project_members of the undeleted projects
    invitations,  \* workspace_member_invites, by id
    gone,         \* the rows of the deleted workspaces and projects
    held,         \* the locks of each transaction
    todo,         \* the locks its stage still has to take
    step,         \* the stage of its route it is at; 0: it has no transaction
    job,          \* what it does
    requests,     \* how many came
    revived       \* history: whose membership of which workspace was
                  \* reactivated while his account was not active

data == <<active, members, projects, invitations, gone, revived>>
vars == <<plan, data, held, todo, step, job, requests>>

\* The rows transactions lock. An address is an entry of the invitations'
\* unique index, which its inserter holds until it commits.
UserRow(u) == [kind |-> "user", id |-> u]
WorkspaceRow(w) == [kind |-> "workspace", id |-> w]
InvitationRow(i) == [kind |-> "invitation", id |-> i]
Address(w, u) == [kind |-> "address", ws |-> w, id |-> u]
ProjectRow(p) == [kind |-> "project", id |-> p]

Own(row) == [row |-> row, mode |-> "own"]
Share(row) == [row |-> row, mode |-> "share"]

There(w) == w \in DOMAIN members
Standing(p) == p \in DOMAIN projects
Undeleted(i) == i \in DOMAIN invitations /\ invitations[i].state # "deleted"
Pending(i) == i \in DOMAIN invitations /\ invitations[i].state = "pending"

Others(rows, u) == {v \in Users \ {u} : rows[v].active}

\* Broken: an admin whose membership ended counts.
OtherAdminEver(rows, u) == \E v \in Users \ {u} : rows[v].role = Admin
OtherAdmin(rows, u) == \E v \in Others(rows, u) : IsAdmin(rows, v)

\* Rule 2: u is the only active admin of others.
SoleAdmin(rows, u) ==
    IsAdmin(rows, u) /\ ~ OtherAdmin(rows, u) /\ Others(rows, u) # {}

RoleOn(w, u) == IF There(w) THEN RoleIn(members[w], u) ELSE Nothing
RoleAt(p, u) == IF Standing(p) THEN RoleIn(projects[p], u) ELSE Nothing
ProjectsOf(w) == {p \in DOMAIN projects : HomeOf[p] = w}

NoJob == [kind |-> "none"]

Init ==
    /\ plan \in Plans
    /\ active = [u \in Users |-> u \in plan.users]
    /\ members = plan.members
    /\ projects = plan.projects
    /\ invitations = plan.invited
    /\ gone = {}
    /\ held = [x \in Workers |-> {}]
    /\ todo = [x \in Workers |-> {}]
    /\ step = [x \in Workers |-> 0]
    /\ job = [x \in Workers |-> NoJob]
    /\ requests = 0
    /\ revived = {}

-----------------------------------------------------------------------------
(* What each request locks, in the order of its code.                        *)

Deactivations == {"deactivate", "deactivateByEmail"}

\* What the server's administrator asks for, whether or not the account is
\* active.
ByAdministrator == {"deactivateByEmail", "activate", "reactivate"}

Route == [
    createInvitations |-> <<"account", "shareWorkspace", "addresses">>,
    updateInvitation  |-> <<"shareWorkspace", "invitation">>,
    deleteInvitation  |-> <<"shareWorkspace", "invitation">>,
    accept            |-> <<"account", "workspace", "invitation", "demoted">>,
    decline           |-> <<"shareAccount", "shareWorkspace", "invitation">>,
    leave             |-> <<"workspace", "pending", "ending">>,
    remove            |-> <<"workspace", "pending", "ending">>,
    updateRole        |-> <<"account", "workspace", "demoted">>,
    deactivate        |-> <<"account", "homes", "doomed", "ending">>,
    deactivateByEmail |-> <<"account", "homes", "doomed", "ending">>,
    activate          |-> <<"account">>,
    reactivate        |-> <<"shareAccount", "workspace">>,
    createWorkspace   |-> <<"shareAccount">>,
    deleteWorkspace   |-> <<"workspace", "invitations", "projects">>,
    createProject     |-> <<"account", "shareWorkspace">>,
    joinProject       |-> <<"account", "shareWorkspace", "project">>,
    addMember         |-> <<"shareWorkspace", "project">>,
    changeMember      |-> <<"shareWorkspace", "project">>,
    removeMember      |-> <<"shareWorkspace", "project">>,
    leaveProject      |-> <<"shareWorkspace", "project">>,
    deleteProject     |-> <<"shareWorkspace", "project">>]

\* The stages whose statement names one row: without it the request is
\* refused. The others lock the rows they find.
Named == {"workspace", "shareWorkspace", "invitation", "project", "addresses"}

Stage(x) == Route[job[x].kind][step[x]]

\* What names an invitation or a project names its workspace with it.
OfInvitation == {"accept", "decline", "updateInvitation", "deleteInvitation"}
OfProject == {"joinProject", "leaveProject", "deleteProject", "removeMember",
              "addMember", "changeMember"}

WorkspaceOf(j) == CASE j.kind \in OfInvitation -> invitations[j.invitation].ws
                    [] j.kind \in OfProject -> HomeOf[j.project]
                    [] OTHER -> j.ws

\* Whose memberships it ends or changes.
Subject(j) == IF j.kind \in {"remove", "updateRole"} THEN j.of ELSE j.by

HeldWorkspaces(x) == {w \in Workspaces : Own(WorkspaceRow(w)) \in held[x]}
HeldInvitations(x) == {i \in Invitations : Own(InvitationRow(i)) \in held[x]}
HeldProjects(x) == {p \in Projects : Own(ProjectRow(p)) \in held[x]}

\* A write of a workspace's memberships, or of the workspace.
MembershipLock(w) == Own(WorkspaceRow(w))

\* Broken: the pending invitations of a workspace left empty stay.
DoomedButThoseOfEmptied(u, emptied) ==
    {i \in DOMAIN invitations : Undeleted(i) /\ invitations[i].to = u}

\* LockInvitationsToDelete: those to u anywhere, and those that could still
\* let someone into a workspace that u, deactivated, leaves empty.
Doomed(u, emptied) ==
    {i \in DOMAIN invitations :
        \/ Undeleted(i) /\ invitations[i].to = u
        \/ Pending(i) /\ invitations[i].ws \in emptied}

\* Broken: an ended membership's invitation stays.
NoInvitation(w, u) == {}

PendingTo(w, u) ==
    {i \in DOMAIN invitations :
        Pending(i) /\ invitations[i].ws = w /\ invitations[i].to = u}

\* Broken: a guest's ended memberships keep their roles.
DemotedWhereActive(w, u) == {p \in ProjectsOf(w) : projects[p][u].active}

\* LockMemberProjects: where u has a membership, ended ones too.
DemotedIn(w, u) == {p \in ProjectsOf(w) : projects[p][u] # NoRow}

\* An invitation accepted restores an ended membership as a guest's, or a
\* member is made a guest.
MakesGuest(j) ==
    LET row == members[WorkspaceOf(j)][Subject(j)]
    IN  IF j.kind = "updateRole" THEN j.role = Guest
        ELSE /\ row # NoRow /\ ~ row.active
             /\ invitations[j.invitation].role = Guest

\* The locks of x's stage s, as its statement finds them when it begins.
LocksOf(x, j, s) ==
    CASE s = "account"        -> {Own(UserRow(j.by))}
      [] s = "shareAccount"   -> {Share(UserRow(j.by))}
      [] s = "workspace"      -> {MembershipLock(WorkspaceOf(j))}
      [] s = "shareWorkspace" -> {Share(WorkspaceRow(WorkspaceOf(j)))}
      [] s = "homes" ->
            {MembershipLock(w) : w \in {v \in DOMAIN members : members[v][j.by].active}}
      [] s = "invitation"     -> {Own(InvitationRow(j.invitation))}
      [] s = "addresses"      -> {Own(Address(j.ws, u)) : u \in j.whom}
      [] s = "pending" ->
            {Own(InvitationRow(i)) : i \in PendingTo(j.ws, Subject(j))}
      [] s = "doomed" ->
            {Own(InvitationRow(i)) : i \in Doomed(j.by,
                {w \in HeldWorkspaces(x) : Others(members[w], j.by) = {}})}
      [] s = "invitations" ->
            {Own(InvitationRow(i)) : i \in
                {k \in DOMAIN invitations : Undeleted(k) /\ invitations[k].ws = j.ws}}
      [] s = "project"        -> {Own(ProjectRow(j.project))}
      [] s = "projects"       -> {Own(ProjectRow(p)) : p \in ProjectsOf(j.ws)}
      [] s = "demoted" ->
            {Own(ProjectRow(p)) : p \in
                IF MakesGuest(j) THEN DemotedIn(WorkspaceOf(j), Subject(j)) ELSE {}}
      [] s = "ending" ->
            {Own(ProjectRow(p)) : p \in
                {q \in DOMAIN projects : /\ HomeOf[q] \in HeldWorkspaces(x)
                                         /\ projects[q][Subject(j)].active}}

\* No undeleted invitation has the address.
FreeAddress(row) ==
    \A i \in DOMAIN invitations :
        Undeleted(i) => Address(invitations[i].ws, invitations[i].to) # row

\* Whether x still finds the row, once nobody else holds it.
Found(x, row) ==
    CASE row.kind = "user"       -> TRUE
      [] row.kind = "workspace"  -> There(row.id)
      [] row.kind = "project"    -> Standing(row.id)
      [] row.kind = "invitation" ->
            \/ Pending(row.id)
            \/ Undeleted(row.id)
               /\ \/ Stage(x) \in {"invitation", "invitations"}
                  \/ Stage(x) = "doomed" /\ invitations[row.id].to = job[x].by
      [] row.kind = "address"    -> FreeAddress(row)

Conflict(a, b) == a.row = b.row /\ (a.mode = "own" \/ b.mode = "own")

\* Broken: a batch takes its addresses in the order of its request, which
\* may be any: here every other account asks in the order of their names.
UpcomingInRequestOrder(x) ==
    {lock \in todo[x] : \A other \in todo[x] :
        IF Stage(x) = "addresses" /\ job[x].by % 2 = 0 THEN lock.row.id >= other.row.id
                                                       ELSE lock.row.id <= other.row.id}

\* The lock x takes next: a statement locks its rows in the order of their
\* ids, and a batch its addresses in theirs (byAddress).
Upcoming(x) ==
    {lock \in todo[x] : \A other \in todo[x] : lock.row.id <= other.row.id}

\* The transactions x waits for.
Blockers(x) ==
    {y \in Workers \ {x} :
        \E lock \in Upcoming(x), taken \in held[y] : Conflict(taken, lock)}

-----------------------------------------------------------------------------
(* What is checked under the locks of each stage.                            *)

\* Broken: an account deactivated meanwhile is not refused.
AccountGoes(j) == TRUE

\* LockCaller, or the account's state as read under FOR SHARE.
AccountPasses(j) == j.kind \notin ByAdministrator => active[j.by]

\* Rule 1: the only admin does not leave.
MayLeave(w, u) ==
    /\ RoleOn(w, u) # Nothing
    /\ RoleOn(w, u) = Admin => OtherAdmin(members[w], u)

\* The decision on a workspace's action, and what the use case checks next.
WorkspacePasses(j) ==
    LET w == WorkspaceOf(j)
        admin == RoleOn(w, j.by) = Admin
    IN  CASE j.kind = "leave"          -> MayLeave(w, j.by)
          [] j.kind \in {"remove", "updateRole"} ->
                admin /\ members[w][j.of].active /\ j.of # j.by
          [] j.kind = "deleteWorkspace" -> admin
          [] j.kind = "reactivate"     -> members[w][j.by] # NoRow
          [] j.kind = "createProject"  ->
                /\ RoleOn(w, j.by) \in {Admin, Member}
                /\ RoleOn(w, j.of) \in {Admin, Member}
          [] j.kind = "createInvitations" ->
                /\ admin
                /\ \A u \in j.whom : ~ members[w][u].active
                /\ \A i \in DOMAIN invitations :
                      Undeleted(i) /\ invitations[i].ws = w =>
                          invitations[i].to \notin j.whom
          [] OTHER -> TRUE

InvitationPasses(j) ==
    LET i == j.invitation
    IN  CASE j.kind \in {"accept", "decline"} ->
                Pending(i) /\ invitations[i].to = j.by
          [] j.kind = "updateInvitation" ->
                Pending(i) /\ RoleOn(WorkspaceOf(j), j.by) = Admin
          [] j.kind = "deleteInvitation" -> RoleOn(WorkspaceOf(j), j.by) = Admin

\* A project-level rule for admins: they, and members who are the
\* workspace's admins.
ManagesProject(j) ==
    /\ RoleOn(WorkspaceOf(j), j.by) # Nothing
    /\ RoleAt(j.project, j.by) # Nothing
    /\ Admin \in {RoleAt(j.project, j.by), RoleOn(WorkspaceOf(j), j.by)}

Addable == [r \in Roles |-> IF r = Member THEN Roles ELSE {r}]

\* CheckTargets.
MayAdd(j) ==
    /\ ManagesProject(j)
    /\ RoleAt(j.project, j.of) = Nothing
    /\ RoleOn(WorkspaceOf(j), j.of) # Nothing
    /\ j.role \in Addable[RoleOn(WorkspaceOf(j), j.of)]

\* CheckRoleChange.
MayChange(j) ==
    LET his == RoleAt(j.project, j.of)
        mine == RoleAt(j.project, j.by)
    IN  /\ ManagesProject(j)
        /\ his # Nothing
        /\ RoleOn(WorkspaceOf(j), j.by) # Admin =>
              j.of # j.by /\ his < mine /\ j.role < mine
        /\ RoleOn(WorkspaceOf(j), j.of) = Guest => j.role = Guest

ProjectPasses(j) ==
    LET w == WorkspaceOf(j)
        p == j.project
    IN  CASE j.kind = "joinProject"   -> RoleOn(w, j.by) \in {Admin, Member}
          [] j.kind = "addMember"     -> MayAdd(j)
          [] j.kind = "changeMember"  -> MayChange(j)
          [] j.kind = "removeMember"  ->
                /\ ManagesProject(j)
                /\ RoleAt(p, j.of) # Nothing
                /\ j.of # j.by
                /\ RoleAt(p, j.of) <= RoleAt(p, j.by)
          [] j.kind = "leaveProject"  ->
                /\ RoleOn(w, j.by) # Nothing
                /\ RoleAt(p, j.by) # Nothing
                /\ RoleAt(p, j.by) = Admin => OtherAdmin(projects[p], j.by)
          [] j.kind = "deleteProject" -> ManagesProject(j)

\* EndMemberships: rule 2, in the projects it locked.
EndingPasses(x) ==
    \A p \in HeldProjects(x) : ~ SoleAdmin(projects[p], Subject(job[x]))

Passes(x) ==
    LET j == job[x]
    IN  CASE Stage(x) \in {"account", "shareAccount"}     -> AccountPasses(j)
          [] Stage(x) \in {"workspace", "shareWorkspace"} -> WorkspacePasses(j)
          [] Stage(x) = "homes" ->
                \A w \in HeldWorkspaces(x) : ~ SoleAdmin(members[w], j.by)
          [] Stage(x) = "invitation" -> InvitationPasses(j)
          [] Stage(x) = "project"    -> ProjectPasses(j)
          [] Stage(x) = "ending"     -> EndingPasses(x)
          [] OTHER                   -> TRUE

-----------------------------------------------------------------------------
(* The life of a transaction.                                                *)

Callers == {u \in Users : active[u]}
Known == {i \in DOMAIN invitations : Undeleted(i)}

\* What can be asked for. What a request names is there when it comes; it
\* need not be any more when it is locked.
Requests ==
    UNION {
      [kind : {"leave", "deleteWorkspace"}, by : Callers, ws : DOMAIN members],
      [kind : {"remove"}, by : Callers, ws : DOMAIN members, of : plan.users],
      [kind : {"updateRole"}, by : Callers, ws : DOMAIN members, of : plan.users,
       role : plan.asked],
      [kind : {"createInvitations"}, by : Callers, ws : DOMAIN members,
       whom : (SUBSET plan.users) \ {{}}, role : plan.asked],
      [kind : {"accept", "decline", "deleteInvitation"}, by : Callers,
       invitation : Known],
      [kind : {"updateInvitation"}, by : Callers, invitation : Known,
       role : plan.asked],
      [kind : {"deactivate", "createWorkspace"}, by : Callers],
      [kind : {"deactivateByEmail", "activate"}, by : plan.users],
      [kind : {"reactivate"}, by : plan.users, ws : DOMAIN members],
      [kind : {"createProject"}, by : Callers, ws : DOMAIN members, of : plan.users],
      [kind : {"joinProject", "leaveProject", "deleteProject"}, by : Callers,
       project : DOMAIN projects],
      [kind : {"removeMember"}, by : Callers, project : DOMAIN projects,
       of : plan.users],
      [kind : {"addMember", "changeMember"}, by : Callers,
       project : DOMAIN projects, of : plan.users, role : plan.asked]}

\* x's transaction begins with its first statement.
Begin(x, j) ==
    /\ step[x] = 0
    /\ requests < MaxRequests
    /\ j.kind \in plan.kinds
    /\ Cardinality({y \in Workers : step[y] # 0}) < plan.atOnce
    /\ requests' = requests + 1
    /\ job' = [job EXCEPT ![x] = j]
    /\ step' = [step EXCEPT ![x] = 1]
    /\ todo' = [todo EXCEPT ![x] = LocksOf(x, j, Route[j.kind][1])]
    /\ UNCHANGED <<plan, data, held>>

\* x takes its next lock. A row that a list's statement no longer finds is
\* left out; one that it names, or an address that is taken, is a refusal.
Take(x) ==
    /\ Blockers(x) = {}
    /\ \E lock \in Upcoming(x) :
          /\ Stage(x) \in Named => Found(x, lock.row)
          /\ held' = [held EXCEPT ![x] = IF Found(x, lock.row) THEN @ \cup {lock} ELSE @]
          /\ todo' = [todo EXCEPT ![x] = @ \ {lock}]
    /\ UNCHANGED <<plan, data, step, job, requests>>

Staged(x) == step[x] \in 1..Len(Route[job[x].kind])

\* x has a stage's locks, passes its checks and goes on: with the choice of
\* the next stage's rows, or to its writes.
Advance(x) ==
    /\ step[x] # 0 /\ Staged(x)
    /\ todo[x] = {}
    /\ Passes(x)
    /\ step' = [step EXCEPT ![x] = @ + 1]
    /\ todo' = [todo EXCEPT ![x] = IF step[x] < Len(Route[job[x].kind])
                                   THEN LocksOf(x, job[x], Route[job[x].kind][step[x] + 1])
                                   ELSE {}]
    /\ UNCHANGED <<plan, data, held, job, requests>>

\* Broken: the transaction ends and its locks stay.
EndHolding(x) ==
    /\ step' = [step EXCEPT ![x] = 0]
    /\ job' = [job EXCEPT ![x] = NoJob]
    /\ todo' = [todo EXCEPT ![x] = {}]
    /\ UNCHANGED <<plan, held, requests>>

End(x) ==
    /\ step' = [step EXCEPT ![x] = 0]
    /\ job' = [job EXCEPT ![x] = NoJob]
    /\ todo' = [todo EXCEPT ![x] = {}]
    /\ held' = [held EXCEPT ![x] = {}]
    /\ UNCHANGED <<plan, requests>>

\* The transaction is rolled back: a check refused it, a row it named is
\* gone, or it failed, at any moment.
Rollback(x) == step[x] # 0 /\ End(x) /\ UNCHANGED data

\* x's transaction of one of the kinds has passed every check.
Ready(x, kinds) == step[x] # 0 /\ job[x].kind \in kinds /\ ~ Staged(x)

-----------------------------------------------------------------------------
(* The writes, each with its commit.                                         *)

EndedIn(rows, S, u) ==
    [k \in DOMAIN rows |-> IF k \in S THEN [rows[k] EXCEPT ![u].active = FALSE]
                                      ELSE rows[k]]

Deleted(S) ==
    [i \in DOMAIN invitations |->
        IF i \in S THEN [invitations[i] EXCEPT !.state = "deleted"]
                   ELSE invitations[i]]

MadeGuestIn(S, u) ==
    [p \in DOMAIN projects |-> IF p \in S THEN [projects[p] EXCEPT ![u].role = Guest]
                                          ELSE projects[p]]

CreateInvitations(x) ==
    LET j == job[x]
        n == Cardinality(DOMAIN invitations)
        new == n + 1 .. n + Cardinality(j.whom)
    IN  /\ Ready(x, {"createInvitations"})
        /\ new \subseteq plan.invitations
        /\ \E to \in [new -> j.whom] :
              /\ \A i, k \in new : i < k => to[i] < to[k]
              /\ invitations' = [i \in DOMAIN invitations \cup new |->
                    IF i \in new THEN [ws |-> j.ws, to |-> to[i], role |-> j.role,
                                       state |-> "pending"]
                                 ELSE invitations[i]]
        /\ End(x)
        /\ UNCHANGED <<active, members, projects, gone, revived>>

UpdateInvitation(x) ==
    /\ Ready(x, {"updateInvitation"})
    /\ invitations' = [invitations EXCEPT ![job[x].invitation].role = job[x].role]
    /\ End(x)
    /\ UNCHANGED <<active, members, projects, gone, revived>>

DeleteInvitation(x) ==
    /\ Ready(x, {"deleteInvitation"})
    /\ invitations' = Deleted({job[x].invitation})
    /\ End(x)
    /\ UNCHANGED <<active, members, projects, gone, revived>>

Decline(x) ==
    /\ Ready(x, {"decline"})
    /\ invitations' = [invitations EXCEPT ![job[x].invitation].state = "declined"]
    /\ End(x)
    /\ UNCHANGED <<active, members, projects, gone, revived>>

\* An active member keeps his role. An ended membership is restored, and a
\* new one made, with the invitation's.
Accept(x) ==
    LET j == job[x]
        i == j.invitation
        w == invitations[i].ws
    IN  /\ Ready(x, {"accept"})
        /\ members' = [members EXCEPT ![w][j.by] =
              IF @.active THEN @ ELSE [role |-> invitations[i].role, active |-> TRUE]]
        /\ projects' = MadeGuestIn(HeldProjects(x), j.by)
        /\ invitations' = Deleted({i})
        /\ End(x)
        /\ UNCHANGED <<active, gone, revived>>

\* The subject leaves or is removed: membershipEnd.
EndMembership(x) ==
    LET j == job[x]
    IN  /\ Ready(x, {"leave", "remove"})
        /\ invitations' = Deleted(HeldInvitations(x))
        /\ members' = EndedIn(members, {j.ws}, Subject(j))
        /\ projects' = EndedIn(projects, HeldProjects(x), Subject(j))
        /\ revived' = revived \ {<<j.ws, Subject(j)>>}
        /\ End(x)
        /\ UNCHANGED <<active, gone>>

UpdateRole(x) ==
    LET j == job[x]
    IN  /\ Ready(x, {"updateRole"})
        /\ members' = [members EXCEPT ![j.ws][j.of].role = j.role]
        /\ projects' = MadeGuestIn(HeldProjects(x), j.of)
        /\ End(x)
        /\ UNCHANGED <<active, invitations, gone, revived>>

Deactivate(x) ==
    LET u == job[x].by
    IN  /\ Ready(x, Deactivations)
        /\ active' = [active EXCEPT ![u] = FALSE]
        /\ invitations' = Deleted(HeldInvitations(x))
        /\ members' = EndedIn(members, HeldWorkspaces(x), u)
        /\ projects' = EndedIn(projects, HeldProjects(x), u)
        /\ revived' = {r \in revived : r[2] # u}
        /\ End(x)
        /\ UNCHANGED gone

Activate(x) ==
    LET u == job[x].by
    IN  /\ Ready(x, {"activate"})
        /\ active' = [active EXCEPT ![u] = TRUE]
        /\ revived' = {r \in revived : r[2] # u}
        /\ End(x)
        /\ UNCHANGED <<members, projects, invitations, gone>>

\* reactivate-member: the membership active again, the account as it is.
Reactivate(x) ==
    LET u == job[x].by
        w == job[x].ws
    IN  /\ Ready(x, {"reactivate"})
        /\ members' = [members EXCEPT ![w][u].active = TRUE]
        /\ revived' = IF active[u] THEN revived ELSE revived \cup {<<w, u>>}
        /\ End(x)
        /\ UNCHANGED <<active, projects, invitations, gone>>

CreateWorkspace(x) ==
    /\ Ready(x, {"createWorkspace"})
    /\ \E w \in Workspaces :
          /\ ~ There(w) /\ WorkspaceRow(w) \notin gone
          /\ members' = [v \in DOMAIN members \cup {w} |->
                IF v = w THEN [NoRows EXCEPT ![job[x].by] = [role |-> Admin, active |-> TRUE]]
                         ELSE members[v]]
    /\ End(x)
    /\ UNCHANGED <<active, projects, invitations, gone, revived>>

DeleteWorkspace(x) ==
    LET w == job[x].ws
    IN  /\ Ready(x, {"deleteWorkspace"})
        /\ members' = [v \in DOMAIN members \ {w} |-> members[v]]
        /\ projects' = [p \in DOMAIN projects \ ProjectsOf(w) |-> projects[p]]
        /\ invitations' = Deleted(HeldInvitations(x))
        /\ gone' = gone \cup {WorkspaceRow(w)} \cup {ProjectRow(p) : p \in ProjectsOf(w)}
        /\ End(x)
        /\ UNCHANGED <<active, revived>>

\* The caller and the lead are its admins.
CreateProject(x) ==
    LET j == job[x]
    IN  /\ Ready(x, {"createProject"})
        /\ \E p \in Projects :
              /\ ~ Standing(p) /\ ProjectRow(p) \notin gone /\ HomeOf[p] = j.ws
              /\ projects' = [q \in DOMAIN projects \cup {p} |->
                    IF q = p THEN [u \in Users |-> IF u \in {j.by, j.of}
                                     THEN [role |-> Admin, active |-> TRUE] ELSE NoRow]
                             ELSE projects[q]]
        /\ End(x)
        /\ UNCHANGED <<active, members, invitations, gone, revived>>

\* A new membership has the workspace's role, an ended one no more than it had.
JoinRole(row, role) == IF row # NoRow /\ row.role < role THEN row.role ELSE role

\* An active member stays as he is.
JoinProject(x) ==
    LET j == job[x]
        row == projects[j.project][j.by]
    IN  /\ Ready(x, {"joinProject"})
        /\ projects' = IF row.active THEN projects
                       ELSE [projects EXCEPT ![j.project][j.by] =
                              [role |-> JoinRole(row, RoleOn(WorkspaceOf(j), j.by)),
                               active |-> TRUE]]
        /\ End(x)
        /\ UNCHANGED <<active, members, invitations, gone, revived>>

AddOrChangeMember(x) ==
    LET j == job[x]
    IN  /\ Ready(x, {"addMember", "changeMember"})
        /\ projects' = [projects EXCEPT ![j.project][j.of] =
                          [role |-> j.role, active |-> TRUE]]
        /\ End(x)
        /\ UNCHANGED <<active, members, invitations, gone, revived>>

EndProjectMembership(x) ==
    LET j == job[x]
        u == IF j.kind = "leaveProject" THEN j.by ELSE j.of
    IN  /\ Ready(x, {"leaveProject", "removeMember"})
        /\ projects' = EndedIn(projects, {j.project}, u)
        /\ End(x)
        /\ UNCHANGED <<active, members, invitations, gone, revived>>

DeleteProject(x) ==
    LET p == job[x].project
    IN  /\ Ready(x, {"deleteProject"})
        /\ projects' = [q \in DOMAIN projects \ {p} |-> projects[q]]
        /\ gone' = gone \cup {ProjectRow(p)}
        /\ End(x)
        /\ UNCHANGED <<active, members, invitations, revived>>

Write(x) ==
    \/ CreateInvitations(x) \/ UpdateInvitation(x) \/ DeleteInvitation(x)
    \/ Decline(x) \/ Accept(x)
    \/ EndMembership(x) \/ UpdateRole(x)
    \/ Deactivate(x) \/ Activate(x) \/ Reactivate(x)
    \/ CreateWorkspace(x) \/ DeleteWorkspace(x)
    \/ CreateProject(x) \/ JoinProject(x) \/ AddOrChangeMember(x)
    \/ EndProjectMembership(x) \/ DeleteProject(x)

Next ==
    \E x \in Workers :
        \/ \E j \in Requests : Begin(x, j)
        \/ Take(x)
        \/ Advance(x)
        \/ Rollback(x)
        \/ Write(x)

Spec == Init /\ [][Next]_vars

-----------------------------------------------------------------------------
(* What holds.                                                               *)

\* Every variable has its type, and a worker without a transaction holds and
\* awaits no lock.
TypeOK ==
    /\ active \in [Users -> BOOLEAN]
    /\ MembersTyped(members)
    /\ ProjectsTyped(members, projects)
    /\ InvitationsTyped(invitations)
    /\ step \in [Workers -> 0..5]
    /\ requests \in 0..MaxRequests
    /\ revived \subseteq Workspaces \X Users
    /\ \A x \in Workers : step[x] = 0 =>
          held[x] = {} /\ todo[x] = {} /\ job[x] = NoJob

Empty(rows) == \A u \in Users : ~ rows[u].active

\* A workspace or a project that has an admin keeps one as long as it has a
\* member.
KeepsAdmin(rows, next) == HasAdmin(rows) => HasAdmin(next) \/ Empty(next)

\* Rules 1 and 2 (M3 design 3.7): whatever leaves, removals, demotions and
\* deactivations run at once, a workspace keeps an admin, and who goes does not
\* leave a project's other members without one.
AdminKept ==
    [][/\ \A w \in DOMAIN members :
             w \in DOMAIN members' => KeepsAdmin(members[w], members'[w])
       /\ \A p \in DOMAIN projects \cap DOMAIN projects' :
             (\E u \in Users : projects[p][u].active /\ ~ projects'[p][u].active)
             => KeepsAdmin(projects[p], projects'[p])]_vars

\* u could accept an invitation to w.
Invited(w, u) ==
    \E i \in DOMAIN invitations :
        Pending(i) /\ invitations[i].ws = w /\ invitations[i].to = u

\* M3 design 3.8: a membership that ends leaves no invitation by which he
\* could come back without being invited again.
NoWayBack ==
    [][\A w \in DOMAIN members \cap DOMAIN members', u \in Users :
          members[w][u].active /\ ~ members'[w][u].active =>
              ~ Invited(w, u)']_vars

\* M3 design 3.7 and 3.8: no invitation leads into a workspace without a
\* member, which whoever accepted it would be alone in, without an admin; and
\* two batches that race leave an address one invitation at most.
InvitationsStand ==
    /\ \A i \in DOMAIN invitations :
          Pending(i) => ~ Empty(members[invitations[i].ws])
    /\ OneToAnAddress(invitations)

\* M3 design 3.6 convention 6: no acceptance, creation or invitation that
\* raced a deactivation leaves its account an active member of anything; only
\* reactivate-member does that, of the workspace it names, and what others then
\* add him to in it.
InactiveIsNowhere ==
    \A u \in Users : ~ active[u] =>
        /\ \A w \in DOMAIN members : members[w][u].active => <<w, u>> \in revived
        /\ \A p \in DOMAIN projects :
              projects[p][u].active => <<HomeOf[p], u>> \in revived

\* M3 design 3.3, 3.6 and 3.8: an active member of a project is an active
\* member of its workspace, and a guest of the workspace is a guest in all of
\* its projects, also in those he left, so that he does not come back as more.
WithinWorkspace == Within(members, projects)

\* M3 design 3.6's global order: transactions never wait for each other in a
\* circle.
NoDeadlock ==
    \A S \in (SUBSET Workers) \ {{}} :
        \E x \in S : Blockers(x) \cap S = {}
=============================================================================
