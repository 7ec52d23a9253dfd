-------------------------- MODULE MembershipLocks --------------------------
(***************************************************************************)
(* Proofs about Membership, for any number of transactions, accounts,      *)
(* workspaces and projects.                                                *)
(*                                                                         *)
(* IInv is inductive. What a transaction knows, it knows of each stage it  *)
(* is past: that it has the locks of the rows that matter (Covers), and    *)
(* what its checks found (Checked). No other transaction takes it away:    *)
(* Frame says what a transaction may write under which of its locks, and   *)
(* Kept what that leaves of another's knowledge.                           *)
(***************************************************************************)
EXTENDS Membership, TLAPS, FiniteSetTheorems, WellFoundedInduction

Kinds == DOMAIN Route
Stages == {"account", "shareAccount", "workspace", "shareWorkspace", "homes",
           "invitation", "pending", "doomed", "invitations", "addresses",
           "project", "demoted", "ending", "projects"}

\* The kind of row that a stage locks, and the global order of the kinds.
RowKind(s) ==
    CASE s \in {"account", "shareAccount"} -> "user"
      [] s \in {"workspace", "shareWorkspace", "homes"} -> "workspace"
      [] s \in {"invitation", "pending", "doomed", "invitations"} -> "invitation"
      [] s = "addresses" -> "address"
      [] OTHER -> "project"

Class(kind) ==
    CASE kind = "user" -> 1
      [] kind = "workspace" -> 2
      [] kind \in {"invitation", "address"} -> 3
      [] OTHER -> 4

Shareable == {UserRow(u) : u \in Users} \cup {WorkspaceRow(w) : w \in Workspaces}
LockRows ==
    Shareable \cup {InvitationRow(i) : i \in Invitations}
              \cup (UNION {{Address(w, u) : u \in Users} : w \in Workspaces})
              \cup {ProjectRow(p) : p \in Projects}
Locks == {Own(row) : row \in LockRows} \cup {Share(row) : row \in Shareable}

\* Row a comes before row b in every transaction.
Precedes(a, b) ==
    \/ Class(a.kind) < Class(b.kind)
    \/ Class(a.kind) = Class(b.kind) /\ a.id < b.id

Holds(x, row) == Own(row) \in held[x] \/ Share(row) \in held[x]

\* x is past the stage s, or at it.
Past(x, s) ==
    \E i \in 1..Len(Route[job[x].kind]) : i < step[x] /\ Route[job[x].kind][i] = s
At(x, s) == Staged(x) /\ Stage(x) = s

JobOK(j) ==
    /\ j.kind \in Kinds /\ j.by \in Users
    /\ j.kind \in OfInvitation => j.invitation \in DOMAIN invitations
    /\ j.kind \in OfProject => j.project \in Projects
    /\ j.kind \notin OfInvitation \cup OfProject \cup Deactivations
                    \cup {"activate", "createWorkspace"} => j.ws \in Workspaces
    /\ j.kind \in {"remove", "updateRole", "createProject", "addMember",
                   "changeMember", "removeMember"} => j.of \in Users
    /\ j.kind \in {"updateRole", "createInvitations", "updateInvitation",
                   "addMember", "changeMember"} => j.role \in Roles
    /\ j.kind = "createInvitations" => j.whom \subseteq Users

\* H has the locks of x's stage s on the rows that matter to it.
Covers(x, s, H) ==
    LET j == job[x] IN
    /\ s = "account" => Own(UserRow(j.by)) \in H
    /\ s = "shareAccount" => Share(UserRow(j.by)) \in H
    /\ s = "workspace" => Own(WorkspaceRow(WorkspaceOf(j))) \in H
    /\ s = "shareWorkspace" => Share(WorkspaceRow(WorkspaceOf(j))) \in H
    /\ s = "homes" => \A w \in DOMAIN members :
          members[w][j.by].active => Own(WorkspaceRow(w)) \in H
    /\ s = "invitation" => Own(InvitationRow(j.invitation)) \in H
    /\ s = "addresses" => \A u \in j.whom : Own(Address(j.ws, u)) \in H
    /\ s = "pending" => \A i \in DOMAIN invitations :
          Pending(i) /\ invitations[i].ws = j.ws /\ invitations[i].to = Subject(j)
          => Own(InvitationRow(i)) \in H
    /\ s = "doomed" => \A i \in DOMAIN invitations :
          /\ Pending(i) /\ Own(WorkspaceRow(invitations[i].ws)) \in held[x]
          /\ \/ invitations[i].to = j.by
             \/ Others(members[invitations[i].ws], j.by) = {}
          => Own(InvitationRow(i)) \in H
    /\ s = "invitations" => \A i \in DOMAIN invitations :
          Undeleted(i) /\ invitations[i].ws = j.ws => Own(InvitationRow(i)) \in H
    /\ s = "project" => Own(ProjectRow(j.project)) \in H
    /\ s = "demoted" /\ MakesGuest(j) =>
          \A p \in DOMAIN projects :
             HomeOf[p] = WorkspaceOf(j) /\ projects[p][Subject(j)] # NoRow
             => Own(ProjectRow(p)) \in H
    /\ s = "ending" => \A p \in DOMAIN projects :
          Own(WorkspaceRow(HomeOf[p])) \in held[x] /\ projects[p][Subject(j)].active
          => Own(ProjectRow(p)) \in H

\* What of the checks of x's stage s its write rests on.
Checked(x, s) ==
    LET j == job[x]
        w == WorkspaceOf(j)
    IN
    /\ s \in {"account", "shareAccount"} => AccountPasses(j)
    /\ s \in {"workspace", "shareWorkspace"} =>
          /\ j.kind = "leave" => MayLeave(w, j.by)
          /\ j.kind \in {"remove", "updateRole"} =>
                IsAdmin(members[w], j.by) /\ members[w][j.of].active /\ j.of # j.by
          /\ j.kind = "reactivate" => members[w][j.by] # NoRow
          /\ j.kind = "createProject" =>
                /\ RoleIn(members[w], j.by) \in {Admin, Member}
                /\ RoleIn(members[w], j.of) \in {Admin, Member}
          /\ j.kind = "createInvitations" => IsAdmin(members[w], j.by)
    /\ s = "homes" => \A v \in Workspaces :
          Own(WorkspaceRow(v)) \in held[x] => ~ SoleAdmin(members[v], j.by)
    /\ s = "invitation" /\ j.kind \in {"accept", "decline"} =>
          Pending(j.invitation) /\ invitations[j.invitation].to = j.by
    /\ s = "project" =>
          /\ j.kind = "joinProject" => RoleIn(members[w], j.by) \in {Admin, Member}
          /\ j.kind \in {"addMember", "changeMember"} =>
                /\ members[w][j.of].active
                /\ (members[w][j.of].role = Guest => j.role = Guest)
          /\ j.kind = "removeMember" =>
                /\ j.of # j.by
                /\ (IsAdmin(projects[j.project], j.of) => IsAdmin(projects[j.project], j.by))
          /\ j.kind = "leaveProject" =>
                (IsAdmin(projects[j.project], j.by) => OtherAdmin(projects[j.project], j.by))
    /\ s = "ending" => \A p \in Projects :
          Own(ProjectRow(p)) \in held[x] => ~ SoleAdmin(projects[p], Subject(j))

\* What x has locked is still there, and its project in a workspace it has
\* locked too.
Stands(x) ==
    /\ \A w \in Workspaces : Holds(x, WorkspaceRow(w)) => There(w)
    /\ \A p \in Projects : Own(ProjectRow(p)) \in held[x] =>
          Standing(p) /\ Holds(x, WorkspaceRow(HomeOf[p]))
    /\ \A i \in Invitations : Own(InvitationRow(i)) \in held[x] => Undeleted(i)
    /\ \A w \in Workspaces, u \in Users :
          Own(Address(w, u)) \in held[x] => FreeAddress(Address(w, u))

\* x takes the locks of one kind of rows after those of another, and those of
\* one kind in the order of the ids.
Orderly(x) ==
    /\ \A lock \in held[x] :
          \E i \in 1..Len(Route[job[x].kind]) :
             i <= step[x] /\ lock.row.kind = RowKind(Route[job[x].kind][i])
    /\ ~ Staged(x) => todo[x] = {}
    /\ \A lock \in todo[x] :
          /\ lock.row.kind = RowKind(Stage(x))
          /\ \A other \in todo[x] : other.row.id = lock.row.id => other = lock
          /\ \A taken \in held[x] : Precedes(taken.row, lock.row)
          /\ \A p \in Projects : lock = Own(ProjectRow(p)) =>
                Holds(x, WorkspaceRow(HomeOf[p]))

Knows(x) ==
    /\ \A s \in Stages : Past(x, s) => Covers(x, s, held[x]) /\ Checked(x, s)
    /\ \A s \in Stages : At(x, s) => Covers(x, s, held[x] \cup todo[x])

WorkerInv(x) ==
    \/ step[x] = 0 /\ held[x] = {} /\ todo[x] = {} /\ job[x] = NoJob
    \/ /\ step[x] \in 1..Len(Route[job[x].kind]) + 1
       /\ JobOK(job[x])
       /\ Stands(x) /\ Orderly(x) /\ Knows(x)

LocksInv ==
    /\ held \in [Workers -> SUBSET Locks] /\ todo \in [Workers -> SUBSET Locks]
    /\ step \in [Workers -> 0..5] /\ DOMAIN job = Workers
    /\ \A x, y \in Workers : x # y =>
          \A a \in held[x], b \in held[y] : ~ Conflict(a, b)

RowsInv ==
    /\ active \in [Users -> BOOLEAN]
    /\ MembersTyped(members)
    /\ ProjectsTyped(members, projects)
    /\ InvitationsTyped(invitations)
    /\ IsFiniteSet(DOMAIN invitations)
    /\ DOMAIN invitations = 1..Cardinality(DOMAIN invitations)
    /\ revived \subseteq Workspaces \X Users
    /\ requests \in 0..MaxRequests
    /\ plan \in Plans
    /\ Within(members, projects)
    /\ \A p \in DOMAIN projects, u \in Users :
          members[HomeOf[p]][u] = NoRow => projects[p][u].role \in {Guest, Nothing}
    /\ \A w \in DOMAIN members, u \in Users :
          members[w][u].active /\ ~ active[u] => <<w, u>> \in revived
    /\ \A i \in DOMAIN invitations : Pending(i) =>
          There(invitations[i].ws) /\ HasAdmin(members[invitations[i].ws])
    /\ OneToAnAddress(invitations)

IInv == RowsInv /\ LocksInv /\ \A x \in Workers : WorkerInv(x)

-----------------------------------------------------------------------------
(* The routes.                                                               *)

LEMMA KindsAre ==
    Kinds = {"createInvitations", "updateInvitation", "deleteInvitation", "accept",
             "decline", "leave", "remove", "updateRole", "deactivate",
             "deactivateByEmail", "activate", "reactivate", "createWorkspace",
             "deleteWorkspace", "createProject", "joinProject", "addMember",
             "changeMember", "removeMember", "leaveProject", "deleteProject"}
BY DEF Kinds, Route

\* What comes before the n-th stage of a route, and whose stage it is.
RouteOK(k, n) ==
    LET s == Route[k][n] IN
    /\ s \in Stages
    /\ \A m \in 1..n - 1 : Class(RowKind(Route[k][m])) < Class(RowKind(s))
    /\ s \in {"workspace", "shareWorkspace"} =>
          k \notin Deactivations \cup {"activate", "createWorkspace"}
    /\ s = "homes" => k \in Deactivations /\ n = 2 /\ Route[k][1] = "account"
    /\ s = "doomed" => k \in Deactivations /\ n = 3 /\ Route[k][2] = "homes"
    /\ s = "ending" =>
          \/ k \in Deactivations /\ n = 4 /\ Route[k][2] = "homes"
          \/ k \in {"leave", "remove"} /\ n = 3 /\ Route[k][1] = "workspace"
    /\ s = "pending" => k \in {"leave", "remove"} /\ n = 2 /\ Route[k][1] = "workspace"
    /\ s \in {"invitations", "projects"} =>
          k = "deleteWorkspace" /\ n > 1 /\ Route[k][1] = "workspace"
    /\ s = "addresses" =>
          k = "createInvitations" /\ n = 3 /\ Route[k][2] = "shareWorkspace"
    /\ s = "demoted" =>
          \/ k = "updateRole" /\ n = 3 /\ Route[k][2] = "workspace"
          \/ /\ k = "accept" /\ n = 4
             /\ Route[k][2] = "workspace" /\ Route[k][3] = "invitation"
    /\ s = "invitation" =>
          /\ k \in OfInvitation /\ n > 1
          /\ Route[k][n - 1] \in {"workspace", "shareWorkspace"}
    /\ s = "project" =>
          k \in OfProject /\ n > 1 /\ Route[k][n - 1] = "shareWorkspace"

LEMMA Routes ==
    ASSUME NEW k \in Kinds
    PROVE  /\ Len(Route[k]) \in 1..4
           /\ \A n \in 1..Len(Route[k]) : RouteOK(k, n)
<1>. DEFINE Goal == /\ Len(Route[k]) \in 1..4
                    /\ \A n \in 1..Len(Route[k]) : RouteOK(k, n)
<1>. USE DEF RouteOK, Stages, RowKind, Class, OfInvitation, OfProject, Deactivations
<1>1. CASE k = "createInvitations"
  <2>1. Route[k] = <<"account", "shareWorkspace", "addresses">>
    BY <1>1 DEF Route
  <2>. QED
    BY <1>1, <2>1
<1>2. CASE k = "updateInvitation"
  <2>1. Route[k] = <<"shareWorkspace", "invitation">>
    BY <1>2 DEF Route
  <2>. QED
    BY <1>2, <2>1
<1>3. CASE k = "deleteInvitation"
  <2>1. Route[k] = <<"shareWorkspace", "invitation">>
    BY <1>3 DEF Route
  <2>. QED
    BY <1>3, <2>1
<1>4. CASE k = "accept"
  <2>1. Route[k] = <<"account", "workspace", "invitation", "demoted">>
    BY <1>4 DEF Route
  <2>. QED
    BY <1>4, <2>1
<1>5. CASE k = "decline"
  <2>1. Route[k] = <<"shareAccount", "shareWorkspace", "invitation">>
    BY <1>5 DEF Route
  <2>. QED
    BY <1>5, <2>1
<1>6. CASE k = "leave"
  <2>1. Route[k] = <<"workspace", "pending", "ending">>
    BY <1>6 DEF Route
  <2>. QED
    BY <1>6, <2>1
<1>7. CASE k = "remove"
  <2>1. Route[k] = <<"workspace", "pending", "ending">>
    BY <1>7 DEF Route
  <2>. QED
    BY <1>7, <2>1
<1>8. CASE k = "updateRole"
  <2>1. Route[k] = <<"account", "workspace", "demoted">>
    BY <1>8 DEF Route
  <2>. QED
    BY <1>8, <2>1
<1>9. CASE k = "deactivate"
  <2>1. Route[k] = <<"account", "homes", "doomed", "ending">>
    BY <1>9 DEF Route
  <2>. QED
    BY <1>9, <2>1
<1>10. CASE k = "deactivateByEmail"
  <2>1. Route[k] = <<"account", "homes", "doomed", "ending">>
    BY <1>10 DEF Route
  <2>. QED
    BY <1>10, <2>1
<1>11. CASE k = "activate"
  <2>1. Route[k] = <<"account">>
    BY <1>11 DEF Route
  <2>. QED
    BY <1>11, <2>1
<1>12. CASE k = "reactivate"
  <2>1. Route[k] = <<"shareAccount", "workspace">>
    BY <1>12 DEF Route
  <2>. QED
    BY <1>12, <2>1
<1>13. CASE k = "createWorkspace"
  <2>1. Route[k] = <<"shareAccount">>
    BY <1>13 DEF Route
  <2>. QED
    BY <1>13, <2>1
<1>14. CASE k = "deleteWorkspace"
  <2>1. Route[k] = <<"workspace", "invitations", "projects">>
    BY <1>14 DEF Route
  <2>. QED
    BY <1>14, <2>1
<1>15. CASE k = "createProject"
  <2>1. Route[k] = <<"account", "shareWorkspace">>
    BY <1>15 DEF Route
  <2>. QED
    BY <1>15, <2>1
<1>16. CASE k = "joinProject"
  <2>1. Route[k] = <<"account", "shareWorkspace", "project">>
    BY <1>16 DEF Route
  <2>. QED
    BY <1>16, <2>1
<1>17. CASE k = "addMember"
  <2>1. Route[k] = <<"shareWorkspace", "project">>
    BY <1>17 DEF Route
  <2>. QED
    BY <1>17, <2>1
<1>18. CASE k = "changeMember"
  <2>1. Route[k] = <<"shareWorkspace", "project">>
    BY <1>18 DEF Route
  <2>. QED
    BY <1>18, <2>1
<1>19. CASE k = "removeMember"
  <2>1. Route[k] = <<"shareWorkspace", "project">>
    BY <1>19 DEF Route
  <2>. QED
    BY <1>19, <2>1
<1>20. CASE k = "leaveProject"
  <2>1. Route[k] = <<"shareWorkspace", "project">>
    BY <1>20 DEF Route
  <2>. QED
    BY <1>20, <2>1
<1>21. CASE k = "deleteProject"
  <2>1. Route[k] = <<"shareWorkspace", "project">>
    BY <1>21 DEF Route
  <2>. QED
    BY <1>21, <2>1
<1>. QED
  BY KindsAre, <1>1, <1>2, <1>3, <1>4, <1>5, <1>6, <1>7, <1>8, <1>9, <1>10,
     <1>11, <1>12, <1>13, <1>14, <1>15, <1>16, <1>17, <1>18, <1>19, <1>20, <1>21

LEMMA Places ==
    ASSUME NEW x \in Workers, NEW s, Past(x, s) \/ At(x, s), job[x].kind \in Kinds,
           step[x] \in 1..Len(Route[job[x].kind]) + 1
    PROVE  /\ s \in Stages
           /\ s \in {"workspace", "shareWorkspace"} =>
                job[x].kind \notin Deactivations \cup {"activate", "createWorkspace"}
           /\ s = "homes" => job[x].kind \in Deactivations /\ Past(x, "account")
           /\ s = "doomed" => job[x].kind \in Deactivations /\ Past(x, "homes")
           /\ s = "ending" =>
                \/ job[x].kind \in Deactivations /\ Past(x, "homes")
                \/ job[x].kind \in {"leave", "remove"} /\ Past(x, "workspace")
           /\ s = "pending" => job[x].kind \in {"leave", "remove"} /\ Past(x, "workspace")
           /\ s \in {"invitations", "projects"} =>
                job[x].kind = "deleteWorkspace" /\ Past(x, "workspace")
           /\ s = "addresses" =>
                job[x].kind = "createInvitations" /\ Past(x, "shareWorkspace")
           /\ s = "demoted" =>
                /\ Past(x, "workspace")
                /\ \/ job[x].kind = "updateRole"
                   \/ job[x].kind = "accept" /\ Past(x, "invitation")
           /\ s = "invitation" =>
                /\ job[x].kind \in OfInvitation
                /\ Past(x, "workspace") \/ Past(x, "shareWorkspace")
           /\ s = "project" => job[x].kind \in OfProject /\ Past(x, "shareWorkspace")
<1>. DEFINE k == job[x].kind
<1>1. /\ Len(Route[k]) \in 1..4
      /\ \A n \in 1..Len(Route[k]) : RouteOK(k, n)
  BY Routes
<1>2. PICK n \in 1..Len(Route[k]) : n <= step[x] /\ Route[k][n] = s
  BY <1>1 DEF Past, At, Staged, Stage
<1>3. \A m \in 1..n - 1 : Past(x, Route[k][m])
  BY <1>1, <1>2 DEF Past
<1>4. RouteOK(k, n)
  BY <1>1
<1>. QED
  BY <1>1, <1>2, <1>3, <1>4 DEF RouteOK

\* A transaction that is ready to write is past every stage of its route.
LEMMA Finished ==
    ASSUME NEW x \in Workers, job[x].kind \in Kinds, ~ Staged(x),
           step[x] \in 1..Len(Route[job[x].kind]) + 1,
           NEW n \in 1..Len(Route[job[x].kind])
    PROVE  Past(x, Route[job[x].kind][n])
<1>1. Len(Route[job[x].kind]) \in 1..4
  BY Routes
<1>. QED
  BY <1>1 DEF Past, Staged

-----------------------------------------------------------------------------
(* What a transaction may write under its locks, and what others keep.       *)

Frame(y) ==
    /\ \A u \in Users : active'[u] # active[u] => Own(UserRow(u)) \in held[y]
    /\ \A w \in DOMAIN members :
          \/ w \in DOMAIN members' /\ members'[w] = members[w]
          \/ Own(WorkspaceRow(w)) \in held[y]
    /\ \A w \in DOMAIN members', u \in Users : members'[w][u].active =>
          \/ w \in DOMAIN members /\ members[w][u].active
          \/ Holds(y, UserRow(u))
    /\ \A p \in DOMAIN projects :
          \/ p \in DOMAIN projects' /\ projects'[p] = projects[p]
          \/ Own(WorkspaceRow(HomeOf[p])) \in held[y]
          \/ Own(ProjectRow(p)) \in held[y] /\ Holds(y, WorkspaceRow(HomeOf[p]))
    /\ \A p \in DOMAIN projects' \ DOMAIN projects : Holds(y, WorkspaceRow(HomeOf[p]))
    /\ \A i \in DOMAIN invitations :
          /\ i \in DOMAIN invitations'
          /\ invitations'[i].ws = invitations[i].ws /\ invitations'[i].to = invitations[i].to
          /\ invitations'[i].state = "pending" => invitations[i].state = "pending"
          /\ invitations[i].state = "deleted" => invitations'[i].state = "deleted"
          /\ invitations'[i] = invitations[i] \/ Own(InvitationRow(i)) \in held[y]
    /\ \A i \in DOMAIN invitations' \ DOMAIN invitations :
          /\ Holds(y, WorkspaceRow(invitations'[i].ws))
          /\ Own(Address(invitations'[i].ws, invitations'[i].to)) \in held[y]

Kept(x) ==
    /\ \A u \in Users : Holds(x, UserRow(u)) => active'[u] = active[u]
    /\ \A u \in Users : Own(UserRow(u)) \in held[x] =>
          \A w \in DOMAIN members' : members'[w][u].active =>
              w \in DOMAIN members /\ members[w][u].active
    /\ \A w \in DOMAIN members : Holds(x, WorkspaceRow(w)) =>
          w \in DOMAIN members' /\ members'[w] = members[w]
    /\ \A p \in DOMAIN projects' : Own(WorkspaceRow(HomeOf[p])) \in held[x] =>
          p \in DOMAIN projects /\ projects'[p] = projects[p]
    /\ \A p \in DOMAIN projects :
          Own(ProjectRow(p)) \in held[x] /\ Holds(x, WorkspaceRow(HomeOf[p])) =>
              p \in DOMAIN projects' /\ projects'[p] = projects[p]
    /\ \A i \in DOMAIN invitations :
          /\ i \in DOMAIN invitations'
          /\ invitations'[i].ws = invitations[i].ws /\ invitations'[i].to = invitations[i].to
          /\ invitations'[i].state = "pending" => invitations[i].state = "pending"
          /\ invitations[i].state = "deleted" => invitations'[i].state = "deleted"
          /\ Own(InvitationRow(i)) \in held[x] => invitations'[i] = invitations[i]
    /\ \A i \in DOMAIN invitations' \ DOMAIN invitations :
          /\ Own(WorkspaceRow(invitations'[i].ws)) \notin held[x]
          /\ Own(Address(invitations'[i].ws, invitations'[i].to)) \notin held[x]

LEMMA FrameKeeps ==
    ASSUME NEW x \in Workers, NEW y \in Workers, x # y, LocksInv, Frame(y)
    PROVE  Kept(x)
<1>1. \A row : Own(row) \in held[x] => Own(row) \notin held[y] /\ ~ Holds(y, row)
  BY DEF LocksInv, Conflict, Own, Share, Holds
<1>2. \A row : Holds(x, row) => Own(row) \notin held[y]
  BY DEF LocksInv, Conflict, Own, Share, Holds
<1>3. \A row : Own(row) \in held[x] => Holds(x, row)
  BY DEF Holds
<1>4. /\ \A u \in Users : Holds(x, UserRow(u)) => active'[u] = active[u]
      /\ \A u \in Users : Own(UserRow(u)) \in held[x] =>
            \A w \in DOMAIN members' : members'[w][u].active =>
                w \in DOMAIN members /\ members[w][u].active
  BY <1>1, <1>2 DEF Frame
<1>5. \A w \in DOMAIN members : Holds(x, WorkspaceRow(w)) =>
          w \in DOMAIN members' /\ members'[w] = members[w]
  BY <1>2 DEF Frame
<1>6. \A p \in DOMAIN projects' : Own(WorkspaceRow(HomeOf[p])) \in held[x] =>
          p \in DOMAIN projects /\ projects'[p] = projects[p]
  BY <1>1 DEF Frame
<1>7. \A p \in DOMAIN projects :
          Own(ProjectRow(p)) \in held[x] /\ Holds(x, WorkspaceRow(HomeOf[p])) =>
              p \in DOMAIN projects' /\ projects'[p] = projects[p]
  BY <1>1, <1>2 DEF Frame
<1>8. \A i \in DOMAIN invitations :
          /\ i \in DOMAIN invitations'
          /\ invitations'[i].ws = invitations[i].ws /\ invitations'[i].to = invitations[i].to
          /\ invitations'[i].state = "pending" => invitations[i].state = "pending"
          /\ invitations[i].state = "deleted" => invitations'[i].state = "deleted"
          /\ Own(InvitationRow(i)) \in held[x] => invitations'[i] = invitations[i]
  BY <1>1 DEF Frame
<1>9. \A i \in DOMAIN invitations' \ DOMAIN invitations :
          /\ Own(WorkspaceRow(invitations'[i].ws)) \notin held[x]
          /\ Own(Address(invitations'[i].ws, invitations'[i].to)) \notin held[x]
  BY <1>1 DEF Frame
<1>. QED
  BY <1>4, <1>5, <1>6, <1>7, <1>8, <1>9 DEF Kept

\* A transaction that writes nothing leaves everything.
LEMMA NothingWritten ==
    ASSUME NEW y \in Workers, UNCHANGED <<active, members, projects, invitations>>
    PROVE  Frame(y)
BY DEF Frame

-----------------------------------------------------------------------------
(* What a transaction knows stays true while others write.                   *)

LEMMA HomeTyped ==
    ASSUME NEW j, JobOK(j), InvitationsTyped(invitations),
           j.kind \notin Deactivations \cup {"activate", "createWorkspace"}
    PROVE  WorkspaceOf(j) \in Workspaces
<1>1. CASE j.kind \in OfInvitation
  <2>1. invitations[j.invitation] \in InvitationRows
    BY <1>1 DEF JobOK, InvitationsTyped
  <2>2. j.kind \notin OfProject
    BY <1>1 DEF OfProject, OfInvitation
  <2>. QED
    BY <1>1, <2>1, <2>2 DEF WorkspaceOf, InvitationRows
<1>2. CASE j.kind \in OfProject
  <2>1. j.project \in Projects /\ j.kind \notin OfInvitation
    BY <1>2 DEF JobOK, OfProject, OfInvitation
  <2>. QED
    BY <1>2, <2>1, MembershipAssumption DEF WorkspaceOf
<1>3. CASE j.kind \notin OfInvitation \cup OfProject
  BY <1>3 DEF WorkspaceOf, JobOK
<1>. QED
  BY <1>1, <1>2, <1>3

LEMMA SubjectTyped ==
    ASSUME NEW j, JobOK(j)
    PROVE  Subject(j) \in Users
BY DEF Subject, JobOK

\* What a transaction holds the locks of, in the words of Covers.
LEMMA HeldByCover ==
    ASSUME NEW x \in Workers, NEW s, Covers(x, s, held[x])
    PROVE  /\ s = "account" => Own(UserRow(job[x].by)) \in held[x]
           /\ s = "shareAccount" => Share(UserRow(job[x].by)) \in held[x]
           /\ s \in {"account", "shareAccount"} => Holds(x, UserRow(job[x].by))
           /\ s = "workspace" => Own(WorkspaceRow(WorkspaceOf(job[x]))) \in held[x]
           /\ s \in {"workspace", "shareWorkspace"} =>
                 Holds(x, WorkspaceRow(WorkspaceOf(job[x])))
           /\ s = "invitation" => Own(InvitationRow(job[x].invitation)) \in held[x]
           /\ s = "project" => Own(ProjectRow(job[x].project)) \in held[x]
BY DEF Covers, Holds

LEMMA HeldByPast ==
    ASSUME NEW x \in Workers, NEW s, s \in Stages, Knows(x), Past(x, s)
    PROVE  /\ s = "account" => Own(UserRow(job[x].by)) \in held[x]
           /\ s = "shareAccount" => Share(UserRow(job[x].by)) \in held[x]
           /\ s = "workspace" => Own(WorkspaceRow(WorkspaceOf(job[x]))) \in held[x]
           /\ s \in {"workspace", "shareWorkspace"} =>
                 Holds(x, WorkspaceRow(WorkspaceOf(job[x])))
           /\ s = "invitation" => Own(InvitationRow(job[x].invitation)) \in held[x]
BY HeldByCover DEF Knows

Local(x) ==
    /\ held'[x] = held[x] /\ todo'[x] = todo[x]
    /\ step'[x] = step[x] /\ job'[x] = job[x]

Working(x) ==
    /\ step[x] \in 1..Len(Route[job[x].kind]) + 1
    /\ JobOK(job[x])
    /\ Stands(x) /\ Orderly(x) /\ Knows(x)

LEMMA JobKept ==
    ASSUME NEW x \in Workers, Working(x), Kept(x), job'[x] = job[x]
    PROVE  /\ JobOK(job[x])'
           /\ WorkspaceOf(job[x])' = WorkspaceOf(job[x])
<1>1. PICK j : j = job[x]
  OBVIOUS
<1>2. job'[x] = j
  BY <1>1
<1>3. JobOK(j)
  BY <1>1 DEF Working
<1>4. JobOK(j)'
  BY <1>3 DEF JobOK, Kept
<1>5. WorkspaceOf(j)' = WorkspaceOf(j)
  BY <1>3 DEF JobOK, Kept, WorkspaceOf
<1>. QED
  BY <1>1, <1>2, <1>4, <1>5

LEMMA StandsKept ==
    ASSUME NEW x \in Workers, Working(x), Kept(x), held'[x] = held[x]
    PROVE  Stands(x)'
<1>1. \A row : Holds(x, row)' <=> Holds(x, row)
  BY DEF Holds
<1>2. \A row : Own(row) \in held'[x] <=> Own(row) \in held[x]
  OBVIOUS
<1>3. Stands(x)
  BY DEF Working
<1>4. \A w \in Workspaces : Holds(x, WorkspaceRow(w)) => There(w)'
  BY <1>3 DEF Stands, Kept, There
<1>5. \A p \in Projects : Own(ProjectRow(p)) \in held[x] =>
          Standing(p)' /\ Holds(x, WorkspaceRow(HomeOf[p]))
  BY <1>3 DEF Stands, Kept, Standing
<1>6. \A i \in Invitations : Own(InvitationRow(i)) \in held[x] => Undeleted(i)'
  BY <1>3 DEF Stands, Kept, Undeleted
<1>7. ASSUME NEW w \in Workspaces, NEW u \in Users, Own(Address(w, u)) \in held[x]
      PROVE  FreeAddress(Address(w, u))'
  <2>1. FreeAddress(Address(w, u))
    BY <1>3, <1>7 DEF Stands
  <2>2. ASSUME NEW i \in DOMAIN invitations', Undeleted(i)'
        PROVE  Address(invitations'[i].ws, invitations'[i].to) # Address(w, u)
    <3>1. CASE i \in DOMAIN invitations
      BY <3>1, <2>1, <2>2 DEF Kept, FreeAddress, Undeleted
    <3>2. CASE i \notin DOMAIN invitations
      BY <3>2, <1>7 DEF Kept
    <3>. QED
      BY <3>1, <3>2
  <2>. QED
    BY <2>2 DEF FreeAddress
<1>. QED
  BY <1>1, <1>2, <1>4, <1>5, <1>6, <1>7 DEF Stands

LEMMA OrderlyKept ==
    ASSUME NEW x \in Workers, Working(x), Local(x)
    PROVE  Orderly(x)'
BY DEF Working, Orderly, Local, Staged, Stage, Holds

\* The other transactions write nothing of what a stage's choice of rows
\* rests on, and add no row to those that it has to lock.
LEMMA CoversKept ==
    ASSUME NEW x \in Workers, RowsInv, Working(x), Kept(x),
           held'[x] = held[x], job'[x] = job[x],
           NEW s, Past(x, s) \/ At(x, s), NEW H, Covers(x, s, H)
    PROVE  Covers(x, s, H)'
<1>1. PICK j : j = job[x]
  OBVIOUS
<1>2. PICK L : L = held[x]
  OBVIOUS
<1>3. /\ job'[x] = j /\ held'[x] = L
  BY <1>1, <1>2
<1>4. /\ JobOK(j) /\ Stands(x) /\ Knows(x) /\ j.kind \in Kinds
      /\ Subject(j) \in Users /\ j.by \in Users
  BY <1>1, SubjectTyped DEF Working, JobOK
<1>5. WorkspaceOf(j)' = WorkspaceOf(j)
  BY <1>1, <1>3, JobKept
<1>6. s \in Stages
  BY <1>1, <1>4, Places DEF Working
<1>7. CASE s \in {"account", "shareAccount", "workspace", "shareWorkspace",
                  "invitation", "addresses", "project", "projects"}
  BY <1>1, <1>3, <1>5, <1>7 DEF Covers
<1>8. CASE s = "homes"
  <2>1. Own(UserRow(j.by)) \in held[x]
    BY <1>1, <1>4, <1>8, Places, HeldByPast DEF Working
  <2>. QED
    BY <1>1, <1>3, <1>4, <1>8, <2>1 DEF Covers, Kept
<1>9. CASE s = "pending"
  <2>1. j.kind \in {"leave", "remove"} /\ Past(x, "workspace")
    BY <1>1, <1>4, <1>9, Places DEF Working
  <2>2. Own(WorkspaceRow(j.ws)) \in held[x]
    BY <1>1, <1>4, <2>1, HeldByPast DEF WorkspaceOf, OfInvitation, OfProject, Stages
  <2>3. ASSUME NEW i \in DOMAIN invitations', Pending(i)', invitations'[i].ws = j.ws,
               invitations'[i].to = Subject(j)
        PROVE  Own(InvitationRow(i)) \in H
    <3>1. i \in DOMAIN invitations
      BY <2>2, <2>3 DEF Kept
    <3>2. Pending(i) /\ invitations[i].ws = j.ws /\ invitations[i].to = Subject(j)
      BY <2>3, <3>1 DEF Kept, Pending
    <3>. QED
      BY <1>1, <1>9, <3>1, <3>2 DEF Covers
  <2>. QED
    BY <1>3, <1>9, <2>3 DEF Covers, Subject
<1>10. CASE s = "doomed"
  <2>1. ASSUME NEW i \in DOMAIN invitations', Pending(i)',
               Own(WorkspaceRow(invitations'[i].ws)) \in L,
               \/ invitations'[i].to = j.by
               \/ Others(members'[invitations'[i].ws], j.by) = {}
        PROVE  Own(InvitationRow(i)) \in H
    <3>1. i \in DOMAIN invitations
      BY <1>2, <2>1 DEF Kept
    <3>2. /\ Pending(i) /\ Own(WorkspaceRow(invitations[i].ws)) \in held[x]
          /\ invitations'[i].ws = invitations[i].ws /\ invitations'[i].to = invitations[i].to
      BY <1>2, <2>1, <3>1 DEF Kept, Pending
    <3>3. members'[invitations[i].ws] = members[invitations[i].ws]
      <4>1. invitations[i].ws \in Workspaces
        BY <3>1 DEF RowsInv, InvitationsTyped, InvitationRows
      <4>. QED
        BY <1>4, <3>2, <4>1 DEF Stands, Holds, There, Kept
    <3>. QED
      BY <1>1, <1>10, <2>1, <3>1, <3>2, <3>3 DEF Covers
  <2>. QED
    BY <1>3, <1>10, <2>1 DEF Covers, Others
<1>11. CASE s = "invitations"
  <2>1. j.kind = "deleteWorkspace" /\ Past(x, "workspace")
    BY <1>1, <1>4, <1>11, Places DEF Working
  <2>2. Own(WorkspaceRow(j.ws)) \in held[x]
    BY <1>1, <1>4, <2>1, HeldByPast DEF WorkspaceOf, OfInvitation, OfProject, Stages
  <2>3. ASSUME NEW i \in DOMAIN invitations', Undeleted(i)', invitations'[i].ws = j.ws
        PROVE  Own(InvitationRow(i)) \in H
    <3>1. i \in DOMAIN invitations
      BY <2>2, <2>3 DEF Kept
    <3>2. Undeleted(i) /\ invitations[i].ws = j.ws
      BY <2>3, <3>1 DEF Kept, Undeleted
    <3>. QED
      BY <1>1, <1>11, <3>1, <3>2 DEF Covers
  <2>. QED
    BY <1>3, <1>11, <2>3 DEF Covers
<1>12. CASE s = "demoted"
  <2>1. /\ Past(x, "workspace")
        /\ j.kind = "updateRole" \/ (j.kind = "accept" /\ Past(x, "invitation"))
    BY <1>1, <1>4, <1>12, Places DEF Working
  <2>2. Own(WorkspaceRow(WorkspaceOf(j))) \in held[x] /\ WorkspaceOf(j) \in Workspaces
    BY <1>1, <1>4, <2>1, HeldByPast, HomeTyped DEF Stages, RowsInv, Deactivations
  <2>3. There(WorkspaceOf(j)) /\ members'[WorkspaceOf(j)] = members[WorkspaceOf(j)]
    BY <1>4, <2>2 DEF Stands, Holds, There, Kept
  <2>4. j.kind = "accept" => invitations'[j.invitation] = invitations[j.invitation]
    BY <1>1, <1>4, <2>1, HeldByPast DEF Stages, Kept, JobOK, OfInvitation
  <2>5. MakesGuest(j)' <=> MakesGuest(j)
    BY <1>5, <2>1, <2>3, <2>4 DEF MakesGuest, Subject
  <2>6. \A p \in DOMAIN projects' : HomeOf[p] = WorkspaceOf(j) =>
            p \in DOMAIN projects /\ projects'[p] = projects[p]
    BY <2>2 DEF Kept
  <2>. QED
    BY <1>1, <1>3, <1>5, <1>12, <2>5, <2>6 DEF Covers, Subject
<1>13. CASE s = "ending"
  BY <1>1, <1>2, <1>3, <1>13 DEF Covers, Kept, Subject
<1>. QED
  BY <1>6, <1>7, <1>8, <1>9, <1>10, <1>11, <1>12, <1>13 DEF Stages

\* Nor of what its checks found.
LEMMA CheckedKept ==
    ASSUME NEW x \in Workers, RowsInv, Working(x), Kept(x),
           held'[x] = held[x], job'[x] = job[x],
           NEW s, Past(x, s) \/ At(x, s), Covers(x, s, held[x]), Checked(x, s)
    PROVE  Checked(x, s)'
<1>1. PICK j : j = job[x]
  OBVIOUS
<1>2. PICK L : L = held[x]
  OBVIOUS
<1>3. /\ job'[x] = j /\ held'[x] = L
  BY <1>1, <1>2
<1>4. /\ JobOK(j) /\ Stands(x) /\ Knows(x) /\ j.kind \in Kinds
      /\ Subject(j) \in Users /\ j.by \in Users
  BY <1>1, SubjectTyped DEF Working, JobOK
<1>5. PICK w : w = WorkspaceOf(j)
  OBVIOUS
<1>6. WorkspaceOf(j)' = w
  BY <1>1, <1>3, <1>5, JobKept
<1>7. s \in Stages
  BY <1>1, <1>4, Places DEF Working
<1>8. \A v \in Workspaces : Holds(x, WorkspaceRow(v)) =>
          There(v) /\ There(v)' /\ members'[v] = members[v]
  BY <1>4 DEF Stands, There, Kept
<1>9. CASE s \in {"account", "shareAccount"}
  <2>1. Holds(x, UserRow(j.by))
    BY <1>1, <1>9, HeldByCover
  <2>2. AccountPasses(j) /\ active'[j.by] = active[j.by]
    BY <1>1, <1>4, <1>7, <1>9, <2>1 DEF Checked, Kept
  <2>3. AccountPasses(j)'
    BY <2>2 DEF AccountPasses
  <2>. QED
    BY <1>3, <1>9, <2>3 DEF Checked
<1>10. CASE s \in {"workspace", "shareWorkspace"}
  <2>1. Holds(x, WorkspaceRow(w)) /\ w \in Workspaces
    BY <1>1, <1>4, <1>5, <1>10, HeldByCover, Places, HomeTyped DEF RowsInv, Working
  <2>2. There(w) /\ There(w)' /\ members'[w] = members[w]
    BY <1>8, <2>1
  <2>3. MayLeave(w, j.by)' <=> MayLeave(w, j.by)
    BY <2>2 DEF MayLeave, RoleOn, OtherAdmin, Others, RoleIn, IsAdmin
  <2>. QED
    BY <1>1, <1>3, <1>5, <1>6, <1>7, <1>10, <2>2, <2>3 DEF Checked, IsAdmin, RoleIn
<1>11. CASE s = "homes"
  <2>1. ASSUME NEW v \in Workspaces, Own(WorkspaceRow(v)) \in L
        PROVE  ~ SoleAdmin(members'[v], j.by)
    <3>1. members'[v] = members[v]
      BY <1>2, <1>8, <2>1 DEF Holds
    <3>. QED
      BY <1>1, <1>2, <1>7, <1>11, <2>1, <3>1 DEF Checked
  <2>. QED
    BY <1>3, <1>11, <2>1 DEF Checked, SoleAdmin, IsAdmin, OtherAdmin, Others, RoleIn
<1>12. CASE s = "invitation"
  <2>1. /\ j.invitation \in DOMAIN invitations
        /\ Own(InvitationRow(j.invitation)) \in held[x]
    BY <1>1, <1>4, <1>12, HeldByCover, Places DEF Working, JobOK
  <2>2. /\ invitations'[j.invitation] = invitations[j.invitation]
        /\ j.invitation \in DOMAIN invitations'
    BY <2>1 DEF Kept
  <2>. QED
    BY <1>1, <1>3, <1>7, <1>12, <2>1, <2>2 DEF Checked, Pending
<1>13. CASE s = "project"
  <2>1. j.kind \in OfProject /\ Past(x, "shareWorkspace")
    BY <1>1, <1>4, <1>13, Places DEF Working
  <2>2. /\ j.project \in Projects /\ w = HomeOf[j.project] /\ w \in Workspaces
    BY <1>4, <1>5, <2>1, MembershipAssumption DEF JobOK, WorkspaceOf, OfProject, OfInvitation
  <2>3. Own(ProjectRow(j.project)) \in held[x] /\ Holds(x, WorkspaceRow(w))
    BY <1>1, <1>4, <1>5, <1>13, <2>1, HeldByPast, HeldByCover DEF Stages
  <2>4. members'[w] = members[w]
    BY <1>8, <2>2, <2>3
  <2>5. projects'[j.project] = projects[j.project]
    BY <1>4, <2>2, <2>3 DEF Stands, Standing, Kept
  <2>. QED
    BY <1>1, <1>3, <1>5, <1>6, <1>7, <1>13, <2>4, <2>5
    DEF Checked, IsAdmin, RoleIn, OtherAdmin, Others
<1>14. CASE s = "ending"
  <2>1. ASSUME NEW p \in Projects, Own(ProjectRow(p)) \in L
        PROVE  ~ SoleAdmin(projects'[p], Subject(j))
    <3>1. projects'[p] = projects[p]
      BY <1>2, <1>4, <2>1 DEF Stands, Standing, Kept
    <3>. QED
      BY <1>1, <1>2, <1>7, <1>14, <2>1, <3>1 DEF Checked
  <2>. QED
    BY <1>3, <1>14, <2>1 DEF Checked, SoleAdmin, IsAdmin, OtherAdmin, Others, RoleIn, Subject
<1>15. CASE s \in {"pending", "doomed", "invitations", "addresses", "demoted", "projects"}
  BY <1>15 DEF Checked
<1>. QED
  BY <1>7, <1>9, <1>10, <1>11, <1>12, <1>13, <1>14, <1>15 DEF Stages

LEMMA OthersKnow ==
    ASSUME NEW x \in Workers, RowsInv, WorkerInv(x), Kept(x), Local(x)
    PROVE  WorkerInv(x)'
<1>1. CASE ~ Working(x)
  BY <1>1 DEF WorkerInv, Working, Local
<1>2. CASE Working(x)
  <2>1. JobOK(job[x])' /\ Stands(x)' /\ Orderly(x)'
    BY <1>2, JobKept, StandsKept, OrderlyKept DEF Local
  <2>2. step'[x] \in 1..Len(Route[job'[x].kind]) + 1
    BY <1>2 DEF Working, Local
  <2>3. \A s \in Stages : /\ Past(x, s)' <=> Past(x, s)
                          /\ At(x, s)' <=> At(x, s)
    BY DEF Past, At, Staged, Stage, Local
  <2>4. PICK H : H = held[x]
    OBVIOUS
  <2>5. PICK T : T = held[x] \cup todo[x]
    OBVIOUS
  <2>6. held'[x] = H /\ held'[x] \cup todo'[x] = T
    BY <2>4, <2>5 DEF Local
  <2>7. ASSUME NEW s \in Stages, Past(x, s)
        PROVE  Covers(x, s, H)' /\ Checked(x, s)'
    <3>1. Covers(x, s, H) /\ Checked(x, s)
      BY <1>2, <2>4, <2>7 DEF Working, Knows
    <3>. QED
      BY <1>2, <2>4, <2>7, <3>1, CoversKept, CheckedKept DEF Local
  <2>8. ASSUME NEW s \in Stages, At(x, s)
        PROVE  Covers(x, s, T)'
    <3>1. Covers(x, s, T)
      BY <1>2, <2>5, <2>8 DEF Working, Knows
    <3>. QED
      BY <1>2, <2>8, <3>1, CoversKept DEF Local
  <2>9. Knows(x)'
    BY <2>3, <2>6, <2>7, <2>8 DEF Knows
  <2>. QED
    BY <2>1, <2>2, <2>9 DEF WorkerInv
<1>. QED
  BY <1>1, <1>2

-----------------------------------------------------------------------------
(* A transaction begins, takes a lock, goes on, and ends.                    *)

LEMMA Unwritten ==
    ASSUME NEW x \in Workers, UNCHANGED <<active, members, projects, invitations>>
    PROVE  Kept(x)
BY DEF Kept

\* It is enough to look at the one that acts.
LEMMA StepInv ==
    ASSUME IInv, NEW y \in Workers, RowsInv', LocksInv', WorkerInv(y)', Frame(y),
           \A x \in Workers \ {y} : Local(x)
    PROVE  IInv'
<1>1. ASSUME NEW x \in Workers, x # y
      PROVE  WorkerInv(x)'
  BY <1>1, FrameKeeps, OthersKnow DEF IInv
<1>. QED
  BY <1>1 DEF IInv

LEMMA RequestsTyped ==
    ASSUME RowsInv, NEW j \in Requests
    PROVE  JobOK(j)
<1>1. /\ plan.users \subseteq Users /\ plan.asked \subseteq Roles
  BY PlansAssumption DEF RowsInv
<1>2. Callers \subseteq Users /\ Known \subseteq DOMAIN invitations
  BY DEF Callers, Known
<1>3. DOMAIN members \subseteq Workspaces /\ DOMAIN projects \subseteq Projects
  BY DEF RowsInv, MembersTyped, ProjectsTyped
<1>4. ((SUBSET plan.users) \ {{}}) \subseteq SUBSET Users
  BY <1>1
<1>. QED
  BY <1>1, <1>2, <1>3, <1>4, KindsAre
  DEF Requests, JobOK, OfInvitation, OfProject, Deactivations

\* Locks and rows by what they are of.
LEMMA LockFacts ==
    /\ \A row : Own(row).row = row /\ Share(row).row = row
    /\ \A row : Own(row).mode = "own" /\ Share(row).mode = "share"
    /\ \A u : UserRow(u).kind = "user" /\ UserRow(u).id = u
    /\ \A w : WorkspaceRow(w).kind = "workspace" /\ WorkspaceRow(w).id = w
    /\ \A i : InvitationRow(i).kind = "invitation" /\ InvitationRow(i).id = i
    /\ \A w, u : /\ Address(w, u).kind = "address" /\ Address(w, u).id = u
                 /\ Address(w, u).ws = w
    /\ \A p : ProjectRow(p).kind = "project" /\ ProjectRow(p).id = p
BY DEF Own, Share, UserRow, WorkspaceRow, InvitationRow, Address, ProjectRow

LEMMA LocksAre ==
    /\ \A u \in Users : Own(UserRow(u)) \in Locks /\ Share(UserRow(u)) \in Locks
    /\ \A w \in Workspaces :
          Own(WorkspaceRow(w)) \in Locks /\ Share(WorkspaceRow(w)) \in Locks
    /\ \A i \in Invitations : Own(InvitationRow(i)) \in Locks
    /\ \A w \in Workspaces, u \in Users : Own(Address(w, u)) \in Locks
    /\ \A p \in Projects : Own(ProjectRow(p)) \in Locks
<1>1. \A u \in Users : UserRow(u) \in Shareable
  BY DEF Shareable
<1>2. \A w \in Workspaces : WorkspaceRow(w) \in Shareable
  BY DEF Shareable
<1>3. \A i \in Invitations : InvitationRow(i) \in LockRows
  BY DEF LockRows
<1>4. \A w \in Workspaces, u \in Users : Address(w, u) \in LockRows
  BY DEF LockRows
<1>5. \A p \in Projects : ProjectRow(p) \in LockRows
  BY DEF LockRows
<1>6. /\ \A row \in LockRows : Own(row) \in Locks
      /\ \A row \in Shareable : Own(row) \in Locks /\ Share(row) \in Locks
  BY DEF LockRows, Locks
<1>. QED
  BY <1>1, <1>2, <1>3, <1>4, <1>5, <1>6

\* The locks that a statement chooses.
LEMMA Chosen ==
    ASSUME NEW x \in Workers, RowsInv, NEW j, JobOK(j),
           NEW n \in 1..Len(Route[j.kind]), NEW s, s = Route[j.kind][n],
           \A m \in 1..n - 1 : Route[j.kind][m] \in {"workspace", "shareWorkspace"}
               => Holds(x, WorkspaceRow(WorkspaceOf(j)))
    PROVE  /\ LocksOf(x, j, s) \subseteq Locks
           /\ \A lock \in LocksOf(x, j, s) :
                 /\ lock.row.kind = RowKind(s)
                 /\ \A other \in LocksOf(x, j, s) :
                       other.row.id = lock.row.id => other = lock
                 /\ \A p \in Projects : lock = Own(ProjectRow(p)) =>
                       Holds(x, WorkspaceRow(HomeOf[p]))
<1>1. RouteOK(j.kind, n) /\ s \in Stages
  <2>1. RouteOK(j.kind, n)
    BY Routes DEF JobOK
  <2>. QED
    BY <2>1 DEF RouteOK
<1>2. j.by \in Users
  BY DEF JobOK
<1>3. DOMAIN members \subseteq Workspaces /\ DOMAIN projects \subseteq Projects
      /\ DOMAIN invitations \subseteq Invitations
  BY DEF RowsInv, MembersTyped, ProjectsTyped, InvitationsTyped
<1>4. CASE s \in {"account", "shareAccount"}
  BY <1>2, <1>4, LockFacts, LocksAre DEF RowKind, LocksOf
<1>5. CASE s \in {"workspace", "shareWorkspace"}
  <2>1. WorkspaceOf(j) \in Workspaces
    BY <1>1, <1>5, HomeTyped DEF RouteOK, RowsInv
  <2>. QED
    BY <1>5, <2>1, LockFacts, LocksAre DEF RowKind, MembershipLock, LocksOf
<1>6. CASE s = "homes"
  BY <1>3, <1>6, LockFacts, LocksAre DEF RowKind, MembershipLock, LocksOf
<1>7. CASE s = "invitation"
  <2>1. j.invitation \in Invitations
    BY <1>1, <1>3, <1>7 DEF RouteOK, JobOK
  <2>. QED
    BY <1>7, <2>1, LockFacts, LocksAre DEF RowKind, LocksOf
<1>8. CASE s = "addresses"
  <2>1. j.ws \in Workspaces /\ j.whom \subseteq Users
    BY <1>1, <1>8 DEF RouteOK, JobOK, OfInvitation, OfProject, Deactivations
  <2>2. LocksOf(x, j, s) = {Own(Address(j.ws, u)) : u \in j.whom}
    BY <1>8 DEF LocksOf
  <2>. QED
    BY <1>8, <2>1, <2>2, LockFacts, LocksAre DEF RowKind
<1>9. CASE s \in {"pending", "doomed", "invitations"}
  <2>1. PICK S \in SUBSET Invitations :
            LocksOf(x, j, s) = {Own(InvitationRow(i)) : i \in S}
    <3>1. /\ PendingTo(j.ws, Subject(j)) \in SUBSET Invitations
          /\ \A u, S : Doomed(u, S) \in SUBSET Invitations
          /\ {i \in DOMAIN invitations : Undeleted(i) /\ invitations[i].ws = j.ws}
                \in SUBSET Invitations
      BY <1>3 DEF PendingTo, Doomed
    <3>. QED
      BY <1>9, <3>1 DEF LocksOf
  <2>. QED
    BY <1>9, <2>1, LockFacts, LocksAre DEF RowKind
<1>10. CASE s \in {"project", "projects", "demoted", "ending"}
  <2>1. PICK S \in SUBSET Projects :
            /\ LocksOf(x, j, s) = {Own(ProjectRow(p)) : p \in S}
            /\ \A p \in S : Holds(x, WorkspaceRow(HomeOf[p]))
    <3>1. CASE s = "project"
      <4>1. j.project \in Projects /\ WorkspaceOf(j) = HomeOf[j.project]
        BY <1>1, <3>1 DEF RouteOK, JobOK, WorkspaceOf, OfProject, OfInvitation
      <4>2. Holds(x, WorkspaceRow(WorkspaceOf(j)))
        BY <1>1, <3>1 DEF RouteOK
      <4>3. LocksOf(x, j, s) = {Own(ProjectRow(p)) : p \in {j.project}}
        BY <3>1 DEF LocksOf
      <4>. QED
        BY <4>1, <4>2, <4>3
    <3>2. CASE s = "projects"
      <4>1. WorkspaceOf(j) = j.ws /\ Holds(x, WorkspaceRow(j.ws))
        BY <1>1, <3>2 DEF RouteOK, WorkspaceOf, OfProject, OfInvitation
      <4>2. LocksOf(x, j, s) = {Own(ProjectRow(p)) : p \in ProjectsOf(j.ws)}
        BY <3>2 DEF LocksOf
      <4>3. /\ ProjectsOf(j.ws) \in SUBSET Projects
            /\ \A p \in ProjectsOf(j.ws) : HomeOf[p] = j.ws
        BY <1>3 DEF ProjectsOf
      <4>. QED
        BY <4>1, <4>2, <4>3
    <3>3. CASE s = "demoted"
      <4>. DEFINE S == IF MakesGuest(j) THEN DemotedIn(WorkspaceOf(j), Subject(j)) ELSE {}
      <4>1. Holds(x, WorkspaceRow(WorkspaceOf(j)))
        BY <1>1, <3>3 DEF RouteOK
      <4>2. LocksOf(x, j, s) = {Own(ProjectRow(p)) : p \in S}
        BY <3>3 DEF LocksOf
      <4>3. S \in SUBSET Projects /\ \A p \in S : HomeOf[p] = WorkspaceOf(j)
        BY <1>3 DEF ProjectsOf, DemotedIn
      <4>. QED
        BY <4>1, <4>2, <4>3
    <3>4. CASE s = "ending"
      <4>. DEFINE S == {q \in DOMAIN projects : /\ HomeOf[q] \in HeldWorkspaces(x)
                                              /\ projects[q][Subject(j)].active}
      <4>1. LocksOf(x, j, s) = {Own(ProjectRow(p)) : p \in S}
        BY <3>4 DEF LocksOf
      <4>2. S \in SUBSET Projects
        BY <1>3
      <4>3. \A p \in S : Holds(x, WorkspaceRow(HomeOf[p]))
        BY DEF HeldWorkspaces, Holds
      <4>. QED
        BY <4>1, <4>2, <4>3
    <3>. QED
      BY <1>10, <3>1, <3>2, <3>3, <3>4
  <2>. QED
    BY <1>10, <2>1, LockFacts, LocksAre DEF RowKind
<1>. QED
  BY <1>1, <1>4, <1>5, <1>6, <1>7, <1>8, <1>9, <1>10 DEF Stages

LEMMA ChosenCovers ==
    ASSUME NEW x \in Workers, RowsInv, NEW j, JobOK(j), NEW s \in Stages, NEW H,
           UNCHANGED <<members, projects, invitations>>, held'[x] = held[x],
           job'[x] = j, LocksOf(x, j, s) \subseteq H
    PROVE  Covers(x, s, H)'
<1>1. WorkspaceOf(j)' = WorkspaceOf(j) /\ Subject(j)' = Subject(j)
  BY DEF WorkspaceOf, Subject
<1>2. CASE s \in {"account", "shareAccount", "workspace", "shareWorkspace",
                  "invitation", "addresses", "project", "projects"}
  BY <1>1, <1>2 DEF Covers, LocksOf, MembershipLock
<1>3. CASE s = "homes"
  BY <1>3 DEF Covers, LocksOf, MembershipLock
<1>4. CASE s = "pending"
  <2>1. \A i \in PendingTo(j.ws, Subject(j)) : Own(InvitationRow(i)) \in H
    BY <1>4 DEF LocksOf
  <2>. QED
    BY <1>1, <1>4, <2>1 DEF Covers, PendingTo, Pending
<1>5. CASE s = "doomed"
  <2>. DEFINE Emptied == {w \in HeldWorkspaces(x) : Others(members[w], j.by) = {}}
  <2>1. \A i \in Doomed(j.by, Emptied) : Own(InvitationRow(i)) \in H
    BY <1>5 DEF LocksOf
  <2>2. ASSUME NEW i \in DOMAIN invitations, Pending(i),
               Own(WorkspaceRow(invitations[i].ws)) \in held[x],
               \/ invitations[i].to = j.by
               \/ Others(members[invitations[i].ws], j.by) = {}
        PROVE  Own(InvitationRow(i)) \in H
    <3>1. invitations[i].ws \in Workspaces
      BY DEF RowsInv, InvitationsTyped, InvitationRows
    <3>2. invitations[i].ws \in HeldWorkspaces(x)
      BY <2>2, <3>1 DEF HeldWorkspaces
    <3>3. i \in Doomed(j.by, Emptied)
      BY <2>2, <3>2 DEF Doomed, Undeleted, Pending
    <3>. QED
      BY <2>1, <3>3
  <2>. QED
    BY <1>5, <2>2 DEF Covers, Pending, Others
<1>6. CASE s = "invitations"
  BY <1>6 DEF Covers, LocksOf, Undeleted
<1>7. CASE s = "demoted"
  <2>1. MakesGuest(j)' <=> MakesGuest(j)
    BY <1>1 DEF MakesGuest
  <2>2. MakesGuest(j) =>
            \A p \in DemotedIn(WorkspaceOf(j), Subject(j)) : Own(ProjectRow(p)) \in H
    BY <1>7 DEF LocksOf
  <2>. QED
    BY <1>1, <1>7, <2>1, <2>2 DEF Covers, DemotedIn, ProjectsOf
<1>8. CASE s = "ending"
  <2>1. ASSUME NEW p \in DOMAIN projects, Own(WorkspaceRow(HomeOf[p])) \in held[x],
               projects[p][Subject(j)].active
        PROVE  Own(ProjectRow(p)) \in H
    <3>1. HomeOf[p] \in HeldWorkspaces(x)
      BY <2>1, MembershipAssumption DEF HeldWorkspaces, RowsInv, ProjectsTyped
    <3>. QED
      BY <1>8, <2>1, <3>1 DEF LocksOf
  <2>. QED
    BY <1>1, <1>8, <2>1 DEF Covers
<1>. QED
  BY <1>2, <1>3, <1>4, <1>5, <1>6, <1>7, <1>8 DEF Stages

\* A request comes.
LEMMA BeginInv ==
    ASSUME IInv, NEW x \in Workers, NEW j \in Requests, Begin(x, j)
    PROVE  IInv'
<1>1. /\ JobOK(j) /\ j.kind \in Kinds
      /\ RowsInv /\ LocksInv
  BY RequestsTyped DEF IInv, JobOK
<1>2. /\ Len(Route[j.kind]) \in 1..4 /\ RouteOK(j.kind, 1)
  BY <1>1, Routes
<1>. DEFINE s == Route[j.kind][1]
<1>3. s \in Stages
  BY <1>2 DEF RouteOK
<1>4. PICK T : T = LocksOf(x, j, s)
  OBVIOUS
<1>5. step[x] = 0 /\ held[x] = {}
  <2>1. step[x] = 0
    BY DEF Begin
  <2>. QED
    BY <2>1 DEF IInv, WorkerInv
<1>6. /\ job'[x] = j /\ step'[x] = 1 /\ todo'[x] = T /\ held'[x] = {}
      /\ held' = held /\ DOMAIN job' = Workers
      /\ \A y \in Workers \ {x} : Local(y)
      /\ UNCHANGED <<plan, active, members, projects, invitations, gone, revived>>
      /\ requests' = requests + 1 /\ requests < MaxRequests
  BY <1>1, <1>4, <1>5 DEF Begin, LocksInv, Local, data
<1>7. /\ T \subseteq Locks
      /\ \A lock \in T :
            /\ lock.row.kind = RowKind(s)
            /\ \A other \in T : other.row.id = lock.row.id => other = lock
            /\ \A p \in Projects : lock = Own(ProjectRow(p)) =>
                  Holds(x, WorkspaceRow(HomeOf[p]))
  BY <1>1, <1>2, <1>4, Chosen
<1>8. RowsInv'
  BY <1>1, <1>6, MembershipAssumption DEF RowsInv, There, Pending
<1>9. LocksInv'
  BY <1>1, <1>6, <1>7 DEF LocksInv, Begin
<1>10. Frame(x)
  BY <1>6, NothingWritten
<1>11. WorkerInv(x)'
  <2>1. JobOK(job[x])'
    BY <1>1, <1>6 DEF JobOK
  <2>2. Stands(x)'
    BY <1>6 DEF Stands, Holds
  <2>3. Stage(x)' = s /\ Staged(x)'
    <3>1. job'[x].kind = j.kind /\ step'[x] = 1
      BY <1>6
    <3>2. Stage(x)' = s
      BY <3>1 DEF Stage
    <3>3. 1 \in 1..Len(Route[j.kind])
      BY <1>2
    <3>4. Staged(x)'
      BY <3>1, <3>3 DEF Staged
    <3>. QED
      BY <3>2, <3>4
  <2>4. Orderly(x)'
    BY <1>5, <1>6, <1>7, <2>3 DEF Orderly, Holds
  <2>5. ASSUME NEW t \in Stages
        PROVE  ~ Past(x, t)' /\ (At(x, t)' => t = s)
    BY <1>2, <1>6, <2>3 DEF Past, At
  <2>6. Covers(x, s, T)'
    BY <1>1, <1>3, <1>4, <1>5, <1>6, ChosenCovers
  <2>7. held'[x] \cup todo'[x] = T
    BY <1>6
  <2>8. Knows(x)'
    BY <2>5, <2>6, <2>7 DEF Knows
  <2>. QED
    BY <1>2, <1>6, <2>1, <2>2, <2>4, <2>8 DEF WorkerInv
<1>. QED
  BY <1>6, <1>8, <1>9, <1>10, <1>11, StepInv

\* A stage's checks leave what its write rests on.
LEMMA PassesChecks ==
    ASSUME NEW x \in Workers, RowsInv, Working(x), Staged(x), Passes(x),
           Covers(x, Stage(x), held[x])
    PROVE  Checked(x, Stage(x))
<1>1. PICK j : j = job[x]
  OBVIOUS
<1>2. PICK w : w = WorkspaceOf(j)
  OBVIOUS
<1>3. PICK s : s = Stage(x)
  OBVIOUS
<1>4. At(x, s) /\ JobOK(j) /\ j.kind \in Kinds /\ j.by \in Users
  BY <1>1, <1>3 DEF At, Working, JobOK
<1>5. s \in Stages
  BY <1>1, <1>4, Places DEF Working
<1>6. Holds(x, WorkspaceRow(w)) /\ w \in Workspaces => There(w)
  BY DEF Working, Stands
<1>7. CASE s \in {"account", "shareAccount"}
  BY <1>1, <1>3, <1>7 DEF Checked, Passes
<1>8. CASE s \in {"workspace", "shareWorkspace"}
  <2>1. There(w)
    BY <1>1, <1>2, <1>3, <1>4, <1>6, <1>8, HeldByCover, HomeTyped, Places
    DEF RowsInv, Working
  <2>2. WorkspacePasses(j)
    BY <1>1, <1>3, <1>8 DEF Passes
  <2>3. j.kind = "leave" => MayLeave(w, j.by)
    BY <1>2, <2>2 DEF WorkspacePasses
  <2>4. j.kind \in {"remove", "updateRole"} =>
            IsAdmin(members[w], j.by) /\ members[w][j.of].active /\ j.of # j.by
    BY <1>2, <2>1, <2>2 DEF WorkspacePasses, RoleOn, IsAdmin
  <2>5. j.kind = "reactivate" => members[w][j.by] # NoRow
    BY <1>2, <2>2 DEF WorkspacePasses
  <2>6. j.kind = "createProject" =>
            /\ RoleIn(members[w], j.by) \in {Admin, Member}
            /\ RoleIn(members[w], j.of) \in {Admin, Member}
    BY <1>2, <2>1, <2>2 DEF WorkspacePasses, RoleOn
  <2>7. j.kind = "createInvitations" => IsAdmin(members[w], j.by)
    BY <1>2, <2>1, <2>2 DEF WorkspacePasses, RoleOn, IsAdmin
  <2>. QED
    BY <1>1, <1>2, <1>3, <1>8, <2>3, <2>4, <2>5, <2>6, <2>7 DEF Checked
<1>9. CASE s = "homes"
  BY <1>1, <1>3, <1>9 DEF Checked, Passes, HeldWorkspaces
<1>10. CASE s = "invitation"
  BY <1>1, <1>3, <1>10 DEF Checked, Passes, InvitationPasses
<1>11. CASE s = "project"
  <2>1. j.kind \in OfProject /\ Past(x, "shareWorkspace")
    BY <1>1, <1>4, <1>11, Places DEF Working
  <2>2. PICK p : p = j.project
    OBVIOUS
  <2>3. p \in Projects /\ w = HomeOf[p] /\ w \in Workspaces
    BY <1>2, <1>4, <2>1, <2>2, MembershipAssumption DEF JobOK, WorkspaceOf, OfProject, OfInvitation
  <2>4. There(w) /\ Standing(p)
    <3>1. Holds(x, WorkspaceRow(w))
      BY <1>1, <1>2, <2>1, HeldByPast DEF Stages, Working
    <3>2. Own(ProjectRow(p)) \in held[x]
      BY <1>1, <1>3, <1>11, <2>2, HeldByCover
    <3>. QED
      BY <1>6, <2>3, <3>1, <3>2 DEF Working, Stands
  <2>5. ProjectPasses(j)
    BY <1>1, <1>3, <1>11 DEF Passes
  <2>6. /\ members[w] \in [Users -> Rows \cup {NoRow}]
        /\ projects[p] \in [Users -> Rows \cup {NoRow}]
    BY <2>4 DEF RowsInv, MembersTyped, ProjectsTyped, There, Standing
  <2>7. /\ \A u : RoleOn(w, u) = RoleIn(members[w], u)
        /\ \A u : RoleAt(p, u) = RoleIn(projects[p], u)
    BY <2>4 DEF RoleOn, RoleAt
  <2>8. j.kind = "joinProject" => RoleIn(members[w], j.by) \in {Admin, Member}
    BY <1>2, <2>5, <2>7 DEF ProjectPasses
  <2>9. j.kind = "addMember" =>
            /\ members[w][j.of].active
            /\ (members[w][j.of].role = Guest => j.role = Guest)
    BY <1>2, <2>5, <2>7 DEF ProjectPasses, MayAdd, RoleIn, Addable, Roles, Guest, Member,
       Admin, Nothing
  <2>10. j.kind = "changeMember" =>
            /\ members[w][j.of].active
            /\ (members[w][j.of].role = Guest => j.role = Guest)
    <3>1. SUFFICES ASSUME j.kind = "changeMember"
                   PROVE  /\ members[w][j.of].active
                          /\ (members[w][j.of].role = Guest => j.role = Guest)
      OBVIOUS
    <3>2. MayChange(j) /\ j.of \in Users
      BY <1>4, <2>5, <3>1 DEF ProjectPasses, JobOK
    <3>3. projects[p][j.of].active
      BY <2>2, <2>7, <3>2 DEF MayChange, RoleIn
    <3>4. members[w][j.of].active
      BY <2>3, <2>4, <3>2, <3>3 DEF RowsInv, Within, Standing
    <3>. QED
      BY <1>2, <2>7, <3>2, <3>4 DEF MayChange, RoleIn
  <2>11. j.kind = "removeMember" =>
            /\ j.of # j.by
            /\ (IsAdmin(projects[p], j.of) => IsAdmin(projects[p], j.by))
    <3>1. SUFFICES ASSUME j.kind = "removeMember"
                   PROVE  /\ j.of # j.by
                          /\ (IsAdmin(projects[p], j.of) => IsAdmin(projects[p], j.by))
      OBVIOUS
    <3>2. /\ j.of # j.by /\ RoleIn(projects[p], j.of) <= RoleIn(projects[p], j.by)
          /\ j.of \in Users
      BY <1>2, <1>4, <2>2, <2>5, <2>7, <3>1 DEF ProjectPasses, JobOK
    <3>3. RoleIn(projects[p], j.by) \in {0, 1, 2, 3}
      BY <1>4, <2>6 DEF RoleIn, Rows, NoRow, Roles, Guest, Member, Admin, Nothing
    <3>. QED
      BY <3>2, <3>3 DEF IsAdmin, Admin
  <2>12. j.kind = "leaveProject" =>
            (IsAdmin(projects[p], j.by) => OtherAdmin(projects[p], j.by))
    BY <1>2, <2>2, <2>5, <2>7 DEF ProjectPasses, IsAdmin
  <2>. QED
    BY <1>1, <1>2, <1>3, <1>11, <2>2, <2>8, <2>9, <2>10, <2>11, <2>12 DEF Checked
<1>12. CASE s = "ending"
  BY <1>1, <1>3, <1>12 DEF Checked, Passes, EndingPasses, HeldProjects
<1>13. CASE s \in {"pending", "doomed", "invitations", "addresses", "demoted", "projects"}
  BY <1>3, <1>13 DEF Checked
<1>. QED
  BY <1>3, <1>5, <1>7, <1>8, <1>9, <1>10, <1>11, <1>12, <1>13 DEF Stages

\* A stage is done: the next one, or the writes.
LEMMA AdvanceInv ==
    ASSUME IInv, NEW x \in Workers, Advance(x)
    PROVE  IInv'
<1>1. RowsInv /\ LocksInv /\ Working(x)
  BY DEF IInv, WorkerInv, Working, Advance
<1>2. PICK j : j = job[x]
  OBVIOUS
<1>3. PICK n : n = step[x]
  OBVIOUS
<1>4. PICK L : L = held[x]
  OBVIOUS
<1>5. /\ JobOK(j) /\ j.kind \in Kinds /\ Knows(x) /\ Stands(x) /\ Orderly(x)
  BY <1>1, <1>2 DEF Working, JobOK
<1>6. /\ Len(Route[j.kind]) \in 1..4
      /\ \A i \in 1..Len(Route[j.kind]) : RouteOK(j.kind, i)
  BY <1>5, Routes
<1>7. /\ n \in 1..Len(Route[j.kind]) /\ todo[x] = {} /\ Passes(x)
  BY <1>2, <1>3 DEF Advance, Staged
<1>8. PICK m : m = Len(Route[j.kind])
  OBVIOUS
<1>9. m \in 1..4 /\ n \in 1..m /\ n \in 1..4
  <2>1. m \in 1..4
    BY <1>6, <1>8
  <2>2. n \in 1..m
    BY <1>7, <1>8
  <2>. QED
    BY <2>1, <2>2
<1>10. PICK T : T = IF n < Len(Route[j.kind]) THEN LocksOf(x, j, Route[j.kind][n + 1])
                                              ELSE {}
  OBVIOUS
<1>11. /\ job'[x] = j /\ step'[x] = n + 1 /\ todo'[x] = T /\ held'[x] = L
       /\ held' = held /\ job' = job
       /\ \A y \in Workers \ {x} : Local(y)
       /\ UNCHANGED <<plan, active, members, projects, invitations, gone, revived, requests>>
  BY <1>1, <1>2, <1>3, <1>4, <1>10 DEF Advance, LocksInv, Local, data
<1>12. Kept(x)
  BY <1>11, Unwritten
<1>13. \A i \in 1..n : Past(x, Route[j.kind][i]) \/ At(x, Route[j.kind][i])
  BY <1>2, <1>3, <1>6, <1>7 DEF Past, At, Staged, Stage
<1>14. ASSUME NEW i \in 1..n
       PROVE  Covers(x, Route[j.kind][i], L) /\ Checked(x, Route[j.kind][i])
  <2>. DEFINE s == Route[j.kind][i]
  <2>1. s \in Stages
    BY <1>6, <1>7 DEF RouteOK
  <2>2. CASE i < n
    <3>1. Past(x, s)
      BY <1>2, <1>3, <1>6, <1>7, <2>2 DEF Past
    <3>. QED
      BY <1>4, <1>5, <2>1, <3>1 DEF Knows
  <2>3. CASE i = n
    <3>1. Stage(x) = s /\ Staged(x) /\ At(x, s)
      BY <1>2, <1>3, <1>7, <2>3 DEF At, Staged, Stage
    <3>2. held[x] \cup todo[x] = held[x]
      BY <1>7
    <3>3. Covers(x, s, held[x])
      BY <1>5, <2>1, <3>1, <3>2 DEF Knows
    <3>4. Checked(x, s)
      BY <1>1, <1>7, <3>1, <3>3, PassesChecks
    <3>. QED
      BY <1>4, <3>3, <3>4
  <2>. QED
    BY <1>9, <2>2, <2>3
<1>15. ASSUME NEW i \in 1..n
       PROVE  Covers(x, Route[j.kind][i], L)' /\ Checked(x, Route[j.kind][i])'
  <2>1. PICK s : s = Route[j.kind][i]
    OBVIOUS
  <2>2. /\ Past(x, s) \/ At(x, s)
        /\ Covers(x, s, L) /\ Covers(x, s, held[x]) /\ Checked(x, s)
    BY <1>4, <1>13, <1>14, <2>1
  <2>3. held'[x] = held[x] /\ job'[x] = job[x]
    BY <1>11
  <2>4. Covers(x, s, L)'
    BY <1>1, <1>12, <2>2, <2>3, CoversKept
  <2>5. Checked(x, s)'
    BY <1>1, <1>12, <2>2, <2>3, CheckedKept
  <2>. QED
    BY <2>1, <2>4, <2>5
<1>16. /\ T \subseteq Locks
       /\ \A lock \in T :
             /\ n < Len(Route[j.kind])
             /\ lock.row.kind = RowKind(Route[j.kind][n + 1])
             /\ \A other \in T : other.row.id = lock.row.id => other = lock
             /\ \A p \in Projects : lock = Own(ProjectRow(p)) =>
                   Holds(x, WorkspaceRow(HomeOf[p]))
  <2>1. CASE n < Len(Route[j.kind])
    <3>1. n + 1 \in 1..Len(Route[j.kind]) /\ (n + 1) - 1 = n
      BY <1>8, <1>9, <2>1
    <3>2. \A i \in 1..(n + 1) - 1 : Route[j.kind][i] \in {"workspace", "shareWorkspace"} =>
              Holds(x, WorkspaceRow(WorkspaceOf(j)))
      BY <1>2, <1>4, <1>14, <3>1, HeldByCover
    <3>3. PICK s : s = Route[j.kind][n + 1]
      OBVIOUS
    <3>4. T = LocksOf(x, j, s)
      BY <1>10, <2>1, <3>3
    <3>. QED
      BY <1>1, <1>5, <2>1, <3>1, <3>2, <3>3, <3>4, Chosen
  <2>2. CASE ~ (n < Len(Route[j.kind]))
    BY <1>10, <2>2
  <2>. QED
    BY <2>1, <2>2
<1>17. RowsInv'
  BY <1>1, <1>11 DEF RowsInv, There, Pending
<1>18. LocksInv'
  <2>1. n + 1 \in 0..5
    BY <1>9
  <2>. QED
    BY <1>1, <1>2, <1>3, <1>7, <1>10, <1>11, <1>16, <2>1 DEF LocksInv, Advance
<1>19. Frame(x)
  BY <1>11, NothingWritten
<1>20. WorkerInv(x)'
  <2>1. JobOK(job[x])'
    BY <1>5, <1>11 DEF JobOK
  <2>2. Stands(x)'
    BY <1>1, <1>4, <1>11, <1>12, StandsKept
  <2>3. Staged(x)' <=> n < Len(Route[j.kind])
    <3>1. n + 1 \in 1..Len(Route[j.kind]) <=> n < Len(Route[j.kind])
      BY <1>6, <1>7
    <3>. QED
      BY <1>11, <3>1 DEF Staged
  <2>4. Stage(x)' = Route[j.kind][n + 1]
    BY <1>11 DEF Stage
  <2>5. Orderly(x)'
    <3>1. \A lock \in L :
             \E i \in 1..n : lock.row.kind = RowKind(Route[j.kind][i])
      BY <1>2, <1>3, <1>4, <1>5, <1>6, <1>7 DEF Orderly
    <3>2. \A lock \in L :
             \E i \in 1..Len(Route[j.kind]) :
                i <= n + 1 /\ lock.row.kind = RowKind(Route[j.kind][i])
      BY <1>6, <1>7, <3>1
    <3>3. ASSUME NEW lock \in T, NEW taken \in L
          PROVE  Precedes(taken.row, lock.row)
      <4>1. PICK i \in 1..n : taken.row.kind = RowKind(Route[j.kind][i])
        BY <3>1
      <4>2. RouteOK(j.kind, n + 1)
        BY <1>6, <1>7, <1>16
      <4>3. i \in 1..(n + 1) - 1
        BY <1>7
      <4>4. Class(RowKind(Route[j.kind][i])) < Class(RowKind(Route[j.kind][n + 1]))
        BY <4>2, <4>3 DEF RouteOK
      <4>. QED
        BY <1>16, <4>1, <4>4 DEF Precedes
    <3>4. ~ Staged(x)' => T = {}
      BY <1>10, <2>3
    <3>5. \A row : Holds(x, row)' <=> Holds(x, row)
      BY <1>4, <1>11 DEF Holds
    <3>. QED
      BY <1>11, <1>16, <2>4, <3>2, <3>3, <3>4, <3>5 DEF Orderly
  <2>6. ASSUME NEW s \in Stages, Past(x, s)'
        PROVE  Covers(x, s, L)' /\ Checked(x, s)'
    <3>1. PICK i \in 1..n : Route[j.kind][i] = s
      BY <1>6, <1>7, <1>11, <2>6 DEF Past
    <3>. QED
      BY <1>15, <3>1
  <2>7. PICK H : H = L \cup T
    OBVIOUS
  <2>8. ASSUME NEW s \in Stages, At(x, s)'
        PROVE  Covers(x, s, H)'
    <3>1. T = LocksOf(x, j, s)
      BY <1>10, <2>3, <2>4, <2>8 DEF At
    <3>2. UNCHANGED <<members, projects, invitations>> /\ held'[x] = held[x]
      BY <1>11
    <3>. QED
      BY <1>1, <1>5, <1>11, <2>7, <3>1, <3>2, ChosenCovers
  <2>9. Knows(x)'
    BY <1>11, <2>6, <2>7, <2>8 DEF Knows
  <2>10. step'[x] \in 1..Len(Route[job'[x].kind]) + 1
    BY <1>6, <1>7, <1>11
  <2>. QED
    BY <2>1, <2>2, <2>5, <2>9, <2>10 DEF WorkerInv
<1>. QED
  BY <1>11, <1>17, <1>18, <1>19, <1>20, StepInv

\* Stages lock rows of later and later kinds.
LEMMA Before ==
    ASSUME NEW x \in Workers, Working(x), NEW s, NEW t, At(x, s), Past(x, t)
    PROVE  Class(RowKind(t)) < Class(RowKind(s))
<1>1. PICK k : k = job[x].kind
  OBVIOUS
<1>2. k \in Kinds
  BY <1>1 DEF Working, JobOK
<1>3. /\ Len(Route[k]) \in 1..4
      /\ \A n \in 1..Len(Route[k]) : RouteOK(k, n)
  BY <1>2, Routes
<1>4. PICK i \in 1..Len(Route[k]) : i < step[x] /\ Route[k][i] = t
  BY <1>1 DEF Past
<1>5. step[x] \in 1..Len(Route[k]) /\ Route[k][step[x]] = s
  BY <1>1 DEF At, Staged, Stage
<1>6. i \in 1..step[x] - 1
  BY <1>3, <1>4, <1>5
<1>7. RouteOK(k, step[x])
  BY <1>3, <1>5
<1>. QED
  BY <1>4, <1>5, <1>6, <1>7 DEF RouteOK

LEMMA CoversMore ==
    ASSUME NEW x \in Workers, NEW s, NEW H, NEW M, H \subseteq M, Covers(x, s, H)
    PROVE  Covers(x, s, M)
BY DEF Covers

LEMMA CoversSame ==
    ASSUME NEW x \in Workers, UNCHANGED <<members, projects, invitations>>,
           job'[x] = job[x], NEW s, NEW H, Covers(x, s, H),
           s \in {"doomed", "ending"} => \A w : Own(WorkspaceRow(w)) \in held'[x]
                                       => Own(WorkspaceRow(w)) \in held[x]
    PROVE  Covers(x, s, H)'
<1>1. PICK j : j = job[x]
  OBVIOUS
<1>2. job'[x] = j
  BY <1>1
<1>3. PICK L : L = held[x]
  OBVIOUS
<1>4. PICK M : M = held'[x]
  OBVIOUS
<1>5. /\ WorkspaceOf(j)' = WorkspaceOf(j) /\ Subject(j)' = Subject(j)
      /\ MakesGuest(j)' <=> MakesGuest(j)
      /\ \A i : Pending(i)' <=> Pending(i)
      /\ \A i : Undeleted(i)' <=> Undeleted(i)
      /\ \A w, u : Others(members[w], u)' = Others(members[w], u)
  BY DEF WorkspaceOf, Subject, MakesGuest, Pending, Undeleted, Others
<1>6. CASE s \notin {"doomed", "ending"}
  BY <1>1, <1>2, <1>5, <1>6 DEF Covers
<1>7. CASE s = "doomed"
  BY <1>1, <1>2, <1>3, <1>4, <1>5, <1>7 DEF Covers
<1>8. CASE s = "ending"
  BY <1>1, <1>2, <1>3, <1>4, <1>5, <1>8 DEF Covers
<1>. QED
  BY <1>6, <1>7, <1>8

LEMMA CheckedSame ==
    ASSUME NEW x \in Workers, UNCHANGED <<active, members, projects, invitations>>,
           job'[x] = job[x], NEW s, Checked(x, s),
           s = "homes" => \A w : Own(WorkspaceRow(w)) \in held'[x]
                               => Own(WorkspaceRow(w)) \in held[x],
           s # "ending"
    PROVE  Checked(x, s)'
<1>1. PICK j : j = job[x]
  OBVIOUS
<1>2. job'[x] = j
  BY <1>1
<1>3. /\ WorkspaceOf(j)' = WorkspaceOf(j)
      /\ \A w, u : MayLeave(w, u)' <=> MayLeave(w, u)
      /\ \A i : Pending(i)' <=> Pending(i)
      /\ AccountPasses(j)' <=> AccountPasses(j)
  BY DEF WorkspaceOf, Subject, MayLeave, Pending, AccountPasses, RoleOn, There
<1>4. CASE s # "homes"
  BY <1>1, <1>2, <1>3, <1>4 DEF Checked
<1>5. CASE s = "homes"
  <2>1. \A w \in Workspaces : Own(WorkspaceRow(w)) \in held'[x] =>
            ~ SoleAdmin(members[w], j.by)
    BY <1>1, <1>5 DEF Checked
  <2>2. \A w \in Workspaces : SoleAdmin(members[w], j.by)' <=> SoleAdmin(members[w], j.by)
    BY DEF SoleAdmin, IsAdmin, OtherAdmin, Others, RoleIn
  <2>. QED
    BY <1>2, <1>5, <2>1, <2>2 DEF Checked
<1>. QED
  BY <1>4, <1>5

\* A lock is of one row.
LEMMA LockKinds ==
    ASSUME NEW lock \in Locks
    PROVE  /\ lock.row.id \in Nat
           /\ \A w : lock \in {Own(WorkspaceRow(w)), Share(WorkspaceRow(w))} =>
                 lock.row.kind = "workspace" /\ lock.row.id = w
           /\ \A p : lock = Own(ProjectRow(p)) =>
                 lock.row.kind = "project" /\ lock.row.id = p
           /\ \A i : lock = Own(InvitationRow(i)) =>
                 lock.row.kind = "invitation" /\ lock.row.id = i
           /\ \A w, u : lock = Own(Address(w, u)) =>
                 lock.row.kind = "address" /\ lock.row = Address(w, u)
           /\ \A u : lock \in {Own(UserRow(u)), Share(UserRow(u))} =>
                 lock.row.kind = "user" /\ lock.row.id = u
<1>1. lock.row \in LockRows
  BY LockFacts DEF Locks, LockRows
<1>2. lock.row.id \in Nat
  <2>1. \A row \in Shareable : row.id \in Nat
    BY LockFacts, MembershipAssumption DEF Shareable
  <2>2. \A i \in Invitations : InvitationRow(i).id \in Nat
    BY LockFacts, MembershipAssumption
  <2>3. \A p \in Projects : ProjectRow(p).id \in Nat
    BY LockFacts, MembershipAssumption
  <2>4. \A w \in Workspaces, u \in Users : Address(w, u).id \in Nat
    BY LockFacts, MembershipAssumption
  <2>. QED
    BY <1>1, <2>1, <2>2, <2>3, <2>4 DEF LockRows
<1>. QED
  BY <1>2, LockFacts

\* A row that a list's statement no longer finds does not matter any more.
LEMMA LeftOut ==
    ASSUME NEW x \in Workers, RowsInv, Working(x), NEW s, At(x, s), NEW H,
           Covers(x, s, H), NEW lock \in Locks, lock.row.kind = RowKind(s),
           ~ Found(x, lock.row), s \notin Named
    PROVE  Covers(x, s, H \ {lock})
<1>1. PICK j : j = job[x]
  OBVIOUS
<1>2. JobOK(j) /\ j.kind \in Kinds /\ Stage(x) = s
  BY <1>1 DEF Working, JobOK, At
<1>3. s \in Stages
  BY <1>1, <1>2, Places DEF Working
<1>4. CASE s \in {"account", "shareAccount"}
  BY <1>4 DEF RowKind, Found
<1>5. CASE s = "homes"
  BY <1>5, LockKinds DEF RowKind, Found, Covers, There
<1>6. CASE s = "pending"
  <2>1. ASSUME NEW i \in DOMAIN invitations, Pending(i)
        PROVE  lock # Own(InvitationRow(i))
    BY <1>6, <2>1, LockKinds DEF RowKind, Found
  <2>. QED
    BY <1>6, <2>1 DEF Covers
<1>7. CASE s = "doomed"
  <2>1. ASSUME NEW i \in DOMAIN invitations, Pending(i)
        PROVE  lock # Own(InvitationRow(i))
    BY <1>7, <2>1, LockKinds DEF RowKind, Found
  <2>. QED
    BY <1>7, <2>1 DEF Covers
<1>8. CASE s = "invitations"
  <2>1. ASSUME NEW i \in DOMAIN invitations, Undeleted(i)
        PROVE  lock # Own(InvitationRow(i))
    BY <1>2, <1>8, <2>1, LockKinds DEF RowKind, Found
  <2>. QED
    BY <1>8, <2>1 DEF Covers
<1>9. CASE s \in {"projects", "demoted", "ending"}
  <2>1. ASSUME NEW p \in DOMAIN projects, lock = Own(ProjectRow(p))
        PROVE  FALSE
    <3>1. lock.row.kind = "project" /\ lock.row.id = p
      BY <2>1, LockKinds
    <3>. QED
      BY <3>1 DEF Found, Standing
  <2>. QED
    BY <1>9, <2>1 DEF Covers
<1>. QED
  BY <1>3, <1>4, <1>5, <1>6, <1>7, <1>8, <1>9 DEF Stages, Named

\* A lock is taken, or its row left out.
LEMMA TakeInv ==
    ASSUME IInv, NEW x \in Workers, Take(x)
    PROVE  IInv'
<1>1. PICK lock \in Upcoming(x) :
         /\ Stage(x) \in Named => Found(x, lock.row)
         /\ held' = [held EXCEPT ![x] = IF Found(x, lock.row) THEN @ \cup {lock} ELSE @]
         /\ todo' = [todo EXCEPT ![x] = @ \ {lock}]
  BY DEF Take
<1>2. RowsInv /\ LocksInv
  BY DEF IInv
<1>3. lock \in todo[x] /\ \A other \in todo[x] : lock.row.id <= other.row.id
  BY DEF Upcoming
<1>4. Working(x)
  BY <1>3 DEF IInv, WorkerInv, Working
<1>5. PICK j : j = job[x]
  OBVIOUS
<1>6. PICK L : L = held[x]
  OBVIOUS
<1>7. PICK T : T = todo[x]
  OBVIOUS
<1>8. PICK s : s = Stage(x)
  OBVIOUS
<1>9. /\ JobOK(j) /\ j.kind \in Kinds /\ Knows(x) /\ Stands(x) /\ Orderly(x)
      /\ lock \in T /\ T \subseteq Locks /\ L \subseteq Locks
  BY <1>2, <1>3, <1>4, <1>5, <1>6, <1>7 DEF Working, JobOK, LocksInv
<1>10. /\ At(x, s) /\ Staged(x) /\ lock.row.kind = RowKind(s) /\ s \in Stages
       /\ \A other \in T : other.row.kind = RowKind(s)
  <2>1. Staged(x) /\ \A other \in T : other.row.kind = RowKind(s)
    BY <1>7, <1>8, <1>9 DEF Orderly
  <2>2. At(x, s)
    BY <1>8, <2>1 DEF At
  <2>. QED
    BY <1>4, <1>5, <1>9, <2>1, <2>2, Places DEF Working
<1>11. PICK M : M = IF Found(x, lock.row) THEN L \cup {lock} ELSE L
  OBVIOUS
<1>12. /\ held'[x] = M /\ todo'[x] = T \ {lock} /\ job'[x] = j
       /\ held' = [held EXCEPT ![x] = M]
       /\ step' = step /\ job' = job
       /\ \A y \in Workers \ {x} : Local(y)
       /\ UNCHANGED <<plan, active, members, projects, invitations, gone, revived, requests>>
  BY <1>1, <1>2, <1>5, <1>6, <1>7, <1>11 DEF Take, LocksInv, Local, data
<1>13. RowsInv'
  BY <1>2, <1>12 DEF RowsInv, There, Pending
<1>14. LocksInv'
  <2>1. \A y \in Workers \ {x} : \A taken \in held[y] :
            ~ Conflict(taken, lock) /\ ~ Conflict(lock, taken)
    BY <1>1 DEF Take, Blockers, Conflict
  <2>2. \A y, z \in Workers : y # z =>
            \A a \in held'[y], b \in held'[z] : ~ Conflict(a, b)
    BY <1>2, <1>6, <1>11, <1>12, <2>1 DEF LocksInv
  <2>. QED
    BY <1>1, <1>2, <1>9, <1>11, <1>12, <2>2 DEF LocksInv
<1>15. Frame(x)
  BY <1>12, NothingWritten
<1>16. L \subseteq M
  BY <1>11
<1>17. WorkerInv(x)'
  <2>1. JobOK(job[x])'
    BY <1>9, <1>12 DEF JobOK
  <2>2. Stands(x)'
    <3>1. \A row : Holds(x, row) => Holds(x, row)'
      BY <1>6, <1>12, <1>16 DEF Holds
    <3>2. ASSUME NEW w \in Workspaces, Holds(x, WorkspaceRow(w))'
          PROVE  There(w)
      <4>1. CASE Holds(x, WorkspaceRow(w))
        BY <1>9, <4>1 DEF Stands
      <4>2. CASE ~ Holds(x, WorkspaceRow(w))
        <5>1. /\ lock \in {Own(WorkspaceRow(w)), Share(WorkspaceRow(w))}
              /\ Found(x, lock.row)
          BY <1>6, <1>11, <1>12, <3>2, <4>2 DEF Holds
        <5>2. lock.row.kind = "workspace" /\ lock.row.id = w
          BY <1>9, <5>1, LockKinds
        <5>. QED
          BY <5>1, <5>2 DEF Found
      <4>. QED
        BY <4>1, <4>2
    <3>3. ASSUME NEW p \in Projects, Own(ProjectRow(p)) \in M
          PROVE  Standing(p) /\ Holds(x, WorkspaceRow(HomeOf[p]))'
      <4>1. CASE Own(ProjectRow(p)) \in L
        BY <1>6, <1>9, <3>1, <4>1 DEF Stands
      <4>2. CASE Own(ProjectRow(p)) \notin L
        <5>1. lock = Own(ProjectRow(p)) /\ Found(x, lock.row)
          BY <1>11, <3>3, <4>2
        <5>2. Standing(p)
          BY <1>9, <5>1, LockKinds DEF Found
        <5>3. Holds(x, WorkspaceRow(HomeOf[p]))
          BY <1>3, <1>9, <5>1 DEF Orderly
        <5>. QED
          BY <3>1, <5>2, <5>3
      <4>. QED
        BY <4>1, <4>2
    <3>4. ASSUME NEW i \in Invitations, Own(InvitationRow(i)) \in M
          PROVE  Undeleted(i)
      <4>1. CASE Own(InvitationRow(i)) \in L
        BY <1>6, <1>9, <4>1 DEF Stands
      <4>2. CASE Own(InvitationRow(i)) \notin L
        <5>1. lock = Own(InvitationRow(i)) /\ Found(x, lock.row)
          BY <1>11, <3>4, <4>2
        <5>. QED
          BY <1>9, <5>1, LockKinds DEF Found, Pending, Undeleted
      <4>. QED
        BY <4>1, <4>2
    <3>5. ASSUME NEW w \in Workspaces, NEW u \in Users, Own(Address(w, u)) \in M
          PROVE  FreeAddress(Address(w, u))
      <4>1. CASE Own(Address(w, u)) \in L
        BY <1>6, <1>9, <4>1 DEF Stands
      <4>2. CASE Own(Address(w, u)) \notin L
        <5>1. lock = Own(Address(w, u)) /\ Found(x, lock.row)
          BY <1>11, <3>5, <4>2
        <5>2. lock.row.kind = "address" /\ lock.row = Address(w, u)
          BY <1>9, <5>1, LockKinds
        <5>. QED
          BY <5>1, <5>2 DEF Found
      <4>. QED
        BY <4>1, <4>2
    <3>. QED
      BY <1>12, <3>2, <3>3, <3>4, <3>5
      DEF Stands, There, Standing, Undeleted, FreeAddress
  <2>3. Stage(x)' = s /\ (Staged(x)' <=> Staged(x))
    BY <1>5, <1>8, <1>12 DEF Stage, Staged
  <2>4. Orderly(x)'
    <3>1. \A a \in M :
             \E i \in 1..Len(Route[j.kind]) :
                i <= step[x] /\ a.row.kind = RowKind(Route[j.kind][i])
      <4>1. \A a \in L :
               \E i \in 1..Len(Route[j.kind]) :
                  i <= step[x] /\ a.row.kind = RowKind(Route[j.kind][i])
        BY <1>5, <1>6, <1>9 DEF Orderly
      <4>2. /\ step[x] \in 1..Len(Route[j.kind]) /\ step[x] <= step[x]
            /\ lock.row.kind = RowKind(Route[j.kind][step[x]])
        BY <1>5, <1>8, <1>10 DEF Staged, Stage
      <4>. QED
        BY <1>11, <4>1, <4>2
    <3>2. ASSUME NEW other \in T \ {lock}, NEW taken \in M
          PROVE  Precedes(taken.row, other.row)
      <4>1. CASE taken \in L
        BY <1>6, <1>7, <1>9, <4>1 DEF Orderly
      <4>2. CASE taken \notin L
        <5>1. taken = lock
          BY <1>11, <3>2, <4>2
        <5>2. lock.row.id # other.row.id
          BY <1>7, <1>9, <3>2 DEF Orderly
        <5>3. lock.row.id \in Nat /\ other.row.id \in Nat
          BY <1>9, LockKinds
        <5>4. lock.row.id < other.row.id
          BY <1>3, <1>7, <5>2, <5>3
        <5>. QED
          BY <1>10, <5>1, <5>4 DEF Precedes
      <4>. QED
        BY <4>1, <4>2
    <3>3. ASSUME NEW other \in T \ {lock}, NEW p \in Projects, other = Own(ProjectRow(p))
          PROVE  Holds(x, WorkspaceRow(HomeOf[p]))'
      <4>1. Holds(x, WorkspaceRow(HomeOf[p]))
        BY <1>7, <1>9, <3>3 DEF Orderly
      <4>. QED
        BY <1>6, <1>12, <1>16, <4>1 DEF Holds
    <3>4. \A a, b \in T \ {lock} : a.row.id = b.row.id => a = b
      BY <1>7, <1>9 DEF Orderly
    <3>. QED
      BY <1>10, <1>12, <2>3, <3>1, <3>2, <3>3, <3>4 DEF Orderly
  <2>5. ASSUME NEW w, Own(WorkspaceRow(w)) \in M, Class(RowKind(s)) > 2
        PROVE  Own(WorkspaceRow(w)) \in L
    <3>1. CASE lock = Own(WorkspaceRow(w))
      <4>1. lock.row.kind = "workspace"
        BY <1>9, <3>1, LockKinds
      <4>. QED
        BY <1>10, <2>5, <4>1 DEF Class
    <3>. QED
      BY <1>11, <2>5, <3>1
  <2>6. ASSUME NEW t \in Stages, Past(x, t)
        PROVE  Covers(x, t, M)' /\ Checked(x, t)'
    <3>1. Covers(x, t, M) /\ Checked(x, t)
      BY <1>6, <1>9, <1>16, <2>6, CoversMore DEF Knows
    <3>2. Class(RowKind(t)) < Class(RowKind(s))
      BY <1>4, <1>10, <2>6, Before
    <3>3. t \in {"homes", "doomed", "ending"} => Class(RowKind(s)) > 2
      BY <3>2 DEF RowKind, Class
    <3>4. t # "ending"
      BY <3>2 DEF RowKind, Class
    <3>5. t \in {"homes", "doomed", "ending"} =>
             \A w : Own(WorkspaceRow(w)) \in held'[x] => Own(WorkspaceRow(w)) \in held[x]
      BY <1>6, <1>12, <2>5, <3>3
    <3>6. UNCHANGED <<active, members, projects, invitations>> /\ job'[x] = job[x]
      BY <1>12
    <3>. QED
      BY <3>1, <3>4, <3>5, <3>6, CoversSame, CheckedSame
  <2>7. PICK H : H = M \cup (T \ {lock})
    OBVIOUS
  <2>8. Covers(x, s, H)'
    <3>1. Covers(x, s, L \cup T)
      BY <1>6, <1>7, <1>9, <1>10 DEF Knows
    <3>2. Covers(x, s, H)
      <4>1. CASE Found(x, lock.row)
        <5>1. L \cup T \subseteq H
          BY <1>9, <1>11, <2>7, <4>1
        <5>. QED
          BY <3>1, <5>1, CoversMore
      <4>2. CASE ~ Found(x, lock.row)
        <5>1. Covers(x, s, (L \cup T) \ {lock})
          BY <1>1, <1>2, <1>4, <1>8, <1>9, <1>10, <3>1, <4>2, LeftOut
        <5>2. (L \cup T) \ {lock} \subseteq H
          BY <1>11, <2>7, <4>2
        <5>. QED
          BY <5>1, <5>2, CoversMore
      <4>. QED
        BY <4>1, <4>2
    <3>3. s \in {"doomed", "ending"} => \A w : Own(WorkspaceRow(w)) \in held'[x]
                                       => Own(WorkspaceRow(w)) \in held[x]
      BY <1>6, <1>12, <2>5 DEF RowKind, Class
    <3>4. UNCHANGED <<members, projects, invitations>> /\ job'[x] = job[x]
      BY <1>12
    <3>. QED
      BY <3>2, <3>3, <3>4, CoversSame
  <2>9. \A t : /\ Past(x, t)' <=> Past(x, t)
               /\ At(x, t)' <=> At(x, t)
    BY <1>12 DEF Past, At, Staged, Stage
  <2>10. \A t : At(x, t) => t = s
    BY <1>8 DEF At
  <2>11. Knows(x)'
    BY <1>12, <2>6, <2>7, <2>8, <2>9, <2>10 DEF Knows
  <2>12. step'[x] \in 1..Len(Route[job'[x].kind]) + 1
    BY <1>4, <1>12 DEF Working
  <2>. QED
    BY <2>1, <2>2, <2>4, <2>11, <2>12 DEF WorkerInv
<1>. QED
  BY <1>12, <1>13, <1>14, <1>15, <1>17, StepInv

-----------------------------------------------------------------------------
(* The start, and the end of a transaction.                                  *)

LEMMA InitInv == Init => IInv
<1>. SUFFICES ASSUME Init PROVE IInv
  OBVIOUS
<1>1. PICK p \in Plans : p = plan
  BY DEF Init
<1>2. /\ active = [u \in Users |-> u \in p.users] /\ members = p.members
      /\ projects = p.projects /\ invitations = p.invited
  BY <1>1 DEF Init
<1>3. /\ IsFiniteSet(DOMAIN p.invited)
      /\ DOMAIN p.invited = 1..Cardinality(DOMAIN p.invited)
      /\ MembersTyped(p.members) /\ ProjectsTyped(p.members, p.projects)
      /\ InvitationsTyped(p.invited)
      /\ \A w \in DOMAIN p.members, u \in Users \ p.users : ~ p.members[w][u].active
      /\ Within(p.members, p.projects)
      /\ \A q \in DOMAIN p.projects, u \in Users :
            p.projects[q][u] # NoRow => p.members[HomeOf[q]][u] # NoRow
      /\ \A i \in DOMAIN p.invited : p.invited[i].state = "pending" =>
            /\ p.invited[i].ws \in DOMAIN p.members
            /\ HasAdmin(p.members[p.invited[i].ws])
      /\ OneToAnAddress(p.invited)
  BY PlansAssumption
<1>4. RowsInv
  <2>1. active \in [Users -> BOOLEAN]
    BY <1>2
  <2>2. revived \subseteq Workspaces \X Users /\ requests \in 0..MaxRequests /\ plan \in Plans
    BY MembershipAssumption DEF Init
  <2>3. \A w \in DOMAIN members, u \in Users :
            members[w][u].active /\ ~ active[u] => <<w, u>> \in revived
    BY <1>2, <1>3
  <2>4. \A i \in DOMAIN invitations : Pending(i) =>
            There(invitations[i].ws) /\ HasAdmin(members[invitations[i].ws])
    BY <1>2, <1>3 DEF Pending, There
  <2>5. \A q \in DOMAIN projects, u \in Users :
            members[HomeOf[q]][u] = NoRow => projects[q][u].role \in {Guest, Nothing}
    BY <1>2, <1>3 DEF NoRow
  <2>. QED
    BY <1>2, <1>3, <2>1, <2>2, <2>3, <2>4, <2>5 DEF RowsInv
<1>5. LocksInv
  BY DEF Init, LocksInv
<1>6. \A x \in Workers : WorkerInv(x)
  BY DEF Init, WorkerInv
<1>. QED
  BY <1>4, <1>5, <1>6 DEF IInv

LEMMA EndInv ==
    ASSUME IInv, NEW x \in Workers, End(x), RowsInv', Frame(x)
    PROVE  IInv'
<1>1. LocksInv
  BY DEF IInv
<1>2. /\ step'[x] = 0 /\ held'[x] = {} /\ todo'[x] = {} /\ job'[x] = NoJob
      /\ \A y \in Workers \ {x} : Local(y)
  BY <1>1 DEF End, LocksInv, Local
<1>3. LocksInv'
  BY <1>1, <1>2 DEF LocksInv, End, Local
<1>4. WorkerInv(x)'
  BY <1>2 DEF WorkerInv
<1>. QED
  BY <1>2, <1>3, <1>4, StepInv

LEMMA RollbackInv ==
    ASSUME IInv, NEW x \in Workers, Rollback(x)
    PROVE  IInv'
<1>1. UNCHANGED <<plan, active, members, projects, invitations, gone, revived, requests>>
  BY DEF Rollback, End, data
<1>2. RowsInv'
  BY <1>1 DEF IInv, RowsInv, There, Pending
<1>. QED
  BY <1>1, <1>2, NothingWritten, EndInv DEF Rollback

LEMMA ReadyKnows ==
    ASSUME IInv, NEW x \in Workers, NEW kinds, Ready(x, kinds)
    PROVE  /\ Working(x) /\ RowsInv /\ Stands(x) /\ JobOK(job[x])
           /\ job[x].kind \in kinds /\ job[x].kind \in Kinds
           /\ \A n \in 1..Len(Route[job[x].kind]) :
                 /\ Covers(x, Route[job[x].kind][n], held[x])
                 /\ Checked(x, Route[job[x].kind][n])
<1>1. Working(x)
  BY DEF IInv, WorkerInv, Working, Ready
<1>2. job[x].kind \in Kinds /\ Knows(x)
  BY <1>1 DEF Working, JobOK
<1>3. ASSUME NEW n \in 1..Len(Route[job[x].kind])
      PROVE  /\ Covers(x, Route[job[x].kind][n], held[x])
             /\ Checked(x, Route[job[x].kind][n])
  <2>1. Past(x, Route[job[x].kind][n])
    BY <1>1, <1>2, Finished DEF Ready, Working
  <2>2. Route[job[x].kind][n] \in Stages
    BY <1>2, Routes DEF RouteOK
  <2>. QED
    BY <1>2, <2>1, <2>2 DEF Knows
<1>. QED
  BY <1>1, <1>2, <1>3 DEF Ready, Working, IInv
=============================================================================
