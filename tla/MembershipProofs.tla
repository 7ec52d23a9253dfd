------------------------- MODULE MembershipProofs -------------------------
(***************************************************************************)
(* Proofs about Membership, for any number of transactions, accounts,      *)
(* workspaces and projects: what each transaction writes, on what it knows *)
(* (MembershipLocks), keeps the rules, and transactions never wait for     *)
(* each other in a circle.                                                 *)
(***************************************************************************)
EXTENDS MembershipLocks

-----------------------------------------------------------------------------
(* One row of a workspace's or a project's memberships.                      *)

Memberships == [Users -> Rows \cup {NoRow}]

Ended(rows, u) == [rows EXCEPT ![u].active = FALSE]
Restored(rows, u) == [rows EXCEPT ![u].active = TRUE]
WithRole(rows, u, role) == [rows EXCEPT ![u].role = role]

LEMMA RowShape ==
    ASSUME NEW row \in Rows \cup {NoRow}
    PROVE  \E r \in Roles \cup {Nothing}, a \in BOOLEAN :
              /\ row = [role |-> r, active |-> a]
              /\ a => r \in Roles
              /\ row = NoRow <=> r = Nothing
<1>1. CASE row \in Rows
  <2>1. PICK r \in Roles, a \in BOOLEAN : row = [role |-> r, active |-> a]
    BY <1>1 DEF Rows
  <2>2. r # Nothing
    BY DEF Roles, Guest, Member, Admin, Nothing
  <2>3. row # NoRow
    BY <2>1, <2>2 DEF NoRow
  <2>. QED
    BY <2>1, <2>2, <2>3
<1>2. CASE row = NoRow
  BY <1>2 DEF NoRow
<1>. QED
  BY <1>1, <1>2

LEMMA RowFacts ==
    ASSUME NEW row \in Rows \cup {NoRow}
    PROVE  /\ row.role \in Roles \cup {Nothing} /\ row.active \in BOOLEAN
           /\ row.active => row.role \in Roles
           /\ row = NoRow <=> row.role = Nothing
<1>1. PICK r \in Roles \cup {Nothing}, a \in BOOLEAN :
         /\ row = [role |-> r, active |-> a]
         /\ a => r \in Roles
         /\ row = NoRow <=> r = Nothing
  BY RowShape
<1>2. row.role = r /\ row.active = a
  BY <1>1
<1>. QED
  BY <1>1, <1>2

LEMMA EndedRow ==
    ASSUME NEW rows \in Memberships, NEW u \in Users
    PROVE  /\ Ended(rows, u) \in Memberships
           /\ Ended(rows, u)[u].active = FALSE /\ Ended(rows, u)[u].role = rows[u].role
           /\ \A v \in Users \ {u} : Ended(rows, u)[v] = rows[v]
<1>. DEFINE next == Ended(rows, u)
<1>1. rows[u] \in Rows \cup {NoRow} /\ DOMAIN rows = Users
  BY DEF Memberships
<1>2. PICK r \in Roles \cup {Nothing}, a \in BOOLEAN : rows[u] = [role |-> r, active |-> a]
  BY <1>1, RowShape
<1>3. PICK f \in BOOLEAN : f = FALSE
  OBVIOUS
<1>4. [rows[u] EXCEPT !.active = f] = [role |-> r, active |-> f]
  BY <1>2
<1>5. next = [rows EXCEPT ![u] = [rows[u] EXCEPT !.active = f]]
  BY <1>3 DEF Ended
<1>6. next = [rows EXCEPT ![u] = [role |-> r, active |-> f]]
  BY <1>4, <1>5
<1>7. [role |-> r, active |-> f] \in Rows \cup {NoRow}
  BY <1>3 DEF Rows, NoRow
<1>. HIDE DEF next
<1>8. /\ next \in Memberships /\ next[u] = [role |-> r, active |-> f]
      /\ \A v \in Users \ {u} : next[v] = rows[v]
  BY <1>6, <1>7 DEF Memberships
<1>9. next[u].active = FALSE /\ next[u].role = rows[u].role
  BY <1>2, <1>3, <1>8
<1>. QED
  BY <1>8, <1>9 DEF next

LEMMA RestoredRow ==
    ASSUME NEW rows \in Memberships, NEW u \in Users, rows[u] # NoRow
    PROVE  /\ Restored(rows, u) \in Memberships
           /\ Restored(rows, u)[u].role = rows[u].role
           /\ Restored(rows, u)[u] # NoRow
           /\ \A v \in Users \ {u} : Restored(rows, u)[v] = rows[v]
<1>. DEFINE next == Restored(rows, u)
<1>1. rows[u] \in Rows \cup {NoRow} /\ DOMAIN rows = Users
  BY DEF Memberships
<1>2. PICK r \in Roles \cup {Nothing}, a \in BOOLEAN :
         /\ rows[u] = [role |-> r, active |-> a]
         /\ rows[u] = NoRow <=> r = Nothing
  BY <1>1, RowShape
<1>3. rows[u] = [role |-> r, active |-> a] /\ r \in Roles
  BY <1>2
<1>4. PICK t \in BOOLEAN : t = TRUE
  OBVIOUS
<1>5. [rows[u] EXCEPT !.active = t] = [role |-> r, active |-> t]
  BY <1>3
<1>6. next = [rows EXCEPT ![u] = [rows[u] EXCEPT !.active = t]]
  BY <1>4 DEF Restored
<1>7. next = [rows EXCEPT ![u] = [role |-> r, active |-> t]]
  BY <1>5, <1>6
<1>8. [role |-> r, active |-> t] \in Rows \cup {NoRow}
  BY <1>3 DEF Rows
<1>. HIDE DEF next
<1>9. /\ next \in Memberships /\ next[u] = [role |-> r, active |-> t]
      /\ \A v \in Users \ {u} : next[v] = rows[v]
  BY <1>7, <1>8 DEF Memberships
<1>10. next[u].role = rows[u].role /\ next[u].role # NoRow.role
  BY <1>3, <1>9 DEF NoRow, Roles, Guest, Member, Admin, Nothing
<1>11. next[u] # NoRow
  BY <1>10
<1>. QED
  BY <1>9, <1>10, <1>11 DEF next

LEMMA RoleRow ==
    ASSUME NEW rows \in Memberships, NEW u \in Users, NEW role \in Roles
    PROVE  /\ WithRole(rows, u, role) \in Memberships
           /\ WithRole(rows, u, role)[u].role = role
           /\ WithRole(rows, u, role)[u].active = rows[u].active
           /\ \A v \in Users \ {u} : WithRole(rows, u, role)[v] = rows[v]
<1>. DEFINE next == WithRole(rows, u, role)
<1>1. rows[u] \in Rows \cup {NoRow} /\ DOMAIN rows = Users
  BY DEF Memberships
<1>2. PICK r \in Roles \cup {Nothing}, a \in BOOLEAN : rows[u] = [role |-> r, active |-> a]
  BY <1>1, RowShape
<1>3. [rows[u] EXCEPT !.role = role] = [role |-> role, active |-> a]
  BY <1>2
<1>4. next = [rows EXCEPT ![u] = [rows[u] EXCEPT !.role = role]]
  BY DEF WithRole
<1>5. next = [rows EXCEPT ![u] = [role |-> role, active |-> a]]
  BY <1>3, <1>4
<1>6. [role |-> role, active |-> a] \in Rows \cup {NoRow}
  BY DEF Rows
<1>. HIDE DEF next
<1>7. /\ next \in Memberships /\ next[u] = [role |-> role, active |-> a]
      /\ \A v \in Users \ {u} : next[v] = rows[v]
  BY <1>5, <1>6 DEF Memberships
<1>8. next[u].active = rows[u].active /\ next[u].role = role
  BY <1>2, <1>7
<1>. QED
  BY <1>7, <1>8 DEF next

\* Who goes without being the only admin of others leaves them one.
LEMMA GoingKeepsAdmin ==
    ASSUME NEW rows \in Memberships, NEW u \in Users, ~ SoleAdmin(rows, u)
    PROVE  KeepsAdmin(rows, Ended(rows, u))
<1>. DEFINE next == Ended(rows, u)
<1>1. /\ next[u].active = FALSE
      /\ \A v \in Users \ {u} : next[v] = rows[v]
  BY EndedRow
<1>. HIDE DEF next
<1>2. ~ next[u].active
  BY <1>1
<1>3. ASSUME HasAdmin(rows)
      PROVE  HasAdmin(next) \/ Empty(next)
  <2>1. CASE \E v \in Users \ {u} : IsAdmin(rows, v)
    BY <1>1, <2>1 DEF HasAdmin, IsAdmin, RoleIn
  <2>2. CASE ~ \E v \in Users \ {u} : IsAdmin(rows, v)
    <3>1. IsAdmin(rows, u)
      BY <1>3, <2>2 DEF HasAdmin
    <3>2. Others(rows, u) = {}
      BY <2>2, <3>1 DEF SoleAdmin, OtherAdmin, Others
    <3>. QED
      BY <1>1, <1>2, <3>2 DEF Others, Empty
  <2>. QED
    BY <2>1, <2>2
<1>. QED
  BY <1>3 DEF KeepsAdmin, next

\* One leaves, or one is removed, and an admin is left.
LEMMA GoingLeavesAdmin ==
    ASSUME NEW rows \in Memberships, NEW u \in Users,
           IsAdmin(rows, u) => OtherAdmin(rows, u), HasAdmin(rows)
    PROVE  HasAdmin(Ended(rows, u))
<1>1. \A v \in Users \ {u} : Ended(rows, u)[v] = rows[v]
  BY EndedRow
<1>2. PICK v \in Users \ {u} : IsAdmin(rows, v)
  BY DEF HasAdmin, OtherAdmin, Others
<1>. QED
  BY <1>1, <1>2 DEF HasAdmin, IsAdmin, RoleIn

-----------------------------------------------------------------------------
(* What most writes do to the invitations, the memberships and the projects. *)

\* No invitation is new, none changes its workspace or its address, and none
\* becomes pending or undeleted again.
InvitationsGo ==
    /\ DOMAIN invitations' = DOMAIN invitations
    /\ InvitationsTyped(invitations')
    /\ \A i \in DOMAIN invitations :
          /\ invitations'[i].ws = invitations[i].ws /\ invitations'[i].to = invitations[i].to
          /\ invitations'[i].state = "pending" => invitations[i].state = "pending"
          /\ invitations[i].state = "deleted" => invitations'[i].state = "deleted"

LEMMA Standstill ==
    ASSUME RowsInv, UNCHANGED invitations
    PROVE  InvitationsGo
BY DEF RowsInv, InvitationsGo

LEMMA Deleting ==
    ASSUME RowsInv, NEW S, invitations' = Deleted(S)
    PROVE  /\ InvitationsGo
           /\ \A i \in DOMAIN invitations \ S : invitations'[i] = invitations[i]
           /\ \A i \in S : ~ Pending(i)'
<1>1. \A i \in DOMAIN invitations : invitations[i] \in InvitationRows
  BY DEF RowsInv, InvitationsTyped
<1>2. DOMAIN invitations' = DOMAIN invitations
  BY DEF Deleted
<1>3. \A i \in DOMAIN invitations \ S : invitations'[i] = invitations[i]
  BY DEF Deleted
<1>4. ASSUME NEW i \in DOMAIN invitations, i \in S
      PROVE  /\ invitations'[i] \in InvitationRows
             /\ invitations'[i].ws = invitations[i].ws
             /\ invitations'[i].to = invitations[i].to
             /\ invitations'[i].state = "deleted"
  <2>1. invitations'[i] = [invitations[i] EXCEPT !.state = "deleted"]
    BY <1>4 DEF Deleted
  <2>. QED
    BY <1>1, <2>1 DEF InvitationRows
<1>5. InvitationsTyped(invitations')
  BY <1>1, <1>2, <1>3, <1>4 DEF InvitationsTyped, RowsInv
<1>6. \A i \in S : ~ Pending(i)'
  BY <1>2, <1>4 DEF Pending
<1>. QED
  BY <1>2, <1>3, <1>4, <1>5, <1>6 DEF InvitationsGo

LEMMA Rewritten ==
    ASSUME RowsInv, NEW i \in DOMAIN invitations, NEW row \in InvitationRows,
           invitations' = [invitations EXCEPT ![i] = row],
           row.ws = invitations[i].ws, row.to = invitations[i].to,
           row.state = "pending" => invitations[i].state = "pending",
           invitations[i].state # "deleted"
    PROVE  /\ InvitationsGo
           /\ \A k \in DOMAIN invitations \ {i} : invitations'[k] = invitations[k]
BY DEF RowsInv, InvitationsTyped, InvitationsGo

\* A write that makes no invitation keeps the rules, if what it writes of
\* memberships and projects does.
LEMMA RowsGoOn ==
    ASSUME RowsInv, InvitationsGo, UNCHANGED <<plan, requests>>,
           active' \in [Users -> BOOLEAN], revived' \subseteq Workspaces \X Users,
           MembersTyped(members'), ProjectsTyped(members', projects'),
           Within(members', projects'),
           \A p \in DOMAIN projects', u \in Users :
              members'[HomeOf[p]][u] = NoRow => projects'[p][u].role \in {Guest, Nothing},
           \A w \in DOMAIN members', u \in Users :
              members'[w][u].active /\ ~ active'[u] => <<w, u>> \in revived',
           \A i \in DOMAIN invitations : Pending(i) /\ Pending(i)' =>
              /\ invitations[i].ws \in DOMAIN members'
              /\ HasAdmin(members'[invitations[i].ws])
    PROVE  RowsInv'
<1>1. \A i \in DOMAIN invitations' : Pending(i)' =>
          There(invitations[i].ws)' /\ HasAdmin(members[invitations[i].ws])'
  <2>1. \A i \in DOMAIN invitations' : i \in DOMAIN invitations
    BY DEF InvitationsGo
  <2>2. ASSUME NEW i \in DOMAIN invitations', Pending(i)'
        PROVE  /\ invitations'[i].ws \in DOMAIN members'
               /\ HasAdmin(members'[invitations'[i].ws])
    <3>1. Pending(i) /\ invitations'[i].ws = invitations[i].ws
      BY <2>1, <2>2 DEF InvitationsGo, Pending
    <3>. QED
      BY <2>1, <2>2, <3>1
  <2>. QED
    BY <2>1, <2>2 DEF There
<1>2. OneToAnAddress(invitations')
  BY DEF RowsInv, InvitationsGo, OneToAnAddress
<1>3. /\ IsFiniteSet(DOMAIN invitations')
      /\ DOMAIN invitations' = 1..Cardinality(DOMAIN invitations')
      /\ InvitationsTyped(invitations')
  BY DEF RowsInv, InvitationsGo
<1>4. requests' \in 0..MaxRequests /\ plan' \in Plans
  BY DEF RowsInv
<1>. QED
  BY <1>1, <1>2, <1>3, <1>4 DEF RowsInv

\* A write of invitations alone.
LEMMA InvitationsOnly ==
    ASSUME RowsInv, InvitationsGo,
           UNCHANGED <<plan, requests, active, members, projects, revived>>
    PROVE  RowsInv'
<1>1. \A i \in DOMAIN invitations : Pending(i) =>
          /\ invitations[i].ws \in DOMAIN members
          /\ HasAdmin(members[invitations[i].ws])
  BY DEF RowsInv, There
<1>. QED
  BY <1>1, RowsGoOn DEF RowsInv

LEMMA OneWorkspace ==
    ASSUME RowsInv, NEW w \in DOMAIN members, NEW next \in Memberships,
           members' = [members EXCEPT ![w] = next]
    PROVE  /\ MembersTyped(members') /\ DOMAIN members' = DOMAIN members
           /\ members'[w] = next
           /\ \A v \in DOMAIN members \ {w} : members'[v] = members[v]
BY DEF RowsInv, MembersTyped, Memberships

LEMMA OneProject ==
    ASSUME RowsInv, NEW p \in DOMAIN projects, NEW next \in Memberships,
           projects' = [projects EXCEPT ![p] = next],
           DOMAIN members \subseteq DOMAIN members'
    PROVE  /\ ProjectsTyped(members', projects') /\ DOMAIN projects' = DOMAIN projects
           /\ projects'[p] = next
           /\ \A q \in DOMAIN projects \ {p} : projects'[q] = projects[q]
BY DEF RowsInv, ProjectsTyped, Memberships

LEMMA Typed ==
    ASSUME RowsInv
    PROVE  /\ DOMAIN members \subseteq Workspaces /\ DOMAIN projects \subseteq Projects
           /\ \A w \in DOMAIN members : members[w] \in Memberships
           /\ \A p \in DOMAIN projects :
                 HomeOf[p] \in DOMAIN members /\ projects[p] \in Memberships
BY DEF RowsInv, MembersTyped, ProjectsTyped, Memberships

\* The memberships of u end in the workspaces, or projects, of S.
LEMMA Ending ==
    ASSUME NEW rows, \A k \in DOMAIN rows : rows[k] \in Memberships, NEW S,
           NEW u \in Users
    PROVE  /\ DOMAIN EndedIn(rows, S, u) = DOMAIN rows
           /\ \A k \in DOMAIN rows :
                 /\ EndedIn(rows, S, u)[k] \in Memberships
                 /\ k \in S => EndedIn(rows, S, u)[k] = Ended(rows[k], u)
                 /\ k \notin S => EndedIn(rows, S, u)[k] = rows[k]
<1>1. /\ DOMAIN EndedIn(rows, S, u) = DOMAIN rows
      /\ \A k \in DOMAIN rows :
            /\ k \in S => EndedIn(rows, S, u)[k] = Ended(rows[k], u)
            /\ k \notin S => EndedIn(rows, S, u)[k] = rows[k]
  BY DEF EndedIn, Ended
<1>2. \A k \in DOMAIN rows : Ended(rows[k], u) \in Memberships
  BY EndedRow
<1>. QED
  BY <1>1, <1>2

LEMMA Demoting ==
    ASSUME RowsInv, NEW S, NEW u \in Users, projects' = MadeGuestIn(S, u),
           DOMAIN members \subseteq DOMAIN members'
    PROVE  /\ ProjectsTyped(members', projects') /\ DOMAIN projects' = DOMAIN projects
           /\ \A p \in DOMAIN projects :
                 /\ p \notin S => projects'[p] = projects[p]
                 /\ p \in S => projects'[p][u].role = Guest
                 /\ projects'[p][u].active = projects[p][u].active
                 /\ \A v \in Users \ {u} : projects'[p][v] = projects[p][v]
<1>1. \A p \in DOMAIN projects : projects[p] \in Memberships
  BY Typed
<1>2. /\ DOMAIN projects' = DOMAIN projects
      /\ \A p \in DOMAIN projects :
            /\ p \in S => projects'[p] = WithRole(projects[p], u, Guest)
            /\ p \notin S => projects'[p] = projects[p]
  BY DEF MadeGuestIn, WithRole
<1>3. Guest \in Roles
  BY DEF Roles
<1>4. \A p \in DOMAIN projects :
          /\ WithRole(projects[p], u, Guest) \in Memberships
          /\ WithRole(projects[p], u, Guest)[u].role = Guest
          /\ WithRole(projects[p], u, Guest)[u].active = projects[p][u].active
          /\ \A v \in Users \ {u} : WithRole(projects[p], u, Guest)[v] = projects[p][v]
  BY <1>1, <1>3, RoleRow
<1>5. \A p \in DOMAIN projects : projects'[p] \in Memberships
  BY <1>1, <1>2, <1>4
<1>6. ProjectsTyped(members', projects')
  BY <1>2, <1>5 DEF RowsInv, ProjectsTyped, Memberships
<1>. QED
  BY <1>2, <1>4, <1>6

-----------------------------------------------------------------------------
(* What each write leaves: the rules, other transactions' knowledge, an      *)
(* admin, and no way back.                                                   *)

AdminsStay ==
    /\ \A w \in DOMAIN members :
          w \in DOMAIN members' => KeepsAdmin(members[w], members'[w])
    /\ \A p \in DOMAIN projects \cap DOMAIN projects' :
          (\E u \in Users : projects[p][u].active /\ ~ projects'[p][u].active)
          => KeepsAdmin(projects[p], projects'[p])

WaysClose ==
    \A w \in DOMAIN members \cap DOMAIN members', u \in Users :
        members[w][u].active /\ ~ members'[w][u].active => ~ Invited(w, u)'

Written(x) == RowsInv' /\ Frame(x) /\ AdminsStay /\ WaysClose

\* A write of invitations that are there.
LEMMA InvitationsWritten ==
    ASSUME RowsInv, NEW x \in Workers, InvitationsGo,
           \A i \in DOMAIN invitations :
              invitations'[i] = invitations[i] \/ Own(InvitationRow(i)) \in held[x],
           UNCHANGED <<plan, requests, active, members, projects, revived>>
    PROVE  Written(x)
<1>1. RowsInv'
  BY InvitationsOnly
<1>2. Frame(x)
  BY DEF Frame, InvitationsGo
<1>3. AdminsStay /\ WaysClose
  BY DEF AdminsStay, WaysClose, KeepsAdmin
<1>. QED
  BY <1>1, <1>2, <1>3 DEF Written

LEMMA CreateInvitationsWrites ==
    ASSUME IInv, NEW x \in Workers, CreateInvitations(x)
    PROVE  Written(x)
<1>1. PICK j : j = job[x]
  OBVIOUS
<1>2. /\ Working(x) /\ RowsInv /\ Stands(x) /\ JobOK(j) /\ j.kind = "createInvitations"
      /\ \A m \in 1..Len(Route[j.kind]) :
            Covers(x, Route[j.kind][m], held[x]) /\ Checked(x, Route[j.kind][m])
  BY <1>1, ReadyKnows DEF CreateInvitations
<1>3. Route["createInvitations"] = <<"account", "shareWorkspace", "addresses">>
  BY DEF Route
<1>4. /\ Covers(x, "shareWorkspace", held[x]) /\ Checked(x, "shareWorkspace")
      /\ Covers(x, "addresses", held[x])
  BY <1>2, <1>3
<1>5. WorkspaceOf(j) = j.ws /\ j.ws \in Workspaces /\ j.whom \subseteq Users /\ j.role \in Roles
      /\ j.by \in Users
  BY <1>2 DEF WorkspaceOf, JobOK, OfInvitation, OfProject, Deactivations
<1>6. /\ Share(WorkspaceRow(j.ws)) \in held[x] /\ Holds(x, WorkspaceRow(j.ws))
      /\ \A u \in j.whom : Own(Address(j.ws, u)) \in held[x]
  BY <1>1, <1>4, <1>5 DEF Covers, Holds
<1>7. There(j.ws) /\ HasAdmin(members[j.ws])
  <2>1. There(j.ws)
    BY <1>2, <1>5, <1>6 DEF Stands
  <2>2. IsAdmin(members[j.ws], j.by)
    BY <1>1, <1>2, <1>4, <1>5 DEF Checked
  <2>. QED
    BY <1>5, <2>1, <2>2 DEF HasAdmin
<1>8. \A u \in j.whom, i \in DOMAIN invitations :
         Undeleted(i) => ~ (invitations[i].ws = j.ws /\ invitations[i].to = u)
  BY <1>2, <1>5, <1>6 DEF Stands, FreeAddress
<1>9. PICK n : n = Cardinality(DOMAIN invitations)
  OBVIOUS
<1>10. PICK k : k = Cardinality(j.whom)
  OBVIOUS
<1>11. n \in Nat /\ k \in Nat /\ DOMAIN invitations = 1..n
  BY <1>2, <1>5, <1>9, <1>10, FS_CardinalityType, FS_Subset, MembershipAssumption DEF RowsInv
<1>12. PICK new : new = n + 1 .. n + k
  OBVIOUS
<1>13. /\ new \subseteq plan.invitations
       /\ \E to \in [new -> j.whom] :
             /\ \A i, m \in new : i < m => to[i] < to[m]
             /\ DOMAIN invitations' = DOMAIN invitations \cup new
             /\ \A i \in DOMAIN invitations \cup new : invitations'[i] =
                   IF i \in new THEN [ws |-> j.ws, to |-> to[i], role |-> j.role,
                                      state |-> "pending"]
                                ELSE invitations[i]
  <2>. DEFINE N == Cardinality(DOMAIN invitations)
              New == N + 1 .. N + Cardinality(job[x].whom)
  <2>1. /\ New \subseteq plan.invitations
        /\ \E to \in [New -> job[x].whom] :
              /\ \A i, m \in New : i < m => to[i] < to[m]
              /\ invitations' = [i \in DOMAIN invitations \cup New |->
                    IF i \in New THEN [ws |-> job[x].ws, to |-> to[i], role |-> job[x].role,
                                       state |-> "pending"]
                                 ELSE invitations[i]]
    BY DEF CreateInvitations
  <2>2. New = new
    BY <1>1, <1>9, <1>10, <1>12
  <2>. HIDE DEF New
  <2>3. PICK to \in [New -> job[x].whom] :
              /\ \A i, m \in New : i < m => to[i] < to[m]
              /\ invitations' = [i \in DOMAIN invitations \cup New |->
                    IF i \in New THEN [ws |-> job[x].ws, to |-> to[i], role |-> job[x].role,
                                       state |-> "pending"]
                                 ELSE invitations[i]]
    BY <2>1
  <2>4. /\ DOMAIN invitations' = DOMAIN invitations \cup New
        /\ \A i \in DOMAIN invitations \cup New : invitations'[i] =
              IF i \in New THEN [ws |-> job[x].ws, to |-> to[i], role |-> job[x].role,
                                 state |-> "pending"]
                           ELSE invitations[i]
    BY <2>3
  <2>. QED
    BY <1>1, <2>1, <2>2, <2>3, <2>4
<1>14. PICK to \in [new -> j.whom] :
             /\ \A i, m \in new : i < m => to[i] < to[m]
             /\ DOMAIN invitations' = DOMAIN invitations \cup new
             /\ \A i \in DOMAIN invitations \cup new : invitations'[i] =
                   IF i \in new THEN [ws |-> j.ws, to |-> to[i], role |-> j.role,
                                      state |-> "pending"]
                                ELSE invitations[i]
  BY <1>13
<1>15. /\ DOMAIN invitations' = DOMAIN invitations \cup new
       /\ \A i \in DOMAIN invitations : invitations'[i] = invitations[i]
       /\ \A i \in new : /\ i \notin DOMAIN invitations
                         /\ invitations'[i] = [ws |-> j.ws, to |-> to[i], role |-> j.role,
                                               state |-> "pending"]
  <2>1. \A i \in new : i \notin DOMAIN invitations
    BY <1>11, <1>12
  <2>2. \A i \in DOMAIN invitations : i \notin new
    BY <2>1
  <2>3. \A i \in DOMAIN invitations : invitations'[i] = invitations[i]
    BY <1>14, <2>2
  <2>4. \A i \in new : invitations'[i] = [ws |-> j.ws, to |-> to[i], role |-> j.role,
                                           state |-> "pending"]
    BY <1>14
  <2>. QED
    BY <1>14, <2>1, <2>3, <2>4
<1>16. /\ \A i \in new : /\ invitations'[i].ws = j.ws /\ invitations'[i].to = to[i]
                         /\ invitations'[i].state = "pending" /\ to[i] \in j.whom
                         /\ invitations'[i] \in InvitationRows
  BY <1>5, <1>14, <1>15 DEF InvitationRows
<1>17. \A i, m \in new : i # m => to[i] # to[m]
  <2>1. \A i \in new : to[i] \in Nat
    BY <1>5, <1>14, MembershipAssumption
  <2>. QED
    BY <1>11, <1>12, <1>14, <2>1
<1>18. UNCHANGED <<plan, requests, active, members, projects, revived>>
  BY DEF CreateInvitations, End
<1>19. OneToAnAddress(invitations')
  <2>1. ASSUME NEW i \in DOMAIN invitations, NEW m \in new,
               invitations[i].state # "deleted", invitations[i].ws = j.ws
        PROVE  invitations[i].to # to[m]
    BY <1>8, <1>16, <2>1 DEF Undeleted
  <2>2. \A i, m \in DOMAIN invitations :
           /\ i # m /\ invitations[i].state # "deleted" /\ invitations[m].state # "deleted"
           /\ invitations[i].ws = invitations[m].ws
           => invitations[i].to # invitations[m].to
    BY <1>2 DEF RowsInv, OneToAnAddress
  <2>. QED
    BY <1>15, <1>16, <1>17, <2>1, <2>2 DEF OneToAnAddress
<1>20. /\ IsFiniteSet(DOMAIN invitations')
       /\ DOMAIN invitations' = 1..Cardinality(DOMAIN invitations')
  <2>1. DOMAIN invitations' = 1..n + k
    BY <1>11, <1>12, <1>15
  <2>2. IsFiniteSet(1..n + k) /\ Cardinality(1..n + k) = n + k
    BY <1>11, FS_Interval
  <2>. QED
    BY <2>1, <2>2
<1>21. InvitationsTyped(invitations')
  <2>1. plan.invitations \subseteq Invitations
    BY <1>2, PlansAssumption DEF RowsInv
  <2>. QED
    BY <1>2, <1>13, <1>15, <1>16, <2>1 DEF RowsInv, InvitationsTyped
<1>22. \A i \in DOMAIN invitations' : Pending(i)' =>
          There(invitations'[i].ws) /\ HasAdmin(members[invitations'[i].ws])
  BY <1>2, <1>7, <1>15, <1>16 DEF RowsInv, Pending
<1>23. RowsInv'
  BY <1>2, <1>18, <1>19, <1>20, <1>21, <1>22 DEF RowsInv, There
<1>24. Frame(x)
  BY <1>6, <1>15, <1>16, <1>18 DEF Frame
<1>25. AdminsStay /\ WaysClose
  BY <1>18 DEF AdminsStay, WaysClose, KeepsAdmin
<1>. QED
  BY <1>23, <1>24, <1>25 DEF Written

\* A request on an invitation has it when it is ready.
LEMMA HasInvitation ==
    ASSUME IInv, NEW x \in Workers, Ready(x, OfInvitation)
    PROVE  /\ RowsInv /\ job[x].kind \in OfInvitation /\ JobOK(job[x])
           /\ job[x].invitation \in DOMAIN invitations
           /\ job[x].invitation \in Invitations
           /\ Own(InvitationRow(job[x].invitation)) \in held[x]
           /\ Undeleted(job[x].invitation)
           /\ job[x].kind \in {"accept", "decline"} =>
                 /\ Pending(job[x].invitation)
                 /\ invitations[job[x].invitation].to = job[x].by
<1>1. PICK j : j = job[x]
  OBVIOUS
<1>2. /\ RowsInv /\ Stands(x) /\ JobOK(j) /\ j.kind \in OfInvitation
      /\ \A n \in 1..Len(Route[j.kind]) :
            Covers(x, Route[j.kind][n], held[x]) /\ Checked(x, Route[j.kind][n])
  BY <1>1, ReadyKnows
<1>3. \E n \in 1..Len(Route[j.kind]) : Route[j.kind][n] = "invitation"
  <2>1. CASE j.kind = "accept"
    <3>1. Route["accept"] = <<"account", "workspace", "invitation", "demoted">>
      BY DEF Route
    <3>. QED
      BY <2>1, <3>1
  <2>2. CASE j.kind = "decline"
    <3>1. Route["decline"] = <<"shareAccount", "shareWorkspace", "invitation">>
      BY DEF Route
    <3>. QED
      BY <2>2, <3>1
  <2>3. CASE j.kind = "updateInvitation"
    <3>1. Route["updateInvitation"] = <<"shareWorkspace", "invitation">>
      BY DEF Route
    <3>. QED
      BY <2>3, <3>1
  <2>4. CASE j.kind = "deleteInvitation"
    <3>1. Route["deleteInvitation"] = <<"shareWorkspace", "invitation">>
      BY DEF Route
    <3>. QED
      BY <2>4, <3>1
  <2>. QED
    BY <1>2, <2>1, <2>2, <2>3, <2>4 DEF OfInvitation
<1>4. Covers(x, "invitation", held[x]) /\ Checked(x, "invitation")
  BY <1>2, <1>3
<1>5. j.invitation \in DOMAIN invitations /\ j.invitation \in Invitations
  BY <1>2 DEF JobOK, RowsInv, InvitationsTyped
<1>6. Own(InvitationRow(j.invitation)) \in held[x]
  BY <1>1, <1>4, HeldByCover
<1>7. Undeleted(j.invitation)
  BY <1>2, <1>5, <1>6 DEF Stands
<1>8. j.kind \in {"accept", "decline"} =>
         Pending(j.invitation) /\ invitations[j.invitation].to = j.by
  BY <1>1, <1>4 DEF Checked
<1>. QED
  BY <1>1, <1>2, <1>5, <1>6, <1>7, <1>8

LEMMA UpdateInvitationWrites ==
    ASSUME IInv, NEW x \in Workers, UpdateInvitation(x)
    PROVE  Written(x)
<1>1. PICK j : j = job[x]
  OBVIOUS
<1>2. PICK i : i = j.invitation
  OBVIOUS
<1>3. /\ RowsInv /\ JobOK(j) /\ i \in DOMAIN invitations
      /\ Own(InvitationRow(i)) \in held[x] /\ Undeleted(i)
  BY <1>1, <1>2, HasInvitation DEF UpdateInvitation, Ready, OfInvitation
<1>4. j.role \in Roles
  BY <1>1, <1>3 DEF UpdateInvitation, Ready, JobOK
<1>5. invitations[i] \in InvitationRows
  BY <1>3 DEF RowsInv, InvitationsTyped
<1>6. PICK row : row = [invitations[i] EXCEPT !.role = j.role]
  OBVIOUS
<1>7. /\ row \in InvitationRows /\ row.ws = invitations[i].ws
      /\ row.to = invitations[i].to /\ row.state = invitations[i].state
  BY <1>4, <1>5, <1>6 DEF InvitationRows
<1>8. invitations' = [invitations EXCEPT ![i] = row]
  BY <1>1, <1>2, <1>6 DEF UpdateInvitation
<1>9. /\ InvitationsGo
      /\ \A k \in DOMAIN invitations \ {i} : invitations'[k] = invitations[k]
  BY <1>3, <1>7, <1>8, Rewritten DEF Undeleted
<1>. QED
  BY <1>3, <1>9, InvitationsWritten DEF UpdateInvitation, End

LEMMA DeclineWrites ==
    ASSUME IInv, NEW x \in Workers, Decline(x)
    PROVE  Written(x)
<1>1. PICK i : i = job[x].invitation
  OBVIOUS
<1>2. /\ RowsInv /\ i \in DOMAIN invitations
      /\ Own(InvitationRow(i)) \in held[x] /\ Undeleted(i)
  BY <1>1, HasInvitation DEF Decline, Ready, OfInvitation
<1>3. invitations[i] \in InvitationRows
  BY <1>2 DEF RowsInv, InvitationsTyped
<1>4. PICK row : row = [invitations[i] EXCEPT !.state = "declined"]
  OBVIOUS
<1>5. /\ row \in InvitationRows /\ row.ws = invitations[i].ws
      /\ row.to = invitations[i].to /\ row.state = "declined"
  BY <1>3, <1>4 DEF InvitationRows
<1>6. invitations' = [invitations EXCEPT ![i] = row]
  BY <1>1, <1>4 DEF Decline
<1>7. /\ InvitationsGo
      /\ \A k \in DOMAIN invitations \ {i} : invitations'[k] = invitations[k]
  BY <1>2, <1>5, <1>6, Rewritten DEF Undeleted
<1>. QED
  BY <1>2, <1>7, InvitationsWritten DEF Decline, End

LEMMA DeleteInvitationWrites ==
    ASSUME IInv, NEW x \in Workers, DeleteInvitation(x)
    PROVE  Written(x)
<1>1. PICK i : i = job[x].invitation
  OBVIOUS
<1>2. RowsInv /\ Own(InvitationRow(i)) \in held[x]
  BY <1>1, HasInvitation DEF DeleteInvitation, Ready, OfInvitation
<1>3. invitations' = Deleted({i})
  BY <1>1 DEF DeleteInvitation
<1>4. /\ InvitationsGo
      /\ \A k \in DOMAIN invitations \ {i} : invitations'[k] = invitations[k]
  BY <1>2, <1>3, Deleting
<1>. QED
  BY <1>2, <1>4, InvitationsWritten DEF DeleteInvitation, End

\* An active membership is made, restored or given a role, and where that makes
\* u a guest, he is a guest in the workspace's projects.
LEMMA Admitted ==
    ASSUME RowsInv, NEW x \in Workers, Stands(x), NEW w \in DOMAIN members,
           NEW u \in Users, NEW next \in Memberships,
           members' = [members EXCEPT ![w] = next],
           \A v \in Users \ {u} : next[v] = members[w][v], next[u].active,
           projects' = MadeGuestIn(HeldProjects(x), u),
           next[u].role = Guest => \A p \in DOMAIN projects : HomeOf[p] = w =>
              p \in HeldProjects(x) \/ projects[p][u].role \in {Guest, Nothing}
    PROVE  /\ MembersTyped(members') /\ ProjectsTyped(members', projects')
           /\ DOMAIN members' = DOMAIN members /\ members'[w] = next
           /\ \A v \in DOMAIN members \ {w} : members'[v] = members[v]
           /\ Within(members', projects')
           /\ \A p \in DOMAIN projects', v \in Users :
                 members'[HomeOf[p]][v] = NoRow => projects'[p][v].role \in {Guest, Nothing}
           /\ DOMAIN projects' = DOMAIN projects
           /\ \A p \in DOMAIN projects :
                 /\ \A v \in Users : projects'[p][v].active = projects[p][v].active
                 /\ \/ projects'[p] = projects[p]
                    \/ Own(ProjectRow(p)) \in held[x] /\ Holds(x, WorkspaceRow(HomeOf[p]))
<1>1. /\ MembersTyped(members') /\ DOMAIN members' = DOMAIN members
      /\ members'[w] = next
      /\ \A v \in DOMAIN members \ {w} : members'[v] = members[v]
  BY OneWorkspace
<1>2. /\ ProjectsTyped(members', projects') /\ DOMAIN projects' = DOMAIN projects
      /\ \A p \in DOMAIN projects :
            /\ p \notin HeldProjects(x) => projects'[p] = projects[p]
            /\ p \in HeldProjects(x) => projects'[p][u].role = Guest
            /\ projects'[p][u].active = projects[p][u].active
            /\ \A v \in Users \ {u} : projects'[p][v] = projects[p][v]
  BY <1>1, Demoting
<1>3. next[u] # NoRow
  BY DEF NoRow
<1>4. /\ DOMAIN projects \subseteq Projects
      /\ \A p \in DOMAIN projects : HomeOf[p] \in DOMAIN members
  BY Typed
<1>5. ASSUME NEW p \in DOMAIN projects, NEW v \in Users
      PROVE  /\ projects'[p][v].active => members'[HomeOf[p]][v].active
             /\ members'[HomeOf[p]][v].role = Guest =>
                   projects'[p][v].role \in {Guest, Nothing}
             /\ members'[HomeOf[p]][v] = NoRow =>
                   projects'[p][v].role \in {Guest, Nothing}
  <2>1. /\ projects[p][v].active => members[HomeOf[p]][v].active
        /\ members[HomeOf[p]][v].role = Guest => projects[p][v].role \in {Guest, Nothing}
        /\ members[HomeOf[p]][v] = NoRow => projects[p][v].role \in {Guest, Nothing}
    BY <1>5 DEF RowsInv, Within
  <2>2. /\ projects'[p][v].active = projects[p][v].active
        /\ projects'[p][v].role \in {projects[p][v].role, Guest}
    BY <1>2, <1>5
  <2>3. CASE HomeOf[p] = w /\ v = u
    BY <1>1, <1>2, <1>3, <1>5, <2>2, <2>3
  <2>4. CASE ~ (HomeOf[p] = w /\ v = u)
    <3>1. members'[HomeOf[p]][v] = members[HomeOf[p]][v]
      BY <1>1, <1>4, <1>5, <2>4
    <3>. QED
      BY <2>1, <2>2, <3>1
  <2>. QED
    BY <2>3, <2>4
<1>6. Within(members', projects')
  BY <1>2, <1>5 DEF Within
<1>7. ASSUME NEW p \in DOMAIN projects
      PROVE  /\ \A v \in Users : projects'[p][v].active = projects[p][v].active
             /\ \/ projects'[p] = projects[p]
                \/ Own(ProjectRow(p)) \in held[x] /\ Holds(x, WorkspaceRow(HomeOf[p]))
  <2>1. \A v \in Users : projects'[p][v].active = projects[p][v].active
    BY <1>2, <1>7
  <2>2. p \in HeldProjects(x) =>
           Own(ProjectRow(p)) \in held[x] /\ Holds(x, WorkspaceRow(HomeOf[p]))
    BY <1>4, <1>7 DEF HeldProjects, Stands
  <2>. QED
    BY <1>2, <2>1, <2>2
<1>. QED
  BY <1>1, <1>2, <1>5, <1>6, <1>7

LEMMA AcceptWrites ==
    ASSUME IInv, NEW x \in Workers, Accept(x)
    PROVE  Written(x)
<1>1. PICK j : j = job[x]
  OBVIOUS
<1>2. PICK i : i = j.invitation
  OBVIOUS
<1>3. PICK w : w = invitations[i].ws
  OBVIOUS
<1>4. PICK u : u = j.by
  OBVIOUS
<1>5. /\ RowsInv /\ Stands(x) /\ JobOK(j) /\ j.kind = "accept"
      /\ \A n \in 1..Len(Route[j.kind]) :
            Covers(x, Route[j.kind][n], held[x]) /\ Checked(x, Route[j.kind][n])
  BY <1>1, ReadyKnows DEF Accept
<1>6. /\ i \in DOMAIN invitations /\ Own(InvitationRow(i)) \in held[x]
      /\ Pending(i) /\ invitations[i].to = u
  BY <1>1, <1>2, <1>4, <1>5, HasInvitation DEF Accept, Ready, OfInvitation
<1>7. Route["accept"] = <<"account", "workspace", "invitation", "demoted">>
  BY DEF Route
<1>8. /\ Covers(x, "account", held[x]) /\ Checked(x, "account")
      /\ Covers(x, "workspace", held[x]) /\ Covers(x, "demoted", held[x])
  BY <1>5, <1>7
<1>9. WorkspaceOf(j) = w /\ Subject(j) = u /\ u \in Users
  <2>1. WorkspaceOf(j) = w
    BY <1>2, <1>3, <1>5 DEF WorkspaceOf, OfInvitation, OfProject
  <2>2. Subject(j) = u
    BY <1>4, <1>5 DEF Subject
  <2>3. u \in Users
    BY <1>4, <1>5 DEF JobOK
  <2>. QED
    BY <2>1, <2>2, <2>3
<1>10. /\ Own(UserRow(u)) \in held[x] /\ Holds(x, UserRow(u))
       /\ Own(WorkspaceRow(w)) \in held[x] /\ Holds(x, WorkspaceRow(w))
  BY <1>1, <1>4, <1>8, <1>9 DEF Covers, Holds
<1>11. active[u]
  BY <1>1, <1>4, <1>5, <1>8 DEF Checked, AccountPasses, ByAdministrator
<1>12. invitations[i] \in InvitationRows
  BY <1>5, <1>6 DEF RowsInv, InvitationsTyped
<1>13. w \in DOMAIN members /\ HasAdmin(members[w])
  BY <1>3, <1>5, <1>6 DEF RowsInv, There
<1>14. PICK rows \in Memberships : rows = members[w]
  BY <1>5, <1>13, Typed
<1>15. PICK row : row = IF rows[u].active THEN rows[u]
                        ELSE [role |-> invitations[i].role, active |-> TRUE]
  OBVIOUS
<1>16. rows[u] \in Rows \cup {NoRow} /\ DOMAIN rows = Users
  BY <1>9, <1>14 DEF Memberships
<1>17. row \in Rows \cup {NoRow} /\ row.active
  BY <1>12, <1>15, <1>16 DEF InvitationRows, Rows
<1>18. PICK next : next = [rows EXCEPT ![u] = row]
  OBVIOUS
<1>19. /\ next \in Memberships /\ next[u] = row
       /\ \A v \in Users \ {u} : next[v] = rows[v]
  BY <1>9, <1>16, <1>17, <1>18 DEF Memberships
<1>20. members' = [members EXCEPT ![w] = next]
  <2>1. members' = [members EXCEPT ![w] = [members[w] EXCEPT ![u] =
           IF members[w][u].active THEN members[w][u]
           ELSE [role |-> invitations[i].role, active |-> TRUE]]]
    BY <1>1, <1>2, <1>3, <1>4 DEF Accept
  <2>. QED
    BY <1>14, <1>15, <1>18, <2>1
<1>21. projects' = MadeGuestIn(HeldProjects(x), u)
  BY <1>1, <1>4 DEF Accept
<1>22. ASSUME next[u].role = Guest, NEW p \in DOMAIN projects, HomeOf[p] = w
       PROVE  p \in HeldProjects(x) \/ projects[p][u].role \in {Guest, Nothing}
  <2>1. /\ rows[u].role = Guest => projects[p][u].role \in {Guest, Nothing}
        /\ rows[u] = NoRow => projects[p][u].role \in {Guest, Nothing}
    BY <1>5, <1>9, <1>14, <1>22 DEF RowsInv, Within
  <2>2. CASE rows[u].active
    BY <1>15, <1>19, <1>22, <2>1, <2>2
  <2>3. CASE ~ rows[u].active /\ rows[u] # NoRow
    <3>1. invitations[i].role = Guest
      BY <1>15, <1>19, <1>22, <2>3
    <3>2. MakesGuest(j)
      BY <1>2, <1>5, <1>9, <1>14, <2>3, <3>1 DEF MakesGuest
    <3>3. projects[p][u] # NoRow => Own(ProjectRow(p)) \in held[x]
      BY <1>1, <1>8, <1>9, <1>22, <3>2 DEF Covers
    <3>4. p \in Projects
      BY <1>5, <1>22, Typed
    <3>. QED
      BY <3>3, <3>4 DEF HeldProjects, NoRow
  <2>. QED
    BY <2>1, <2>2, <2>3
<1>23. next[u].active /\ \A v \in Users \ {u} : next[v] = members[w][v]
  BY <1>14, <1>17, <1>19
<1>24. /\ MembersTyped(members') /\ ProjectsTyped(members', projects')
       /\ DOMAIN members' = DOMAIN members /\ members'[w] = next
       /\ \A v \in DOMAIN members \ {w} : members'[v] = members[v]
       /\ Within(members', projects')
       /\ \A p \in DOMAIN projects', v \in Users :
             members'[HomeOf[p]][v] = NoRow => projects'[p][v].role \in {Guest, Nothing}
       /\ DOMAIN projects' = DOMAIN projects
       /\ \A p \in DOMAIN projects :
             /\ \A v \in Users : projects'[p][v].active = projects[p][v].active
             /\ \/ projects'[p] = projects[p]
                \/ Own(ProjectRow(p)) \in held[x] /\ Holds(x, WorkspaceRow(HomeOf[p]))
  BY <1>5, <1>9, <1>13, <1>19, <1>20, <1>21, <1>22, <1>23, Admitted
<1>25. HasAdmin(next)
  <2>1. PICK a \in Users : IsAdmin(rows, a)
    BY <1>13, <1>14 DEF HasAdmin
  <2>2. rows[a].active /\ next[a] = rows[a]
    BY <1>15, <1>19, <2>1 DEF IsAdmin, RoleIn, Admin, Nothing
  <2>. QED
    BY <2>1, <2>2 DEF HasAdmin, IsAdmin, RoleIn
<1>26. /\ InvitationsGo
       /\ \A k \in DOMAIN invitations \ {i} : invitations'[k] = invitations[k]
  BY <1>1, <1>2, <1>5, Deleting DEF Accept
<1>27. UNCHANGED <<plan, requests, active, revived>>
  BY DEF Accept, End
<1>28. \A v \in DOMAIN members', k \in Users : members'[v][k].active =>
          \/ members[v][k].active
          \/ v = w /\ k = u
  BY <1>14, <1>19, <1>24
<1>29. RowsInv'
  <2>1. \A v \in DOMAIN members', k \in Users :
           members'[v][k].active /\ ~ active'[k] => <<v, k>> \in revived'
    BY <1>5, <1>11, <1>24, <1>27, <1>28 DEF RowsInv
  <2>2. \A k \in DOMAIN invitations : Pending(k) =>
           /\ invitations[k].ws \in DOMAIN members'
           /\ HasAdmin(members'[invitations[k].ws])
    BY <1>5, <1>24, <1>25 DEF RowsInv, There
  <2>3. /\ active' \in [Users -> BOOLEAN] /\ revived' \subseteq Workspaces \X Users
    BY <1>5, <1>27 DEF RowsInv
  <2>. QED
    BY <1>5, <1>24, <1>26, <1>27, <2>1, <2>2, <2>3, RowsGoOn
<1>30. Frame(x)
  BY <1>6, <1>10, <1>24, <1>26, <1>27, <1>28 DEF Frame, InvitationsGo
<1>31. AdminsStay
  BY <1>24, <1>25 DEF AdminsStay, KeepsAdmin
<1>32. WaysClose
  <2>1. \A v \in DOMAIN members, k \in Users :
           members[v][k].active => members'[v][k].active
    BY <1>14, <1>17, <1>19, <1>24
  <2>. QED
    BY <2>1 DEF WaysClose
<1>. QED
  BY <1>29, <1>30, <1>31, <1>32 DEF Written

LEMMA UpdateRoleWrites ==
    ASSUME IInv, NEW x \in Workers, UpdateRole(x)
    PROVE  Written(x)
<1>1. PICK j : j = job[x]
  OBVIOUS
<1>2. PICK w : w = j.ws
  OBVIOUS
<1>3. PICK u : u = j.of
  OBVIOUS
<1>4. /\ RowsInv /\ Stands(x) /\ JobOK(j) /\ j.kind = "updateRole"
      /\ \A n \in 1..Len(Route[j.kind]) :
            Covers(x, Route[j.kind][n], held[x]) /\ Checked(x, Route[j.kind][n])
  BY <1>1, ReadyKnows DEF UpdateRole
<1>5. Route["updateRole"] = <<"account", "workspace", "demoted">>
  BY DEF Route
<1>6. /\ Covers(x, "workspace", held[x]) /\ Checked(x, "workspace")
      /\ Covers(x, "demoted", held[x])
  BY <1>4, <1>5
<1>7. /\ WorkspaceOf(j) = w /\ Subject(j) = u /\ u \in Users /\ j.by \in Users
      /\ w \in Workspaces /\ j.role \in Roles
  BY <1>2, <1>3, <1>4
  DEF WorkspaceOf, OfInvitation, OfProject, Deactivations, Subject, JobOK
<1>8. Own(WorkspaceRow(w)) \in held[x] /\ Holds(x, WorkspaceRow(w))
  BY <1>1, <1>6, <1>7 DEF Covers, Holds
<1>9. w \in DOMAIN members
  BY <1>4, <1>7, <1>8 DEF Stands, There
<1>10. PICK rows \in Memberships : rows = members[w]
  BY <1>4, <1>9, Typed
<1>11. IsAdmin(rows, j.by) /\ rows[u].active /\ u # j.by
  BY <1>1, <1>3, <1>4, <1>6, <1>7, <1>10 DEF Checked
<1>12. PICK next : next = WithRole(rows, u, j.role)
  OBVIOUS
<1>13. /\ next \in Memberships /\ next[u].role = j.role
       /\ next[u].active = rows[u].active
       /\ \A v \in Users \ {u} : next[v] = rows[v]
  BY <1>7, <1>12, RoleRow
<1>14. members' = [members EXCEPT ![w] = next]
  <2>1. members' = [members EXCEPT ![w] = WithRole(members[w], u, j.role)]
    BY <1>1, <1>2, <1>3 DEF UpdateRole, WithRole
  <2>. QED
    BY <1>10, <1>12, <2>1
<1>15. projects' = MadeGuestIn(HeldProjects(x), u)
  BY <1>1, <1>3 DEF UpdateRole
<1>16. ASSUME next[u].role = Guest, NEW p \in DOMAIN projects, HomeOf[p] = w
       PROVE  p \in HeldProjects(x) \/ projects[p][u].role \in {Guest, Nothing}
  <2>1. MakesGuest(j)
    BY <1>4, <1>13, <1>16 DEF MakesGuest
  <2>2. projects[p][u] # NoRow => Own(ProjectRow(p)) \in held[x]
    BY <1>1, <1>6, <1>7, <1>16, <2>1 DEF Covers
  <2>3. p \in Projects
    BY <1>4, <1>16, Typed
  <2>. QED
    BY <2>2, <2>3 DEF HeldProjects, NoRow
<1>17. /\ MembersTyped(members') /\ ProjectsTyped(members', projects')
       /\ DOMAIN members' = DOMAIN members /\ members'[w] = next
       /\ \A v \in DOMAIN members \ {w} : members'[v] = members[v]
       /\ Within(members', projects')
       /\ \A p \in DOMAIN projects', v \in Users :
             members'[HomeOf[p]][v] = NoRow => projects'[p][v].role \in {Guest, Nothing}
       /\ DOMAIN projects' = DOMAIN projects
       /\ \A p \in DOMAIN projects :
             /\ \A v \in Users : projects'[p][v].active = projects[p][v].active
             /\ \/ projects'[p] = projects[p]
                \/ Own(ProjectRow(p)) \in held[x] /\ Holds(x, WorkspaceRow(HomeOf[p]))
  BY <1>4, <1>7, <1>9, <1>10, <1>11, <1>13, <1>14, <1>15, <1>16, Admitted
<1>18. HasAdmin(next)
  <2>1. next[j.by] = rows[j.by]
    BY <1>7, <1>11, <1>13
  <2>. QED
    BY <1>7, <1>11, <2>1 DEF HasAdmin, IsAdmin, RoleIn
<1>19. UNCHANGED <<plan, requests, active, invitations, revived>>
  BY DEF UpdateRole, End
<1>20. \A v \in DOMAIN members', k \in Users : members'[v][k].active = members[v][k].active
  BY <1>10, <1>13, <1>17
<1>21. RowsInv'
  <2>1. \A v \in DOMAIN members', k \in Users :
           members'[v][k].active /\ ~ active'[k] => <<v, k>> \in revived'
    BY <1>4, <1>17, <1>19, <1>20 DEF RowsInv
  <2>2. \A k \in DOMAIN invitations : Pending(k) =>
           /\ invitations[k].ws \in DOMAIN members'
           /\ HasAdmin(members'[invitations[k].ws])
    BY <1>4, <1>17, <1>18 DEF RowsInv, There
  <2>3. /\ active' \in [Users -> BOOLEAN] /\ revived' \subseteq Workspaces \X Users
    BY <1>4, <1>19 DEF RowsInv
  <2>. QED
    BY <1>4, <1>17, <1>19, <2>1, <2>2, <2>3, RowsGoOn, Standstill
<1>22. Frame(x)
  BY <1>8, <1>17, <1>19, <1>20 DEF Frame
<1>23. AdminsStay
  BY <1>17, <1>18 DEF AdminsStay, KeepsAdmin
<1>24. WaysClose
  BY <1>17, <1>20 DEF WaysClose
<1>. QED
  BY <1>21, <1>22, <1>23, <1>24 DEF Written

\* The memberships of u end in the workspaces S and in all of their projects.
LEMMA Departed ==
    ASSUME RowsInv, NEW x \in Workers, Stands(x), NEW S, NEW u \in Users,
           members' = EndedIn(members, S, u),
           projects' = EndedIn(projects, HeldProjects(x), u),
           \A p \in DOMAIN projects : HomeOf[p] \in S /\ projects[p][u].active =>
              p \in HeldProjects(x),
           \A p \in HeldProjects(x) : ~ SoleAdmin(projects[p], u)
    PROVE  /\ MembersTyped(members') /\ ProjectsTyped(members', projects')
           /\ Within(members', projects')
           /\ \A p \in DOMAIN projects', v \in Users :
                 members'[HomeOf[p]][v] = NoRow => projects'[p][v].role \in {Guest, Nothing}
           /\ DOMAIN members' = DOMAIN members
           /\ \A w \in DOMAIN members :
                 /\ w \in S => members'[w] = Ended(members[w], u)
                 /\ w \notin S => members'[w] = members[w]
                 /\ \A v \in Users : members'[w][v].active =>
                       members[w][v].active /\ (w \notin S \/ v # u)
                 /\ \A v \in Users : members[w][v].active /\ ~ members'[w][v].active =>
                       w \in S /\ v = u
           /\ DOMAIN projects' = DOMAIN projects
           /\ \A p \in DOMAIN projects :
                 \/ projects'[p] = projects[p]
                 \/ /\ Own(ProjectRow(p)) \in held[x] /\ Holds(x, WorkspaceRow(HomeOf[p]))
                    /\ KeepsAdmin(projects[p], projects'[p])
<1>1. /\ \A w \in DOMAIN members : members[w] \in Memberships
      /\ \A p \in DOMAIN projects : projects[p] \in Memberships /\ HomeOf[p] \in DOMAIN members
      /\ DOMAIN members \subseteq Workspaces /\ DOMAIN projects \subseteq Projects
  BY Typed
<1>2. /\ DOMAIN members' = DOMAIN members
      /\ \A w \in DOMAIN members :
            /\ members'[w] \in Memberships
            /\ w \in S => members'[w] = Ended(members[w], u)
            /\ w \notin S => members'[w] = members[w]
  BY <1>1, Ending
<1>3. /\ DOMAIN projects' = DOMAIN projects
      /\ \A p \in DOMAIN projects :
            /\ projects'[p] \in Memberships
            /\ p \in HeldProjects(x) => projects'[p] = Ended(projects[p], u)
            /\ p \notin HeldProjects(x) => projects'[p] = projects[p]
  BY <1>1, Ending
<1>4. MembersTyped(members') /\ ProjectsTyped(members', projects')
  BY <1>1, <1>2, <1>3 DEF MembersTyped, ProjectsTyped, Memberships
<1>5. ASSUME NEW w \in DOMAIN members, NEW v \in Users
      PROVE  /\ members'[w][v].role = members[w][v].role
             /\ ~ (w \in S /\ v = u) => members'[w][v] = members[w][v]
             /\ w \in S /\ v = u => members'[w][v].active = FALSE
  <2>1. /\ Ended(members[w], u)[u].active = FALSE
        /\ Ended(members[w], u)[u].role = members[w][u].role
        /\ \A k \in Users \ {u} : Ended(members[w], u)[k] = members[w][k]
    BY <1>1, EndedRow
  <2>2. CASE w \in S
    <3>1. members'[w] = Ended(members[w], u)
      BY <1>2, <2>2
    <3>2. CASE v = u
      BY <2>1, <2>2, <3>1, <3>2
    <3>3. CASE v # u
      BY <2>1, <2>2, <3>1, <3>3
    <3>. QED
      BY <3>2, <3>3
  <2>3. CASE w \notin S
    BY <1>2, <2>3
  <2>. QED
    BY <2>2, <2>3
<1>6. ASSUME NEW p \in DOMAIN projects, NEW v \in Users
      PROVE  /\ projects'[p][v].role = projects[p][v].role
             /\ ~ (p \in HeldProjects(x) /\ v = u) => projects'[p][v] = projects[p][v]
             /\ p \in HeldProjects(x) /\ v = u => projects'[p][v].active = FALSE
  <2>1. /\ Ended(projects[p], u)[u].active = FALSE
        /\ Ended(projects[p], u)[u].role = projects[p][u].role
        /\ \A k \in Users \ {u} : Ended(projects[p], u)[k] = projects[p][k]
    BY <1>1, EndedRow
  <2>2. CASE p \in HeldProjects(x)
    <3>1. projects'[p] = Ended(projects[p], u)
      BY <1>3, <2>2
    <3>2. CASE v = u
      BY <2>1, <2>2, <3>1, <3>2
    <3>3. CASE v # u
      BY <2>1, <2>2, <3>1, <3>3
    <3>. QED
      BY <3>2, <3>3
  <2>3. CASE p \notin HeldProjects(x)
    BY <1>3, <2>3
  <2>. QED
    BY <2>2, <2>3
<1>7. ASSUME NEW p \in DOMAIN projects, NEW v \in Users
      PROVE  /\ projects'[p][v].active => members'[HomeOf[p]][v].active
             /\ members'[HomeOf[p]][v].role = Guest =>
                   projects'[p][v].role \in {Guest, Nothing}
             /\ members'[HomeOf[p]][v] = NoRow =>
                   projects'[p][v].role \in {Guest, Nothing}
  <2>1. /\ projects[p][v].active => members[HomeOf[p]][v].active
        /\ members[HomeOf[p]][v].role = Guest => projects[p][v].role \in {Guest, Nothing}
        /\ members[HomeOf[p]][v] = NoRow => projects[p][v].role \in {Guest, Nothing}
    BY <1>7 DEF RowsInv, Within
  <2>2. HomeOf[p] \in DOMAIN members
    BY <1>1
  <2>3. ASSUME projects'[p][v].active
        PROVE  members'[HomeOf[p]][v].active
    <3>1. ~ (p \in HeldProjects(x) /\ v = u)
      BY <1>6, <2>3
    <3>2. projects[p][v].active
      BY <1>6, <2>3, <3>1
    <3>3. ~ (HomeOf[p] \in S /\ v = u)
      BY <3>1, <3>2
    <3>. QED
      BY <1>5, <2>1, <2>2, <3>2, <3>3
  <2>4. members'[HomeOf[p]][v].role = Guest => projects'[p][v].role \in {Guest, Nothing}
    BY <1>5, <1>6, <2>1, <2>2
  <2>5. ASSUME members'[HomeOf[p]][v] = NoRow
        PROVE  projects'[p][v].role \in {Guest, Nothing}
    <3>1. members[HomeOf[p]][v].role = Nothing
      <4>1. NoRow.role = Nothing
        BY DEF NoRow
      <4>. QED
        BY <1>5, <2>2, <2>5, <4>1
    <3>2. members[HomeOf[p]][v] \in Rows \cup {NoRow}
      BY <1>1, <2>2 DEF Memberships
    <3>3. members[HomeOf[p]][v] = NoRow
      BY <3>1, <3>2, RowFacts
    <3>. QED
      BY <1>6, <2>1, <3>3
  <2>. QED
    BY <2>3, <2>4, <2>5
<1>8. Within(members', projects')
  BY <1>3, <1>7 DEF Within
<1>9. ASSUME NEW w \in DOMAIN members, NEW v \in Users
      PROVE  /\ members'[w][v].active => members[w][v].active /\ (w \notin S \/ v # u)
             /\ members[w][v].active /\ ~ members'[w][v].active => w \in S /\ v = u
  BY <1>5, <1>9
<1>10. ASSUME NEW p \in DOMAIN projects, p \in HeldProjects(x)
       PROVE  /\ Own(ProjectRow(p)) \in held[x] /\ Holds(x, WorkspaceRow(HomeOf[p]))
              /\ KeepsAdmin(projects[p], projects'[p])
  <2>1. Own(ProjectRow(p)) \in held[x] /\ Holds(x, WorkspaceRow(HomeOf[p]))
    BY <1>1, <1>10 DEF HeldProjects, Stands
  <2>2. KeepsAdmin(projects[p], projects'[p])
    BY <1>1, <1>3, <1>10, GoingKeepsAdmin
  <2>. QED
    BY <2>1, <2>2
<1>. QED
  BY <1>2, <1>3, <1>4, <1>7, <1>8, <1>9, <1>10

\* No way back: the pending invitations to u in the workspaces S are deleted.
LEMMA NoneLeft ==
    ASSUME RowsInv, NEW x \in Workers, invitations' = Deleted(HeldInvitations(x)),
           NEW w, NEW u,
           \A i \in DOMAIN invitations :
              Pending(i) /\ invitations[i].ws = w /\ invitations[i].to = u
              => Own(InvitationRow(i)) \in held[x]
    PROVE  ~ Invited(w, u)'
<1>1. InvitationsGo /\ \A i \in HeldInvitations(x) : ~ Pending(i)'
  BY Deleting
<1>2. ASSUME NEW i \in DOMAIN invitations', Pending(i)', invitations'[i].ws = w,
             invitations'[i].to = u
      PROVE  FALSE
  <2>1. /\ i \in DOMAIN invitations /\ Pending(i)
        /\ invitations[i].ws = w /\ invitations[i].to = u
    BY <1>1, <1>2 DEF InvitationsGo, Pending
  <2>2. i \in HeldInvitations(x)
    BY <2>1 DEF HeldInvitations, RowsInv, InvitationsTyped
  <2>. QED
    BY <1>1, <1>2, <2>2
<1>. QED
  BY <1>2 DEF Invited

LEMMA EndMembershipWrites ==
    ASSUME IInv, NEW x \in Workers, EndMembership(x)
    PROVE  Written(x)
<1>1. PICK j : j = job[x]
  OBVIOUS
<1>2. PICK w : w = j.ws
  OBVIOUS
<1>3. PICK u : u = Subject(j)
  OBVIOUS
<1>4. /\ RowsInv /\ Stands(x) /\ JobOK(j) /\ j.kind \in {"leave", "remove"}
      /\ \A n \in 1..Len(Route[j.kind]) :
            Covers(x, Route[j.kind][n], held[x]) /\ Checked(x, Route[j.kind][n])
  BY <1>1, ReadyKnows DEF EndMembership
<1>5. /\ Route["leave"] = <<"workspace", "pending", "ending">>
      /\ Route["remove"] = <<"workspace", "pending", "ending">>
  BY DEF Route
<1>6. /\ Covers(x, "workspace", held[x]) /\ Checked(x, "workspace")
      /\ Covers(x, "pending", held[x])
      /\ Covers(x, "ending", held[x]) /\ Checked(x, "ending")
  <2>1. Route[j.kind] = <<"workspace", "pending", "ending">>
    BY <1>4, <1>5
  <2>. QED
    BY <1>4, <2>1
<1>7. WorkspaceOf(j) = w /\ w \in Workspaces
  BY <1>2, <1>4 DEF WorkspaceOf, OfInvitation, OfProject, Deactivations, JobOK
<1>8. u \in Users /\ j.by \in Users
  BY <1>3, <1>4, SubjectTyped DEF JobOK
<1>9. Own(WorkspaceRow(w)) \in held[x]
  BY <1>1, <1>6, <1>7 DEF Covers
<1>10. w \in DOMAIN members
  BY <1>4, <1>7, <1>9 DEF Stands, There, Holds
<1>11. IsAdmin(members[w], u) => OtherAdmin(members[w], u)
  <2>1. CASE j.kind = "leave"
    <3>1. MayLeave(w, u)
      BY <1>1, <1>3, <1>6, <1>7, <2>1 DEF Checked, Subject
    <3>. QED
      BY <1>10, <3>1 DEF MayLeave, RoleOn, There, IsAdmin
  <2>2. CASE j.kind = "remove"
    <3>1. IsAdmin(members[w], j.by) /\ u # j.by
      BY <1>1, <1>3, <1>6, <1>7, <2>2 DEF Checked, Subject
    <3>2. members[w][j.by].active
      BY <3>1 DEF IsAdmin, RoleIn, Admin, Nothing
    <3>. QED
      BY <1>8, <3>1, <3>2 DEF OtherAdmin, Others
  <2>. QED
    BY <1>4, <2>1, <2>2
<1>12. \A p \in DOMAIN projects : HomeOf[p] \in {w} /\ projects[p][u].active =>
          p \in HeldProjects(x)
  <2>1. DOMAIN projects \subseteq Projects
    BY <1>4, Typed
  <2>. QED
    BY <1>1, <1>3, <1>6, <1>9, <2>1 DEF Covers, HeldProjects
<1>13. \A p \in HeldProjects(x) : ~ SoleAdmin(projects[p], u)
  BY <1>1, <1>3, <1>6 DEF Checked, HeldProjects
<1>14. /\ members' = EndedIn(members, {w}, u)
       /\ projects' = EndedIn(projects, HeldProjects(x), u)
       /\ invitations' = Deleted(HeldInvitations(x))
       /\ revived' = revived \ {<<w, u>>}
  BY <1>1, <1>2, <1>3 DEF EndMembership
<1>15. /\ MembersTyped(members') /\ ProjectsTyped(members', projects')
       /\ Within(members', projects')
       /\ \A p \in DOMAIN projects', v \in Users :
             members'[HomeOf[p]][v] = NoRow => projects'[p][v].role \in {Guest, Nothing}
       /\ DOMAIN members' = DOMAIN members
       /\ \A k \in DOMAIN members :
             /\ k \in {w} => members'[k] = Ended(members[k], u)
             /\ k \notin {w} => members'[k] = members[k]
             /\ \A v \in Users : members'[k][v].active =>
                   members[k][v].active /\ (k \notin {w} \/ v # u)
             /\ \A v \in Users : members[k][v].active /\ ~ members'[k][v].active =>
                   k \in {w} /\ v = u
       /\ DOMAIN projects' = DOMAIN projects
       /\ \A p \in DOMAIN projects :
             \/ projects'[p] = projects[p]
             \/ /\ Own(ProjectRow(p)) \in held[x] /\ Holds(x, WorkspaceRow(HomeOf[p]))
                /\ KeepsAdmin(projects[p], projects'[p])
  BY <1>4, <1>8, <1>12, <1>13, <1>14, Departed
<1>16. HasAdmin(members[w]) => HasAdmin(members'[w])
  <2>1. members[w] \in Memberships
    BY <1>4, <1>10, Typed
  <2>. QED
    BY <1>8, <1>10, <1>11, <1>15, <2>1, GoingLeavesAdmin
<1>17. /\ InvitationsGo
       /\ \A k \in DOMAIN invitations \ HeldInvitations(x) : invitations'[k] = invitations[k]
  BY <1>4, <1>14, Deleting
<1>18. UNCHANGED <<plan, requests, active>>
  BY DEF EndMembership, End
<1>19. RowsInv'
  <2>1. \A k \in DOMAIN members', v \in Users :
           members'[k][v].active /\ ~ active'[v] => <<k, v>> \in revived'
    BY <1>4, <1>14, <1>15, <1>18 DEF RowsInv
  <2>2. \A k \in DOMAIN invitations : Pending(k) =>
           /\ invitations[k].ws \in DOMAIN members'
           /\ HasAdmin(members'[invitations[k].ws])
    BY <1>4, <1>15, <1>16 DEF RowsInv, There
  <2>3. /\ active' \in [Users -> BOOLEAN] /\ revived' \subseteq Workspaces \X Users
    BY <1>4, <1>14, <1>18 DEF RowsInv
  <2>. QED
    BY <1>4, <1>15, <1>17, <1>18, <2>1, <2>2, <2>3, RowsGoOn
<1>20. Frame(x)
  BY <1>9, <1>15, <1>17, <1>18 DEF Frame, InvitationsGo, HeldInvitations
<1>21. AdminsStay
  BY <1>15, <1>16 DEF AdminsStay, KeepsAdmin
<1>22. WaysClose
  <2>1. \A i \in DOMAIN invitations :
           Pending(i) /\ invitations[i].ws = w /\ invitations[i].to = u
           => Own(InvitationRow(i)) \in held[x]
    BY <1>1, <1>2, <1>3, <1>6 DEF Covers
  <2>2. ~ Invited(w, u)'
    BY <1>4, <1>14, <2>1, NoneLeft
  <2>. QED
    BY <1>15, <2>2 DEF WaysClose
<1>. QED
  BY <1>19, <1>20, <1>21, <1>22 DEF Written

LEMMA DeactivateWrites ==
    ASSUME IInv, NEW x \in Workers, Deactivate(x)
    PROVE  Written(x)
<1>1. PICK j : j = job[x]
  OBVIOUS
<1>2. PICK u : u = j.by
  OBVIOUS
<1>3. /\ RowsInv /\ Stands(x) /\ JobOK(j) /\ j.kind \in Deactivations
      /\ \A n \in 1..Len(Route[j.kind]) :
            Covers(x, Route[j.kind][n], held[x]) /\ Checked(x, Route[j.kind][n])
  BY <1>1, ReadyKnows DEF Deactivate
<1>4. /\ Route["deactivate"] = <<"account", "homes", "doomed", "ending">>
      /\ Route["deactivateByEmail"] = <<"account", "homes", "doomed", "ending">>
  BY DEF Route
<1>5. /\ Covers(x, "account", held[x])
      /\ Covers(x, "homes", held[x]) /\ Checked(x, "homes")
      /\ Covers(x, "doomed", held[x])
      /\ Covers(x, "ending", held[x]) /\ Checked(x, "ending")
  <2>1. Route[j.kind] = <<"account", "homes", "doomed", "ending">>
    BY <1>3, <1>4 DEF Deactivations
  <2>. QED
    BY <1>3, <2>1
<1>6. Subject(j) = u /\ u \in Users
  BY <1>2, <1>3 DEF Subject, Deactivations, JobOK
<1>7. Own(UserRow(u)) \in held[x]
  BY <1>1, <1>2, <1>5 DEF Covers
<1>8. PICK S : S = HeldWorkspaces(x)
  OBVIOUS
<1>9. /\ DOMAIN members \subseteq Workspaces /\ DOMAIN projects \subseteq Projects
      /\ \A w \in DOMAIN members : members[w] \in Memberships
      /\ \A p \in DOMAIN projects : HomeOf[p] \in DOMAIN members
  BY <1>3, Typed
<1>10. \A w \in DOMAIN members : w \in S <=> Own(WorkspaceRow(w)) \in held[x]
  BY <1>8, <1>9 DEF HeldWorkspaces
<1>11. \A w \in DOMAIN members : members[w][u].active => w \in S
  BY <1>1, <1>2, <1>5, <1>10 DEF Covers
<1>12. \A p \in DOMAIN projects : HomeOf[p] \in S /\ projects[p][u].active =>
          p \in HeldProjects(x)
  BY <1>1, <1>5, <1>6, <1>9, <1>10 DEF Covers, HeldProjects
<1>13. \A p \in HeldProjects(x) : ~ SoleAdmin(projects[p], u)
  BY <1>1, <1>5, <1>6 DEF Checked, HeldProjects
<1>14. /\ members' = EndedIn(members, S, u)
       /\ projects' = EndedIn(projects, HeldProjects(x), u)
       /\ invitations' = Deleted(HeldInvitations(x))
       /\ revived' = {r \in revived : r[2] # u}
       /\ active' = [active EXCEPT ![u] = FALSE]
  BY <1>1, <1>2, <1>8 DEF Deactivate
<1>15. /\ MembersTyped(members') /\ ProjectsTyped(members', projects')
       /\ Within(members', projects')
       /\ \A p \in DOMAIN projects', v \in Users :
             members'[HomeOf[p]][v] = NoRow => projects'[p][v].role \in {Guest, Nothing}
       /\ DOMAIN members' = DOMAIN members
       /\ \A w \in DOMAIN members :
             /\ w \in S => members'[w] = Ended(members[w], u)
             /\ w \notin S => members'[w] = members[w]
             /\ \A v \in Users : members'[w][v].active =>
                   members[w][v].active /\ (w \notin S \/ v # u)
             /\ \A v \in Users : members[w][v].active /\ ~ members'[w][v].active =>
                   w \in S /\ v = u
       /\ DOMAIN projects' = DOMAIN projects
       /\ \A p \in DOMAIN projects :
             \/ projects'[p] = projects[p]
             \/ /\ Own(ProjectRow(p)) \in held[x] /\ Holds(x, WorkspaceRow(HomeOf[p]))
                /\ KeepsAdmin(projects[p], projects'[p])
  BY <1>3, <1>6, <1>12, <1>13, <1>14, Departed
<1>16. \A w \in DOMAIN members : KeepsAdmin(members[w], members'[w])
  <2>1. ASSUME NEW w \in DOMAIN members, w \in S
        PROVE  KeepsAdmin(members[w], members'[w])
    <3>1. ~ SoleAdmin(members[w], u)
      BY <1>1, <1>2, <1>5, <1>9, <1>10, <2>1 DEF Checked
    <3>. QED
      BY <1>6, <1>9, <1>15, <2>1, <3>1, GoingKeepsAdmin
  <2>. QED
    BY <1>15, <2>1 DEF KeepsAdmin
<1>17. /\ InvitationsGo
       /\ \A k \in DOMAIN invitations \ HeldInvitations(x) : invitations'[k] = invitations[k]
       /\ \A k \in HeldInvitations(x) : ~ Pending(k)'
  BY <1>3, <1>14, Deleting
<1>18. UNCHANGED <<plan, requests>>
  BY DEF Deactivate, End
<1>19. /\ active' \in [Users -> BOOLEAN]
       /\ \A v \in Users : v # u => active'[v] = active[v]
  BY <1>3, <1>6, <1>14 DEF RowsInv
<1>20. ASSUME NEW i \in DOMAIN invitations, Pending(i), Pending(i)'
       PROVE  /\ invitations[i].ws \in DOMAIN members'
              /\ HasAdmin(members'[invitations[i].ws])
  <2>1. PICK w : w = invitations[i].ws
    OBVIOUS
  <2>2. w \in DOMAIN members /\ HasAdmin(members[w])
    BY <1>3, <1>20, <2>1 DEF RowsInv, There
  <2>3. ASSUME Empty(members'[w])
        PROVE  FALSE
    <3>1. w \in S
      BY <1>15, <2>2, <2>3 DEF Empty, HasAdmin, IsAdmin, RoleIn, Admin, Nothing
    <3>2. Others(members[w], u) = {}
      BY <1>6, <1>15, <2>2, <2>3 DEF Empty, Others
    <3>3. Own(InvitationRow(i)) \in held[x]
      BY <1>1, <1>2, <1>5, <1>10, <1>20, <2>1, <2>2, <3>1, <3>2 DEF Covers
    <3>4. i \in HeldInvitations(x)
      BY <1>3, <3>3 DEF HeldInvitations, RowsInv, InvitationsTyped
    <3>. QED
      BY <1>17, <1>20, <3>4
  <2>. QED
    BY <1>15, <1>16, <2>1, <2>2, <2>3 DEF KeepsAdmin
<1>21. RowsInv'
  <2>1. ASSUME NEW w \in DOMAIN members', NEW v \in Users,
               members'[w][v].active, ~ active'[v]
        PROVE  <<w, v>> \in revived'
    <3>1. v # u /\ members[w][v].active
      BY <1>11, <1>15, <2>1
    <3>2. <<w, v>> \in revived
      BY <1>3, <1>15, <1>19, <2>1, <3>1 DEF RowsInv
    <3>. QED
      BY <1>14, <3>1, <3>2
  <2>2. revived' \subseteq Workspaces \X Users
    BY <1>3, <1>14 DEF RowsInv
  <2>. QED
    BY <1>3, <1>15, <1>17, <1>18, <1>19, <1>20, <2>1, <2>2, RowsGoOn
<1>22. Frame(x)
  BY <1>7, <1>10, <1>15, <1>17, <1>19 DEF Frame, InvitationsGo, HeldInvitations
<1>23. AdminsStay
  BY <1>15, <1>16 DEF AdminsStay, KeepsAdmin
<1>24. WaysClose
  <2>1. ASSUME NEW w \in DOMAIN members, w \in S
        PROVE  ~ Invited(w, u)'
    <3>1. \A i \in DOMAIN invitations :
             Pending(i) /\ invitations[i].ws = w /\ invitations[i].to = u
             => Own(InvitationRow(i)) \in held[x]
      BY <1>1, <1>2, <1>5, <1>10, <2>1 DEF Covers
    <3>. QED
      BY <1>3, <1>14, <3>1, NoneLeft
  <2>. QED
    BY <1>15, <2>1 DEF WaysClose
<1>. QED
  BY <1>21, <1>22, <1>23, <1>24 DEF Written

LEMMA ActivateWrites ==
    ASSUME IInv, NEW x \in Workers, Activate(x)
    PROVE  Written(x)
<1>1. PICK j : j = job[x]
  OBVIOUS
<1>2. PICK u : u = j.by
  OBVIOUS
<1>3. /\ RowsInv /\ JobOK(j) /\ j.kind = "activate"
      /\ \A n \in 1..Len(Route[j.kind]) : Covers(x, Route[j.kind][n], held[x])
  BY <1>1, ReadyKnows DEF Activate
<1>4. Route["activate"] = <<"account">>
  BY DEF Route
<1>5. Own(UserRow(u)) \in held[x] /\ u \in Users
  <2>1. Covers(x, "account", held[x])
    BY <1>3, <1>4
  <2>. QED
    BY <1>1, <1>2, <1>3, <2>1 DEF Covers, JobOK
<1>6. /\ active' = [active EXCEPT ![u] = TRUE]
      /\ revived' = {r \in revived : r[2] # u}
      /\ UNCHANGED <<plan, requests, members, projects, invitations>>
  BY <1>1, <1>2 DEF Activate, End
<1>7. /\ active' \in [Users -> BOOLEAN] /\ active'[u]
      /\ \A v \in Users : v # u => active'[v] = active[v]
  BY <1>3, <1>5, <1>6 DEF RowsInv
<1>8. RowsInv'
  <2>1. ASSUME NEW w \in DOMAIN members, NEW v \in Users, members[w][v].active, ~ active'[v]
        PROVE  <<w, v>> \in revived'
    <3>1. v # u /\ ~ active[v]
      BY <1>7, <2>1
    <3>2. <<w, v>> \in revived
      BY <1>3, <2>1, <3>1 DEF RowsInv
    <3>. QED
      BY <1>6, <3>1, <3>2
  <2>2. revived' \subseteq Workspaces \X Users
    BY <1>3, <1>6 DEF RowsInv
  <2>3. \A i \in DOMAIN invitations : Pending(i) =>
           /\ invitations[i].ws \in DOMAIN members'
           /\ HasAdmin(members'[invitations[i].ws])
    BY <1>3, <1>6 DEF RowsInv, There
  <2>4. /\ MembersTyped(members') /\ ProjectsTyped(members', projects')
        /\ Within(members', projects')
        /\ \A p \in DOMAIN projects', v \in Users :
              members'[HomeOf[p]][v] = NoRow => projects'[p][v].role \in {Guest, Nothing}
    BY <1>3, <1>6 DEF RowsInv
  <2>. QED
    BY <1>3, <1>6, <1>7, <2>1, <2>2, <2>3, <2>4, RowsGoOn, Standstill
<1>9. Frame(x)
  BY <1>5, <1>6, <1>7 DEF Frame
<1>10. AdminsStay /\ WaysClose
  BY <1>6 DEF AdminsStay, WaysClose, KeepsAdmin
<1>. QED
  BY <1>8, <1>9, <1>10 DEF Written

LEMMA ReactivateWrites ==
    ASSUME IInv, NEW x \in Workers, Reactivate(x)
    PROVE  Written(x)
<1>1. PICK j : j = job[x]
  OBVIOUS
<1>2. PICK u : u = j.by
  OBVIOUS
<1>3. PICK w : w = j.ws
  OBVIOUS
<1>4. /\ RowsInv /\ Stands(x) /\ JobOK(j) /\ j.kind = "reactivate"
      /\ \A n \in 1..Len(Route[j.kind]) :
            Covers(x, Route[j.kind][n], held[x]) /\ Checked(x, Route[j.kind][n])
  BY <1>1, ReadyKnows DEF Reactivate
<1>5. Route["reactivate"] = <<"shareAccount", "workspace">>
  BY DEF Route
<1>6. /\ Covers(x, "shareAccount", held[x])
      /\ Covers(x, "workspace", held[x]) /\ Checked(x, "workspace")
  BY <1>4, <1>5
<1>7. WorkspaceOf(j) = w /\ w \in Workspaces /\ u \in Users
  BY <1>2, <1>3, <1>4 DEF WorkspaceOf, OfInvitation, OfProject, Deactivations, JobOK
<1>8. Own(WorkspaceRow(w)) \in held[x] /\ Holds(x, UserRow(u))
  BY <1>1, <1>2, <1>6, <1>7 DEF Covers, Holds
<1>9. w \in DOMAIN members
  BY <1>4, <1>7, <1>8 DEF Stands, There, Holds
<1>10. PICK rows \in Memberships : rows = members[w]
  BY <1>4, <1>9, Typed
<1>11. rows[u] # NoRow
  BY <1>1, <1>2, <1>4, <1>6, <1>7, <1>10 DEF Checked
<1>12. PICK next : next = Restored(rows, u)
  OBVIOUS
<1>13. /\ next \in Memberships /\ next[u].role = rows[u].role /\ next[u] # NoRow
       /\ \A v \in Users \ {u} : next[v] = rows[v]
  BY <1>7, <1>11, <1>12, RestoredRow
<1>14. members' = [members EXCEPT ![w] = next]
  <2>1. members' = [members EXCEPT ![w] = Restored(members[w], u)]
    BY <1>1, <1>2, <1>3 DEF Reactivate, Restored
  <2>. QED
    BY <1>10, <1>12, <2>1
<1>15. /\ revived' = IF active[u] THEN revived ELSE revived \cup {<<w, u>>}
       /\ UNCHANGED <<plan, requests, active, projects, invitations>>
  BY <1>1, <1>2, <1>3 DEF Reactivate, End
<1>16. /\ MembersTyped(members') /\ DOMAIN members' = DOMAIN members
       /\ members'[w] = next
       /\ \A v \in DOMAIN members \ {w} : members'[v] = members[v]
  BY <1>4, <1>9, <1>13, <1>14, OneWorkspace
<1>17. next[u].active
  <2>1. rows[u] \in Rows \cup {NoRow} /\ DOMAIN rows = Users
    BY <1>7 DEF Memberships
  <2>2. rows[u] \in Rows
    BY <1>11, <2>1
  <2>3. PICK r \in Roles, a \in BOOLEAN : rows[u] = [role |-> r, active |-> a]
    BY <2>2 DEF Rows
  <2>4. next = [rows EXCEPT ![u] = [rows[u] EXCEPT !.active = TRUE]]
    BY <1>12 DEF Restored
  <2>5. PICK t \in BOOLEAN : t = TRUE
    OBVIOUS
  <2>6. next[u] = [rows[u] EXCEPT !.active = t]
    BY <1>7, <2>1, <2>4, <2>5
  <2>7. next[u].active = t
    BY <2>3, <2>6
  <2>. QED
    BY <2>5, <2>7
<1>18. \A v \in Users : rows[v].active => next[v].active
  BY <1>13, <1>17
<1>19. ASSUME NEW p \in DOMAIN projects, NEW v \in Users
       PROVE  /\ projects[p][v].active => members'[HomeOf[p]][v].active
              /\ members'[HomeOf[p]][v].role = Guest => projects[p][v].role \in {Guest, Nothing}
              /\ members'[HomeOf[p]][v] = NoRow => projects[p][v].role \in {Guest, Nothing}
  <2>1. /\ projects[p][v].active => members[HomeOf[p]][v].active
        /\ members[HomeOf[p]][v].role = Guest => projects[p][v].role \in {Guest, Nothing}
        /\ members[HomeOf[p]][v] = NoRow => projects[p][v].role \in {Guest, Nothing}
    BY <1>4, <1>19 DEF RowsInv, Within
  <2>2. HomeOf[p] \in DOMAIN members
    BY <1>4, <1>19, Typed
  <2>3. CASE HomeOf[p] = w /\ v = u
    BY <1>10, <1>13, <1>16, <1>17, <2>1, <2>3
  <2>4. CASE ~ (HomeOf[p] = w /\ v = u)
    BY <1>10, <1>13, <1>16, <1>19, <2>1, <2>2, <2>4
  <2>. QED
    BY <2>3, <2>4
<1>20. HasAdmin(rows) => HasAdmin(next)
  <2>1. \A a \in Users : IsAdmin(rows, a) => IsAdmin(next, a)
    BY <1>13, <1>18 DEF IsAdmin, RoleIn, Admin, Nothing
  <2>. QED
    BY <2>1 DEF HasAdmin
<1>21. RowsInv'
  <2>1. ASSUME NEW k \in DOMAIN members, NEW v \in Users, members'[k][v].active, ~ active[v]
        PROVE  <<k, v>> \in revived'
    <3>1. CASE k = w /\ v = u
      BY <1>15, <2>1, <3>1
    <3>2. CASE ~ (k = w /\ v = u)
      <4>1. members[k][v].active
        BY <1>10, <1>13, <1>16, <2>1, <3>2
      <4>2. <<k, v>> \in revived
        BY <1>4, <2>1, <4>1 DEF RowsInv
      <4>. QED
        BY <1>15, <4>2
    <3>. QED
      BY <3>1, <3>2
  <2>2. revived' \subseteq Workspaces \X Users
    BY <1>4, <1>7, <1>15 DEF RowsInv
  <2>3. \A i \in DOMAIN invitations : Pending(i) =>
           /\ invitations[i].ws \in DOMAIN members'
           /\ HasAdmin(members'[invitations[i].ws])
    BY <1>4, <1>10, <1>16, <1>20 DEF RowsInv, There
  <2>4. ProjectsTyped(members', projects')
    BY <1>4, <1>15, <1>16 DEF RowsInv, ProjectsTyped
  <2>5. Within(members', projects')
    BY <1>15, <1>19 DEF Within
  <2>6. active' \in [Users -> BOOLEAN]
    BY <1>4, <1>15 DEF RowsInv
  <2>. QED
    BY <1>4, <1>15, <1>16, <1>19, <2>1, <2>2, <2>3, <2>4, <2>5, <2>6, RowsGoOn, Standstill
<1>22. Frame(x)
  <2>1. \A k \in DOMAIN members', v \in Users : members'[k][v].active =>
           members[k][v].active \/ Holds(x, UserRow(v))
    BY <1>8, <1>10, <1>13, <1>16
  <2>. QED
    BY <1>8, <1>15, <1>16, <2>1 DEF Frame
<1>23. AdminsStay
  BY <1>10, <1>15, <1>16, <1>20 DEF AdminsStay, KeepsAdmin
<1>24. WaysClose
  BY <1>10, <1>16, <1>18 DEF WaysClose
<1>. QED
  BY <1>21, <1>22, <1>23, <1>24 DEF Written

LEMMA CreateWorkspaceWrites ==
    ASSUME IInv, NEW x \in Workers, CreateWorkspace(x)
    PROVE  Written(x)
<1>1. PICK j : j = job[x]
  OBVIOUS
<1>2. PICK u : u = j.by
  OBVIOUS
<1>3. /\ RowsInv /\ JobOK(j) /\ j.kind = "createWorkspace"
      /\ \A n \in 1..Len(Route[j.kind]) :
            Covers(x, Route[j.kind][n], held[x]) /\ Checked(x, Route[j.kind][n])
  BY <1>1, ReadyKnows DEF CreateWorkspace
<1>4. Route["createWorkspace"] = <<"shareAccount">>
  BY DEF Route
<1>5. Covers(x, "shareAccount", held[x]) /\ Checked(x, "shareAccount")
  BY <1>3, <1>4
<1>6. u \in Users /\ Holds(x, UserRow(u)) /\ active[u]
  BY <1>1, <1>2, <1>3, <1>5
  DEF Covers, Checked, Holds, JobOK, AccountPasses, ByAdministrator
<1>7. PICK row : row = [role |-> Admin, active |-> TRUE]
  OBVIOUS
<1>8. PICK new : new = [NoRows EXCEPT ![u] = row]
  OBVIOUS
<1>9. /\ row \in Rows /\ row.active /\ row.role = Admin
  BY <1>7 DEF Rows, Roles
<1>10. /\ new \in Memberships /\ new[u] = row
       /\ \A v \in Users \ {u} : new[v] = NoRow
  BY <1>6, <1>8, <1>9 DEF Memberships, NoRows
<1>11. PICK w \in Workspaces :
          /\ ~ There(w)
          /\ members' = [v \in DOMAIN members \cup {w} |-> IF v = w THEN new ELSE members[v]]
  <2>1. PICK w \in Workspaces :
           /\ ~ There(w)
           /\ members' = [v \in DOMAIN members \cup {w} |->
                 IF v = w THEN [NoRows EXCEPT ![job[x].by] = [role |-> Admin, active |-> TRUE]]
                          ELSE members[v]]
    BY DEF CreateWorkspace
  <2>. QED
    BY <1>1, <1>2, <1>7, <1>8, <2>1
<1>12. w \notin DOMAIN members
  BY <1>11 DEF There
<1>13. /\ DOMAIN members' = DOMAIN members \cup {w} /\ members'[w] = new
       /\ \A v \in DOMAIN members : members'[v] = members[v]
  BY <1>11, <1>12
<1>14. UNCHANGED <<plan, requests, active, projects, invitations, revived>>
  BY DEF CreateWorkspace, End
<1>15. MembersTyped(members') /\ ProjectsTyped(members', projects')
  BY <1>3, <1>10, <1>13, <1>14 DEF RowsInv, MembersTyped, ProjectsTyped, Memberships
<1>16. \A p \in DOMAIN projects : members'[HomeOf[p]] = members[HomeOf[p]]
  BY <1>3, <1>13, Typed
<1>17. RowsInv'
  <2>1. ASSUME NEW k \in DOMAIN members', NEW v \in Users, members'[k][v].active, ~ active[v]
        PROVE  <<k, v>> \in revived
    <3>1. CASE k = w
      <4>1. ~ NoRow.active
        BY DEF NoRow
      <4>. QED
        BY <1>6, <1>10, <1>13, <2>1, <3>1, <4>1
    <3>2. CASE k # w
      BY <1>3, <1>13, <2>1, <3>2 DEF RowsInv
    <3>. QED
      BY <3>1, <3>2
  <2>2. \A i \in DOMAIN invitations : Pending(i) =>
           /\ invitations[i].ws \in DOMAIN members'
           /\ HasAdmin(members'[invitations[i].ws])
    BY <1>3, <1>13 DEF RowsInv, There
  <2>3. Within(members', projects')
    BY <1>3, <1>14, <1>16 DEF RowsInv, Within
  <2>4. \A p \in DOMAIN projects', v \in Users :
           members'[HomeOf[p]][v] = NoRow => projects'[p][v].role \in {Guest, Nothing}
    BY <1>3, <1>14, <1>16 DEF RowsInv
  <2>5. active' \in [Users -> BOOLEAN] /\ revived' \subseteq Workspaces \X Users
    BY <1>3, <1>14 DEF RowsInv
  <2>. QED
    BY <1>3, <1>14, <1>15, <2>1, <2>2, <2>3, <2>4, <2>5, RowsGoOn, Standstill
<1>18. Frame(x)
  <2>1. ASSUME NEW k \in DOMAIN members', NEW v \in Users, members'[k][v].active
        PROVE  (k \in DOMAIN members /\ members[k][v].active) \/ Holds(x, UserRow(v))
    <3>1. ~ NoRow.active
      BY DEF NoRow
    <3>. QED
      BY <1>6, <1>10, <1>13, <2>1, <3>1
  <2>. QED
    BY <1>13, <1>14, <2>1 DEF Frame
<1>19. AdminsStay /\ WaysClose
  BY <1>13, <1>14 DEF AdminsStay, WaysClose, KeepsAdmin
<1>. QED
  BY <1>17, <1>18, <1>19 DEF Written

LEMMA DeleteWorkspaceWrites ==
    ASSUME IInv, NEW x \in Workers, DeleteWorkspace(x)
    PROVE  Written(x)
<1>1. PICK j : j = job[x]
  OBVIOUS
<1>2. PICK w : w = j.ws
  OBVIOUS
<1>3. /\ RowsInv /\ Stands(x) /\ JobOK(j) /\ j.kind = "deleteWorkspace"
      /\ \A n \in 1..Len(Route[j.kind]) : Covers(x, Route[j.kind][n], held[x])
  BY <1>1, ReadyKnows DEF DeleteWorkspace
<1>4. Route["deleteWorkspace"] = <<"workspace", "invitations", "projects">>
  BY DEF Route
<1>5. Covers(x, "workspace", held[x]) /\ Covers(x, "invitations", held[x])
  BY <1>3, <1>4
<1>6. WorkspaceOf(j) = w
  BY <1>2, <1>3 DEF WorkspaceOf, OfInvitation, OfProject
<1>7. Own(WorkspaceRow(w)) \in held[x]
  BY <1>1, <1>5, <1>6 DEF Covers
<1>8. \A i \in DOMAIN invitations :
         Undeleted(i) /\ invitations[i].ws = w => i \in HeldInvitations(x)
  BY <1>1, <1>2, <1>3, <1>5 DEF Covers, HeldInvitations, RowsInv, InvitationsTyped
<1>9. /\ members' = [v \in DOMAIN members \ {w} |-> members[v]]
      /\ projects' = [p \in DOMAIN projects \ ProjectsOf(w) |-> projects[p]]
      /\ invitations' = Deleted(HeldInvitations(x))
      /\ UNCHANGED <<plan, requests, active, revived>>
  BY <1>1, <1>2 DEF DeleteWorkspace, End
<1>10. /\ DOMAIN members' = DOMAIN members \ {w}
       /\ \A v \in DOMAIN members' : members'[v] = members[v]
       /\ \A p \in DOMAIN projects' :
             p \in DOMAIN projects /\ HomeOf[p] # w /\ projects'[p] = projects[p]
       /\ \A p \in DOMAIN projects : HomeOf[p] # w => p \in DOMAIN projects'
  BY <1>9 DEF ProjectsOf
<1>11. /\ InvitationsGo
       /\ \A k \in DOMAIN invitations \ HeldInvitations(x) : invitations'[k] = invitations[k]
       /\ \A k \in HeldInvitations(x) : ~ Pending(k)'
  BY <1>3, <1>9, Deleting
<1>12. \A p \in DOMAIN projects' : members'[HomeOf[p]] = members[HomeOf[p]]
          /\ HomeOf[p] \in DOMAIN members'
  BY <1>3, <1>10, Typed
<1>13. MembersTyped(members') /\ ProjectsTyped(members', projects')
  BY <1>3, <1>10, <1>12 DEF RowsInv, MembersTyped, ProjectsTyped
<1>14. RowsInv'
  <2>1. ASSUME NEW i \in DOMAIN invitations, Pending(i), Pending(i)'
        PROVE  /\ invitations[i].ws \in DOMAIN members'
               /\ HasAdmin(members'[invitations[i].ws])
    <3>1. invitations[i].ws \in DOMAIN members /\ HasAdmin(members[invitations[i].ws])
      BY <1>3, <2>1 DEF RowsInv, There
    <3>2. invitations[i].ws # w
      BY <1>8, <1>11, <2>1 DEF Pending, Undeleted
    <3>. QED
      BY <1>10, <3>1, <3>2
  <2>2. Within(members', projects')
    BY <1>3, <1>10, <1>12 DEF RowsInv, Within
  <2>3. \A p \in DOMAIN projects', v \in Users :
           members'[HomeOf[p]][v] = NoRow => projects'[p][v].role \in {Guest, Nothing}
    BY <1>3, <1>10, <1>12 DEF RowsInv
  <2>4. /\ active' \in [Users -> BOOLEAN] /\ revived' \subseteq Workspaces \X Users
        /\ \A k \in DOMAIN members', v \in Users :
              members'[k][v].active /\ ~ active'[v] => <<k, v>> \in revived'
    BY <1>3, <1>9, <1>10 DEF RowsInv
  <2>. QED
    BY <1>3, <1>9, <1>11, <1>13, <2>1, <2>2, <2>3, <2>4, RowsGoOn
<1>15. Frame(x)
  BY <1>7, <1>9, <1>10, <1>11 DEF Frame, InvitationsGo, HeldInvitations
<1>16. AdminsStay /\ WaysClose
  BY <1>10 DEF AdminsStay, WaysClose, KeepsAdmin
<1>. QED
  BY <1>14, <1>15, <1>16 DEF Written

\* A write of projects alone.
LEMMA ProjectsOnly ==
    ASSUME RowsInv, UNCHANGED <<plan, requests, active, members, invitations, revived>>,
           ProjectsTyped(members, projects'),
           \A p \in DOMAIN projects', v \in Users :
              /\ projects'[p][v].active => members[HomeOf[p]][v].active
              /\ members[HomeOf[p]][v].role = Guest =>
                    projects'[p][v].role \in {Guest, Nothing}
              /\ members[HomeOf[p]][v] = NoRow =>
                    projects'[p][v].role \in {Guest, Nothing}
    PROVE  RowsInv' /\ WaysClose
<1>1. Within(members', projects')
  BY DEF Within
<1>2. \A i \in DOMAIN invitations : Pending(i) =>
         /\ invitations[i].ws \in DOMAIN members'
         /\ HasAdmin(members'[invitations[i].ws])
  BY DEF RowsInv, There
<1>3. /\ active' \in [Users -> BOOLEAN] /\ revived' \subseteq Workspaces \X Users
      /\ MembersTyped(members')
      /\ \A w \in DOMAIN members', u \in Users :
            members'[w][u].active /\ ~ active'[u] => <<w, u>> \in revived'
  BY DEF RowsInv
<1>4. RowsInv'
  BY <1>1, <1>2, <1>3, RowsGoOn, Standstill
<1>. QED
  BY <1>4 DEF WaysClose

\* A request on a project has it, and its workspace, when it is ready.
LEMMA HasProject ==
    ASSUME IInv, NEW x \in Workers, Ready(x, OfProject)
    PROVE  /\ RowsInv /\ job[x].kind \in OfProject /\ JobOK(job[x])
           /\ WorkspaceOf(job[x]) = HomeOf[job[x].project]
           /\ job[x].project \in DOMAIN projects
           /\ Own(ProjectRow(job[x].project)) \in held[x]
           /\ Holds(x, WorkspaceRow(HomeOf[job[x].project]))
           /\ Checked(x, "project")
<1>1. PICK j : j = job[x]
  OBVIOUS
<1>2. /\ RowsInv /\ Stands(x) /\ JobOK(j) /\ j.kind \in OfProject
      /\ \A n \in 1..Len(Route[j.kind]) :
            Covers(x, Route[j.kind][n], held[x]) /\ Checked(x, Route[j.kind][n])
  BY <1>1, ReadyKnows
<1>3. \E n \in 1..Len(Route[j.kind]) : Route[j.kind][n] = "project"
  <2>1. CASE j.kind = "joinProject"
    <3>1. Route["joinProject"] = <<"account", "shareWorkspace", "project">>
      BY DEF Route
    <3>. QED
      BY <2>1, <3>1
  <2>2. CASE j.kind # "joinProject"
    <3>1. Route[j.kind] = <<"shareWorkspace", "project">>
      BY <1>2, <2>2 DEF Route, OfProject
    <3>. QED
      BY <3>1
  <2>. QED
    BY <2>1, <2>2
<1>4. Covers(x, "project", held[x]) /\ Checked(x, "project")
  BY <1>2, <1>3
<1>5. WorkspaceOf(j) = HomeOf[j.project] /\ j.project \in Projects
  BY <1>2 DEF WorkspaceOf, OfInvitation, OfProject, JobOK
<1>6. Own(ProjectRow(j.project)) \in held[x]
  BY <1>1, <1>4, HeldByCover
<1>7. Standing(j.project) /\ Holds(x, WorkspaceRow(HomeOf[j.project]))
  BY <1>2, <1>5, <1>6 DEF Stands
<1>. QED
  BY <1>1, <1>2, <1>4, <1>5, <1>6, <1>7 DEF Standing

\* An active member of the workspace has an active membership of a project.
LEMMA Seated ==
    ASSUME RowsInv, NEW x \in Workers,
           UNCHANGED <<plan, requests, active, members, invitations, revived>>,
           NEW p \in DOMAIN projects, NEW u \in Users, NEW row \in Rows,
           row.active, members[HomeOf[p]][u].active,
           members[HomeOf[p]][u].role = Guest => row.role = Guest,
           projects' = [projects EXCEPT ![p][u] = row],
           Own(ProjectRow(p)) \in held[x], Holds(x, WorkspaceRow(HomeOf[p]))
    PROVE  Written(x)
<1>1. PICK next : next = [projects[p] EXCEPT ![u] = row]
  OBVIOUS
<1>2. projects[p] \in Memberships
  BY Typed
<1>3. /\ next \in Memberships /\ next[u] = row
      /\ \A v \in Users \ {u} : next[v] = projects[p][v]
  BY <1>1, <1>2 DEF Memberships
<1>4. projects' = [projects EXCEPT ![p] = next]
  BY <1>1
<1>5. /\ ProjectsTyped(members, projects') /\ DOMAIN projects' = DOMAIN projects
      /\ projects'[p] = next
      /\ \A q \in DOMAIN projects \ {p} : projects'[q] = projects[q]
  BY <1>3, <1>4, OneProject
<1>6. ASSUME NEW q \in DOMAIN projects, NEW v \in Users
      PROVE  /\ projects'[q][v].active => members[HomeOf[q]][v].active
             /\ members[HomeOf[q]][v].role = Guest =>
                   projects'[q][v].role \in {Guest, Nothing}
             /\ members[HomeOf[q]][v] = NoRow =>
                   projects'[q][v].role \in {Guest, Nothing}
  <2>1. /\ projects[q][v].active => members[HomeOf[q]][v].active
        /\ members[HomeOf[q]][v].role = Guest => projects[q][v].role \in {Guest, Nothing}
        /\ members[HomeOf[q]][v] = NoRow => projects[q][v].role \in {Guest, Nothing}
    BY <1>6 DEF RowsInv, Within
  <2>2. CASE q = p /\ v = u
    <3>1. members[HomeOf[q]][v] # NoRow
      BY <2>2 DEF NoRow
    <3>. QED
      BY <1>3, <1>5, <2>2, <3>1
  <2>3. CASE ~ (q = p /\ v = u)
    BY <1>3, <1>5, <1>6, <2>1, <2>3
  <2>. QED
    BY <2>2, <2>3
<1>7. RowsInv' /\ WaysClose
  BY <1>5, <1>6, ProjectsOnly
<1>8. Frame(x)
  BY <1>5 DEF Frame
<1>9. AdminsStay
  <2>1. \A q \in DOMAIN projects, v \in Users :
           projects[q][v].active => projects'[q][v].active
    BY <1>3, <1>5
  <2>. QED
    BY <2>1 DEF AdminsStay, KeepsAdmin
<1>. QED
  BY <1>7, <1>8, <1>9 DEF Written

\* Nothing is written of what others see.
LEMMA LeftAsItWas ==
    ASSUME RowsInv, NEW x \in Workers,
           UNCHANGED <<plan, requests, active, members, projects, invitations, revived>>
    PROVE  Written(x)
BY InvitationsWritten, Standstill

LEMMA CreateProjectWrites ==
    ASSUME IInv, NEW x \in Workers, CreateProject(x)
    PROVE  Written(x)
<1>1. PICK j : j = job[x]
  OBVIOUS
<1>2. PICK w : w = j.ws
  OBVIOUS
<1>3. /\ RowsInv /\ Stands(x) /\ JobOK(j) /\ j.kind = "createProject"
      /\ \A n \in 1..Len(Route[j.kind]) :
            Covers(x, Route[j.kind][n], held[x]) /\ Checked(x, Route[j.kind][n])
  BY <1>1, ReadyKnows DEF CreateProject
<1>4. Route["createProject"] = <<"account", "shareWorkspace">>
  BY DEF Route
<1>5. Covers(x, "shareWorkspace", held[x]) /\ Checked(x, "shareWorkspace")
  BY <1>3, <1>4
<1>6. /\ WorkspaceOf(j) = w /\ w \in Workspaces /\ j.by \in Users /\ j.of \in Users
  BY <1>2, <1>3 DEF WorkspaceOf, OfInvitation, OfProject, Deactivations, JobOK
<1>7. Holds(x, WorkspaceRow(w))
  BY <1>1, <1>5, <1>6 DEF Covers, Holds
<1>8. w \in DOMAIN members
  BY <1>3, <1>6, <1>7 DEF Stands, There
<1>9. \A u \in {j.by, j.of} : RoleIn(members[w], u) \in {Admin, Member}
  BY <1>1, <1>3, <1>5, <1>6 DEF Checked
<1>10. \A u \in {j.by, j.of} : /\ members[w][u].active /\ members[w][u].role # Guest
                               /\ members[w][u] # NoRow
  <2>1. ~ NoRow.active
    BY DEF NoRow
  <2>. QED
    BY <1>9, <2>1 DEF RoleIn, Guest, Member, Admin, Nothing
<1>11. PICK row \in Rows : row = [role |-> Admin, active |-> TRUE]
  BY DEF Rows, Roles
<1>12. PICK new : new = [u \in Users |-> IF u \in {j.by, j.of} THEN row ELSE NoRow]
  OBVIOUS
<1>13. PICK p \in Projects :
          /\ ~ Standing(p) /\ HomeOf[p] = w
          /\ projects' = [q \in DOMAIN projects \cup {p} |-> IF q = p THEN new ELSE projects[q]]
  <2>1. PICK p \in Projects :
           /\ ~ Standing(p) /\ HomeOf[p] = job[x].ws
           /\ projects' = [q \in DOMAIN projects \cup {p} |->
                 IF q = p THEN [u \in Users |-> IF u \in {job[x].by, job[x].of}
                                  THEN [role |-> Admin, active |-> TRUE] ELSE NoRow]
                          ELSE projects[q]]
    BY DEF CreateProject
  <2>2. new = [u \in Users |-> IF u \in {job[x].by, job[x].of}
                                  THEN [role |-> Admin, active |-> TRUE] ELSE NoRow]
    BY <1>1, <1>11, <1>12
  <2>. QED
    BY <1>1, <1>2, <2>1, <2>2
<1>14. p \notin DOMAIN projects
  BY <1>13 DEF Standing
<1>15. /\ DOMAIN projects' = DOMAIN projects \cup {p} /\ projects'[p] = new
       /\ \A q \in DOMAIN projects : projects'[q] = projects[q]
  BY <1>13, <1>14
<1>16. /\ new \in Memberships
       /\ \A u \in Users : IF u \in {j.by, j.of} THEN new[u] = row ELSE new[u] = NoRow
  BY <1>11, <1>12 DEF Memberships
<1>17. UNCHANGED <<plan, requests, active, members, invitations, revived>>
  BY DEF CreateProject, End
<1>18. ProjectsTyped(members, projects')
  BY <1>3, <1>8, <1>13, <1>15, <1>16 DEF RowsInv, ProjectsTyped, Memberships
<1>19. ASSUME NEW q \in DOMAIN projects', NEW v \in Users
       PROVE  /\ projects'[q][v].active => members[HomeOf[q]][v].active
              /\ members[HomeOf[q]][v].role = Guest =>
                    projects'[q][v].role \in {Guest, Nothing}
              /\ members[HomeOf[q]][v] = NoRow =>
                    projects'[q][v].role \in {Guest, Nothing}
  <2>1. CASE q \in DOMAIN projects
    BY <1>3, <1>15, <1>19, <2>1 DEF RowsInv, Within
  <2>2. CASE q = p /\ v \in {j.by, j.of}
    BY <1>10, <1>13, <2>2
  <2>3. CASE q = p /\ v \notin {j.by, j.of}
    <3>1. projects'[q][v] = NoRow
      BY <1>15, <1>16, <1>19, <2>3
    <3>2. ~ NoRow.active /\ NoRow.role = Nothing
      BY DEF NoRow
    <3>. QED
      BY <3>1, <3>2
  <2>. QED
    BY <1>15, <1>19, <2>1, <2>2, <2>3
<1>20. RowsInv' /\ WaysClose
  BY <1>3, <1>17, <1>18, <1>19, ProjectsOnly
<1>21. Frame(x)
  BY <1>7, <1>13, <1>15, <1>17 DEF Frame
<1>22. AdminsStay
  BY <1>15, <1>17 DEF AdminsStay, KeepsAdmin
<1>. QED
  BY <1>20, <1>21, <1>22 DEF Written

LEMMA JoinProjectWrites ==
    ASSUME IInv, NEW x \in Workers, JoinProject(x)
    PROVE  Written(x)
<1>1. PICK j : j = job[x]
  OBVIOUS
<1>2. PICK p : p = j.project
  OBVIOUS
<1>3. PICK u : u = j.by
  OBVIOUS
<1>4. /\ RowsInv /\ JobOK(j) /\ j.kind = "joinProject" /\ WorkspaceOf(j) = HomeOf[p]
      /\ p \in DOMAIN projects /\ Own(ProjectRow(p)) \in held[x]
      /\ Holds(x, WorkspaceRow(HomeOf[p])) /\ Checked(x, "project")
  BY <1>1, <1>2, HasProject DEF JoinProject, Ready, OfProject
<1>5. u \in Users
  BY <1>3, <1>4 DEF JobOK
<1>6. RoleIn(members[HomeOf[p]], u) \in {Admin, Member}
  BY <1>1, <1>3, <1>4 DEF Checked
<1>7. /\ members[HomeOf[p]][u].active /\ members[HomeOf[p]][u].role # Guest
      /\ RoleIn(members[HomeOf[p]], u) \in Roles
  BY <1>6 DEF RoleIn, Guest, Member, Admin, Nothing, Roles
<1>8. HomeOf[p] \in DOMAIN members /\ projects[p] \in Memberships
  BY <1>4, Typed
<1>9. UNCHANGED <<plan, requests, active, members, invitations, revived>>
  BY DEF JoinProject, End
<1>10. CASE projects[p][u].active
  <2>1. projects' = projects
    BY <1>1, <1>2, <1>3, <1>10 DEF JoinProject
  <2>. QED
    BY <1>4, <1>9, <2>1, LeftAsItWas
<1>11. CASE ~ projects[p][u].active
  <2>1. PICK role : role = JoinRole(projects[p][u], RoleIn(members[HomeOf[p]], u))
    OBVIOUS
  <2>2. RoleOn(WorkspaceOf(j), u) = RoleIn(members[HomeOf[p]], u)
    BY <1>4, <1>8 DEF RoleOn, There
  <2>3. projects[p][u] \in Rows \cup {NoRow}
    BY <1>5, <1>8 DEF Memberships
  <2>4. role \in Roles
    <3>1. projects[p][u] # NoRow => projects[p][u].role \in Roles
      BY <2>3, RowFacts DEF Rows
    <3>. QED
      BY <1>7, <2>1, <3>1 DEF JoinRole
  <2>5. PICK row \in Rows : row = [role |-> role, active |-> TRUE]
    BY <2>4 DEF Rows
  <2>6. projects' = [projects EXCEPT ![p][u] = row]
    <3>1. projects' = [projects EXCEPT ![p][u] =
             [role |-> JoinRole(projects[p][u], RoleOn(WorkspaceOf(j), u)), active |-> TRUE]]
      BY <1>1, <1>2, <1>3, <1>11 DEF JoinProject
    <3>. QED
      BY <2>1, <2>2, <2>5, <3>1
  <2>7. row.active
    BY <2>5
  <2>. QED
    BY <1>4, <1>5, <1>7, <1>9, <2>6, <2>7, Seated
<1>. QED
  BY <1>10, <1>11

LEMMA AddOrChangeMemberWrites ==
    ASSUME IInv, NEW x \in Workers, AddOrChangeMember(x)
    PROVE  Written(x)
<1>1. PICK j : j = job[x]
  OBVIOUS
<1>2. PICK p : p = j.project
  OBVIOUS
<1>3. PICK u : u = j.of
  OBVIOUS
<1>4. /\ RowsInv /\ JobOK(j) /\ j.kind \in {"addMember", "changeMember"}
      /\ WorkspaceOf(j) = HomeOf[p]
      /\ p \in DOMAIN projects /\ Own(ProjectRow(p)) \in held[x]
      /\ Holds(x, WorkspaceRow(HomeOf[p])) /\ Checked(x, "project")
  BY <1>1, <1>2, HasProject DEF AddOrChangeMember, Ready, OfProject
<1>5. u \in Users /\ j.role \in Roles
  BY <1>3, <1>4 DEF JobOK
<1>6. /\ members[HomeOf[p]][u].active
      /\ members[HomeOf[p]][u].role = Guest => j.role = Guest
  BY <1>1, <1>3, <1>4 DEF Checked
<1>7. UNCHANGED <<plan, requests, active, members, invitations, revived>>
  BY DEF AddOrChangeMember, End
<1>8. PICK row \in Rows : row = [role |-> j.role, active |-> TRUE]
  BY <1>5 DEF Rows
<1>9. row.active /\ row.role = j.role
  BY <1>8
<1>10. projects' = [projects EXCEPT ![p][u] = row]
  BY <1>1, <1>2, <1>3, <1>8 DEF AddOrChangeMember
<1>. QED
  BY <1>4, <1>5, <1>6, <1>7, <1>9, <1>10, Seated

LEMMA EndProjectMembershipWrites ==
    ASSUME IInv, NEW x \in Workers, EndProjectMembership(x)
    PROVE  Written(x)
<1>1. PICK j : j = job[x]
  OBVIOUS
<1>2. PICK p : p = j.project
  OBVIOUS
<1>3. PICK u : u = IF j.kind = "leaveProject" THEN j.by ELSE j.of
  OBVIOUS
<1>4. /\ RowsInv /\ JobOK(j) /\ j.kind \in {"leaveProject", "removeMember"}
      /\ p \in DOMAIN projects /\ Own(ProjectRow(p)) \in held[x]
      /\ Holds(x, WorkspaceRow(HomeOf[p])) /\ Checked(x, "project")
  BY <1>1, <1>2, HasProject DEF EndProjectMembership, Ready, OfProject
<1>5. u \in Users /\ j.by \in Users
  BY <1>3, <1>4 DEF JobOK
<1>6. ~ SoleAdmin(projects[p], u)
  <2>1. CASE j.kind = "leaveProject"
    BY <1>1, <1>2, <1>3, <1>4, <2>1 DEF Checked, SoleAdmin
  <2>2. CASE j.kind = "removeMember"
    <3>1. u # j.by /\ (IsAdmin(projects[p], u) => IsAdmin(projects[p], j.by))
      BY <1>1, <1>2, <1>3, <1>4, <2>2 DEF Checked
    <3>2. IsAdmin(projects[p], j.by) => projects[p][j.by].active
      BY DEF IsAdmin, RoleIn, Admin, Nothing
    <3>. QED
      BY <1>5, <3>1, <3>2 DEF SoleAdmin, OtherAdmin, Others
  <2>. QED
    BY <1>4, <2>1, <2>2
<1>7. projects' = EndedIn(projects, {p}, u)
  BY <1>1, <1>2, <1>3 DEF EndProjectMembership
<1>8. UNCHANGED <<plan, requests, active, members, invitations, revived>>
  BY DEF EndProjectMembership, End
<1>9. \A q \in DOMAIN projects : projects[q] \in Memberships
  BY <1>4, Typed
<1>10. /\ DOMAIN projects' = DOMAIN projects
       /\ \A q \in DOMAIN projects :
             /\ projects'[q] \in Memberships
             /\ q = p => projects'[q] = Ended(projects[q], u)
             /\ q # p => projects'[q] = projects[q]
  BY <1>5, <1>7, <1>9, Ending
<1>11. ProjectsTyped(members, projects')
  BY <1>4, <1>10 DEF RowsInv, ProjectsTyped, Memberships
<1>12. ASSUME NEW q \in DOMAIN projects, NEW v \in Users
       PROVE  /\ projects'[q][v].role = projects[q][v].role
              /\ projects'[q][v].active => projects[q][v].active
  <2>1. /\ Ended(projects[q], u)[u].active = FALSE
        /\ Ended(projects[q], u)[u].role = projects[q][u].role
        /\ \A k \in Users \ {u} : Ended(projects[q], u)[k] = projects[q][k]
    BY <1>5, <1>9, <1>12, EndedRow
  <2>2. CASE q = p /\ v = u
    BY <1>10, <2>1, <2>2
  <2>3. CASE q = p /\ v # u
    BY <1>10, <1>12, <2>1, <2>3
  <2>4. CASE q # p
    BY <1>10, <1>12, <2>4
  <2>. QED
    BY <2>2, <2>3, <2>4
<1>13. RowsInv' /\ WaysClose
  <2>1. \A q \in DOMAIN projects', v \in Users :
           /\ projects'[q][v].active => members[HomeOf[q]][v].active
           /\ members[HomeOf[q]][v].role = Guest =>
                 projects'[q][v].role \in {Guest, Nothing}
           /\ members[HomeOf[q]][v] = NoRow =>
                 projects'[q][v].role \in {Guest, Nothing}
    BY <1>4, <1>10, <1>12 DEF RowsInv, Within
  <2>. QED
    BY <1>4, <1>8, <1>11, <2>1, ProjectsOnly
<1>14. Frame(x)
  BY <1>4, <1>8, <1>10 DEF Frame
<1>15. AdminsStay
  <2>1. KeepsAdmin(projects[p], projects'[p])
    BY <1>4, <1>5, <1>6, <1>9, <1>10, GoingKeepsAdmin
  <2>. QED
    BY <1>8, <1>10, <2>1 DEF AdminsStay, KeepsAdmin
<1>. QED
  BY <1>13, <1>14, <1>15 DEF Written

LEMMA DeleteProjectWrites ==
    ASSUME IInv, NEW x \in Workers, DeleteProject(x)
    PROVE  Written(x)
<1>1. PICK p : p = job[x].project
  OBVIOUS
<1>2. /\ RowsInv /\ Own(ProjectRow(p)) \in held[x] /\ Holds(x, WorkspaceRow(HomeOf[p]))
  BY <1>1, HasProject DEF DeleteProject, Ready, OfProject
<1>3. projects' = [q \in DOMAIN projects \ {p} |-> projects[q]]
  BY <1>1 DEF DeleteProject
<1>4. UNCHANGED <<plan, requests, active, members, invitations, revived>>
  BY DEF DeleteProject, End
<1>5. /\ DOMAIN projects' = DOMAIN projects \ {p}
      /\ \A q \in DOMAIN projects' : projects'[q] = projects[q]
  BY <1>3
<1>6. RowsInv' /\ WaysClose
  <2>1. ProjectsTyped(members, projects')
    BY <1>2, <1>5 DEF RowsInv, ProjectsTyped
  <2>2. \A q \in DOMAIN projects', v \in Users :
           /\ projects'[q][v].active => members[HomeOf[q]][v].active
           /\ members[HomeOf[q]][v].role = Guest =>
                 projects'[q][v].role \in {Guest, Nothing}
           /\ members[HomeOf[q]][v] = NoRow =>
                 projects'[q][v].role \in {Guest, Nothing}
    BY <1>2, <1>5 DEF RowsInv, Within
  <2>. QED
    BY <1>2, <1>4, <2>1, <2>2, ProjectsOnly
<1>7. Frame(x)
  BY <1>2, <1>4, <1>5 DEF Frame
<1>8. AdminsStay
  BY <1>4, <1>5 DEF AdminsStay, KeepsAdmin
<1>. QED
  BY <1>6, <1>7, <1>8 DEF Written

-----------------------------------------------------------------------------
(* Every step.                                                               *)

\* The end of a transaction leaves nothing to the next of its worker.
LEMMA WriteWrites ==
    ASSUME IInv, NEW x \in Workers, Write(x)
    PROVE  Written(x) /\ End(x)
<1>1. Written(x)
  BY CreateInvitationsWrites, UpdateInvitationWrites, DeleteInvitationWrites, DeclineWrites,
     AcceptWrites, EndMembershipWrites, UpdateRoleWrites, DeactivateWrites, ActivateWrites,
     ReactivateWrites, CreateWorkspaceWrites, DeleteWorkspaceWrites, CreateProjectWrites,
     JoinProjectWrites, AddOrChangeMemberWrites, EndProjectMembershipWrites,
     DeleteProjectWrites
  DEF Write
<1>2. End(x)
  BY DEF Write, CreateInvitations, UpdateInvitation, DeleteInvitation, Decline, Accept,
         EndMembership, UpdateRole, Deactivate, Activate, Reactivate, CreateWorkspace,
         DeleteWorkspace, CreateProject, JoinProject, AddOrChangeMember,
         EndProjectMembership, DeleteProject
<1>. QED
  BY <1>1, <1>2

LEMMA NothingLost ==
    ASSUME UNCHANGED data
    PROVE  AdminsStay /\ WaysClose
BY DEF data, AdminsStay, WaysClose, KeepsAdmin

LEMMA NextInv ==
    ASSUME IInv, [Next]_vars
    PROVE  IInv' /\ AdminsStay /\ WaysClose
<1>1. ASSUME NEW x \in Workers, NEW j \in Requests, Begin(x, j)
      PROVE  IInv' /\ AdminsStay /\ WaysClose
  BY <1>1, BeginInv, NothingLost DEF Begin
<1>2. ASSUME NEW x \in Workers, Take(x)
      PROVE  IInv' /\ AdminsStay /\ WaysClose
  BY <1>2, TakeInv, NothingLost DEF Take
<1>3. ASSUME NEW x \in Workers, Advance(x)
      PROVE  IInv' /\ AdminsStay /\ WaysClose
  BY <1>3, AdvanceInv, NothingLost DEF Advance
<1>4. ASSUME NEW x \in Workers, Rollback(x)
      PROVE  IInv' /\ AdminsStay /\ WaysClose
  BY <1>4, RollbackInv, NothingLost DEF Rollback
<1>5. ASSUME NEW x \in Workers, Write(x)
      PROVE  IInv' /\ AdminsStay /\ WaysClose
  BY <1>5, WriteWrites, EndInv DEF Written
<1>6. CASE UNCHANGED vars
  <2>1. RowsInv' /\ LocksInv'
    BY <1>6 DEF vars, data, IInv, RowsInv, LocksInv, There, Pending
  <2>2. ASSUME NEW x \in Workers
        PROVE  WorkerInv(x)'
    BY <1>6, Unwritten, OthersKnow DEF vars, data, IInv, Local
  <2>3. IInv'
    BY <2>1, <2>2 DEF IInv
  <2>. QED
    BY <1>6, <2>3, NothingLost DEF vars
<1>. QED
  BY <1>1, <1>2, <1>3, <1>4, <1>5, <1>6 DEF Next

\* IInv holds in every state: what the tables say, and what each transaction
\* knows of them by its locks.
THEOREM Invariance == Spec => []IInv
<1>1. Init => IInv
  BY InitInv
<1>2. IInv /\ [Next]_vars => IInv'
  BY NextInv
<1>. QED
  BY <1>1, <1>2, PTL DEF Spec

\* Every variable has its type, and a worker without a transaction holds and
\* awaits no lock: each commit and each rollback releases what it locked.
THEOREM TypeCorrect == Spec => []TypeOK
<1>1. IInv => TypeOK
  <2>. SUFFICES ASSUME IInv PROVE TypeOK
    OBVIOUS
  <2>1. RowsInv /\ LocksInv
    BY DEF IInv
  <2>2. ASSUME NEW x \in Workers, step[x] = 0
        PROVE  held[x] = {} /\ todo[x] = {} /\ job[x] = NoJob
    <3>1. WorkerInv(x)
      BY DEF IInv
    <3>2. step[x] \notin 1..Len(Route[job[x].kind]) + 1
      BY <2>2
    <3>. QED
      BY <3>1, <3>2 DEF WorkerInv
  <2>. QED
    BY <2>1, <2>2 DEF RowsInv, LocksInv, TypeOK
<1>. QED
  BY <1>1, Invariance, PTL

\* M3 design 3.3, 3.6 and 3.8: whatever acceptances, demotions, removals and
\* changes of projects run at once, an active member of a project is an active
\* member of its workspace, and a guest of the workspace a guest in its projects.
THEOREM ProjectsStayWithin == Spec => []WithinWorkspace
<1>1. IInv => WithinWorkspace
  BY DEF IInv, RowsInv, WithinWorkspace
<1>. QED
  BY <1>1, Invariance, PTL

\* M3 design 3.6 convention 6: nothing that raced a deactivation leaves its
\* account an active member of anything, but for what reactivate-member restored.
THEOREM DeactivatedIsNowhere == Spec => []InactiveIsNowhere
<1>1. IInv => InactiveIsNowhere
  <2>. SUFFICES ASSUME IInv, NEW u \in Users, ~ active[u]
       PROVE  /\ \A w \in DOMAIN members : members[w][u].active => <<w, u>> \in revived
              /\ \A p \in DOMAIN projects :
                    projects[p][u].active => <<HomeOf[p], u>> \in revived
    BY DEF InactiveIsNowhere
  <2>1. \A w \in DOMAIN members : members[w][u].active => <<w, u>> \in revived
    BY DEF IInv, RowsInv
  <2>2. \A p \in DOMAIN projects : projects[p][u].active => members[HomeOf[p]][u].active
    BY DEF IInv, RowsInv, Within
  <2>3. \A p \in DOMAIN projects : HomeOf[p] \in DOMAIN members
    BY DEF IInv, RowsInv, ProjectsTyped
  <2>. QED
    BY <2>1, <2>2, <2>3
<1>. QED
  BY <1>1, Invariance, PTL

\* M3 design 3.7 and 3.8: no invitation leads into a workspace without a
\* member, and batches that race leave an address one invitation at most.
THEOREM InvitationsLeadSomewhere == Spec => []InvitationsStand
<1>1. IInv => InvitationsStand
  <2>. SUFFICES ASSUME IInv PROVE InvitationsStand
    OBVIOUS
  <2>1. ASSUME NEW i \in DOMAIN invitations, Pending(i)
        PROVE  ~ Empty(members[invitations[i].ws])
    <3>1. HasAdmin(members[invitations[i].ws])
      BY <2>1 DEF IInv, RowsInv
    <3>. QED
      BY <3>1 DEF HasAdmin, Empty, IsAdmin, RoleIn, Admin, Nothing
  <2>. QED
    BY <2>1 DEF IInv, RowsInv, InvitationsStand
<1>. QED
  BY <1>1, Invariance, PTL

\* Rules 1 and 2 (M3 design 3.7): leaves, removals, demotions and deactivations
\* that run at once leave a workspace an admin as long as it has a member, and
\* who goes does not leave a project's others without one.
THEOREM AnAdminStays == Spec => AdminKept
<1>1. IInv /\ [Next]_vars => [AdminsStay]_vars
  BY NextInv
<1>2. Spec => [][AdminsStay]_vars
  BY <1>1, Invariance, PTL DEF Spec
<1>. QED
  BY <1>2, PTL DEF AdminKept, AdminsStay

\* M3 design 3.8: whichever way a membership ends, none of the invitations to
\* him is left by which he could come back.
THEOREM NoneComesBack == Spec => NoWayBack
<1>1. IInv /\ [Next]_vars => [WaysClose]_vars
  BY NextInv
<1>2. Spec => [][WaysClose]_vars
  BY <1>1, Invariance, PTL DEF Spec
<1>. QED
  BY <1>2, PTL DEF NoWayBack, WaysClose

-----------------------------------------------------------------------------
(* No circle.                                                                *)

LEMMA Least ==
    ASSUME NEW T, T \subseteq Nat, T # {}
    PROVE  \E m \in T : \A n \in T : m <= n
<1>. DEFINE R == OpToRel(<, Nat)
<1>1. IsWellFoundedOn(R, Nat)
  BY NatLessThanWellFounded
<1>2. \A y, x \in Nat : y < x => <<y, x>> \in R
  BY DEF OpToRel
<1>. HIDE DEF R
<1>3. PICK m \in T : \A n \in T : ~ (<<n, m>> \in R)
  BY <1>1, WFMin
<1>4. ASSUME NEW n \in T
      PROVE  m <= n
  <2>1. m \in Nat /\ n \in Nat
    OBVIOUS
  <2>2. ~ (n < m)
    BY <1>2, <1>3, <2>1
  <2>. QED
    BY <2>1, <2>2
<1>. QED
  BY <1>4

LEMMA PrecedesOrders ==
    ASSUME NEW a, NEW b, NEW c, a.id \in Nat, b.id \in Nat, c.id \in Nat
    PROVE  /\ ~ Precedes(a, a)
           /\ Precedes(a, b) /\ Precedes(b, c) => Precedes(a, c)
<1>1. \A kind : Class(kind) \in 1..4
  BY DEF Class
<1>2. PICK ca, cb, cc \in 1..4 : /\ ca = Class(a.kind) /\ cb = Class(b.kind)
                                 /\ cc = Class(c.kind)
  BY <1>1
<1>. QED
  BY <1>2 DEF Precedes

\* In a relation that orders, not everything in a finite set has something of
\* it after itself.
LEMMA NoCircle ==
    ASSUME NEW S, IsFiniteSet(S), S # {}, NEW R,
           \A x \in S : <<x, x>> \notin R,
           \A x, y, z \in S : <<x, y>> \in R /\ <<y, z>> \in R => <<x, z>> \in R
    PROVE  \E x \in S : \A y \in S : <<x, y>> \notin R
<1>. DEFINE After(x) == {z \in S : <<x, z>> \in R}
<1>1. \A x \in S : IsFiniteSet(After(x)) /\ Cardinality(After(x)) \in Nat
  <2>1. \A x \in S : After(x) \in SUBSET S
    OBVIOUS
  <2>. QED
    BY <2>1, FS_Subset, FS_CardinalityType
<1>2. PICK T : T = {Cardinality(After(x)) : x \in S}
  OBVIOUS
<1>3. T \subseteq Nat /\ T # {}
  <2>. HIDE DEF After
  <2>1. \A n \in T : \E x \in S : n = Cardinality(After(x))
    BY <1>2
  <2>2. PICK x \in S : TRUE
    OBVIOUS
  <2>3. Cardinality(After(x)) \in T
    BY <1>2
  <2>. QED
    BY <1>1, <2>1, <2>3
<1>4. PICK m \in T : \A n \in T : m <= n
  BY <1>3, Least
<1>5. PICK x \in S : m = Cardinality(After(x))
  BY <1>2
<1>6. ASSUME NEW y \in S, <<x, y>> \in R
      PROVE  FALSE
  <2>1. After(y) \subseteq After(x) /\ y \in After(x) /\ y \notin After(y)
    BY <1>6
  <2>. HIDE DEF After
  <2>2. Cardinality(After(y)) <= Cardinality(After(x)) /\ After(y) # After(x)
    BY <1>1, <2>1, FS_Subset
  <2>3. Cardinality(After(y)) # Cardinality(After(x))
    BY <1>1, <2>1, <2>2, FS_Subset
  <2>4. Cardinality(After(x)) <= Cardinality(After(y))
    BY <1>2, <1>4, <1>5
  <2>. QED
    BY <1>1, <2>2, <2>3, <2>4
<1>. QED
  BY <1>6

\* A transaction takes each lock after all that it has, in the global order.
LEMMA LocksInOrder ==
    ASSUME IInv, NEW x \in Workers, NEW lock \in todo[x], NEW taken \in held[x]
    PROVE  Precedes(taken.row, lock.row)
BY DEF IInv, WorkerInv, Orderly

\* M3 design 3.6's global order: the accounts, then the workspaces, then the
\* invitations or addresses, then the projects, each by id: transactions that
\* lock their rows so never wait for each other in a circle.
THEOREM NoneWaitsInACircle == Spec => []NoDeadlock
<1>1. IInv => NoDeadlock
  <2>. SUFFICES ASSUME IInv, NEW S \in (SUBSET Workers) \ {{}},
                       \A x \in S : Blockers(x) \cap S # {}
                PROVE  FALSE
    BY DEF NoDeadlock
  <2>. DEFINE Awaited(x, lock) ==
                 lock \in Upcoming(x) /\ \E y \in S : \E taken \in held[y] : taken.row = lock.row
              f == [x \in S |-> CHOOSE lock : Awaited(x, lock)]
  <2>1. \A x \in S : Awaited(x, f[x])
    <3>1. \A x \in S : \E lock : Awaited(x, lock)
      BY DEF Blockers, Conflict
    <3>. QED
      BY <3>1
  <2>2. \A x \in S : f[x] \in todo[x] /\ f[x].row.id \in Nat
    <3>1. \A x \in S : f[x] \in todo[x]
      BY <2>1 DEF Upcoming
    <3>2. \A x \in S : todo[x] \subseteq Locks
      BY DEF IInv, LocksInv
    <3>. QED
      BY <3>1, <3>2, LockKinds
  <2>3. ASSUME NEW x \in S
        PROVE  \E y \in S : Precedes(f[x].row, f[y].row)
    <3>1. PICK y \in S : \E taken \in held[y] : taken.row = f[x].row
      BY <2>1
    <3>2. PICK taken \in held[y] : taken.row = f[x].row
      BY <3>1
    <3>3. Precedes(taken.row, f[y].row)
      BY <2>2, LocksInOrder
    <3>. QED
      BY <3>2, <3>3
  <2>. HIDE DEF f
  <2>4. PICK R : R = {r \in S \X S : Precedes(f[r[1]].row, f[r[2]].row)}
    OBVIOUS
  <2>5. \A x, y \in S : <<x, y>> \in R <=> Precedes(f[x].row, f[y].row)
    BY <2>4
  <2>6. \A x \in S : <<x, x>> \notin R
    BY <2>2, <2>5, PrecedesOrders
  <2>7. \A x, y, z \in S : <<x, y>> \in R /\ <<y, z>> \in R => <<x, z>> \in R
    BY <2>2, <2>5, PrecedesOrders
  <2>8. IsFiniteSet(S) /\ S # {}
    <3>1. S \subseteq Workers /\ S # {}
      OBVIOUS
    <3>. QED
      BY <3>1, MembershipAssumption, FS_Subset
  <2>9. \E x \in S : \A y \in S : <<x, y>> \notin R
    BY <2>6, <2>7, <2>8, NoCircle
  <2>. QED
    BY <2>3, <2>5, <2>9
<1>. QED
  BY <1>1, Invariance, PTL
=============================================================================
