--------------------------- MODULE TenancyProofs ----------------------------
(***************************************************************************)
(* Ownership and row locks for any number of calls, users and              *)
(* organizations.  The argument: a call past its role check knows an       *)
(* existing organization, a caller and, at its commit, a target that are   *)
(* members, so that both updates find their rows; a role of a geologist or *)
(* more is never lost again.                                               *)
(***************************************************************************)
EXTENDS Tenancy, FiniteSetTheorems, TLAPS

Transferring == {"transfer", "check", "demote", "promote", "commit"}

(* What a call holds at each step. *)
CallInv(c) ==
  /\ pc[c] = "create" => msg[c] \in [slug : Orgs] /\ caller[c] \in Users
  /\ pc[c] \in Transferring =>
       msg[c] \in [organization : Orgs, target : Users] /\ caller[c] \in Users
  /\ pc[c] \in {"project", "insert"} => msg[c] \in [organization : Orgs] /\ caller[c] \in Users
  /\ pc[c] \in {"check", "demote", "promote", "commit", "insert"} =>
       msg[c].organization \in created /\ member[msg[c].organization][caller[c]] # None
  /\ pc[c] = "commit" => member[msg[c].organization][msg[c].target] # None
  /\ pc[c] = "insert" /\ RoleRank(role[c]) >= 20 =>
       RoleRank(member[msg[c].organization][caller[c]]) >= 20

MemberInv == \A o \in Orgs, u \in Users : member[o][u] # None => o \in created

Inv == /\ TypeOK /\ NeverOwnerless /\ ProjectsByGeologists /\ MemberInv
       /\ \A c \in Calls : CallInv(c)

LEMMA Ranks == /\ RoleRank("owner") = 40 /\ RoleRank("admin") = 30
               /\ RoleRank("geologist") = 20 /\ RoleRank("viewer") = 10
               /\ RoleRank(None) = 0
BY TenancyAssumption DEF RoleRank, TenantRole

(* Where both have a row, the two updates leave what they write. *)
LEMMA MovedIs ==
  ASSUME NEW m \in [Users -> TenantRole \cup {None}], NEW u \in Users, NEW t \in Users,
         m[u] # None, m[t] # None
  PROVE  Moved(m, u, t) = [[m EXCEPT ![u] = "admin"] EXCEPT ![t] = "owner"]
<1>1. Updated(m, u, "admin") = [m EXCEPT ![u] = "admin"]
  BY DEF Updated
<1>2. [m EXCEPT ![u] = "admin"][t] # None
  BY TenancyAssumption DEF TenantRole
<1> QED BY <1>1, <1>2 DEF Moved, Updated

LEMMA InitInv == Init => Inv
BY DEF Init, Inv, TypeOK, NeverOwnerless, ProjectsByGeologists, MemberInv, CallInv,
       Transferring

(* A step that leaves the tables alone preserves what is said of them, and a *)
(* call whose own state does not change keeps what it holds.                 *)
LEMMA TablesAlone ==
  ASSUME Inv, UNCHANGED db PROVE NeverOwnerless' /\ ProjectsByGeologists' /\ MemberInv'
BY DEF Inv, db, NeverOwnerless, Owners, ProjectsByGeologists, MemberInv

(* The end of a call. *)
LEMMA EndTypes ==
  ASSUME Inv, NEW c \in Calls, End(c)
  PROVE  /\ pc' \in [Calls -> {"idle", "create", "transfer", "check", "demote", "promote",
                               "commit", "project", "insert"}]
         /\ msg' \in [Calls -> Request \cup {None}] /\ caller' \in [Calls -> Users \cup {None}]
         /\ sudo' \in [Calls -> BOOLEAN] /\ role' \in [Calls -> TenantRole \cup {None}]
         /\ held' \in [Calls -> SUBSET (Orgs \X Users)]
         /\ pc'[c] = "idle"
         /\ \A d \in Calls : d # c => /\ pc'[d] = pc[d] /\ msg'[d] = msg[d]
                                      /\ caller'[d] = caller[d] /\ role'[d] = role[d]
BY DEF Inv, TypeOK, End, Released

LEMMA EndInv == ASSUME Inv, NEW c \in Calls, End(c), UNCHANGED db PROVE Inv'
<1>1. TypeOK'
  BY EndTypes DEF Inv, TypeOK, db
<1>2. ASSUME NEW d \in Calls PROVE CallInv(d)'
  BY EndTypes DEF Inv, CallInv, db, Transferring
<1> QED BY <1>1, <1>2, TablesAlone DEF Inv

(* The gate hands a call to its handler. *)
LEMMA StartInv ==
  ASSUME Inv, NEW c \in Calls, NEW u \in Users, NEW s \in BOOLEAN,
         \/ \E m \in CreateOrganizationRequest : Start(c, u, s, m, "create")
         \/ \E m \in TransferOrganizationOwnershipRequest : Start(c, u, s, m, "transfer")
         \/ \E m \in CreateProjectRequest : Start(c, u, s, m, "project")
  PROVE  Inv'
<1>1. PICK m, at :
        /\ Start(c, u, s, m, at)
        /\ \/ m \in [slug : Orgs] /\ at = "create"
           \/ m \in [organization : Orgs, target : Users] /\ at = "transfer"
           \/ m \in [organization : Orgs] /\ at = "project"
  <2>1. CASE \E m \in CreateOrganizationRequest : Start(c, u, s, m, "create")
    <3>1. PICK m \in CreateOrganizationRequest : Start(c, u, s, m, "create")
      BY <2>1
    <3>2. "slug" \in DOMAIN m /\ m["slug"] = m.slug
      BY DEF CreateOrganizationRequest
    <3>3. m \in [slug : Orgs]
      BY <3>1, <3>2 DEF Start, CreateOrganizationRequest
    <3> QED BY <3>1, <3>3
  <2>2. CASE \E m \in TransferOrganizationOwnershipRequest : Start(c, u, s, m, "transfer")
    <3>1. PICK m \in TransferOrganizationOwnershipRequest : Start(c, u, s, m, "transfer")
      BY <2>2
    <3>2. "organization" \in DOMAIN m /\ "target" \in DOMAIN m
      BY DEF TransferOrganizationOwnershipRequest
    <3>3. m.organization # None /\ m.target # None
      BY <3>1, <3>2 DEF Start
    <3>4. m \in [organization : Orgs, target : Users]
      BY <3>3 DEF TransferOrganizationOwnershipRequest
    <3> QED BY <3>1, <3>4
  <2>3. CASE \E m \in CreateProjectRequest : Start(c, u, s, m, "project")
    <3>1. PICK m \in CreateProjectRequest : Start(c, u, s, m, "project")
      BY <2>3
    <3>2. "organization" \in DOMAIN m
      BY DEF CreateProjectRequest
    <3>3. m \in [organization : Orgs]
      BY <3>1, <3>2 DEF Start, CreateProjectRequest
    <3> QED BY <3>1, <3>3
  <2> QED BY <2>1, <2>2, <2>3
<1>2. m \in Request
  BY <1>1 DEF Request, CreateOrganizationRequest, TransferOrganizationOwnershipRequest,
              CreateProjectRequest
<1>3. TypeOK'
  BY <1>1, <1>2 DEF Inv, TypeOK, Start, db
<1>4. ASSUME NEW d \in Calls PROVE CallInv(d)'
  <2>1. CASE d = c
    BY <1>1, <2>1 DEF Inv, TypeOK, Start, CallInv, Transferring
  <2>2. CASE d # c
    BY <1>1, <2>2 DEF Inv, TypeOK, Start, CallInv, Transferring, db
  <2> QED BY <2>1, <2>2
<1> QED BY <1>1, <1>3, <1>4, TablesAlone DEF Inv, Start

(* The role is read, checked, and acted on up to the commit. *)
LEMMA LookInv ==
  ASSUME Inv, NEW c \in Calls,
         ReadRole(c) \/ CheckTransfer(c) \/ Demote(c) \/ Promote(c) \/ SudoLapses(c)
  PROVE  Inv'
<1>1. UNCHANGED db
  BY DEF ReadRole, CheckTransfer, Demote, Promote, SudoLapses
<1>2. CASE End(c)
  BY <1>1, <1>2, EndInv
<1> SUFFICES ASSUME ~End(c) PROVE Inv'
  BY <1>2
<1>3. \A d \in Calls : d # c => /\ pc'[d] = pc[d] /\ msg'[d] = msg[d]
                                /\ caller'[d] = caller[d] /\ role'[d] = role[d]
  BY DEF Inv, TypeOK, ReadRole, CheckTransfer, Demote, Promote, SudoLapses, Goto
<1>4. msg'[c] = msg[c] /\ caller'[c] = caller[c]
  BY DEF ReadRole, CheckTransfer, Demote, Promote, SudoLapses, Goto
<1>5. CASE ReadRole(c)
  <2>1. /\ msg[c].organization \in Orgs /\ caller[c] \in Users
        /\ member[msg[c].organization][caller[c]] # None
        /\ msg[c].organization \in created
    BY <1>5 DEF ReadRole, Org, Inv, CallInv, Transferring, MemberInv
  <2>2. TypeOK'
    BY <1>1, <1>5, <2>1 DEF ReadRole, Org, Goto, Inv, TypeOK, db
  <2>3. CallInv(c)'
    BY <1>1, <1>4, <1>5, <2>1 DEF ReadRole, Org, Goto, Inv, TypeOK, CallInv, Transferring, db
  <2> QED BY <1>1, <1>3, <2>2, <2>3, TablesAlone DEF Inv, CallInv, db, Transferring
<1>6. CASE CheckTransfer(c)
  <2>1. TypeOK'
    BY <1>1, <1>6 DEF CheckTransfer, Goto, Inv, TypeOK, db
  <2>2. CallInv(c)'
    BY <1>1, <1>4, <1>6 DEF CheckTransfer, Goto, Inv, TypeOK, CallInv, Transferring, db
  <2> QED BY <1>1, <1>3, <2>1, <2>2, TablesAlone DEF Inv, CallInv, db, Transferring
<1>7. CASE Demote(c)
  <2>1. Org(c) \in Orgs /\ caller[c] \in Users
    BY <1>7 DEF Demote, Org, Inv, CallInv, Transferring
  <2>2. TypeOK'
    BY <1>1, <1>7, <2>1 DEF Demote, Row, Goto, Inv, TypeOK, db
  <2>3. CallInv(c)'
    BY <1>1, <1>4, <1>7 DEF Demote, Goto, Inv, TypeOK, CallInv, Transferring, db
  <2> QED BY <1>1, <1>3, <2>2, <2>3, TablesAlone DEF Inv, CallInv, db, Transferring
<1>8. CASE Promote(c)
  <2>1. Org(c) \in Orgs /\ msg[c].target \in Users
    BY <1>8 DEF Promote, Org, Inv, CallInv, Transferring
  <2>2. TypeOK'
    <3>1. Row(c, msg[c].target) \subseteq Orgs \X Users
      BY <2>1 DEF Row
    <3> HIDE DEF Row
    <3> QED BY <1>1, <1>8, <3>1 DEF Promote, Goto, Inv, TypeOK, db
  <2>3. CallInv(c)'
    BY <1>1, <1>4, <1>8
       DEF Promote, TargetFound, Org, Goto, Inv, TypeOK, CallInv, Transferring, db
  <2> QED BY <1>1, <1>3, <2>2, <2>3, TablesAlone DEF Inv, CallInv, db, Transferring
<1>9. CASE SudoLapses(c)
  <2>1. TypeOK'
    BY <1>1, <1>9 DEF SudoLapses, Inv, TypeOK, db
  <2> QED BY <1>1, <1>9, <2>1, TablesAlone DEF SudoLapses, Inv, CallInv, db, Transferring
<1> QED BY <1>5, <1>6, <1>7, <1>8, <1>9

(* A change of the tables that adds an organization with an owner, a member, *)
(* or moves a role within geologist and above keeps what calls have seen.    *)
LEMMA OthersKeep ==
  ASSUME Inv, NEW d \in Calls,
         pc'[d] = pc[d], msg'[d] = msg[d], caller'[d] = caller[d], role'[d] = role[d],
         created \subseteq created',
         \A o \in Orgs, u \in Users : o \in created =>
           /\ member[o][u] # None => member'[o][u] # None
           /\ RoleRank(member[o][u]) >= 20 => RoleRank(member'[o][u]) >= 20
  PROVE  CallInv(d)'
BY DEF Inv, CallInv, Transferring

LEMMA CreateOrganizationInv ==
  ASSUME Inv, NEW c \in Calls, CreateOrganization(c) PROVE Inv'
<1> DEFINE o == msg[c].slug
<1>1. o \in Orgs /\ caller[c] \in Users
  BY DEF CreateOrganization, Inv, CallInv
<1>2. CASE UNCHANGED <<created, member>>
  BY <1>2, EndInv DEF CreateOrganization, db
<1>3. CASE /\ o \notin created /\ created' = created \cup {o}
           /\ member' = [member EXCEPT ![o] = Founders(c)]
  <2>1. Founders(c) \in [Users -> TenantRole \cup {None}] /\ Founders(c)[caller[c]] = "owner"
    BY <1>1 DEF Founders, TenantRole
  <2> HIDE DEF Founders
  <2>2. TypeOK'
    BY <1>1, <1>3, <2>1, EndTypes DEF CreateOrganization, Inv, TypeOK
  <2>3. \A p \in Orgs : p # o => member'[p] = member[p]
    BY <1>3 DEF Inv, TypeOK
  <2>4. member'[o] = Founders(c)
    BY <1>1, <1>3 DEF Inv, TypeOK
  <2>5. NeverOwnerless'
    <3> SUFFICES ASSUME NEW p \in created' PROVE \E u \in Users : member'[p][u] = "owner"
      BY DEF NeverOwnerless, Owners
    <3>1. CASE p = o
      BY <1>1, <2>1, <2>4, <3>1
    <3>2. CASE p # o
      BY <1>3, <2>3, <3>2 DEF Inv, TypeOK, NeverOwnerless, Owners
    <3> QED BY <3>1, <3>2
  <2>6. ProjectsByGeologists'
    BY <1>3, <2>3 DEF CreateOrganization, Inv, TypeOK, ProjectsByGeologists
  <2>7. MemberInv'
    BY <1>3, <2>3 DEF Inv, MemberInv
  <2>8. ASSUME NEW d \in Calls PROVE CallInv(d)'
    <3>1. CASE d = c
      BY <3>1, EndTypes DEF CreateOrganization, CallInv, Transferring
    <3>2. CASE d # c
      BY <1>3, <2>3, <3>2, EndTypes, OthersKeep DEF CreateOrganization
    <3> QED BY <3>1, <3>2
  <2> QED BY <2>2, <2>5, <2>6, <2>7, <2>8 DEF Inv
<1> QED BY <1>2, <1>3 DEF CreateOrganization

(* A committed transfer: the target owns what the caller may have owned. *)
LEMMA CommitInv == ASSUME Inv, NEW c \in Calls, Commit(c) PROVE Inv'
<1> DEFINE o == msg[c].organization
           u == caller[c]
           t == msg[c].target
<1>1. /\ o \in Orgs /\ o \in created /\ u \in Users /\ t \in Users
      /\ member[o][u] # None /\ member[o][t] # None
  BY DEF Commit, Inv, CallInv, Transferring
<1>2. member' = [member EXCEPT ![o] = Moved(@, u, t)]
  BY DEF Commit, Org
<1>3. member[o] \in [Users -> TenantRole \cup {None}]
  BY <1>1 DEF Inv, TypeOK
<1>4. /\ Moved(member[o], u, t) \in [Users -> TenantRole \cup {None}]
      /\ Moved(member[o], u, t)[t] = "owner"
      /\ \A v \in Users : Moved(member[o], u, t)[v] \in {member[o][v], "admin", "owner"}
  BY <1>1, <1>3, MovedIs DEF TenantRole
<1> HIDE DEF o, u, t
<1>5. /\ member'[o] = Moved(member[o], u, t)
      /\ \A p \in Orgs : p # o => member'[p] = member[p]
      /\ member' \in [Orgs -> [Users -> TenantRole \cup {None}]]
  BY <1>1, <1>2, <1>4 DEF Inv, TypeOK
<1>6. \A p \in Orgs, v \in Users :
        /\ member[p][v] # None => member'[p][v] # None
        /\ RoleRank(member[p][v]) >= 20 => RoleRank(member'[p][v]) >= 20
        /\ member'[p][v] # None => member[p][v] # None \/ p = o
  BY <1>4, <1>5, Ranks, TenancyAssumption DEF TenantRole
<1>7. TypeOK'
  BY <1>5, EndTypes DEF Commit, Inv, TypeOK
<1>8. NeverOwnerless'
  <2> SUFFICES ASSUME NEW p \in created PROVE \E v \in Users : member'[p][v] = "owner"
    BY DEF Commit, NeverOwnerless, Owners
  <2>1. CASE p = o
    BY <1>1, <1>4, <1>5, <2>1
  <2>2. CASE p # o
    BY <1>5, <2>2 DEF Inv, TypeOK, NeverOwnerless, Owners
  <2> QED BY <2>1, <2>2
<1>9. ProjectsByGeologists'
  <2> SUFFICES ASSUME NEW p \in projects
               PROVE  /\ p.organization \in created
                      /\ RoleRank(member'[p.organization][p.by]) >= 20
    BY Ranks DEF Commit, ProjectsByGeologists
  <2>1. p.organization \in Orgs /\ p.by \in Users
    BY DEF Inv, TypeOK, ProjectSummary
  <2>2. p.organization \in created /\ RoleRank(member[p.organization][p.by]) >= 20
    BY Ranks DEF Inv, ProjectsByGeologists
  <2> QED BY <1>6, <2>1, <2>2
<1>10. MemberInv'
  BY <1>1, <1>6 DEF Commit, Inv, MemberInv
<1>11. ASSUME NEW d \in Calls PROVE CallInv(d)'
  <2>1. CASE d = c
    BY <2>1, EndTypes DEF Commit, CallInv, Transferring
  <2>2. CASE d # c
    BY <1>6, <2>2, EndTypes, OthersKeep DEF Commit
  <2> QED BY <2>1, <2>2
<1> QED BY <1>7, <1>8, <1>9, <1>10, <1>11 DEF Inv

LEMMA CreateProjectInv == ASSUME Inv, NEW c \in Calls, CreateProject(c) PROVE Inv'
<1>1. CASE UNCHANGED projects
  BY <1>1, EndInv DEF CreateProject, db
<1>2. CASE RankSuffices(c) /\ projects' = projects \cup {[organization |-> Org(c), by |-> caller[c]]}
  <2>1. /\ Org(c) \in Orgs /\ Org(c) \in created /\ caller[c] \in Users
        /\ RoleRank(member[Org(c)][caller[c]]) >= 20
    BY <1>2, Ranks DEF CreateProject, RankSuffices, Org, Inv, CallInv
  <2>2. TypeOK'
    BY <1>2, <2>1, EndTypes DEF CreateProject, Inv, TypeOK, ProjectSummary
  <2>3. NeverOwnerless' /\ MemberInv'
    BY DEF CreateProject, Inv, NeverOwnerless, Owners, MemberInv
  <2>4. ProjectsByGeologists'
    BY <1>2, <2>1, Ranks DEF CreateProject, Inv, ProjectsByGeologists
  <2>5. ASSUME NEW d \in Calls PROVE CallInv(d)'
    BY EndTypes DEF CreateProject, Inv, CallInv, Transferring
  <2> QED BY <2>2, <2>3, <2>4, <2>5 DEF Inv
<1> QED BY <1>1, <1>2 DEF CreateProject

LEMMA JoinInv ==
  ASSUME Inv, NEW o \in Orgs, NEW u \in Users, NEW r \in Joins, Join(o, u, r) PROVE Inv'
<1>1. r \in TenantRole \ {"owner"} /\ r # None
  BY TenancyAssumption
<1>2. /\ \A p \in Orgs, v \in Users : p # o \/ v # u => member'[p][v] = member[p][v]
      /\ member'[o][u] = r /\ member[o][u] = None
  BY DEF Join, Inv, TypeOK
<1>3. TypeOK'
  BY <1>1 DEF Join, Inv, TypeOK, call
<1>4. NeverOwnerless'
  <2> SUFFICES ASSUME NEW p \in created PROVE \E v \in Users : member'[p][v] = "owner"
    BY DEF Join, NeverOwnerless, Owners
  <2>1. PICK v \in Users : member[p][v] = "owner"
    BY DEF Inv, NeverOwnerless, Owners
  <2>2. p # o \/ v # u
    BY <1>2, <2>1, TenancyAssumption DEF TenantRole
  <2> QED BY <1>2, <2>1, <2>2 DEF Inv, TypeOK
<1>5. \A p \in Orgs, v \in Users :
        /\ member[p][v] # None => member'[p][v] # None
        /\ RoleRank(member[p][v]) >= 20 => RoleRank(member'[p][v]) >= 20
  BY <1>1, <1>2, Ranks
<1>6. ProjectsByGeologists'
  <2> SUFFICES ASSUME NEW p \in projects
               PROVE  /\ p.organization \in created
                      /\ RoleRank(member'[p.organization][p.by]) >= 20
    BY Ranks DEF Join, ProjectsByGeologists
  <2>1. p.organization \in Orgs /\ p.by \in Users
    BY DEF Inv, TypeOK, ProjectSummary
  <2>2. p.organization \in created /\ RoleRank(member[p.organization][p.by]) >= 20
    BY Ranks DEF Inv, ProjectsByGeologists
  <2> QED BY <1>5, <2>1, <2>2
<1>7. MemberInv'
  BY <1>2 DEF Join, Inv, MemberInv
<1>8. ASSUME NEW d \in Calls PROVE CallInv(d)'
  BY <1>5, OthersKeep DEF Join, call
<1> QED BY <1>3, <1>4, <1>6, <1>7, <1>8 DEF Inv

LEMMA StepInv == ASSUME Inv, [Next]_vars PROVE Inv'
<1>1. ASSUME NEW c \in Calls, NEW u \in Users, NEW s \in BOOLEAN,
             \/ \E m \in CreateOrganizationRequest : Start(c, u, s, m, "create")
             \/ \E m \in TransferOrganizationOwnershipRequest : Start(c, u, s, m, "transfer")
             \/ \E m \in CreateProjectRequest : Start(c, u, s, m, "project")
      PROVE  Inv'
  BY <1>1, StartInv
<1>2. ASSUME NEW c \in Calls, SudoLapses(c) \/ Step(c) \/ Demote(c) \/ Promote(c) \/ Fail(c)
      PROVE  Inv'
  <2>1. CASE Fail(c) \/ Cancel(c)
    BY <2>1, EndInv DEF Fail, Cancel
  <2> QED BY <1>2, <2>1, LookInv, CreateOrganizationInv, CommitInv, CreateProjectInv DEF Step
<1>3. ASSUME NEW o \in Orgs, NEW u \in Users, NEW r \in Joins, Join(o, u, r) PROVE Inv'
  BY <1>3, JoinInv
<1>4. CASE UNCHANGED vars
  <2>1. UNCHANGED db /\ UNCHANGED call
    BY <1>4 DEF vars, db, call
  <2>2. TypeOK' /\ \A c \in Calls : CallInv(c)'
    BY <2>1 DEF Inv, TypeOK, CallInv, Transferring, db, call
  <2> QED BY <2>1, <2>2, TablesAlone DEF Inv
<1> QED BY <1>1, <1>2, <1>3, <1>4 DEF Next

LEMMA Invariance == Spec => []Inv
<1>1. Inv /\ [Next]_vars => Inv'
  BY StepInv
<1> QED BY InitInv, <1>1, PTL DEF Spec

(* The types of tables, requests and calls. *)
THEOREM TypeCorrect == Spec => []TypeOK
<1>1. Inv => TypeOK
  BY DEF Inv
<1> QED BY Invariance, <1>1, PTL

(* However transfers cross, an organization keeps an owner. *)
THEOREM AlwaysOwned == Spec => []NeverOwnerless
<1>1. Inv => NeverOwnerless
  BY DEF Inv
<1> QED BY Invariance, <1>1, PTL

(* A role that was sufficient when it was read is still sufficient. *)
THEOREM ProjectsStayByGeologists == Spec => []ProjectsByGeologists
<1>1. Inv => ProjectsByGeologists
  BY DEF Inv
<1> QED BY Invariance, <1>1, PTL

(* Row locks: an update takes a row only when nobody else has it. *)
LEMMA LocksStep == ASSUME Inv, RowsLockedOnce, [Next]_vars PROVE RowsLockedOnce'
<1>1. ASSUME NEW c \in Calls, End(c) PROVE RowsLockedOnce'
  BY <1>1 DEF End, Released, Inv, TypeOK, RowsLockedOnce
<1>2. ASSUME NEW c \in Calls, NEW u, NEW s, NEW m, NEW at,
             Start(c, u, s, m, at), at \notin {"promote", "commit"}
      PROVE  RowsLockedOnce'
  BY <1>2 DEF Start, Inv, TypeOK, RowsLockedOnce
<1>3. ASSUME NEW c \in Calls, Demote(c) PROVE RowsLockedOnce'
  <2>1. \A d \in Calls : d # c => held[d] \cap Row(c, caller[c]) = {}
    BY <1>3 DEF Demote, Blockers
  <2> QED BY <1>3, <2>1 DEF Demote, Goto, Inv, TypeOK, RowsLockedOnce
<1>4. ASSUME NEW c \in Calls, Promote(c), ~End(c) PROVE RowsLockedOnce'
  <2>1. \A d \in Calls : d # c => held[d] \cap Row(c, msg[c].target) = {}
    BY <1>4 DEF Promote, Blockers
  <2> QED BY <1>4, <2>1 DEF Promote, Goto, Inv, TypeOK, RowsLockedOnce
<1>5. ASSUME NEW c \in Calls, ReadRole(c) \/ CheckTransfer(c) \/ SudoLapses(c), ~End(c)
      PROVE  RowsLockedOnce'
  BY <1>5 DEF ReadRole, CheckTransfer, SudoLapses, Goto, Inv, TypeOK, RowsLockedOnce
<1>6. CASE UNCHANGED call
  BY <1>6 DEF call, RowsLockedOnce
<1>7. \/ UNCHANGED call
      \/ \E c \in Calls : \/ End(c) \/ Demote(c) \/ (Promote(c) /\ ~End(c))
                          \/ ((ReadRole(c) \/ CheckTransfer(c) \/ SudoLapses(c)) /\ ~End(c))
      \/ \E c \in Calls, u \in Users, s \in BOOLEAN, m \in Request :
           \/ Start(c, u, s, m, "create") \/ Start(c, u, s, m, "transfer")
           \/ Start(c, u, s, m, "project")
  BY DEF Next, vars, Step, CreateOrganization, Commit, CreateProject, Cancel, Fail, Join, Request
<1> QED BY <1>1, <1>2, <1>3, <1>4, <1>5, <1>6, <1>7

(* A row is locked once, and no call that has ended holds one. *)
THEOREM LocksAreSound == Spec => []RowsLockedOnce
<1>1. Init => RowsLockedOnce
  BY DEF Init, RowsLockedOnce
<1>2. Inv /\ RowsLockedOnce /\ [Next]_vars => RowsLockedOnce'
  BY LocksStep
<1> QED BY Invariance, <1>1, <1>2, PTL DEF Spec

(* No group of calls can wait for ever: who blocks a call holds a row, so it *)
(* is about to promote or to commit, and calls that all wait to promote are  *)
(* the cycle that PostgreSQL looks for.                                      *)
THEOREM WaitsAreBroken == Spec => []SomebodyMoves
<1>1. RowsLockedOnce => SomebodyMoves
  <2> SUFFICES ASSUME RowsLockedOnce, NEW D \in SUBSET Calls, D # {},
                      \A d \in D : pc[d] # "idle" /\ Waiting(d) \subseteq D,
                      \A d \in D : Waiting(d) # {}
               PROVE  \E d \in D : Deadlocked(d)
    BY DEF SomebodyMoves
  <2> DEFINE S == {d \in D : pc[d] = "promote"}
  <2>1. \A d \in D : pc[d] \in {"demote", "promote"}
    BY DEF Waiting
  <2>2. ASSUME NEW d \in D PROVE \E e \in S : e \in Waiting(d)
    <3>1. PICK e \in D : e \in Waiting(d)
      OBVIOUS
    <3>2. held[e] # {} /\ e \in Calls
      BY <3>1 DEF Waiting, Blockers
    <3>3. pc[e] \in {"promote", "commit"}
      BY <3>2 DEF RowsLockedOnce
    <3> QED BY <2>1, <3>1, <3>3
  <2>3. \A d \in S : \E e \in S : WaitsFor(d, e)
    BY <2>2 DEF Waiting, WaitsFor
  <2>4. PICK d \in S : TRUE
    BY <2>2
  <2>5. Deadlocked(d)
    <3>1. S \in SUBSET Calls
      OBVIOUS
    <3> HIDE DEF S
    <3> QED BY <2>3, <2>4, <3>1 DEF Deadlocked
  <2> QED BY <2>4, <2>5
<1> QED BY LocksAreSound, <1>1, PTL

(* Owners are counted: a transfer adds its target and, unless the caller has *)
(* been demoted since, takes the caller.                                     *)
OwnersInv == \A o \in Orgs : IsFiniteSet(Owners(o))

RoleInv == \A c \in Calls : pc[c] \in {"demote", "promote", "commit"} => role[c] = "owner"

(* What a step does to the owners of an organization that exists. *)
LEMMA OwnersStep ==
  ASSUME Inv, OwnersInv, [Next]_vars, NEW o \in Orgs
  PROVE  \/ Owners(o)' = Owners(o)
         \/ o \notin created /\ IsFiniteSet(Owners(o)')
         \/ \E c \in Calls : /\ Commit(c) /\ Org(c) = o
                             /\ caller[c] \in Users /\ msg[c].target \in Users
                             /\ Owners(o)' = (Owners(o) \ {caller[c]}) \cup {msg[c].target}
<1>1. member \in [Orgs -> [Users -> TenantRole \cup {None}]]
  BY DEF Inv, TypeOK
<1>2. CASE UNCHANGED member
  BY <1>2 DEF Owners
<1>3. ASSUME NEW c \in Calls, CreateOrganization(c), ~UNCHANGED member
      PROVE  Owners(o)' = Owners(o) \/ (o \notin created /\ IsFiniteSet(Owners(o)'))
  <2>1. CASE o # msg[c].slug
    BY <1>1, <1>3, <2>1 DEF CreateOrganization, Owners
  <2>2. CASE o = msg[c].slug
    <3>1. o \notin created /\ member'[o] = Founders(c)
      BY <1>1, <1>3, <2>2 DEF CreateOrganization
    <3>2. Owners(o)' \subseteq {caller[c]}
      BY <3>1, TenancyAssumption DEF Owners, Founders, TenantRole
    <3>3. IsFiniteSet({caller[c]})
      BY FS_Singleton
    <3> QED BY <3>1, <3>2, <3>3, FS_Subset
  <2> QED BY <2>1, <2>2
<1>4. ASSUME NEW c \in Calls, Commit(c), Org(c) # o
      PROVE  Owners(o)' = Owners(o)
  BY <1>1, <1>4 DEF Commit, Owners
<1>5. ASSUME NEW c \in Calls, Commit(c), Org(c) = o
      PROVE  /\ caller[c] \in Users /\ msg[c].target \in Users
             /\ Owners(o)' = (Owners(o) \ {caller[c]}) \cup {msg[c].target}
  <2>1. /\ caller[c] \in Users /\ msg[c].target \in Users
        /\ member[o][caller[c]] # None /\ member[o][msg[c].target] # None
    BY <1>5 DEF Commit, Inv, CallInv, Transferring, Org
  <2>2. member'[o] = Moved(member[o], caller[c], msg[c].target)
    BY <1>1, <1>5 DEF Commit
  <2>3. \A v \in Users : member'[o][v] = IF v = msg[c].target THEN "owner"
                                         ELSE IF v = caller[c] THEN "admin" ELSE member[o][v]
    BY <1>1, <2>1, <2>2, MovedIs
  <2> QED BY <2>1, <2>3 DEF Owners
<1>6. ASSUME NEW p \in Orgs, NEW w \in Users, NEW r \in Joins, Join(p, w, r)
      PROVE  Owners(o)' = Owners(o)
  <2>1. r # "owner" /\ None # "owner"
    BY TenancyAssumption DEF TenantRole
  <2> QED BY <1>1, <1>6, <2>1 DEF Join, Owners
<1>7. \/ UNCHANGED member
      \/ \E c \in Calls : CreateOrganization(c) \/ Commit(c)
      \/ \E p \in Orgs, w \in Users, r \in Joins : Join(p, w, r)
  BY DEF Next, vars, db, Start, SudoLapses, Step, ReadRole, CheckTransfer, CreateProject,
         Cancel, Demote, Promote, Fail
<1> HIDE DEF Owners
<1> QED BY <1>2, <1>3, <1>4, <1>5, <1>6, <1>7

LEMMA OwnersFinite == ASSUME Inv, OwnersInv, [Next]_vars PROVE OwnersInv'
<1> SUFFICES ASSUME NEW o \in Orgs PROVE IsFiniteSet(Owners(o)')
  BY DEF OwnersInv, Owners
<1>1. IsFiniteSet(Owners(o))
  BY DEF OwnersInv
<1>2. ASSUME NEW u, NEW t PROVE IsFiniteSet((Owners(o) \ {u}) \cup {t})
  <2>1. IsFiniteSet(Owners(o) \ {u})
    BY <1>1, FS_Subset
  <2> QED BY <2>1, FS_AddElement
<1>3. CASE Owners(o)' = Owners(o)
  BY <1>1, <1>3
<1>4. ASSUME NEW c \in Calls, Owners(o)' = (Owners(o) \ {caller[c]}) \cup {msg[c].target}
      PROVE  IsFiniteSet(Owners(o)')
  <2>1. IsFiniteSet((Owners(o) \ {caller[c]}) \cup {msg[c].target})
    BY <1>2
  <2> QED BY <1>4, <2>1
<1> QED BY <1>3, <1>4, OwnersStep

(* Only the check, with the role it has just found to be "owner", leads to a *)
(* transfer's updates.                                                       *)
LEMMA RoleStep == ASSUME Inv, RoleInv, [Next]_vars PROVE RoleInv'
<1> USE DEF RoleInv
<1>1. ASSUME NEW c \in Calls, End(c) PROVE RoleInv'
  BY <1>1 DEF End, Inv, TypeOK
<1>2. ASSUME NEW c \in Calls, NEW u, NEW s, NEW m, NEW at,
             Start(c, u, s, m, at), at \in {"create", "transfer", "project"}
      PROVE  RoleInv'
  BY <1>2 DEF Start, Inv, TypeOK
<1>3. ASSUME NEW c \in Calls, ReadRole(c), ~End(c) PROVE RoleInv'
  BY <1>3 DEF ReadRole, Goto, Inv, TypeOK
<1>4. ASSUME NEW c \in Calls, CheckTransfer(c), ~End(c) PROVE RoleInv'
  BY <1>4 DEF CheckTransfer, CanTransferOwnership, Goto, Inv, TypeOK
<1>5. ASSUME NEW c \in Calls, Demote(c) \/ (Promote(c) /\ ~End(c)) PROVE RoleInv'
  BY <1>5 DEF Demote, Promote, Goto, Inv, TypeOK
<1>6. CASE UNCHANGED <<pc, role>>
  BY <1>6
<1>7. \/ UNCHANGED <<pc, role>>
      \/ \E c \in Calls : \/ End(c) \/ Demote(c) \/ (Promote(c) /\ ~End(c))
                          \/ ((ReadRole(c) \/ CheckTransfer(c)) /\ ~End(c))
      \/ \E c \in Calls, u \in Users, s \in BOOLEAN, m \in Request :
           \/ Start(c, u, s, m, "create") \/ Start(c, u, s, m, "transfer")
           \/ Start(c, u, s, m, "project")
  BY DEF Next, vars, call, Step, CreateOrganization, Commit, CreateProject, Cancel, Fail,
         Join, SudoLapses, Request
<1> QED BY <1>1, <1>2, <1>3, <1>4, <1>5, <1>6, <1>7

LEMMA OwnersInvariance == Spec => [](Inv /\ OwnersInv /\ RoleInv)
<1>1. Init => OwnersInv /\ RoleInv
  <2> SUFFICES ASSUME Init, NEW o \in Orgs PROVE IsFiniteSet(Owners(o))
    BY DEF Init, OwnersInv, RoleInv
  <2>1. Owners(o) = {}
    BY TenancyAssumption DEF Init, Owners, TenantRole
  <2> QED BY <2>1, FS_EmptySet
<1>2. Inv /\ OwnersInv /\ RoleInv /\ [Next]_vars => OwnersInv' /\ RoleInv'
  BY OwnersFinite, RoleStep
<1> QED BY Invariance, <1>1, <1>2, PTL DEF Spec

(* Replacing an owner by somebody does not make them more. *)
LEMMA Replaced ==
  ASSUME NEW S, IsFiniteSet(S), NEW u \in S, NEW t
  PROVE  Cardinality((S \ {u}) \cup {t}) <= Cardinality(S)
<1>1. /\ IsFiniteSet(S \ {u}) /\ Cardinality(S \ {u}) = Cardinality(S) - 1
      /\ Cardinality(S) \in Nat
  BY FS_RemoveElement, FS_CardinalityType
<1>2. \/ Cardinality((S \ {u}) \cup {t}) = Cardinality(S \ {u})
      \/ Cardinality((S \ {u}) \cup {t}) = Cardinality(S \ {u}) + 1
  BY <1>1, FS_AddElement
<1> QED BY <1>1, <1>2

(* An organization has more owners than before only because the call that    *)
(* commits a transfer looked its caller's role up before another demoted it. *)
THEOREM MoreOwnersByStaleRole == Spec => OwnersGrowByStaleRole
<1>1. ASSUME Inv, OwnersInv, RoleInv, [Next]_vars, NEW o \in created,
             Cardinality(Owners(o)') > Cardinality(Owners(o))
      PROVE  \E c \in Calls : /\ pc[c] = "commit" /\ pc'[c] = "idle" /\ Org(c) = o
                              /\ role[c] = "owner" /\ member[o][caller[c]] # "owner"
  <2>1. o \in Orgs /\ IsFiniteSet(Owners(o))
    BY <1>1 DEF Inv, TypeOK, OwnersInv
  <2>2. Cardinality(Owners(o)) \in Nat
    BY <2>1, FS_CardinalityType
  <2>3. PICK c \in Calls : /\ Commit(c) /\ Org(c) = o /\ caller[c] \in Users
                           /\ Owners(o)' = (Owners(o) \ {caller[c]}) \cup {msg[c].target}
    BY <1>1, <2>1, <2>2, OwnersStep
  <2>4. pc[c] = "commit" /\ pc'[c] = "idle" /\ role[c] = "owner"
    BY <1>1, <2>3 DEF Commit, End, RoleInv, Inv, TypeOK
  <2>5. caller[c] \notin Owners(o)
    <3> SUFFICES ASSUME caller[c] \in Owners(o)
                 PROVE  Cardinality(Owners(o)') <= Cardinality(Owners(o))
      <4>1. IsFiniteSet(Owners(o)')
        BY <1>1, OwnersFinite, <2>1 DEF OwnersInv, Owners
      <4>2. Cardinality(Owners(o)') \in Nat
        BY <4>1, FS_CardinalityType
      <4> QED BY <1>1, <2>2, <4>2
    <3> QED BY <2>1, <2>3, Replaced
  <2> QED BY <2>3, <2>4, <2>5 DEF Owners
<1>2. Inv /\ OwnersInv /\ RoleInv /\ [Next]_vars =>
        [\A o \in created :
           Cardinality(Owners(o)') > Cardinality(Owners(o)) =>
             \E c \in Calls : /\ pc[c] = "commit" /\ pc'[c] = "idle" /\ Org(c) = o
                              /\ role[c] = "owner" /\ member[o][caller[c]] # "owner"]_vars
  BY <1>1
<1> QED BY OwnersInvariance, <1>2, PTL DEF Spec, OwnersGrowByStaleRole

-----------------------------------------------------------------------------
(* The tables as the handlers leave them. *)

(* A caller that was found to be an owner still is, or has become an admin.  *)
FormerInv == \A c \in Calls :
  pc[c] \in {"check", "demote", "promote", "commit"} /\ role[c] = "owner" =>
    member[Org(c)][caller[c]] \in {"owner", "admin"}

(* Owners and admins of an organization remain owners or admins. *)
LEMMA LeadersStay ==
  ASSUME Inv, [Next]_vars, NEW o \in created, NEW u \in Users,
         member[o][u] \in {"owner", "admin"}
  PROVE  member'[o][u] \in {"owner", "admin"}
<1>1. o \in Orgs /\ member \in [Orgs -> [Users -> TenantRole \cup {None}]]
  BY DEF Inv, TypeOK
<1>2. CASE UNCHANGED member
  BY <1>2
<1>3. ASSUME NEW c \in Calls, CreateOrganization(c), ~UNCHANGED member
      PROVE  member'[o][u] = member[o][u]
  BY <1>1, <1>3 DEF CreateOrganization
<1>4. ASSUME NEW c \in Calls, Commit(c)
      PROVE  member'[o][u] \in {member[o][u], "owner", "admin"}
  BY <1>1, <1>4 DEF Commit, Moved, Updated
<1>5. ASSUME NEW p \in Orgs, NEW w \in Users, NEW r \in Joins, Join(p, w, r)
      PROVE  member'[o][u] = member[o][u]
  BY <1>1, <1>5, TenancyAssumption DEF Join, TenantRole
<1>6. \/ UNCHANGED member
      \/ \E c \in Calls : CreateOrganization(c) \/ Commit(c)
      \/ \E p \in Orgs, w \in Users, r \in Joins : Join(p, w, r)
  BY DEF Next, vars, db, Start, SudoLapses, Step, ReadRole, CheckTransfer, CreateProject,
         Cancel, Demote, Promote, Fail
<1> QED BY <1>2, <1>3, <1>4, <1>5, <1>6

LEMMA FormerStep == ASSUME Inv, FormerInv, [Next]_vars PROVE FormerInv'
<1> DEFINE At == {"check", "demote", "promote", "commit"}
<1> SUFFICES ASSUME NEW c \in Calls, pc'[c] \in At, role'[c] = "owner"
             PROVE  member'[msg'[c].organization][caller'[c]] \in {"owner", "admin"}
  BY DEF FormerInv, Org
<1> DEFINE Same == msg'[c] = msg[c] /\ caller'[c] = caller[c]
           Kept == pc[c] \in At /\ role[c] = "owner" /\ Same
           Read == ReadRole(c) /\ role'[c] = member[Org(c)][caller[c]] /\ Same
<1>1. CASE Kept
  <2>1. Org(c) \in created /\ caller[c] \in Users
    BY <1>1 DEF Inv, CallInv, Transferring, Org
  <2>2. member[Org(c)][caller[c]] \in {"owner", "admin"}
    BY <1>1 DEF FormerInv
  <2> QED BY <1>1, <2>1, <2>2, LeadersStay DEF Org
<1>2. CASE Read
  BY <1>2 DEF ReadRole, db, Org
<1>3. ASSUME NEW d \in Calls, End(d)
      PROVE  Kept
  BY <1>3 DEF End, Inv, TypeOK
<1>4. ASSUME NEW d \in Calls, NEW u, NEW s, NEW m, NEW at,
             Start(d, u, s, m, at), at \in {"create", "transfer", "project"}
      PROVE  Kept
  BY <1>4 DEF Start, Inv, TypeOK
<1>5. ASSUME NEW d \in Calls, ReadRole(d), ~End(d)
      PROVE  Kept \/ Read
  BY <1>5 DEF ReadRole, Goto, Inv, TypeOK
<1>6. ASSUME NEW d \in Calls,
             \/ SudoLapses(d) \/ Demote(d) \/ ((CheckTransfer(d) \/ Promote(d)) /\ ~End(d))
      PROVE  Kept
  BY <1>6 DEF SudoLapses, Demote, CheckTransfer, Promote, Goto, Inv, TypeOK
<1>7. CASE UNCHANGED call
  BY <1>1, <1>7 DEF call
<1>8. \/ UNCHANGED call
      \/ \E d \in Calls :
           \/ End(d) \/ (ReadRole(d) /\ ~End(d))
           \/ SudoLapses(d) \/ Demote(d) \/ ((CheckTransfer(d) \/ Promote(d)) /\ ~End(d))
      \/ \E d \in Calls, u \in Users, s \in BOOLEAN, m \in Request :
           \/ Start(d, u, s, m, "create") \/ Start(d, u, s, m, "transfer")
           \/ Start(d, u, s, m, "project")
  BY DEF Next, vars, Step, CreateOrganization, Commit, CreateProject, Cancel, Fail, Join, Request
<1> QED BY <1>1, <1>2, <1>3, <1>4, <1>5, <1>6, <1>7, <1>8

(* What a step does to the tables. *)
LEMMA TablesStep ==
  ASSUME Inv, RoleInv, FormerInv, [Next]_vars PROVE [Tables!Next]_db
<1>1. ASSUME NEW c \in Calls, CreateOrganization(c), ~UNCHANGED db
      PROVE  \E o \in Orgs, u \in Users : Tables!Found(o, u)
  <2>1. msg[c].slug \in Orgs /\ caller[c] \in Users
    BY <1>1 DEF CreateOrganization, Inv, CallInv
  <2>2. Tables!Found(msg[c].slug, caller[c])
    BY <1>1 DEF CreateOrganization, Founders, db, Tables!Found
  <2> QED BY <2>1, <2>2
<1>2. ASSUME NEW c \in Calls, Commit(c)
      PROVE  \E o \in Orgs, u, t \in Users : Tables!HandOver(o, u, t)
  <2>1. /\ Org(c) \in Orgs /\ Org(c) \in created
        /\ caller[c] \in Users /\ msg[c].target \in Users
        /\ member[Org(c)][caller[c]] # None /\ member[Org(c)][msg[c].target] # None
        /\ member[Org(c)] \in [Users -> TenantRole \cup {None}]
    BY <1>2 DEF Commit, Inv, TypeOK, CallInv, Transferring, Org
  <2>2. member[Org(c)][caller[c]] \in {"owner", "admin"}
    BY <1>2 DEF Commit, RoleInv, FormerInv
  <2>3. Tables!HandOver(Org(c), caller[c], msg[c].target)
    BY <1>2, <2>1, <2>2, MovedIs DEF Commit, Tables!HandOver
  <2> QED BY <2>1, <2>3
<1>3. ASSUME NEW c \in Calls, CreateProject(c), ~UNCHANGED db
      PROVE  \E o \in Orgs, u \in Users : Tables!AddProject(o, u)
  <2>1. /\ Org(c) \in Orgs /\ Org(c) \in created /\ caller[c] \in Users
        /\ RoleRank(member[Org(c)][caller[c]]) >= 20
    BY <1>3, Ranks DEF CreateProject, RankSuffices, Org, Inv, CallInv, db
  <2>2. member[Org(c)][caller[c]] \in TenantRole \cup {None}
    BY <2>1 DEF Inv, TypeOK
  <2>3. member[Org(c)][caller[c]] \in {"owner", "admin", "geologist"}
    BY <2>1, <2>2, Ranks DEF TenantRole
  <2>4. Tables!AddProject(Org(c), caller[c])
    BY <1>3, <2>1, <2>3 DEF CreateProject, db, Tables!AddProject
  <2> QED BY <2>1, <2>4
<1>4. ASSUME NEW o \in Orgs, NEW u \in Users, NEW r \in Joins, Join(o, u, r)
      PROVE  Tables!Join(o, u)
  BY <1>4 DEF Join, Tables!Join
<1>5. \/ UNCHANGED db
      \/ \E c \in Calls : CreateOrganization(c) \/ Commit(c) \/ CreateProject(c)
      \/ \E o \in Orgs, u \in Users, r \in Joins : Join(o, u, r)
  BY DEF Next, vars, db, Start, SudoLapses, Step, ReadRole, CheckTransfer, Cancel, Demote,
         Promote, Fail
<1> QED BY <1>1, <1>2, <1>3, <1>4, <1>5 DEF Tables!Next

(* The handlers implement tables that change at once: what they do over      *)
(* several queries, with roles that may be out of date, with locks, failures *)
(* and crossing calls, is seen from the tables a change they warrant.        *)
THEOREM HandlersActAtOnce == Spec => TablesChangeAtOnce
<1>1. Init => Tables!Init /\ FormerInv
  BY DEF Init, Tables!Init, FormerInv
<1>2. Inv /\ FormerInv /\ [Next]_vars => FormerInv'
  BY FormerStep
<1>3. Inv /\ RoleInv /\ FormerInv /\ [Next]_vars =>
        [Tables!Next]_<<member, created, projects>>
  BY TablesStep DEF db
<1> QED BY <1>1, <1>2, <1>3, OwnersInvariance, PTL DEF Spec, TablesChangeAtOnce, Tables!Spec
=============================================================================
