------------------------------ MODULE Tenancy -------------------------------
(***************************************************************************)
(* Organizations, their members and projects (internal/tenant), several    *)
(* calls at a time.  A handler looks the caller's role up in one query and *)
(* acts on it in a later transaction (db.WithTenantTx), so that the role   *)
(* may have changed in between; the transaction itself locks the rows it   *)
(* updates until it ends, and PostgreSQL breaks a cycle of waiting calls.  *)
(*                                                                         *)
(* A call that is refused at once (no identity, an empty field) and one    *)
(* that only reads leave no trace; a commit whose answer is lost looks to  *)
(* the database like any other.  An organization is known by its slug.     *)
(***************************************************************************)
EXTENDS Integers, FiniteSets

CONSTANTS
  Orgs, Users,
  Calls,       \* RPCs in progress
  Joins,       \* roles members are given when they join
  MaxProjects, \* bound: projects created
  None         \* no role, no user, no organization, an empty field

TenantRole == {"owner", "admin", "geologist", "viewer"}

ASSUME TenancyAssumption ==
  /\ Joins \subseteq TenantRole \ {"owner"}
  /\ None \notin Orgs \cup Users \cup TenantRole
  /\ MaxProjects \in Nat

VARIABLES
  member,   \* organization_members: the role of a user in an organization
  created,  \* organizations
  projects, \* projects: the organization and the user each was created by
  pc,       \* how far the handler of a call is
  msg,      \* its request
  caller,   \* auth.Identity: the user ...
  sudo,     \* ... and whether the sudo window is still open
  role,     \* the role getCallerRole returned
  held      \* rows of organization_members its transaction has updated

db   == <<member, created, projects>>
call == <<pc, msg, caller, sudo, role, held>>
vars == <<db, call>>

(* The requests. *)
CreateOrganizationRequest == [slug : Orgs \cup {None}]
TransferOrganizationOwnershipRequest ==
  [organization : Orgs \cup {None}, target : Users \cup {None}]
CreateProjectRequest == [organization : Orgs \cup {None}]

ProjectSummary == [organization : Orgs, by : Users]

Request == CreateOrganizationRequest \cup TransferOrganizationOwnershipRequest
             \cup CreateProjectRequest

(* auth.RoleRank; 0 for a role nobody knows. *)
RoleRank(r) == CASE r = "owner" -> 40 [] r = "admin" -> 30 [] r = "geologist" -> 20
                 [] r = "viewer" -> 10 [] OTHER -> 0

-----------------------------------------------------------------------------
Init ==
  /\ member   = [o \in Orgs |-> [u \in Users |-> None]]
  /\ created  = {}
  /\ projects = {}
  /\ pc       = [c \in Calls |-> "idle"]
  /\ msg      = [c \in Calls |-> None]
  /\ caller   = [c \in Calls |-> None]
  /\ sudo     = [c \in Calls |-> FALSE]
  /\ role     = [c \in Calls |-> None]
  /\ held     = [c \in Calls |-> {}]

(* Invitations are not part of this backend: members come from elsewhere. *)
Join(o, u, r) ==
  /\ o \in created /\ member[o][u] = None
  /\ member' = [member EXCEPT ![o][u] = r]
  /\ UNCHANGED <<created, projects, call>>

(* The end of a call; the deferred Rollback ends what it left open. *)
RolledBackNever(c) == held[c]
Released(c) == {}

End(c) ==
  /\ pc'     = [pc EXCEPT ![c] = "idle"]
  /\ msg'    = [msg EXCEPT ![c] = None]
  /\ caller' = [caller EXCEPT ![c] = None]
  /\ sudo'   = [sudo EXCEPT ![c] = FALSE]
  /\ role'   = [role EXCEPT ![c] = None]
  /\ held'   = [held EXCEPT ![c] = Released(c)]

Goto(c, at) == pc' = [pc EXCEPT ![c] = at] /\ UNCHANGED <<msg, caller, sudo>>

(* A call passes the gate with an identity and a complete request. *)
Start(c, u, s, m, at) ==
  /\ pc[c] = "idle"
  /\ \A f \in DOMAIN m : m[f] # None
  /\ pc'     = [pc EXCEPT ![c] = at]
  /\ msg'    = [msg EXCEPT ![c] = m]
  /\ caller' = [caller EXCEPT ![c] = u]
  /\ sudo'   = [sudo EXCEPT ![c] = s]
  /\ UNCHANGED <<db, role, held>>

(* The sudo window of a call's identity closes. *)
SudoLapses(c) ==
  /\ sudo[c]
  /\ sudo' = [sudo EXCEPT ![c] = FALSE]
  /\ UNCHANGED <<db, pc, msg, caller, role, held>>

(* CreateOrganization: the organization and its owner in one transaction,    *)
(* unless the slug is taken or the database fails.                           *)
Founders(c) == [u \in Users |-> IF u = caller[c] THEN "owner" ELSE None]

CreateOrganization(c) ==
  /\ pc[c] = "create"
  /\ \/ /\ msg[c].slug \notin created
        /\ created' = created \cup {msg[c].slug}
        /\ member'  = [member EXCEPT ![msg[c].slug] = Founders(c)]
     \/ UNCHANGED <<created, member>>
  /\ End(c)
  /\ UNCHANGED projects

-----------------------------------------------------------------------------
(* getCallerRole.  A failed query refuses the call like a missing row. *)
Org(c) == msg[c].organization

ReadRole(c) ==
  /\ pc[c] \in {"transfer", "project"}
  /\ \/ /\ member[Org(c)][caller[c]] # None
        /\ role' = [role EXCEPT ![c] = member[Org(c)][caller[c]]]
        /\ Goto(c, IF pc[c] = "transfer" THEN "check" ELSE "insert")
        /\ UNCHANGED held
     \/ End(c)
  /\ UNCHANGED db

SudoAlone(c) == sudo[c]
CanTransferOwnership(c) == role[c] = "owner" /\ sudo[c]

CheckTransfer(c) ==
  /\ pc[c] = "check"
  /\ IF CanTransferOwnership(c)
       THEN Goto(c, "demote") /\ UNCHANGED <<role, held>>
       ELSE End(c)
  /\ UNCHANGED db

(* The two updates of the transfer.  An update of a row another transaction  *)
(* has updated waits for its end; one that finds no row locks none.          *)
Row(c, u) == IF member[Org(c)][u] # None THEN {<<Org(c), u>>} ELSE {}
Blockers(c, u) == {d \in Calls \ {c} : held[d] \cap Row(c, u) # {}}

Demote(c) ==
  /\ pc[c] = "demote"
  /\ Blockers(c, caller[c]) = {}
  /\ held' = [held EXCEPT ![c] = Row(c, caller[c])]
  /\ Goto(c, "promote")
  /\ UNCHANGED <<db, role>>

AnyUser(c) == TRUE
TargetFound(c) == member[Org(c)][msg[c].target] # None

Promote(c) ==
  /\ pc[c] = "promote"
  /\ Blockers(c, msg[c].target) = {}
  /\ IF TargetFound(c)
       THEN /\ held' = [held EXCEPT ![c] = @ \cup Row(c, msg[c].target)]
            /\ Goto(c, "commit")
            /\ UNCHANGED role
       ELSE End(c)
  /\ UNCHANGED db

(* What the transaction leaves: the caller an admin, the target an owner, in *)
(* this order.  An UPDATE writes a row only where there is one.              *)
Updated(m, u, r) == [m EXCEPT ![u] = IF @ = None THEN None ELSE r]

PromoteThenDemote(m, u, t) == Updated(Updated(m, t, "owner"), u, "admin")
Moved(m, u, t) == Updated(Updated(m, u, "admin"), t, "owner")

Commit(c) ==
  /\ pc[c] = "commit"
  /\ member' = [member EXCEPT ![Org(c)] = Moved(@, caller[c], msg[c].target)]
  /\ End(c)
  /\ UNCHANGED <<created, projects>>

(* CreateProject, once the role is known. *)
RankAny(c) == TRUE
RankSuffices(c) == RoleRank(role[c]) >= RoleRank("geologist")

CreateProject(c) ==
  /\ pc[c] = "insert"
  /\ \/ /\ RankSuffices(c) /\ Cardinality(projects) < MaxProjects
        /\ projects' = projects \cup {[organization |-> Org(c), by |-> caller[c]]}
     \/ UNCHANGED projects
  /\ End(c)
  /\ UNCHANGED <<member, created>>

(* The connection fails or the caller leaves: the transaction is undone. *)
Fail(c) ==
  /\ pc[c] \in {"demote", "promote", "commit"}
  /\ End(c)
  /\ UNCHANGED db

(* PostgreSQL cancels one of the calls that wait for each other. *)
WaitsFor(c, d) == pc[c] = "promote" /\ d \in Blockers(c, msg[c].target)
Deadlocked(c) == \E D \in SUBSET Calls :
  c \in D /\ \A d \in D : \E e \in D : WaitsFor(d, e)

Cancel(c) == Deadlocked(c) /\ Fail(c)

Step(c) == \/ CreateOrganization(c) \/ ReadRole(c) \/ CheckTransfer(c) \/ Commit(c)
           \/ CreateProject(c) \/ Cancel(c)

Next ==
  \/ \E c \in Calls :
       \/ \E u \in Users, s \in BOOLEAN :
            \/ \E m \in CreateOrganizationRequest : Start(c, u, s, m, "create")
            \/ \E m \in TransferOrganizationOwnershipRequest : Start(c, u, s, m, "transfer")
            \/ \E m \in CreateProjectRequest : Start(c, u, s, m, "project")
       \/ SudoLapses(c) \/ Step(c) \/ Demote(c) \/ Promote(c) \/ Fail(c)
  \/ \E o \in Orgs, u \in Users, r \in Joins : Join(o, u, r)

(* The database answers every query; row locks are granted in turn. *)
Fairness == \A c \in Calls : WF_vars(Step(c)) /\ SF_vars(Demote(c)) /\ SF_vars(Promote(c))

Spec == Init /\ [][Next]_vars /\ Fairness

-----------------------------------------------------------------------------
TypeOK ==
  /\ member \in [Orgs -> [Users -> TenantRole \cup {None}]]
  /\ created \subseteq Orgs /\ projects \subseteq ProjectSummary
  /\ pc \in [Calls -> {"idle", "create", "transfer", "check", "demote", "promote",
                       "commit", "project", "insert"}]
  /\ msg \in [Calls -> Request \cup {None}]
  /\ caller \in [Calls -> Users \cup {None}]
  /\ sudo \in [Calls -> BOOLEAN]
  /\ role \in [Calls -> TenantRole \cup {None}]
  /\ held \in [Calls -> SUBSET (Orgs \X Users)]

Owners(o) == {u \in Users : member[o][u] = "owner"}

(* Seen from the tables, every handler acts at once: roles read in an earlier *)
(* query, locks, failures and cancelled calls make no difference that the     *)
(* tables of the moment would not warrant.                                    *)
Tables == INSTANCE Memberships
TablesChangeAtOnce == Tables!Spec

(* However transfers cross, whatever fails, and whomever they name: an       *)
(* organization has an owner.                                                *)
NeverOwnerless == \A o \in created : Owners(o) # {}

(* An organization gets another owner only from a call whose caller has      *)
(* ceased to be one since the role was looked up.                            *)
OwnersGrowByStaleRole == [][\A o \in created :
  Cardinality(Owners(o)') > Cardinality(Owners(o)) =>
    \E c \in Calls : /\ pc[c] = "commit" /\ pc'[c] = "idle" /\ Org(c) = o
                     /\ role[c] = "owner" /\ member[o][caller[c]] # "owner"]_vars

(* Whoever created a project is a geologist or more, then and for good. *)
ProjectsByGeologists == \A p \in projects :
  /\ p.organization \in created
  /\ RoleRank(member[p.organization][p.by]) >= RoleRank("geologist")

(* A row is locked by one call at a time, and by no call that has ended. *)
RowsLockedOnce ==
  /\ \A c \in Calls : pc[c] \notin {"promote", "commit"} => held[c] = {}
  /\ \A c, d \in Calls : c # d => held[c] \cap held[d] = {}

(* Calls that wait for one another only, and for nobody else, do not stop:   *)
(* one of them has its next row, or waits in a cycle the database breaks.    *)
Waiting(c) == CASE pc[c] = "demote"  -> Blockers(c, caller[c])
                [] pc[c] = "promote" -> Blockers(c, msg[c].target)
                [] OTHER -> {}
SomebodyMoves == \A D \in SUBSET Calls :
  D # {} /\ (\A d \in D : pc[d] # "idle" /\ Waiting(d) \subseteq D) =>
    \E d \in D : Waiting(d) = {} \/ Deadlocked(d)

(* Every call ends, also those that lock the same rows in opposite orders. *)
CallsEnd == \A c \in Calls : pc[c] # "idle" ~> pc[c] = "idle"
=============================================================================
