---------------------------- MODULE Memberships -----------------------------
(***************************************************************************)
(* What the handlers of internal/tenant promise of their tables, with no   *)
(* calls, locks or transactions: each change is made at once and is        *)
(* warranted by the tables as they are then.  A project is created by a    *)
(* geologist or more; ownership is handed to a member by an owner, or by   *)
(* an admin, since an owner may be made one while the handler is under way *)
(* (between getCallerRole and the transaction of the transfer).            *)
(***************************************************************************)
CONSTANTS Orgs, Users, Joins, None

VARIABLES member, created, projects

Init ==
  /\ member   = [o \in Orgs |-> [u \in Users |-> None]]
  /\ created  = {}
  /\ projects = {}

Found(o, u) ==
  /\ o \notin created
  /\ created' = created \cup {o}
  /\ member'  = [member EXCEPT ![o] = [v \in Users |-> IF v = u THEN "owner" ELSE None]]
  /\ UNCHANGED projects

Join(o, u) ==
  /\ o \in created /\ member[o][u] = None
  /\ \E r \in Joins : member' = [member EXCEPT ![o][u] = r]
  /\ UNCHANGED <<created, projects>>

HandOver(o, u, t) ==
  /\ o \in created
  /\ member[o][u] \in {"owner", "admin"} /\ member[o][t] # None
  /\ member' = [member EXCEPT ![o] = [[@ EXCEPT ![u] = "admin"] EXCEPT ![t] = "owner"]]
  /\ UNCHANGED <<created, projects>>

AddProject(o, u) ==
  /\ o \in created /\ member[o][u] \in {"owner", "admin", "geologist"}
  /\ projects' = projects \cup {[organization |-> o, by |-> u]}
  /\ UNCHANGED <<member, created>>

Next == \E o \in Orgs, u \in Users :
  \/ Found(o, u) \/ Join(o, u) \/ AddProject(o, u)
  \/ \E t \in Users : HandOver(o, u, t)

Spec == Init /\ [][Next]_<<member, created, projects>>
=============================================================================
