---------------------------- MODULE LwwRegisters ----------------------------
(***************************************************************************)
(* What conflict.go and store.go promise of every table: a row is a        *)
(* register that keeps the version with the latest device stamp offered to *)
(* it, the first one to arrive among equals.  An offer may also be refused *)
(* (a taken code, an unknown parent, a storage failure): then it leaves no *)
(* trace.                                                                  *)
(***************************************************************************)
EXTENDS Integers

CONSTANTS Entities, Version, Absent

VARIABLE rows

Init == rows = [e \in Entities |-> Absent]

Later(old, new) == new.ts > old.ts

(* Row e is given a later version, and no other row changes. *)
Overwrite(e) ==
  /\ rows'[e] \in Version
  /\ Later(rows[e], rows'[e])
  /\ rows' = [rows EXCEPT ![e] = rows'[e]]

Next == \E e \in Entities : Overwrite(e)

Spec == Init /\ [][Next]_rows
=============================================================================
