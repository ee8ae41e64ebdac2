------------------------------ MODULE MCIntake -------------------------------
(* Two projects, a viewer and an admin, two calls, two ids and a plan the    *)
(* table does not know.                                                      *)
EXTENDS Intake, TLC

CONSTANTS o1, p1, p2, v, a, i1, i2, c1, c2

MCRole == [o \in Orgs |-> [u \in Users |-> IF u = v THEN "viewer" ELSE "admin"]]

Symmetry == Permutations(Projects) \cup Permutations(Ids) \cup Permutations(Calls)
=============================================================================
