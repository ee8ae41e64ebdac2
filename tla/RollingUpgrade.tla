--------------------------- MODULE RollingUpgrade ---------------------------
(***************************************************************************)
(* What a rolling deployment promises (internal/db/db.go, Migrate, and     *)
(* cmd/server/main.go, run): the schema grows by one migration at a time,  *)
(* the next one, which some build carries; and an instance opens only on a *)
(* schema with every migration of its own build.                           *)
(***************************************************************************)
EXTENDS Integers

CONSTANTS Instances, Known

VARIABLES schema, open

Init == schema = {} /\ open = {}

Upgrade(i) ==
  /\ \E n \in 0 .. Known[i] - 1 : schema = 1 .. n /\ schema' = 1 .. n + 1
  /\ UNCHANGED open

Open(i) ==
  /\ 1 .. Known[i] \subseteq schema
  /\ open' = open \cup {i}
  /\ UNCHANGED schema

Shut(i) ==
  /\ open' = open \ {i}
  /\ UNCHANGED schema

Next == \E i \in Instances : Upgrade(i) \/ Open(i) \/ Shut(i)

Spec == Init /\ [][Next]_<<schema, open>>
=============================================================================
