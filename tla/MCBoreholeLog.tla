--------------------------- MODULE MCBoreholeLog ----------------------------
(* Two boreholes, two concurrent pushes and one pull.  The versions of b1     *)
(* shrink its log, move it to another project, tie on the stamp and claim an  *)
(* interval id of b2.                                                         *)
EXTENDS BoreholeLog

CONSTANTS b1, b2, i1, i2, pA, pB

V(b, t, pr, l) == [bh |-> b, ts |-> t, project |-> pr, log |-> l, ordered |-> TRUE]

MCVersions ==
  { V(b1, 1, pA, {i1, i2}), V(b1, 2, pA, {i1}), V(b1, 2, pB, {i1, i2}), V(b1, 3, pA, {}),
    V(b2, 1, pA, {i2}), [V(b2, 2, pA, {}) EXCEPT !.ordered = FALSE] }
=============================================================================
