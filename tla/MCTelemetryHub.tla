--------------------------- MODULE MCTelemetryHub ---------------------------
(* A team of two: one member may fall silent while the other keeps sending   *)
(* breadcrumbs, each at a stream of his own.  The client of the first stream *)
(* reads, the second one's may hang.                                         *)
EXTENDS TelemetryHub

CONSTANTS p1, u1, u2, x, s1, s2

MCSends == [s \in Streams |->
  {[project |-> p1, user |-> IF s = s1 THEN u1 ELSE u2, at |-> x]}]
=============================================================================
