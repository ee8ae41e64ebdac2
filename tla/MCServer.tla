------------------------------ MODULE MCServer ------------------------------
(* A rolling deployment: the old build knows one migration, the new one two. *)
EXTENDS Server

CONSTANTS old, new, r1, r2

KnownFiles == [i \in {old, new} |-> IF i = old THEN 1 ELSE 2]

Sound == [database |-> TRUE, port |-> TRUE, mpesa |-> "off",
          maxConns |-> 2, minConns |-> 0, ttlQuarter |-> 15]

(* Sound settings, one connection, no member ttl, a half-configured rail. *)
Choices == {Sound, [Sound EXCEPT !.maxConns = 1], [Sound EXCEPT !.ttlQuarter = 0],
            [Sound EXCEPT !.mpesa = "partial"]}
=============================================================================
