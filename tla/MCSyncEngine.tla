---------------------------- MODULE MCSyncEngine ----------------------------
(* A small instance of SyncEngine: two devices, two stations that compete    *)
(* for two codes, and a sample hanging off either of them.                    *)
EXTENDS SyncEngine, TLC

CONSTANTS d1, d2, s1, s2, r1, k, m, n

MCTable == (s1 :> "stations") @@ (s2 :> "stations") @@ (r1 :> "samples")
MCTableOne == (s1 :> "stations") @@ (r1 :> "samples")

MCCodesOf == (s1 :> {k, m}) @@ (s2 :> {k, m}) @@ (r1 :> {n, NoCode})
MCCodesOfOne == (s1 :> {k}) @@ (r1 :> {n})

Symmetry == Permutations({d1, d2}) \union Permutations({s1, s2}) \union Permutations({k, m})
=============================================================================
