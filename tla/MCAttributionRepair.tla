------------------------ MODULE MCAttributionRepair ------------------------
(* The key order of two sessions, and symmetry, for AttributionRepair.     *)
EXTENDS AttributionRepair, TLC

CONSTANTS s1, s2

MCRank == (s1 :> 1) @@ (s2 :> 2)
Symmetry == Permutations(Stamp) \cup Permutations(Repairer) \cup Permutations(Turn)

=============================================================================
