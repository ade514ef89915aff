---------------------------- MODULE MCGraphWriter ----------------------------
(* The instances of GraphWriter that TLC checks.  Nothing tells entities,     *)
(* contents or flights apart.                                                 *)
EXTENDS GraphWriter

Symmetry == Permutations(Entities) \cup Permutations(Contents) \cup Permutations(Flights)
=============================================================================
