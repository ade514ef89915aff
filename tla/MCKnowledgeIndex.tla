--------------------------- MODULE MCKnowledgeIndex ---------------------------
(* Instances of KnowledgeIndex for TLC. *)
EXTENDS KnowledgeIndex, TLC

Symmetry == Permutations(Workers) \cup Permutations(Texts)
=============================================================================
