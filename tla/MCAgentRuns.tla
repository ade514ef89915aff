----------------------------- MODULE MCAgentRuns -----------------------------
(* Instances of AgentRuns for TLC. *)
EXTENDS AgentRuns, TLC

HolderSymmetry == Permutations(Holders)
Symmetry == Permutations(Workers) \cup Permutations(Holders)
=============================================================================
