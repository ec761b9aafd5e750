---------------------------- MODULE MCFlowGroup ----------------------------
(* Instances of FlowGroup for TLC. *)
EXTENDS FlowGroup, TLC

Symmetry == Permutations(Cpus) \cup Permutations(Fgs)
=============================================================================
