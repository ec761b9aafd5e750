------------------------------ MODULE MCRing ------------------------------
(* Instances of Ring for TLC. *)
EXTENDS Ring, TLC

ObjSymmetry == Permutations(Objs)
ThreadSymmetry ==
    Permutations(Producers) \cup Permutations(Consumers) \cup Permutations(Objs)
=============================================================================
