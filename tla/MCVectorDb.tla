----------------------------- MODULE MCVectorDb -----------------------------
(* Instances of VectorDb for TLC. *)
EXTENDS VectorDbProps, TLC

Symmetry == Permutations(Memories)
=============================================================================
