---------------------------- MODULE MCApiServer -----------------------------
(* Small servers for TLC.                                                  *)
EXTENDS ApiServerProps, TLC

ConnSymmetry == Permutations(Conns)
=============================================================================
