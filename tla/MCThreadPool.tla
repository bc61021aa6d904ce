---------------------------- MODULE MCThreadPool ----------------------------
(* Small pools for TLC.                                                    *)
EXTENDS ThreadPoolProps, TLC

WorkerSymmetry == Permutations(Workers)
=============================================================================
