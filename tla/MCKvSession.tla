---------------------------- MODULE MCKvSession ----------------------------
(* Instances of KvSession for TLC. *)
EXTENDS KvSessionProps
=============================================================================
