---------------------------- MODULE MCStoreBridge ----------------------------
(***************************************************************************)
(* Instances of StoreBridge for TLC.                                       *)
(***************************************************************************)
EXTENDS StoreBridge, TLC

Symmetry == Permutations(Call) \cup Permutations(Key)

=============================================================================
