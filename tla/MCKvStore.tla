------------------------------ MODULE MCKvStore ------------------------------
(***************************************************************************)
(* Instances of KvStore for TLC.                                           *)
(***************************************************************************)
EXTENDS KvStore, TLC

Symmetry == Permutations(Req) \cup Permutations(Key)

=============================================================================
