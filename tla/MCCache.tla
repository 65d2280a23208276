------------------------------ MODULE MCCache ------------------------------
(***************************************************************************)
(* Instances of Cache for TLC.                                             *)
(***************************************************************************)
EXTENDS Cache, TLC

(* Names and addresses are only compared for equality. *)
Symmetry == Permutations(Keys) \cup Permutations(Blocks)
=============================================================================
