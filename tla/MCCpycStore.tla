---------------------------- MODULE MCCpycStore ----------------------------
(***************************************************************************)
(* Instances of CpycStore for TLC: two headers, one without functions.     *)
(***************************************************************************)
EXTENDS CpycStore, TLC

CONSTANTS h1, h2, f1, f2, pathA, pathB

MCDecl == (h1 :> <<f1, f2>>) @@ (h2 :> << >>)

(* The base names of the headers differ. *)
OwnPaths == (h1 :> pathA) @@ (h2 :> pathB)
=============================================================================
