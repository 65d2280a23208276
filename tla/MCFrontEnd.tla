----------------------------- MODULE MCFrontEnd -----------------------------
(***************************************************************************)
(* The instance of FrontEnd for TLC.                                       *)
(***************************************************************************)
EXTENDS FrontEnd, TLC

CONSTANTS named, system, s1, s2, s3

ThreeSymbols == <<s1, s2, s3>>

(* A complete libclang, and one that lacks the second function. *)
SomeBuilds == {{s1, s2, s3}, {s1, s3}}

OneCandidate == <<system>>

(* Nothing reads the disk or the environment once a library is open, and   *)
(* then handles are only compared with the open one.                       *)
BridgeView ==
    IF handle = 0
    THEN <<disk, variable, opens, table, mapped>>
    ELSE <<{s \in Symbols : table[s] = handle}, mapped = {handle}>>

View == <<BridgeView, initialized, pyVars, frame>>

Symmetry == Permutations(Threads) \cup Permutations(Irs) \cup Permutations(Recs)
            \cup Permutations(Names)
=============================================================================
