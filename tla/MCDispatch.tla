----------------------------- MODULE MCDispatch -----------------------------
(***************************************************************************)
(* Instances of Dispatch for TLC.                                          *)
(***************************************************************************)
EXTENDS Dispatch, TLC

CONSTANTS f, g

OneNumber == <<"num">>
FlagAndNumber == <<"bool", "num">>
FlagAndPointer == <<"bool", "ptr">>

(* Every loaded header declares f and g alike ... *)
AgreeingProtos == {OneNumber, FlagAndPointer}
AgreeingRecs == {[fn |-> f, proto |-> OneNumber], [fn |-> g, proto |-> FlagAndPointer]}

(* ... or two of them declare f differently. *)
DisagreeingProtos == {OneNumber, FlagAndNumber}
DisagreeingRecs == {[fn |-> f, proto |-> OneNumber], [fn |-> f, proto |-> FlagAndNumber]}

ArgumentTuples ==
    {<<"int">>, <<"object">>, <<"object", "text">>, <<"object", "int">>}

Symmetry == Permutations(Calls) \cup Permutations(Blocks)
=============================================================================
