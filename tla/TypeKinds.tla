----------------------------- MODULE TypeKinds -----------------------------
(***************************************************************************)
(* cinpy_map_type_kind (src/src/ir.c) against the kinds that the vendored  *)
(* libclang header defines (src/ClangHeaders/clang-c/Index.h, enum         *)
(* CXTypeKind).                                                            *)
(***************************************************************************)
EXTENDS CinPyTypes

LastKind == 118   \* CXType_Auto

VARIABLE kind      \* the kind of the type the parser is at

(* The kinds of enum CXTypeKind that have a CinPyType of the same name. *)
CXTypeKind ==
    {[kind |-> 2, type |-> CINPY_VOID], [kind |-> 3, type |-> CINPY_BOOL],
     [kind |-> 9, type |-> CINPY_UINT], [kind |-> 10, type |-> CINPY_ULONG],
     [kind |-> 17, type |-> CINPY_INT], [kind |-> 18, type |-> CINPY_LONG],
     [kind |-> 19, type |-> CINPY_LONGLONG], [kind |-> 21, type |-> CINPY_FLOAT],
     [kind |-> 22, type |-> CINPY_DOUBLE], [kind |-> 101, type |-> CINPY_PTR]}

Init == kind = 0

(* visit_fn goes from type to type. *)
Next == kind < LastKind /\ kind' = kind + 1

Spec == Init /\ [][Next]_kind

(* A kind with a namesake among the CinPyTypes is mapped to it: an int     *)
(* parameter is an INT (ir.c:55-76, parser.c:52-65).                       *)
KindsMapToNamesakes ==
    \A n \in CXTypeKind : kind = n.kind => MapTypeKind(kind) = n.type
=============================================================================
