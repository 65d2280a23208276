----------------------------- MODULE CinPyTypes -----------------------------
(***************************************************************************)
(* The types of records and .cpyc files (CinPyType, src/src/cpyc.h), and   *)
(* what cinpy_map_type_kind (src/src/ir.c) makes of the kinds by which     *)
(* libclang tells types apart.                                             *)
(***************************************************************************)
EXTENDS Naturals

CINPY_VOID == 0
CINPY_INT == 1
CINPY_UINT == 2
CINPY_LONG == 3
CINPY_ULONG == 4
CINPY_LONGLONG == 5
CINPY_FLOAT == 6
CINPY_DOUBLE == 7
CINPY_CHARPTR == 8
CINPY_PTR == 9
CINPY_SIZE_T == 10
CINPY_BOOL == 11
CINPY_UNKNOWN == 255

(* Mutant: a pointer is taken for an int. *)
MapTypeKindPointerIsInt(k) ==
    CASE k = 2 -> CINPY_VOID
      [] k = 3 -> CINPY_BOOL
      [] k \in 4..6 \/ k = 101 -> CINPY_INT
      [] k \in 7..8 -> CINPY_UINT
      [] k \in 9..10 -> CINPY_LONG
      [] k \in 11..12 -> CINPY_ULONG
      [] k \in 13..14 -> CINPY_LONGLONG
      [] k = 21 -> CINPY_FLOAT
      [] k = 22 -> CINPY_DOUBLE
      [] OTHER -> CINPY_UNKNOWN

(* No kind is a CHARPTR or a SIZE_T. *)
MapTypeKind(k) ==
    CASE k = 2 -> CINPY_VOID
      [] k = 3 -> CINPY_BOOL
      [] k \in 4..6 -> CINPY_INT
      [] k \in 7..8 -> CINPY_UINT
      [] k \in 9..10 -> CINPY_LONG
      [] k \in 11..12 -> CINPY_ULONG
      [] k \in 13..14 -> CINPY_LONGLONG
      [] k = 21 -> CINPY_FLOAT
      [] k = 22 -> CINPY_DOUBLE
      [] k = 101 -> CINPY_PTR
      [] OTHER -> CINPY_UNKNOWN
=============================================================================
