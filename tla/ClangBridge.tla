---------------------------- MODULE ClangBridge ----------------------------
(***************************************************************************)
(* g_clang of src/src/clang_bridge.c: the handle of libclang and one       *)
(* pointer for each of the functions the parser calls.                     *)
(*                                                                         *)
(* clang_bridge_init runs under the GIL and calls no Python code, so each  *)
(* of its outcomes is one atomic action.  What dlopen returns is named by  *)
(* the number of that dlopen: a pointer taken from a library that was      *)
(* closed since is told from one taken from the library that is open.      *)
(***************************************************************************)
EXTENDS Naturals, Sequences, FiniteSets

CONSTANTS
    Paths,       \* where a libclang may be
    LoadOrder,   \* the functions, in the order LOAD_SYM resolves them
    Builds,      \* builds of libclang, each the set of functions it exports
    NoFile,
    MaxOpens     \* bound on the number of dlopens; the last is for InitComplete

Symbols == {LoadOrder[n] : n \in DOMAIN LoadOrder}

ASSUME LoadOrderAssumption ==
    /\ LoadOrder \in Seq(Symbols)
    /\ \A m, n \in DOMAIN LoadOrder : LoadOrder[m] = LoadOrder[n] => m = n
ASSUME BuildsAssumption == Builds \subseteq SUBSET Symbols
ASSUME NoFileAssumption == NoFile \notin Builds
ASSUME MaxOpensAssumption == MaxOpens \in Nat

VARIABLES
    disk,    \* path -> the build installed there, or NoFile
    handle,  \* b->handle, 0 when NULL
    table,   \* symbol -> the handle its pointer was taken from, 0 when NULL
    opens,   \* the number of dlopens that succeeded
    mapped   \* the handles that are not dlclosed

bridgeVars == <<disk, handle, table, opens, mapped>>

BridgeInit ==
    /\ disk \in [Paths -> Builds \cup {NoFile}]
    /\ handle = 0
    /\ table = [s \in Symbols |-> 0]
    /\ opens = 0
    /\ mapped = {}

Exists(p) == disk[p] # NoFile

Exported(p, n) == LoadOrder[n] \in disk[p]

Complete(p) == Exists(p) /\ Symbols \subseteq disk[p]

-----------------------------------------------------------------------------
(* A library is installed. *)
Install(p) ==
    /\ ~Exists(p)
    /\ \E b \in Builds : disk' = [disk EXCEPT ![p] = b]
    /\ UNCHANGED <<handle, table, opens, mapped>>

(* clang_bridge_init returns 0 at once. *)
InitAgain(p) ==
    /\ handle # 0
    /\ UNCHANGED bridgeVars

(* dlopen fails, for want of the file or for any other reason: -1. *)
InitUnloadable(p) ==
    /\ handle = 0
    /\ UNCHANGED bridgeVars

(* Mutant: the handle is not reset. *)
InitIncompleteKeepsHandle(p) ==
    /\ handle = 0
    /\ Exists(p) /\ ~Complete(p)
    /\ opens + 1 < MaxOpens
    /\ opens' = opens + 1
    /\ handle' = opens + 1
    /\ table' = [s \in Symbols |-> IF s \in disk[p] THEN opens + 1 ELSE 0]
    /\ UNCHANGED <<disk, mapped>>

(* Mutant: the library stays open. *)
InitIncompleteStaysOpen(p) ==
    /\ handle = 0
    /\ Exists(p) /\ ~Complete(p)
    /\ opens + 1 < MaxOpens
    /\ opens' = opens + 1
    /\ mapped' = mapped \cup {opens + 1}
    /\ UNCHANGED <<disk, handle, table>>

(* The first function the library lacks has its pointer set to NULL and    *)
(* the library closed: -1.  The pointers set before stay as they are.      *)
InitIncomplete(p) ==
    /\ handle = 0
    /\ Exists(p) /\ ~Complete(p)
    /\ opens + 1 < MaxOpens
    /\ opens' = opens + 1
    /\ \E n \in DOMAIN LoadOrder :
         /\ ~Exported(p, n)
         /\ \A m \in 1..n - 1 : Exported(p, m)
         /\ table' = [s \in Symbols |->
                IF s = LoadOrder[n] THEN 0
                ELSE IF \E m \in 1..n - 1 : s = LoadOrder[m] THEN opens + 1
                ELSE table[s]]
    /\ UNCHANGED <<disk, handle, mapped>>

(* Mutant: an open library is replaced. *)
InitCompleteAnew(p) ==
    /\ Complete(p)
    /\ opens < MaxOpens
    /\ opens' = opens + 1
    /\ handle' = opens + 1
    /\ table' = [s \in Symbols |-> opens + 1]
    /\ mapped' = (mapped \ {handle}) \cup {opens + 1}
    /\ UNCHANGED disk

(* Every pointer is resolved: 0. *)
InitComplete(p) ==
    /\ handle = 0
    /\ Complete(p)
    /\ opens < MaxOpens
    /\ opens' = opens + 1
    /\ handle' = opens + 1
    /\ table' = [s \in Symbols |-> opens + 1]
    /\ mapped' = mapped \cup {opens + 1}
    /\ UNCHANGED disk

InitSucceeds(p) == InitAgain(p) \/ InitComplete(p)

InitFails(p) == InitUnloadable(p) \/ InitIncomplete(p)

-----------------------------------------------------------------------------
Handles == 0..MaxOpens

(* Types of the variables. *)
BridgeTypeOK ==
    /\ disk \in [Paths -> Builds \cup {NoFile}]
    /\ handle \in Handles /\ opens \in Handles
    /\ table \in [Symbols -> Handles]
    /\ mapped \subseteq Handles

(* The parser may call any of the functions. *)
Ready == handle # 0 /\ \A s \in Symbols : table[s] = handle

(* The library that is open is the one in g_clang, and no other: a failed  *)
(* initialisation closes what it opened (clang_bridge.c:21-24).            *)
OneLibraryOpen == mapped = {handle} \ {0}
=============================================================================
