------------------------------- MODULE Parser -------------------------------
(***************************************************************************)
(* cinpy_parse_header (src/src/parser.c): the records of an IR, made from  *)
(* the cursors that clang_visitChildren presents one by one.               *)
(*                                                                         *)
(* A cursor is a record: kind is "function" or "other", own tells whether  *)
(* cursor_is_in_file finds it in the header that was asked for, and name,  *)
(* known, ret and params are what libclang says of a function: whether its *)
(* parameters are known, the kind of its result, and a sequence of         *)
(* [name, kind], of which the name is the type's spelling.                 *)
(***************************************************************************)
EXTENDS CinPyTypes, Sequences

CONSTANTS
    Units,         \* translation units: sequences of cursors
    HeaderName,    \* the path that was parsed, as a string
    ParamCap,      \* the largest param_count of a record, 255
    ParserMayFail  \* malloc, calloc, realloc and strdup may return NULL

ASSUME ParamCapAssumption == ParamCap \in Nat \ {0}
ASSUME MemoryAssumption == ParserMayFail \in BOOLEAN

VARIABLES
    unit,     \* the translation unit
    visited,  \* the number of its cursors that were visited
    parsed,   \* the IR: [header, fns]
    skipped,  \* for want of memory, a function or a name was left out
    ppc       \* "parse", "visit", "parsed" or "unparsed"

parserVars == <<unit, visited, parsed, skipped, ppc>>

NoIr == [header |-> << >>, fns |-> << >>]

ParserInit ==
    /\ unit \in Units
    /\ visited = 0
    /\ parsed = NoIr
    /\ skipped = FALSE
    /\ ppc = "parse"

(* clang_parseTranslationUnit gives no unit, or cinpy_ir_new no IR.        *)
ParseFails ==
    /\ ppc = "parse"
    /\ ppc' = "unparsed"
    /\ UNCHANGED <<unit, visited, parsed, skipped>>

ParseUnit ==
    /\ ppc = "parse"
    /\ ppc' = "visit"
    /\ parsed' = [header |-> HeaderName, fns |-> << >>]
    /\ UNCHANGED <<unit, visited, skipped>>

Cursor == unit[visited + 1]

Wanted(c) == c.kind = "function" /\ c.own

Recorded(c) == Wanted(c) /\ c.known

(* The first n parameters of a record.  *)
TypedParams(c, n) ==
    [j \in 1..n |-> [name |-> c.params[j].name, type |-> MapTypeKind(c.params[j].kind)]]

(* Mutant: the count of parameters wraps instead of stopping at the cap. *)
RecordWraps(c) ==
    [name |-> c.name, ret |-> MapTypeKind(c.ret),
     params |-> TypedParams(c, Len(c.params) % (ParamCap + 1))]

(* Parameters beyond ParamCap are left out. *)
Record(c) ==
    [name |-> c.name, ret |-> MapTypeKind(c.ret),
     params |-> TypedParams(c, IF Len(c.params) > ParamCap THEN ParamCap ELSE Len(c.params))]

More == ppc = "visit" /\ visited < Len(unit)

(* visit_fn on a cursor that is not a function of the header. *)
VisitOther ==
    /\ More
    /\ ~Wanted(Cursor)
    /\ visited' = visited + 1
    /\ UNCHANGED <<unit, parsed, skipped, ppc>>

(* libclang does not know the function's parameters: n_params < 0. *)
VisitUnknown ==
    /\ More
    /\ Wanted(Cursor)
    /\ ~Cursor.known
    /\ visited' = visited + 1
    /\ UNCHANGED <<unit, parsed, skipped, ppc>>

VisitFunction ==
    /\ More
    /\ Recorded(Cursor)
    /\ visited' = visited + 1
    /\ parsed' = [parsed EXCEPT !.fns = Append(@, Record(Cursor))]
    /\ UNCHANGED <<unit, skipped, ppc>>

Nameless(f) == [f EXCEPT !.params = [j \in DOMAIN f.params |-> [f.params[j] EXCEPT !.name = << >>]]]

(* strdup of the name, calloc or cinpy_ir_push fails: the function is      *)
(* passed over.  strdup of a parameter's name fails, which is not checked: *)
(* the name is NULL, an empty string in the file.                          *)
VisitFails ==
    /\ ParserMayFail
    /\ More
    /\ Recorded(Cursor)
    /\ visited' = visited + 1
    /\ skipped' = TRUE
    /\ \/ UNCHANGED parsed
       \/ parsed' = [parsed EXCEPT !.fns = Append(@, Nameless(Record(Cursor)))]
    /\ UNCHANGED <<unit, ppc>>

ParseEnds ==
    /\ ppc = "visit"
    /\ visited = Len(unit)
    /\ ppc' = "parsed"
    /\ UNCHANGED <<unit, visited, parsed, skipped>>

ParserNext ==
    \/ ParseFails \/ ParseUnit
    \/ VisitOther \/ VisitUnknown \/ VisitFunction \/ VisitFails
    \/ ParseEnds
=============================================================================
