----------------------------- MODULE CpycFormat -----------------------------
(***************************************************************************)
(* The bytes of a .cpyc file: cinpy_emit_cpyc (src/src/emitter.c) writes   *)
(* them, cinpy_load_cpyc (src/src/loader.c) reads them back, with every    *)
(* early return and what it frees.                                         *)
(*                                                                         *)
(* A byte is a number.  The magic and each version, of several bytes in    *)
(* the file, are one here: they are read whole or not at all.              *)
(***************************************************************************)
EXTENDS Integers, Sequences

CONSTANTS
    Magic,         \* CPYC_MAGIC
    PyVersion,     \* PY_VERSION_MAJOR and PY_VERSION_MINOR
    CinpyMajor,    \* CINPY_MAJOR
    CinpyMinor,    \* CINPY_MINOR, which is read and not looked at
    Sentinel,      \* CPYC_SENTINEL, 0xFF
    BufSize,       \* sizeof(buf) in read_str, 4096
    InitCap,       \* IR_INIT_CAP
    LoaderMayFail  \* malloc, calloc, realloc and strdup may return NULL

ASSUME BufSizeAssumption == BufSize \in Nat /\ BufSize > 1
ASSUME InitCapAssumption == InitCap \in Nat \ {0}

VARIABLES
    bytes,    \* the file
    pos,      \* how many of its bytes were read
    made,     \* the IR under construction: [header, fns]
    cur,      \* the record under construction, with its param_count
    owned,    \* the number of blocks the loader has allocated and not freed
    dropped,  \* cinpy_ir_push failed
    lpc       \* where the loader is, or the CpycStatus it returned

loaderVars == <<bytes, pos, made, cur, owned, dropped, lpc>>

Nul == 0

NoRecord == [name |-> << >>, ret |-> 0, count |-> 0, params |-> << >>]

-----------------------------------------------------------------------------
(* cinpy_emit_cpyc *)

(* What a loop over the sequences in s writes: one after the other. *)
Concat(s) ==
    LET upTo[n \in 0..Len(s)] == IF n = 0 THEN << >> ELSE upTo[n - 1] \o s[n]
    IN  upTo[Len(s)]

Str(s) == Append(s, Nul)

ParamBytes(p) == Append(Str(p.name), p.type)

FnBytes(f) ==
    Str(f.name) \o <<f.ret, Len(f.params)>>
    \o Concat([j \in DOMAIN f.params |-> ParamBytes(f.params[j])])

HeadBytes(x) == <<Magic, PyVersion, CinpyMajor, CinpyMinor>> \o Str(x.header)

Encoding(x) ==
    HeadBytes(x) \o Concat([i \in DOMAIN x.fns |-> FnBytes(x.fns[i])]) \o <<Sentinel>>

-----------------------------------------------------------------------------
Left == Len(bytes) - pos

(* read_str: how many bytes it takes, 0 when the file ends first.          *)
StrLen ==
    LET ends == {n \in 1..(IF Left < BufSize - 1 THEN Left ELSE BufSize - 1) :
                    bytes[pos + n] = Nul \/ n = BufSize - 1}
    IN  IF ends = {} THEN 0 ELSE CHOOSE n \in ends : \A m \in ends : n <= m

(* The n bytes it takes, as a string: the byte that ends it is left out.   *)
Chars(n) == SubSeq(bytes, pos + 1, IF bytes[pos + n] = Nul THEN pos + n - 1 ELSE pos + n)

(* The blocks of an IR: itself, header_name and fns, and of each record    *)
(* name, params and the parameters' names.                                 *)
IrBlocks(x) ==
    3 + 2 * Len(x.fns) + Len(Concat([i \in DOMAIN x.fns |-> x.fns[i].params]))

LoaderIdle ==
    /\ bytes = << >>
    /\ pos = 0
    /\ made = [header |-> << >>, fns |-> << >>]
    /\ cur = NoRecord
    /\ owned = 0
    /\ dropped = FALSE
    /\ lpc = "idle"

(* The file b is opened. *)
Open(b) ==
    /\ lpc = "idle"
    /\ bytes' = b
    /\ lpc' = "head"
    /\ UNCHANGED <<pos, made, cur, owned, dropped>>

(* Mutant: the IR is freed by its callee and again. *)
LoadFailsFreesTwice(st, n) ==
    /\ lpc' = st
    /\ owned' = owned - 2 * n
    /\ UNCHANGED <<bytes, pos, made, cur, dropped>>

(* cinpy_load_cpyc returns st, having freed n blocks. *)
LoadFails(st, n) ==
    /\ lpc' = st
    /\ owned' = owned - n
    /\ UNCHANGED <<bytes, pos, made, cur, dropped>>

ReadHead ==
    /\ lpc = "head"
    /\ IF Left < 1 \/ bytes[1] # Magic THEN LoadFails("magic", 0)
       ELSE IF Left < 4 THEN LoadFails("corrupt", 0)
       ELSE IF bytes[2] # PyVersion THEN LoadFails("py_version", 0)
       ELSE IF bytes[3] # CinpyMajor THEN LoadFails("cinpy_version", 0)
       ELSE /\ pos' = 4
            /\ lpc' = "header"
            /\ UNCHANGED <<bytes, made, cur, owned, dropped>>

(* The header's name, of which cinpy_ir_new makes a copy. *)
ReadHeader ==
    /\ lpc = "header"
    /\ \/ StrLen = 0 /\ LoadFails("corrupt", 0)
       \/ LoaderMayFail /\ StrLen # 0 /\ LoadFails("corrupt", 0)
       \/ LoaderMayFail /\ StrLen # 0 /\ LoadFails("oom", 0)
       \/ /\ StrLen # 0
          /\ made' = [header |-> Chars(StrLen), fns |-> << >>]
          /\ pos' = pos + StrLen
          /\ owned' = 3
          /\ lpc' = "peek"
          /\ UNCHANGED <<bytes, cur, dropped>>

(* Mutants: the byte is not put back; the file may end without a sentinel; *)
(* its end is not seen.                                                    *)
PeekKeepsByte ==
    /\ lpc = "peek"
    /\ IF Left = 0 THEN LoadFails("corrupt", IrBlocks(made))
       ELSE /\ pos' = pos + 1
            /\ lpc' = IF bytes[pos + 1] = Sentinel THEN "ok" ELSE "fn"
            /\ UNCHANGED <<bytes, made, cur, owned, dropped>>

PeekTakesEof ==
    /\ lpc = "peek"
    /\ lpc' = IF Left = 0 \/ bytes[pos + 1] = Sentinel THEN "ok" ELSE "fn"
    /\ UNCHANGED <<bytes, pos, made, cur, owned, dropped>>

PeekIgnoresEof ==
    /\ lpc = "peek"
    /\ lpc' = IF Left = 0 THEN "peek" ELSE IF bytes[pos + 1] = Sentinel THEN "ok" ELSE "fn"
    /\ UNCHANGED <<bytes, pos, made, cur, owned, dropped>>

(* The sentinel ends the list; any other byte is put back. *)
Peek ==
    /\ lpc = "peek"
    /\ IF Left = 0 THEN LoadFails("corrupt", IrBlocks(made))
       ELSE IF bytes[pos + 1] = Sentinel
       THEN /\ pos' = pos + 1
            /\ lpc' = "ok"
            /\ UNCHANGED <<bytes, made, cur, owned, dropped>>
       ELSE /\ lpc' = "fn"
            /\ UNCHANGED <<bytes, pos, made, cur, owned, dropped>>

(* Name, result type, parameter count, and the array for the parameters.   *)
(* When strdup fails there is no name to free, when calloc does there is.  *)
ReadFn ==
    LET n == StrLen
    IN  /\ lpc = "fn"
        /\ \/ n = 0 /\ LoadFails("corrupt", IrBlocks(made))
           \/ LoaderMayFail /\ n # 0 /\ LoadFails("corrupt", IrBlocks(made))
           \/ /\ n # 0 /\ Left < n + 2
              /\ lpc' = "corrupt"
              /\ owned' = owned + 1 - (1 + IrBlocks(made))
              /\ UNCHANGED <<bytes, pos, made, cur, dropped>>
           \/ /\ LoaderMayFail /\ n # 0 /\ Left >= n + 2
              /\ bytes[pos + n + 2] > 0
              /\ lpc' = "oom"
              /\ owned' = owned + 1 - (1 + IrBlocks(made))
              /\ UNCHANGED <<bytes, pos, made, cur, dropped>>
           \/ /\ n # 0 /\ Left >= n + 2
              /\ cur' = [name |-> Chars(n), ret |-> bytes[pos + n + 1],
                         count |-> bytes[pos + n + 2], params |-> << >>]
              /\ pos' = pos + n + 2
              /\ owned' = owned + 2
              /\ lpc' = "params"
              /\ UNCHANGED <<bytes, made, dropped>>

(* Mutant: the names read before the one that failed are not freed. *)
ParamFailsFreesOne(got) ==
    /\ lpc' = "corrupt"
    /\ owned' = owned + got - (got + 2 + IrBlocks(made))
    /\ UNCHANGED <<bytes, pos, made, cur, dropped>>

(* A parameter's name or type is missing.  got is 1 if its name was read:  *)
(* the names so far, params, the record's name and the IR are freed.       *)
ParamFails(got) ==
    /\ lpc' = "corrupt"
    /\ owned' = owned + got - (Len(cur.params) + got + 2 + IrBlocks(made))
    /\ UNCHANGED <<bytes, pos, made, cur, dropped>>

ReadParam ==
    LET n == StrLen
    IN  /\ lpc = "params"
        /\ Len(cur.params) < cur.count
        /\ \/ n = 0 /\ ParamFails(0)
           \/ LoaderMayFail /\ n # 0 /\ ParamFails(0)
           \/ n # 0 /\ Left < n + 1 /\ ParamFails(1)
           \/ /\ n # 0 /\ Left >= n + 1
              /\ cur' = [cur EXCEPT !.params =
                            Append(@, [name |-> Chars(n), type |-> bytes[pos + n + 1]])]
              /\ pos' = pos + n + 1
              /\ owned' = owned + 1
              /\ UNCHANGED <<bytes, made, dropped, lpc>>

FnRead == lpc = "params" /\ Len(cur.params) = cur.count

(* cinpy_ir_push *)
Push ==
    /\ FnRead
    /\ made' = [made EXCEPT !.fns =
                   Append(@, [name |-> cur.name, ret |-> cur.ret, params |-> cur.params])]
    /\ cur' = NoRecord
    /\ lpc' = "peek"
    /\ UNCHANGED <<bytes, pos, owned, dropped>>

(* Its realloc fails, when the array is full: the result is ignored, the   *)
(* record is missing from the IR, and its blocks are lost.                 *)
PushFails ==
    /\ LoaderMayFail
    /\ FnRead
    /\ Len(made.fns) >= InitCap
    /\ dropped' = TRUE
    /\ cur' = NoRecord
    /\ lpc' = "peek"
    /\ UNCHANGED <<bytes, pos, made, owned>>

LoaderNext ==
    ReadHead \/ ReadHeader \/ Peek \/ ReadFn \/ ReadParam \/ Push \/ PushFails

Failed == lpc \in {"magic", "corrupt", "py_version", "cinpy_version", "oom"}

-----------------------------------------------------------------------------
(* What read_str can read back: strings that end within its buffer.  No    *)
(* function's name begins with the byte that is the sentinel.              *)
Readable(s) == Len(s) <= BufSize - 2

Storable(x) ==
    /\ Readable(x.header)
    /\ \A i \in DOMAIN x.fns :
         /\ Readable(x.fns[i].name)
         /\ \A j \in DOMAIN x.fns[i].params : Readable(x.fns[i].params[j].name)

(* A load that fails leaves nothing allocated, unless a push failed before *)
(* (loader.c:86-137).                                                      *)
FailureFreesAll == Failed /\ ~dropped => owned = 0
=============================================================================
