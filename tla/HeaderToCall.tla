---------------------------- MODULE HeaderToCall ----------------------------
(***************************************************************************)
(* From a header to a call, in one process: the header is parsed, its IR   *)
(* is written to a .cpyc file, another run of the program loads the file,  *)
(* and a function that was loaded is called.  The steps are those of       *)
(* Parser, CpycFormat and CallValues; what they share is the IR, by way of *)
(* the file.                                                               *)
(***************************************************************************)
EXTENDS Parser, CpycFormat, CallValues

CONSTANTS
    StaleHeads  \* how the head of a file differs that another version wrote

VARIABLE whole  \* the file holds all that was written

Bytes == 0..255

Strings == Seq(Bytes \ {Nul})

Params == [name : Strings, type : Bytes]

Kinds == [name : Strings, kind : Nat]   \* the parameters of a declaration

FnRecords == [name : Strings, ret : Bytes, params : Seq(Params)]

Irs == [header : Strings, fns : Seq(FnRecords)]

Cursors ==
    [kind : {"function", "other"}, own : BOOLEAN, known : BOOLEAN, name : Strings,
     ret : Nat, params : Seq(Kinds)]

ASSUME BytesAssumption ==
    /\ {Magic, PyVersion, CinpyMajor, CinpyMinor, Sentinel, ParamCap} \subseteq Bytes
    /\ Sentinel # Nul

(* A C identifier does not begin with the byte 0xFF.                       *)
ASSUME UnitsAssumption ==
    /\ HeaderName \in Strings
    /\ \A u \in Units :
         /\ u \in Seq(Cursors)
         /\ \A i \in DOMAIN u : u[i].name # << >> => u[i].name[1] # Sentinel

ASSUME StaleAssumption ==
    \A h \in StaleHeads :
        h \in Seq(Bytes) /\ Len(h) = 4 /\ SubSeq(h, 1, 3) # <<Magic, PyVersion, CinpyMajor>>

vars == <<parserVars, loaderVars, callVars, whole>>

HeaderToCallInit == ParserInit /\ LoaderIdle /\ CallIdle /\ whole = FALSE

Parse == ParserNext /\ UNCHANGED <<loaderVars, callVars, whole>>

(* cinpy_emit_cpyc has written the file, and cinpy_load_cpyc opens it.     *)
(* When a write failed, at fclose too, it holds a beginning only.          *)
Store ==
    /\ ppc = "parsed"
    /\ \E n \in 0..Len(Encoding(parsed)) :
         /\ Open(SubSeq(Encoding(parsed), 1, n))
         /\ whole' = (n = Len(Encoding(parsed)))
    /\ UNCHANGED <<parserVars, callVars>>

(* The file is one that another version of CinPy or of Python wrote.       *)
StoreStale ==
    /\ ppc = "parsed"
    /\ \E h \in StaleHeads : Open(h \o SubSeq(Encoding(parsed), 5, Len(Encoding(parsed))))
    /\ UNCHANGED <<parserVars, callVars, whole>>

Load == LoaderNext /\ UNCHANGED <<parserVars, callVars, whole>>

(* Python calls a function that was loaded, and resolve_sym finds a C      *)
(* function of that name, which some header declares.  (Where it finds     *)
(* none, the call ends: BuildFails in Dispatch.)                           *)
Call ==
    /\ lpc = "ok"
    /\ \E i \in DOMAIN made.fns, n \in DOMAIN unit, a \in GivenTuples :
         /\ unit[n].kind = "function" /\ unit[n].name = made.fns[i].name
         /\ Enter(made.fns[i], unit[n], a)
    /\ UNCHANGED <<parserVars, loaderVars, whole>>

InCall == CallNext /\ UNCHANGED <<parserVars, loaderVars, whole>>

HeaderToCallNext == Parse \/ Store \/ StoreStale \/ Load \/ Call \/ InCall

HeaderToCallSpec == HeaderToCallInit /\ [][HeaderToCallNext]_vars

(* One thread of sequential code: each part runs to its end. *)
FairHeaderToCall ==
    HeaderToCallSpec /\ WF_vars(Parse) /\ WF_vars(Load) /\ WF_vars(InCall)

-----------------------------------------------------------------------------
(* Types of the variables. *)
HeaderToCallTypeOK ==
    /\ unit \in Units /\ visited \in 0..Len(unit)
    /\ {skipped, dropped, whole} \subseteq BOOLEAN
    /\ {parsed, made} \subseteq Irs
    /\ ppc \in {"parse", "visit", "parsed", "unparsed"}
    /\ pos \in 0..Len(bytes)
    /\ owned \in Nat
    /\ Failed \/ lpc \in {"idle", "head", "header", "peek", "fn", "params", "ok"}
    /\ cpc \in {"idle", "arity", "convert", "called", "returned", "raised"}
    /\ Len(cvals) <= Len(args)

(* What a file gives back is the IR that was written to it: every name,    *)
(* type and parameter of every function, UNKNOWN (the sentinel's byte) and *)
(* strings as long as read_str's buffer takes included                     *)
(* (emitter.c:28-63, loader.c:25-40, 72-147).                              *)
LoadedIsWritten == lpc = "ok" /\ ~dropped /\ Storable(parsed) => made = parsed

(* A file that was cut short, wherever it was, is refused                  *)
(* (loader.c:48-137).                                                      *)
CutFileIsRefused == lpc = "ok" /\ Storable(parsed) => whole

(* The functions among the cursors of u that the header declares itself,   *)
(* with parameters that libclang knows.                                    *)
Own(u) == Concat([i \in DOMAIN u |-> IF Recorded(u[i]) THEN <<u[i]>> ELSE << >>])

(* The records that are loaded are the functions the header declares       *)
(* itself, in their order, with as many of their parameters as a record    *)
(* has room for, each with its own name and the type that                  *)
(* cinpy_map_type_kind gives its kind, be it the right one or not, unless  *)
(* memory ran out (parser.c:27-76, ir.c:55-76, through the file to         *)
(* loader.c:141).                                                          *)
LoadedDeclares ==
    lpc = "ok" /\ Storable(parsed) /\ ~skipped /\ ~dropped =>
        LET own == Own(unit)
        IN  /\ Len(made.fns) = Len(own)
            /\ \A i \in DOMAIN own :
                 LET f == made.fns[i]
                     c == own[i]
                 IN  /\ f.name = c.name /\ f.ret = MapTypeKind(c.ret)
                     /\ Len(f.params) <= Len(c.params)
                     /\ Len(f.params) \in {Len(c.params), ParamCap}
                     /\ \A j \in DOMAIN f.params :
                          /\ f.params[j].name = c.params[j].name
                          /\ f.params[j].type = MapTypeKind(c.params[j].kind)

(* The loader comes to its end on every file, however it was cut           *)
(* (loader.c:85-142).                                                      *)
LoaderEnds == lpc = "head" ~> lpc = "ok" \/ Failed
=============================================================================
