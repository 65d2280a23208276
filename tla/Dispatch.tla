------------------------------ MODULE Dispatch ------------------------------
(***************************************************************************)
(* cinpy_call (src/src/call.c): look the function up in the call cache or  *)
(* prepare it, convert the arguments (src/src/marshal.c) and call through  *)
(* libffi.                                                                 *)
(*                                                                         *)
(* The whole of it runs under the GIL, except that converting an object to *)
(* a number or a truth value runs the object's Python code, and while that *)
(* runs any other Python code may: other threads, or the method itself,    *)
(* may call C functions, evict or reconfigure the cache.  A member of      *)
(* Calls is one activation of cinpy_call; a nested activation interleaves  *)
(* like one of another thread.                                             *)
(***************************************************************************)
EXTENDS Cache, Sequences

CONSTANTS
    Calls,       \* activations of cinpy_call
    Recs,        \* CinPyFnRecords of the loaded headers: [fn, proto]
    ArgTuples,   \* tuples of Python objects, each given by its kind
    NoCall

(* A prototype is the sequence of its parameters' types.  CinPyTypes that  *)
(* cinpy_py_to_ffi treats alike are one type here:                         *)
(*   "bool"    BOOL, by PyObject_IsTrue                                    *)
(*   "num"     INT LONG LONGLONG FLOAT DOUBLE, by __index__ or __float__   *)
(*   "strict"  UINT ULONG SIZE_T, an int and nothing else                  *)
(*   "ptr"     CHARPTR PTR                                                 *)
(*   "unknown" the rest                                                    *)
ParamTypes == {"bool", "num", "strict", "ptr", "unknown"}

(* "object" has methods that convert it, written in Python. *)
Objects == {"int", "text", "none", "object"}

ASSUME ProtosAssumption == Cifs \subseteq Seq(ParamTypes)
ASSUME RecsAssumption == Recs \subseteq [fn : Keys, proto : Cifs]
ASSUME ArgTuplesAssumption == ArgTuples \subseteq Seq(Objects)
ASSUME NoCallAssumption == NoCall \notin Calls

VARIABLES
    frame,   \* call -> the locals of its cinpy_call, and where it is
    running  \* the call that holds the GIL in C code, NoCall when Python runs

vars == <<slot, order, count, cap, timeout, now, heap, frame, running>>

(* A frame: pc, rec and args are cinpy_call's parameters; cif and block its *)
(* copy of the cif and the arg_types that cif points to; done counts the    *)
(* arguments converted; pending is PyErr_Occurred(); yielded records that   *)
(* Python code has run since the lookup.                                    *)
Idle == [pc |-> "idle"]
Started(r, a) == [pc |-> "lookup", rec |-> r, args |-> a]

Bound(f, c, b) ==
    [pc |-> "check", rec |-> f.rec, args |-> f.args, cif |-> c, block |-> b,
     done |-> 0, pending |-> FALSE, yielded |-> FALSE]

DispatchInit ==
    /\ CacheInit
    /\ frame = [c \in Calls |-> Idle]
    /\ running = NoCall

Proto(f) == f.rec.proto

At(c, pc) == frame[c].pc = pc

-----------------------------------------------------------------------------
(* cinpy_py_to_ffi(obj, t) *)

RunsPython(t, obj) == obj = "object" /\ t \in {"bool", "num"}

(* The conversions that can set an exception ... *)
MayRaise(t, obj) ==
    \/ t \in {"strict", "unknown"}
    \/ t = "num"
    \/ t = "ptr" /\ obj # "none"
    \/ t = "bool" /\ obj = "object"

(* ... and the ones that can do without. *)
MaySucceed(t, obj) ==
    \/ t = "bool"
    \/ t = "num" /\ obj \in {"int", "object"}
    \/ t = "strict" /\ obj = "int"
    \/ t = "ptr" /\ obj # "object"

(* The cases that return -1 if PyErr_Occurred(), whoever raised. *)
ChecksPending(t, obj) == t \in {"num", "strict"} \/ (t = "ptr" /\ obj = "int")

(* Mutant: the numeric cases do not ask PyErr_Occurred(). *)
RejectsNoNumber(t, obj, raised, pending) == raised /\ t \notin {"bool", "num"}

(* The BOOL case returns 0 whatever PyObject_IsTrue answered. *)
Rejects(t, obj, raised, pending) ==
    \/ raised /\ t # "bool"
    \/ pending /\ ChecksPending(t, obj)

(* Mutant: a rejected argument is tried again. *)
ConvertedRetries(f, raised) ==
    LET t == Proto(f)[f.done + 1]
        obj == f.args[f.done + 1]
    IN  IF Rejects(t, obj, raised, f.pending)
        THEN [f EXCEPT !.pc = "convert"]
        ELSE [f EXCEPT !.pc = "convert", !.done = f.done + 1,
                       !.pending = f.pending \/ raised]

(* One round of the conversion loop, once the object has been asked. *)
Converted(f, raised) ==
    LET t == Proto(f)[f.done + 1]
        obj == f.args[f.done + 1]
    IN  IF Rejects(t, obj, raised, f.pending)
        THEN Idle
        ELSE [f EXCEPT !.pc = "convert", !.done = f.done + 1,
                       !.pending = f.pending \/ raised]

Outcomes(f) ==
    LET t == Proto(f)[f.done + 1]
        obj == f.args[f.done + 1]
    IN  {r \in BOOLEAN : IF r THEN MayRaise(t, obj) ELSE MaySucceed(t, obj)}

(* c goes on with frame f, or has returned to Python. *)
Resume(c, f) ==
    /\ frame' = [frame EXCEPT ![c] = f]
    /\ running' = IF f = Idle THEN NoCall ELSE c

-----------------------------------------------------------------------------
(* Python code calls a function of a loaded header. *)
Begin(c) ==
    /\ running = NoCall
    /\ At(c, "idle")
    /\ \E r \in Recs, a \in ArgTuples : Resume(c, Started(r, a))
    /\ UNCHANGED cacheVars

(* cinpy_cache_get finds the function: its cif is copied, the arg_types it *)
(* points to are not.                                                      *)
LookUpHit(c) ==
    /\ At(c, "lookup")
    /\ GetHit(frame[c].rec.fn)
    /\ LET s == First(Found(frame[c].rec.fn))
       IN  Resume(c, Bound(frame[c], slot[s].cif, slot[s].args))

LookUpMiss(c) ==
    /\ At(c, "lookup")
    /\ GetMiss(frame[c].rec.fn)
    /\ Resume(c, [frame[c] EXCEPT !.pc = "build"])

(* resolve_sym, malloc and ffi_prep_cif all succeed. *)
Build(c) ==
    /\ At(c, "build")
    /\ \E b \in Blocks \ heap :
         /\ Put(frame[c].rec.fn, Proto(frame[c]), b)
         /\ Resume(c, Bound(frame[c], Proto(frame[c]), b))

(* Mutant: the argument types are not freed when ffi_prep_cif fails. *)
BuildFailsLeaks(c) ==
    /\ At(c, "build")
    /\ Resume(c, Idle)
    /\ \E b \in Blocks \ heap : heap' = heap \cup {b}
    /\ UNCHANGED <<slot, order, count, cap, timeout, now>>

(* One of them fails, and what was allocated is freed. *)
BuildFails(c) ==
    /\ At(c, "build")
    /\ Resume(c, Idle)
    /\ UNCHANGED cacheVars

(* The argument count, then the allocation of args and aptrs. *)
CheckArity(c) ==
    /\ At(c, "check")
    /\ LET fits == Len(frame[c].args) = Len(Proto(frame[c]))
       IN  \/ fits /\ Resume(c, [frame[c] EXCEPT !.pc = "convert"])
           \/ Resume(c, Idle)
    /\ UNCHANGED cacheVars

MoreArguments(c) == At(c, "convert") /\ frame[c].done < Len(Proto(frame[c]))

NextRunsPython(c) ==
    RunsPython(Proto(frame[c])[frame[c].done + 1], frame[c].args[frame[c].done + 1])

Convert(c) ==
    /\ MoreArguments(c)
    /\ ~NextRunsPython(c)
    /\ \E raised \in Outcomes(frame[c]) : Resume(c, Converted(frame[c], raised))
    /\ UNCHANGED cacheVars

(* Mutant: the method runs with the GIL held for good. *)
EnterPythonKeepsGil(c) ==
    /\ MoreArguments(c)
    /\ NextRunsPython(c)
    /\ frame' = [frame EXCEPT ![c].pc = "python", ![c].yielded = TRUE]
    /\ UNCHANGED <<running, slot, order, count, cap, timeout, now, heap>>

(* __bool__, __index__ or __float__ of the argument is entered ... *)
EnterPython(c) ==
    /\ MoreArguments(c)
    /\ NextRunsPython(c)
    /\ frame' = [frame EXCEPT ![c].pc = "python", ![c].yielded = TRUE]
    /\ running' = NoCall
    /\ UNCHANGED cacheVars

(* ... and returns, this thread holding the GIL again. *)
LeavePython(c) ==
    /\ running = NoCall
    /\ At(c, "python")
    /\ \E raised \in Outcomes(frame[c]) : Resume(c, Converted(frame[c], raised))
    /\ UNCHANGED cacheVars

(* ffi_call is next. *)
AtCall(c) == At(c, "convert") /\ frame[c].done = Len(Proto(frame[c]))

(* ffi_call, the release of args and aptrs, and cinpy_ffi_to_py. *)
Execute(c) ==
    /\ AtCall(c)
    /\ Resume(c, Idle)
    /\ UNCHANGED cacheVars

(* cinpy.evict() and cinpy.config() *)
Evict ==
    /\ running = NoCall
    /\ EvictAll
    /\ UNCHANGED <<frame, running>>

Reconfigure ==
    /\ running = NoCall
    /\ \E c \in Caps \cup {0}, t \in Timeouts \cup {0} : Config(c, t)
    /\ UNCHANGED <<frame, running>>

TimePasses == Tick /\ UNCHANGED <<frame, running>>

Step(c) ==
    /\ running = c
    /\ \/ LookUpHit(c)
       \/ LookUpMiss(c)
       \/ Build(c)
       \/ BuildFails(c)
       \/ CheckArity(c)
       \/ Convert(c)
       \/ EnterPython(c)
       \/ Execute(c)

DispatchNext ==
    \/ \E c \in Calls : Begin(c) \/ Step(c) \/ LeavePython(c)
    \/ Evict
    \/ Reconfigure
    \/ TimePasses

DispatchSpec == DispatchInit /\ [][DispatchNext]_vars

(* The C code of a call keeps going while it holds the GIL, the Python     *)
(* methods it calls return, and a thread that waits for the GIL gets it    *)
(* again and again: the interpreter makes the holder give way.             *)
FairDispatch ==
    /\ DispatchSpec
    /\ \A c \in Calls : WF_vars(Step(c)) /\ SF_vars(LeavePython(c))

-----------------------------------------------------------------------------
StartedFrames(pcs) == [pc : pcs, rec : Recs, args : ArgTuples]

BoundFrames ==
    [pc : {"check", "convert", "python"}, rec : Recs, args : ArgTuples,
     cif : Cifs, block : Blocks, done : Nat, pending : BOOLEAN, yielded : BOOLEAN]

(* Types of the variables, and who may be inside cinpy_call: a call that   *)
(* is running C code is the one that holds the GIL.                        *)
DispatchTypeOK ==
    /\ frame \in [Calls -> {Idle} \cup StartedFrames({"lookup", "build"}) \cup BoundFrames]
    /\ \A c \in Calls : c = running <=> ~At(c, "idle") /\ ~At(c, "python")
    /\ running \in Calls \cup {NoCall}

HasCif(c) == frame[c].pc \in {"check", "convert", "python"}

(* The vector of types the cif of frame f points to is allocated and, if   *)
(* the cache owns it, describes the prototype it did when f copied it.     *)
SignatureLive(f) ==
    /\ f.block \in heap
    /\ \A s \in Occupied : slot[s].args = f.block => slot[s].cif = f.cif

(* Until Python code runs, nothing can free the argument types of a call   *)
(* between cinpy_cache_get or cinpy_cache_put and ffi_call: not the        *)
(* insertion that evicts, not expiry, not a capacity that was reduced      *)
(* (call.c:38-101, cif is a copy but cif.arg_types is not).                *)
SignatureLiveUntilPythonRuns ==
    \A c \in Calls : HasCif(c) /\ ~frame[c].yielded => SignatureLive(frame[c])

(* ffi_call reads argument types that are allocated and are those of the   *)
(* function (call.c:101).                                                  *)
SignatureLiveAtCall == \A c \in Calls : AtCall(c) => SignatureLive(frame[c])

(* A call is made with the cif its own record would have been given: the   *)
(* cache, keyed by the function's name, never hands a call the cif of      *)
(* another function (call.c:42-44).                                        *)
CifIsTheRecords == \A c \in Calls : HasCif(c) => frame[c].cif = Proto(frame[c])

(* The argument count that was checked is the one ffi_call goes by: it     *)
(* reads no pointer beyond those converted (call.c:73-78, 101).            *)
ArityIsTheCifs == \A c \in Calls : AtCall(c) => Len(frame[c].cif) = frame[c].done

(* The function is never called with a Python exception set, unless a      *)
(* truth value raised it and no later argument was one whose conversion    *)
(* asks PyErr_Occurred() (marshal.c:27-87, call.c:91).                     *)
PendingOnlyFromBool ==
    \A c \in Calls : AtCall(c) /\ frame[c].pending =>
        \E i \in 1..frame[c].done :
            /\ Proto(frame[c])[i] = "bool"
            /\ frame[c].args[i] = "object"
            /\ \A j \in i + 1..frame[c].done :
                   ~ChecksPending(Proto(frame[c])[j], frame[c].args[j])

(* Every call returns to its caller, however the calls interleave          *)
(* (cinpy_call).                                                           *)
EveryCallReturns == \A c \in Calls : ~At(c, "idle") ~> At(c, "idle")
=============================================================================
