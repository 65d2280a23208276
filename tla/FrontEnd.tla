------------------------------ MODULE FrontEnd ------------------------------
(***************************************************************************)
(* LoadHeader, GenCPyC and LoadCPyC (src/cinpy/__init__.py), the proxies   *)
(* they return (src/cinpy/_proxy.py) and the capsules of cinpy_core.c that *)
(* keep an IR alive.                                                       *)
(*                                                                         *)
(* A function of cinpy_core runs under the GIL and is one step; between    *)
(* two of them any other activation may take one.  A nested activation (a  *)
(* conversion that runs Python code) interleaves like one of another       *)
(* thread.  Reference counts are numbers, and the counted references are   *)
(* found in the state: Holders says who they are.                          *)
(***************************************************************************)
EXTENDS ClangBridge

CONSTANTS
    Threads,     \* activations of the functions above
    Candidates,  \* the paths _ensure_clang tries, in order
    Unset,       \* CINPY_LIBCLANG is not set ...
    Named,       \* ... or one of these paths
    Irs,         \* CinPyIRs, each with the capsule of its own; none is reused
    Recs,        \* addresses of record capsules
    Names,       \* the functions that every header declares
    None

ASSUME CandidatesAssumption == Candidates \in Seq(Paths)
ASSUME NamedAssumption == Named \subseteq Paths /\ Unset \notin Paths
ASSUME NoneAssumption == None \notin Recs \cup [ir : Irs, name : Names]
ASSUME FiniteAssumption ==
    /\ IsFiniteSet(Threads) /\ IsFiniteSet(Irs)
    /\ IsFiniteSet(Recs) /\ IsFiniteSet(Names)

VARIABLES
    variable,    \* os.environ["CINPY_LIBCLANG"]
    initialized, \* _clang_initialized
    ir,          \* IR -> "none" before it is made, "live", "freed", or "lost"
                 \* when it was made and no capsule for it
    capRefs,     \* IR -> the reference count of its capsule
    rec,         \* record capsule -> the IR and the name it is for, or None
    recRefs,     \* record capsule -> its reference count
    header,      \* IR -> its HeaderProxy: "none", "held" by Python variables,
                 \* "unheld" by any, or "dead"
    memo,        \* IR -> the _rec_cache of its HeaderProxy
    fn,          \* thread -> the record capsule of the FnProxy it has, or None
    frame        \* thread -> where it is, and its locals

pyVars == <<ir, capRefs, rec, recRefs, header, memo, fn>>
vars == <<disk, handle, table, opens, mapped, variable, initialized,
          ir, capRefs, rec, recRefs, header, memo, fn, frame>>

Idle == [pc |-> "idle"]

At(t, pc) == frame[t].pc = pc

FrontEndInit ==
    /\ BridgeInit
    /\ variable \in Named \cup {Unset}
    /\ initialized = FALSE
    /\ ir = [i \in Irs |-> "none"]
    /\ capRefs = [i \in Irs |-> 0]
    /\ rec = [r \in Recs |-> None]
    /\ recRefs = [r \in Recs |-> 0]
    /\ header = [i \in Irs |-> "none"]
    /\ memo = [i \in Irs |-> [n \in Names |-> None]]
    /\ fn = [t \in Threads |-> None]
    /\ frame = [t \in Threads |-> Idle]

Go(t, f) == frame' = [frame EXCEPT ![t] = f]

-----------------------------------------------------------------------------
(* A HeaderProxy that is not deallocated yet holds the capsule of its IR;  *)
(* a frame that runs one of its methods keeps it from being deallocated.   *)
HasCapsule(i) == header[i] \in {"held", "unheld"}

InHeader(t, i) == frame[t].pc \in {"check", "resolve", "store", "fetch"} /\ frame[t].ir = i

(* A HeaderProxy no one holds is deallocated, with its __dict__, before    *)
(* any other step: first _ir_cap goes, then each entry of _rec_cache.      *)
Unreachable(i) == header[i] = "unheld" /\ \A t \in Threads : ~InHeader(t, i)

Dying(i) == header[i] = "dead" /\ \E n \in Names : memo[i][n] # None

Settled == \A i \in Irs : ~Unreachable(i) /\ ~Dying(i)

(* Mutant: ir_capsule_destructor leaves the IR. *)
DecCapsuleKeepsIr(i, refs) ==
    /\ capRefs' = [capRefs EXCEPT ![i] = refs - 1]
    /\ UNCHANGED ir

(* Mutant: one reference too many is given back. *)
DecCapsuleTwice(i, refs) ==
    /\ capRefs' = [capRefs EXCEPT ![i] = refs - 2]
    /\ ir' = IF refs = 1 THEN [ir EXCEPT ![i] = "freed"] ELSE ir

(* Py_DECREF of an IR capsule whose count is refs: ir_capsule_destructor.  *)
DecCapsule(i, refs) ==
    /\ capRefs' = [capRefs EXCEPT ![i] = refs - 1]
    /\ ir' = IF refs = 1 THEN [ir EXCEPT ![i] = "freed"] ELSE ir

(* Mutant: fn_record_capsule_destructor forgets the context. *)
DecRecordForgets(r) ==
    /\ recRefs' = [recRefs EXCEPT ![r] = @ - 1]
    /\ rec' = IF recRefs[r] = 1 THEN [rec EXCEPT ![r] = None] ELSE rec
    /\ UNCHANGED <<capRefs, ir>>

(* Py_DECREF of a record capsule: fn_record_capsule_destructor.            *)
DecRecord(r) ==
    /\ recRefs' = [recRefs EXCEPT ![r] = @ - 1]
    /\ IF recRefs[r] = 1
       THEN /\ rec' = [rec EXCEPT ![r] = None]
            /\ DecCapsule(rec[r].ir, capRefs[rec[r].ir])
       ELSE UNCHANGED <<rec, capRefs, ir>>

(* Mutant: the record capsule does not own a reference to the IR's. *)
NewRecordBorrows(r, i, n) ==
    /\ rec[r] = None
    /\ rec' = [rec EXCEPT ![r] = [ir |-> i, name |-> n]]
    /\ recRefs' = [recRefs EXCEPT ![r] = 1]
    /\ UNCHANGED capRefs

(* PyCapsule_New and PyCapsule_SetContext of py_resolve_fn_record.         *)
NewRecord(r, i, n) ==
    /\ rec[r] = None
    /\ rec' = [rec EXCEPT ![r] = [ir |-> i, name |-> n]]
    /\ recRefs' = [recRefs EXCEPT ![r] = 1]
    /\ capRefs' = [capRefs EXCEPT ![i] = @ + 1]

-----------------------------------------------------------------------------
(* LoadHeader, GenCPyC and LoadCPyC.  "keep" tells the calls that return a *)
(* HeaderProxy from GenCPyC, which does not.                               *)
Load(t) ==
    /\ At(t, "idle")
    /\ \E k \in BOOLEAN : Go(t, [pc |-> "ensure", keep |-> k])
    /\ UNCHANGED <<bridgeVars, variable, initialized, pyVars>>

LoadCPyC(t) ==
    /\ At(t, "idle")
    /\ Go(t, [pc |-> "read"])
    /\ UNCHANGED <<bridgeVars, variable, initialized, pyVars>>

(* The path that _ensure_clang takes: CINPY_LIBCLANG, or else the first    *)
(* candidate there is a file for.                                          *)
Chosen(p) ==
    IF variable # Unset
    THEN p = variable
    ELSE \E n \in DOMAIN Candidates :
             /\ p = Candidates[n]
             /\ Exists(p)
             /\ \A m \in 1..n - 1 : ~Exists(Candidates[m])

(* LoadHeader without aot looks for a .cpyc file and reads it if it is     *)
(* there (see CpycStore); every other call parses the header.              *)
Ensured(t) ==
    \/ Go(t, [pc |-> "parse", keep |-> frame[t].keep])
    \/ frame[t].keep /\ Go(t, [pc |-> "read"])

(* _clang_initialized is set, or no candidate exists and CinPyError is     *)
(* raised, or a path is chosen.                                            *)
Ensure(t) ==
    /\ At(t, "ensure")
    /\ \/ initialized /\ Ensured(t)
       \/ ~initialized /\ (\A p \in Paths : ~Chosen(p)) /\ Go(t, Idle)
       \/ /\ ~initialized
          /\ \E p \in Paths :
                Chosen(p) /\ Go(t, [pc |-> "init", path |-> p, keep |-> frame[t].keep])
    /\ UNCHANGED <<bridgeVars, variable, initialized, pyVars>>

(* _init_clang(path) *)
InitClang(t) ==
    /\ At(t, "init")
    /\ \/ InitSucceeds(frame[t].path) /\ Go(t, [pc |-> "flag", keep |-> frame[t].keep])
       \/ InitFails(frame[t].path) /\ Go(t, Idle)
    /\ UNCHANGED <<variable, initialized, pyVars>>

SetInitialized(t) ==
    /\ At(t, "flag")
    /\ initialized' = TRUE
    /\ Ensured(t)
    /\ UNCHANGED <<bridgeVars, variable, pyVars>>

(* _parse_header or _load_cpyc: an IR in a new capsule, which the frame    *)
(* holds; no IR; or an IR without a capsule, when PyCapsule_New fails.     *)
(* An IR that was loaded is not emitted again.                             *)
Obtain(t) ==
    /\ At(t, "parse") \/ At(t, "read")
    /\ \/ \E i \in Irs :
            /\ ir[i] = "none"
            /\ \/ /\ ir' = [ir EXCEPT ![i] = "live"]
                  /\ capRefs' = [capRefs EXCEPT ![i] = 1]
                  /\ Go(t, IF At(t, "read")
                           THEN [pc |-> "proxy", ir |-> i]
                           ELSE [pc |-> "emit", ir |-> i, keep |-> frame[t].keep])
               \/ /\ ir' = [ir EXCEPT ![i] = "lost"]
                  /\ Go(t, Idle)
                  /\ UNCHANGED capRefs
       \/ Go(t, Idle) /\ UNCHANGED <<ir, capRefs>>
    /\ UNCHANGED <<bridgeVars, variable, initialized, rec, recRefs, header, memo, fn>>

(* _gen_cpyc returns, and LoadHeader goes on. *)
Emit(t) ==
    /\ At(t, "emit")
    /\ frame[t].keep
    /\ Go(t, [pc |-> "proxy", ir |-> frame[t].ir])
    /\ UNCHANGED <<bridgeVars, variable, initialized, pyVars>>

(* GenCPyC returns, or _gen_cpyc or HeaderProxy(ir_cap) raises: the frame  *)
(* lets the capsule go.                                                    *)
LetGo(t) ==
    /\ At(t, "emit") \/ At(t, "proxy")
    /\ DecCapsule(frame[t].ir, capRefs[frame[t].ir])
    /\ Go(t, Idle)
    /\ UNCHANGED <<bridgeVars, variable, initialized, rec, recRefs, header, memo, fn>>

(* HeaderProxy(ir_cap) is returned: it has the frame's reference now.      *)
Return(t) ==
    /\ At(t, "proxy")
    /\ header' = [header EXCEPT ![frame[t].ir] = "held"]
    /\ Go(t, Idle)
    /\ UNCHANGED <<bridgeVars, variable, initialized, ir, capRefs, rec, recRefs, memo, fn>>

-----------------------------------------------------------------------------
(* HeaderProxy.__getattr__(name), for a name the header declares. *)
GetAttr(t) ==
    /\ At(t, "idle")
    /\ fn[t] = None
    /\ \E i \in Irs, n \in Names :
         header[i] = "held" /\ Go(t, [pc |-> "check", ir |-> i, name |-> n])
    /\ UNCHANGED <<bridgeVars, variable, initialized, pyVars>>

CheckMemo(t) ==
    /\ At(t, "check")
    /\ \E pc \in {"resolve", "fetch"} :
         /\ pc = "resolve" <=> memo[frame[t].ir][frame[t].name] = None
         /\ Go(t, [pc |-> pc, ir |-> frame[t].ir, name |-> frame[t].name])
    /\ UNCHANGED <<bridgeVars, variable, initialized, pyVars>>

(* Mutant: the scan of the IR compares no names. *)
ResolveFirst(t) ==
    /\ At(t, "resolve")
    /\ \E r \in Recs, n \in Names :
         /\ NewRecord(r, frame[t].ir, n)
         /\ Go(t, [pc |-> "store", ir |-> frame[t].ir, name |-> frame[t].name, rec |-> r])
    /\ UNCHANGED <<bridgeVars, variable, initialized, ir, header, memo, fn>>

(* py_resolve_fn_record.  When PyCapsule_SetContext fails, the references  *)
(* taken are given back and the destructor finds no context.               *)
Resolve(t) ==
    /\ At(t, "resolve")
    /\ \/ \E r \in Recs :
            /\ NewRecord(r, frame[t].ir, frame[t].name)
            /\ Go(t, [pc |-> "store", ir |-> frame[t].ir, name |-> frame[t].name, rec |-> r])
       \/ Go(t, Idle) /\ UNCHANGED <<capRefs, rec, recRefs>>
    /\ UNCHANGED <<bridgeVars, variable, initialized, ir, header, memo, fn>>

(* The memo takes the frame's reference.  Another thread may have stored   *)
(* a record for the name meanwhile: that one is let go.                    *)
Store(t) ==
    LET i == frame[t].ir
        n == frame[t].name
    IN  /\ At(t, "store")
        /\ memo' = [memo EXCEPT ![i][n] = frame[t].rec]
        /\ Go(t, [pc |-> "fetch", ir |-> i, name |-> n])
        /\ IF memo[i][n] = None
           THEN UNCHANGED <<ir, capRefs, rec, recRefs>>
           ELSE DecRecord(memo[i][n])
        /\ UNCHANGED <<bridgeVars, variable, initialized, header, fn>>

(* FnProxy(self._rec_cache[name], name) is returned. *)
Fetch(t) ==
    LET r == memo[frame[t].ir][frame[t].name]
    IN  /\ At(t, "fetch")
        /\ fn' = [fn EXCEPT ![t] = r]
        /\ recRefs' = [recRefs EXCEPT ![r] = @ + 1]
        /\ Go(t, Idle)
        /\ UNCHANGED <<bridgeVars, variable, initialized, ir, capRefs, rec, header, memo>>

(* FnProxy.__call__: the arguments hold the record capsule while cinpy_call *)
(* works with the record in it, whatever becomes of the proxies meanwhile. *)
Call(t) ==
    /\ At(t, "idle")
    /\ fn[t] # None
    /\ recRefs' = [recRefs EXCEPT ![fn[t]] = @ + 1]
    /\ Go(t, [pc |-> "call", rec |-> fn[t], fnrec |-> rec[fn[t]]])
    /\ UNCHANGED <<bridgeVars, variable, initialized, ir, capRefs, rec, header, memo, fn>>

CallReturns(t) ==
    /\ At(t, "call")
    /\ DecRecord(frame[t].rec)
    /\ Go(t, Idle)
    /\ UNCHANGED <<bridgeVars, variable, initialized, header, memo, fn>>

(* Python lets a FnProxy go, or the last variable that holds a HeaderProxy. *)
DropFn(t) ==
    /\ fn[t] # None
    /\ DecRecord(fn[t])
    /\ fn' = [fn EXCEPT ![t] = None]
    /\ UNCHANGED <<bridgeVars, variable, initialized, header, memo, frame>>

DropHeader(i) ==
    /\ header[i] = "held"
    /\ header' = [header EXCEPT ![i] = "unheld"]
    /\ UNCHANGED <<bridgeVars, variable, initialized, ir, capRefs, rec, recRefs, memo, fn, frame>>

(* The deallocation of a HeaderProxy. *)
ReleaseCapsule(i) ==
    /\ Unreachable(i)
    /\ header' = [header EXCEPT ![i] = "dead"]
    /\ DecCapsule(i, capRefs[i])
    /\ UNCHANGED <<bridgeVars, variable, initialized, rec, recRefs, memo, fn, frame>>

ReleaseEntry(i, n) ==
    /\ header[i] = "dead"
    /\ memo[i][n] # None
    /\ memo' = [memo EXCEPT ![i][n] = None]
    /\ DecRecord(memo[i][n])
    /\ UNCHANGED <<bridgeVars, variable, initialized, header, fn, frame>>

(* The user sets CINPY_LIBCLANG or installs a library.  Both matter only   *)
(* until _clang_initialized is set, and are left out after that.           *)
SetVariable ==
    /\ ~initialized
    /\ variable' \in Named \cup {Unset}
    /\ UNCHANGED <<bridgeVars, initialized, pyVars, frame>>

InstallLibrary ==
    /\ ~initialized
    /\ \E p \in Paths : Install(p)
    /\ UNCHANGED <<variable, initialized, pyVars, frame>>

ThreadStep(t) ==
    \/ Load(t) \/ LoadCPyC(t) \/ Ensure(t) \/ InitClang(t) \/ SetInitialized(t)
    \/ Obtain(t) \/ Emit(t) \/ LetGo(t) \/ Return(t)
    \/ GetAttr(t) \/ CheckMemo(t) \/ Resolve(t) \/ Store(t) \/ Fetch(t)
    \/ Call(t) \/ CallReturns(t) \/ DropFn(t)

Deallocate(i) == ReleaseCapsule(i) \/ \E n \in Names : ReleaseEntry(i, n)

FrontEndNext ==
    \/ Settled /\ \E t \in Threads : ThreadStep(t)
    \/ Settled /\ \E i \in Irs : DropHeader(i)
    \/ \E i \in Irs : Deallocate(i)
    \/ Settled /\ SetVariable
    \/ Settled /\ InstallLibrary

FrontEndSpec == FrontEndInit /\ [][FrontEndNext]_vars

-----------------------------------------------------------------------------
Frames ==
    {Idle}
    \cup [pc : {"ensure", "flag", "parse"}, keep : BOOLEAN]
    \cup [pc : {"init"}, path : Paths, keep : BOOLEAN]
    \cup [pc : {"read"}]
    \cup [pc : {"emit"}, ir : Irs, keep : BOOLEAN]
    \cup [pc : {"proxy"}, ir : Irs]
    \cup [pc : {"check", "resolve", "fetch"}, ir : Irs, name : Names]
    \cup [pc : {"store"}, ir : Irs, name : Names, rec : Recs]
    \cup [pc : {"call"}, rec : Recs, fnrec : [ir : Irs, name : Names]]

(* Types of the variables. *)
FrontEndTypeOK ==
    /\ BridgeTypeOK
    /\ variable \in Named \cup {Unset} /\ initialized \in BOOLEAN
    /\ ir \in [Irs -> {"none", "live", "freed", "lost"}]
    /\ capRefs \in [Irs -> Nat] /\ recRefs \in [Recs -> Nat]
    /\ rec \in [Recs -> [ir : Irs, name : Names] \cup {None}]
    /\ header \in [Irs -> {"none", "held", "unheld", "dead"}]
    /\ memo \in [Irs -> [Names -> Recs \cup {None}]]
    /\ fn \in [Threads -> Recs \cup {None}]
    /\ frame \in [Threads -> Frames]

(* Who holds a reference to the capsule of i: a frame between the capsule's *)
(* making and HeaderProxy's, the HeaderProxy, the records of i.            *)
HoldsIr(t, i) == frame[t].pc \in {"emit", "proxy"} /\ frame[t].ir = i

CapsuleHolders(i) ==
    {<<"frame", t>> : t \in {u \in Threads : HoldsIr(u, i)}}
    \cup {<<"header", j>> : j \in {k \in {i} : HasCapsule(k)}}
    \cup {<<"record", r>> : r \in {q \in Recs : rec[q] # None /\ rec[q].ir = i}}

(* Who holds a reference to record capsule r. *)
HoldsRecord(t, r) == frame[t].pc \in {"store", "call"} /\ frame[t].rec = r

RecordHolders(r) ==
    {<<"frame", t>> : t \in {u \in Threads : HoldsRecord(u, r)}}
    \cup {<<"fn", t>> : t \in {u \in Threads : fn[u] = r}}
    \cup {<<"memo", p>> : p \in {q \in Irs \X Names : memo[q[1]][q[2]] = r}}

(* The parser is entered with every pointer of g_clang taken from the      *)
(* library that is open, whatever attempts failed before and whoever made  *)
(* them (clang_bridge.c:17-59, __init__.py:34-79, parser.c:97-124).        *)
SymbolsReady == initialized \/ (\E t \in Threads : At(t, "parse")) => Ready

(* The library that was initialised is never exchanged: translation units  *)
(* and cursors never meet the functions of another one                     *)
(* (clang_bridge.c:30, __init__.py:34-43).                                 *)
LibraryStays == [][Ready => UNCHANGED <<handle, table, mapped>>]_vars

(* A record that cinpy_call works with lies in an IR that is not freed,    *)
(* even if everything that names the header was dropped since the call     *)
(* began (cinpy_core.c:141-177, 188-197, call.c:73-110).                   *)
RecordsAlive ==
    \A t \in Threads : At(t, "call") => ir[frame[t].fnrec.ir] = "live"

(* A reference count is the number of the references there are: no         *)
(* capsule is freed too early or too late, and none twice                  *)
(* (cinpy_core.c:17-22, 141-177, _proxy.py:18-29).                         *)
CountsExact ==
    /\ \A i \in Irs : capRefs[i] = Cardinality(CapsuleHolders(i))
    /\ \A r \in Recs : recRefs[r] = Cardinality(RecordHolders(r))

(* An IR lives as long as its capsule, and no longer; only the failure of  *)
(* PyCapsule_New loses one (cinpy_core.c:17-22, 54, 86).                   *)
IrLivesWithCapsule == \A i \in Irs : ir[i] = "live" <=> capRefs[i] > 0

(* A FnProxy calls the function it was asked for: the record it has, from  *)
(* the memo that threads fill side by side, is the one of that name in     *)
(* that header (_proxy.py:24-29, cinpy_core.c:159-171).                    *)
MemoIsOfTheName ==
    \A i \in Irs, n \in Names :
        memo[i][n] # None => rec[memo[i][n]] = [ir |-> i, name |-> n]
=============================================================================
