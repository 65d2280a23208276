--------------------------- MODULE DispatchProofs ---------------------------
(***************************************************************************)
(* Theorems of module Dispatch, for every set of calls, records, argument  *)
(* tuples, array size, capacity setting, timeout and clock.                *)
(***************************************************************************)
EXTENDS Dispatch, CacheProofs

(* A call inside a Python method has let other code run. *)
PythonYields == \A c \in Calls : At(c, "python") => frame[c].yielded

(* The inductive invariant: who holds the GIL, what the cache is, and what *)
(* a call that has not let go of the GIL can rely on.                      *)
CallInv ==
    /\ Structure
    /\ DispatchTypeOK
    /\ PythonYields
    /\ SignatureLiveUntilPythonRuns

(* The frames a call that holds the GIL may have. *)
CFrames ==
    {f \in {Idle} \cup StartedFrames({"lookup", "build"}) \cup BoundFrames :
        f.pc # "python"}

-----------------------------------------------------------------------------
LEMMA FrameOf ==
    ASSUME DispatchTypeOK, NEW c \in Calls
    PROVE  /\ At(c, "lookup") \/ At(c, "build") =>
                  frame[c] \in StartedFrames({"lookup", "build"})
           /\ HasCif(c) => frame[c] \in BoundFrames
           /\ At(c, "python") <=> HasCif(c) /\ c # running
           /\ c = running => frame[c] \in CFrames
<1>1. frame[c] \in {Idle} \cup StartedFrames({"lookup", "build"}) \cup BoundFrames
  BY DEF DispatchTypeOK
<1>2. At(c, "lookup") \/ At(c, "build") => frame[c] \in StartedFrames({"lookup", "build"})
  BY <1>1 DEF At, Idle, BoundFrames
<1>3. HasCif(c) => frame[c] \in BoundFrames
  BY <1>1 DEF HasCif, Idle, StartedFrames
<1>4. c = running <=> ~At(c, "idle") /\ ~At(c, "python")
  BY DEF DispatchTypeOK
<1>. QED  BY <1>1, <1>2, <1>3, <1>4 DEF At, HasCif, CFrames

LEMMA RecordOf ==
    ASSUME NEW f \in StartedFrames({"lookup", "build"}) \cup BoundFrames
    PROVE  f.rec \in Recs /\ f.rec.fn \in Keys /\ Proto(f) \in Cifs
<1>1. f.rec \in Recs
  BY DEF StartedFrames, BoundFrames
<1>. QED  BY <1>1, RecsAssumption DEF Proto

(* A call that has the GIL, or takes it while nobody has it, goes on with  *)
(* a frame f that may rely on its signature.                               *)
LEMMA Resuming ==
    ASSUME CallInv, Structure', NEW c \in Calls, running \in {c, NoCall},
           NEW f \in CFrames, Resume(c, f),
           f \in BoundFrames => f.yielded \/ SignatureLive(f)'
    PROVE  CallInv'
<1>1. frame \in [Calls -> {Idle} \cup StartedFrames({"lookup", "build"}) \cup BoundFrames]
  BY DEF CallInv, DispatchTypeOK
<1>2. /\ frame' \in [Calls -> {Idle} \cup StartedFrames({"lookup", "build"}) \cup BoundFrames]
      /\ frame'[c] = f
      /\ \A d \in Calls \ {c} : frame'[d] = frame[d]
  BY <1>1 DEF Resume, CFrames
<1>3. f.pc # "python" /\ (f = Idle <=> f.pc = "idle")
  BY DEF CFrames, Idle, StartedFrames, BoundFrames
<1>4. running' = IF f = Idle THEN NoCall ELSE c
  BY DEF Resume
<1>5. \A d \in Calls \ {c} : frame[d].pc = "idle" \/ frame[d].pc = "python"
  BY NoCallAssumption DEF CallInv, DispatchTypeOK, At
<1>6. DispatchTypeOK'
  BY <1>2, <1>3, <1>4, <1>5, NoCallAssumption DEF DispatchTypeOK, At
<1>7. PythonYields'
  BY <1>2, <1>3 DEF CallInv, PythonYields, At
<1>8. SignatureLiveUntilPythonRuns'
  <2>1. SUFFICES ASSUME NEW d \in Calls, HasCif(d)', ~frame'[d].yielded
                 PROVE  SignatureLive(frame[d])'
    BY DEF SignatureLiveUntilPythonRuns
  <2>2. CASE d = c
    <3>1. f \in BoundFrames
      BY <1>2, <2>1, <2>2 DEF HasCif, CFrames, Idle, StartedFrames
    <3>2. SignatureLive(f)'
      BY <1>2, <2>1, <2>2, <3>1
    <3>. QED  BY <1>2, <2>2, <3>2 DEF SignatureLive
  <2>3. CASE d # c
    BY <1>2, <1>5, <2>1, <2>3 DEF CallInv, PythonYields, At, HasCif
  <2>. QED  BY <2>2, <2>3
<1>. QED  BY <1>6, <1>7, <1>8 DEF CallInv

-----------------------------------------------------------------------------
(* Steps of a call that leave the cache alone. *)

LEMMA CacheUnchanged ==
    ASSUME CallInv, UNCHANGED cacheVars
    PROVE  Structure' /\ \A f \in BoundFrames : SignatureLive(f)' <=> SignatureLive(f)
<1>1. Structure'
  BY StructureNext DEF CallInv
<1>2. Occupied' = Occupied /\ slot' = slot /\ heap' = heap
  BY DEF cacheVars, Occupied
<1>. QED  BY <1>1, <1>2 DEF SignatureLive

(* The call goes on with the cif it has, or returns. *)
LEMMA Continuing ==
    ASSUME CallInv, UNCHANGED cacheVars, NEW c \in Calls, running \in {c, NoCall},
           HasCif(c), NEW f, Resume(c, f),
           \/ f = Idle
           \/ /\ f \in BoundFrames /\ f.pc # "python"
              /\ f.block = frame[c].block /\ f.cif = frame[c].cif
              /\ f.yielded = frame[c].yielded
    PROVE  CallInv'
<1>1. Structure' /\ \A g \in BoundFrames : SignatureLive(g)' <=> SignatureLive(g)
  BY CacheUnchanged
<1>2. f \in CFrames
  BY DEF CFrames, Idle
<1>3. f \in BoundFrames => f.yielded \/ SignatureLive(f)'
  <2>1. SUFFICES ASSUME f \in BoundFrames, ~f.yielded PROVE SignatureLive(f)'
    OBVIOUS
  <2>2. f # Idle
    BY <2>1 DEF Idle, BoundFrames
  <2>3. SignatureLive(frame[c])
    BY <2>1, <2>2 DEF CallInv, SignatureLiveUntilPythonRuns
  <2>4. SignatureLive(f)
    BY <2>2, <2>3 DEF SignatureLive
  <2>. QED  BY <1>1, <2>1, <2>4
<1>. QED  BY <1>1, <1>2, <1>3, Resuming

LEMMA ConvertedFrame ==
    ASSUME NEW f \in BoundFrames, NEW raised \in BOOLEAN
    PROVE  \/ Converted(f, raised) = Idle
           \/ /\ Converted(f, raised) \in BoundFrames
              /\ Converted(f, raised).pc # "python"
              /\ Converted(f, raised).block = f.block
              /\ Converted(f, raised).cif = f.cif
              /\ Converted(f, raised).yielded = f.yielded
<1>. DEFINE g == [f EXCEPT !.pc = "convert", !.done = f.done + 1,
                           !.pending = f.pending \/ raised]
<1>1. Converted(f, raised) \in {Idle, g}
  BY DEF Converted
<1>2. f.done + 1 \in Nat /\ (f.pending \/ raised) \in BOOLEAN
  BY DEF BoundFrames
<1>3. /\ g \in BoundFrames /\ g.pc = "convert"
      /\ g.block = f.block /\ g.cif = f.cif /\ g.yielded = f.yielded
  BY <1>2 DEF BoundFrames
<1>. QED  BY <1>1, <1>3

LEMMA BeginStep ==
    ASSUME CallInv, NEW c \in Calls, Begin(c)
    PROVE  CallInv'
<1>1. PICK r \in Recs, a \in ArgTuples : Resume(c, Started(r, a))
  BY DEF Begin
<1>2. Started(r, a) \in CFrames /\ Started(r, a) \notin BoundFrames
  BY DEF Started, CFrames, StartedFrames, BoundFrames
<1>. QED
  BY <1>1, <1>2, CacheUnchanged, Resuming DEF Begin

LEMMA EnterPythonStep ==
    ASSUME CallInv, NEW c \in Calls, running = c, EnterPython(c)
    PROVE  CallInv'
<1>1. frame[c] \in BoundFrames
  BY FrameOf DEF EnterPython, MoreArguments, At, HasCif, CallInv
<1>. DEFINE f == [frame[c] EXCEPT !.pc = "python", !.yielded = TRUE]
<1>2. f \in BoundFrames /\ f.pc = "python" /\ f.yielded = TRUE
  BY <1>1 DEF BoundFrames
<1>3. frame' = [frame EXCEPT ![c] = f] /\ running' = NoCall
  BY DEF EnterPython
<1>4. frame \in [Calls -> {Idle} \cup StartedFrames({"lookup", "build"}) \cup BoundFrames]
  BY DEF CallInv, DispatchTypeOK
<1>. HIDE DEF f
<1>5. /\ frame' \in [Calls -> {Idle} \cup StartedFrames({"lookup", "build"}) \cup BoundFrames]
      /\ frame'[c] = f
      /\ \A d \in Calls \ {c} : frame'[d] = frame[d]
  BY <1>2, <1>3, <1>4
<1>6. \A d \in Calls \ {c} : frame[d].pc = "idle" \/ frame[d].pc = "python"
  BY DEF CallInv, DispatchTypeOK, At
<1>7. DispatchTypeOK'
  BY <1>2, <1>3, <1>5, <1>6, NoCallAssumption DEF DispatchTypeOK, At
<1>8. PythonYields'
  BY <1>2, <1>5 DEF CallInv, PythonYields, At
<1>9. SignatureLiveUntilPythonRuns'
  BY <1>2, <1>5, <1>6 DEF CallInv, PythonYields, At, HasCif, SignatureLiveUntilPythonRuns
<1>. QED
  BY <1>7, <1>8, <1>9, CacheUnchanged DEF CallInv, EnterPython

-----------------------------------------------------------------------------
(* Steps of a call that use the cache. *)

LEMMA LookUpHitStep ==
    ASSUME CallInv, NEW c \in Calls, running = c, LookUpHit(c)
    PROVE  CallInv'
<1>. DEFINE k == frame[c].rec.fn
            s == First(Found(k))
<1>. PICK f : f = Bound(frame[c], slot[s].cif, slot[s].args)
  OBVIOUS
<1>1. frame[c] \in StartedFrames({"lookup", "build"}) /\ k \in Keys
  BY FrameOf, RecordOf DEF CallInv, LookUpHit
<1>2. GetHit(k) /\ Resume(c, f)
  BY DEF LookUpHit
<1>3. Structure'
  BY <1>1, <1>2, StructureGetHit DEF CallInv
<1>4. s \in Occupied \ Stale /\ s \in Slots
  BY <1>2, ScanResults, FirstIsMember DEF GetHit, Visible, CallInv
<1>5. slot[s].cif \in Cifs /\ slot[s].args \in Blocks
  BY <1>4 DEF CallInv, Structure, CacheTypeOK, Occupied, Entries
<1>6. f \in BoundFrames /\ f.pc = "check" /\ f.cif = slot[s].cif /\ f.block = slot[s].args
  BY <1>1, <1>5 DEF Bound, BoundFrames, StartedFrames
<1>7. f \in CFrames
  BY <1>6 DEF CFrames
<1>8. slot'[s] \in Entries /\ slot'[s].cif = slot[s].cif /\ slot'[s].args = slot[s].args
  <2>1. slot[s] \in Entries
    BY <1>4 DEF CallInv, Structure, CacheTypeOK, Occupied
  <2>2. slot' = [Cleared(Stale) EXCEPT ![s] = [slot[s] EXCEPT !.used = now]]
    BY <1>2 DEF GetHit
  <2>3. slot'[s] = [slot[s] EXCEPT !.used = now]
    BY <1>4, <2>2 DEF Cleared
  <2>4. now \in Times
    BY DEF CallInv, Structure, CacheTypeOK
  <2>. QED  BY <2>1, <2>3, <2>4 DEF Entries
<1>9. s \in Occupied'
  BY <1>4, <1>8, NoEntryAssumption DEF Occupied
<1>10. SignatureLive(f)'
  <2>. HIDE DEF s
  <2>1. f.block \in heap'
    BY <1>3, <1>6, <1>8, <1>9 DEF Structure, OwnedOnce
  <2>2. \A t \in Occupied' : slot'[t].args = f.block => slot'[t].cif = f.cif
    BY <1>3, <1>6, <1>8, <1>9 DEF Structure, OwnedOnce
  <2>. QED  BY <2>1, <2>2 DEF SignatureLive
<1>. HIDE DEF s
<1>. QED  BY <1>2, <1>3, <1>7, <1>10, Resuming

LEMMA LookUpMissStep ==
    ASSUME CallInv, NEW c \in Calls, running = c, LookUpMiss(c)
    PROVE  CallInv'
<1>. DEFINE f == [frame[c] EXCEPT !.pc = "build"]
<1>1. frame[c] \in StartedFrames({"lookup", "build"}) /\ frame[c].rec.fn \in Keys
  BY FrameOf, RecordOf DEF CallInv, LookUpMiss
<1>2. Structure'
  BY <1>1, StructureGetMiss DEF CallInv, LookUpMiss
<1>3. f \in CFrames /\ f \notin BoundFrames
  BY <1>1 DEF CFrames, StartedFrames, BoundFrames
<1>. QED  BY <1>2, <1>3, Resuming DEF LookUpMiss

(* The vector handed to cinpy_cache_put is the call's, whether the cache   *)
(* took it (and then with the call's own cif) or not.                      *)
LEMMA PutKeepsBlock ==
    ASSUME Structure, NEW k \in Keys, NEW x \in Cifs, NEW b \in Blocks \ heap,
           Put(k, x, b)
    PROVE  /\ Structure'
           /\ b \in heap'
           /\ \A t \in Occupied' : slot'[t].args = b => slot'[t].cif = x
<1>1. NewBlock(b)
  BY FreshIsNew
<1>2. Structure'
  BY <1>1, StructurePutReplace, StructurePutInsert, StructurePutReject DEF Put
<1>3. b \in heap'
  BY DEF Put, PutReplace, PutInsert, PutReject
<1>4. ASSUME NEW t \in Occupied', slot'[t].args = b PROVE slot'[t].cif = x
  <2>. DEFINE e == [key |-> k, cif |-> x, args |-> b, used |-> now]
  <2>1. t \in Slots /\ slot'[t] # NoEntry
    BY <1>4 DEF Occupied
  <2>2. slot[t] # NoEntry => slot[t].args # b
    BY <1>1, <2>1 DEF NewBlock, Occupied
  <2>3. ASSUME NEW G, NEW s, slot' = [Cleared(G) EXCEPT ![s] = e]
        PROVE  slot'[t] = e
    BY <1>4, <2>1, <2>2, <2>3 DEF Cleared
  <2>4. ~PutReject(k, x, b)
    BY <1>4, <2>1, <2>2 DEF PutReject, Cleared
  <2>5. slot'[t] = e
    BY <2>3, <2>4 DEF Put, PutReplace, PutInsert
  <2>. QED  BY <2>5
<1>. QED  BY <1>2, <1>3, <1>4

LEMMA BuildStep ==
    ASSUME CallInv, NEW c \in Calls, running = c, Build(c)
    PROVE  CallInv'
<1>1. frame[c] \in StartedFrames({"lookup", "build"})
      /\ frame[c].rec.fn \in Keys /\ Proto(frame[c]) \in Cifs
  BY FrameOf, RecordOf DEF CallInv, Build
<1>2. PICK b \in Blocks \ heap :
         /\ Put(frame[c].rec.fn, Proto(frame[c]), b)
         /\ Resume(c, Bound(frame[c], Proto(frame[c]), b))
  BY DEF Build
<1>. PICK f : f = Bound(frame[c], Proto(frame[c]), b)
  OBVIOUS
<1>3. f \in BoundFrames /\ f.pc = "check" /\ f.cif = Proto(frame[c]) /\ f.block = b
  BY <1>1 DEF Bound, BoundFrames, StartedFrames
<1>4. Structure' /\ b \in heap'
      /\ \A t \in Occupied' : slot'[t].args = b => slot'[t].cif = Proto(frame[c])
  BY <1>1, <1>2, PutKeepsBlock DEF CallInv
<1>5. SignatureLive(f)'
  BY <1>3, <1>4 DEF SignatureLive
<1>6. f \in CFrames
  BY <1>3 DEF CFrames
<1>. QED  BY <1>2, <1>4, <1>5, <1>6, Resuming

-----------------------------------------------------------------------------
(* The other steps of a call. *)

LEMMA BuildFailsStep ==
    ASSUME CallInv, NEW c \in Calls, running = c, BuildFails(c)
    PROVE  CallInv'
<1>1. Idle \in CFrames /\ Idle \notin BoundFrames
  BY DEF Idle, CFrames, BoundFrames
<1>. QED  BY <1>1, CacheUnchanged, Resuming DEF BuildFails

LEMMA CheckArityStep ==
    ASSUME CallInv, NEW c \in Calls, running = c, CheckArity(c)
    PROVE  CallInv'
<1>1. HasCif(c) /\ UNCHANGED cacheVars
  BY DEF CheckArity, At, HasCif
<1>2. frame[c] \in BoundFrames
  BY <1>1, FrameOf DEF CallInv
<1>3. PICK f : /\ Resume(c, f)
               /\ f = Idle \/ f = [frame[c] EXCEPT !.pc = "convert"]
  BY DEF CheckArity
<1>4. \/ f = Idle
      \/ /\ f \in BoundFrames /\ f.pc # "python"
         /\ f.block = frame[c].block /\ f.cif = frame[c].cif
         /\ f.yielded = frame[c].yielded
  BY <1>2, <1>3 DEF BoundFrames
<1>. QED  BY <1>1, <1>3, <1>4, Continuing

(* One argument is converted, in C or by a Python method that returns. *)
LEMMA ConvertedStep ==
    ASSUME CallInv, UNCHANGED cacheVars, NEW c \in Calls, running \in {c, NoCall},
           HasCif(c), NEW raised \in BOOLEAN, Resume(c, Converted(frame[c], raised))
    PROVE  CallInv'
<1>1. frame[c] \in BoundFrames
  BY FrameOf DEF CallInv
<1>. PICK f : f = Converted(frame[c], raised)
  OBVIOUS
<1>2. \/ f = Idle
      \/ /\ f \in BoundFrames /\ f.pc # "python"
         /\ f.block = frame[c].block /\ f.cif = frame[c].cif
         /\ f.yielded = frame[c].yielded
  BY <1>1, ConvertedFrame
<1>. QED  BY <1>2, Continuing

LEMMA ConvertStep ==
    ASSUME CallInv, NEW c \in Calls, running = c, Convert(c)
    PROVE  CallInv'
<1>1. HasCif(c)
  BY DEF Convert, MoreArguments, At, HasCif
<1>2. PICK raised \in BOOLEAN : Resume(c, Converted(frame[c], raised))
  BY DEF Convert, Outcomes
<1>. QED  BY <1>1, <1>2, ConvertedStep DEF Convert

LEMMA LeavePythonStep ==
    ASSUME CallInv, NEW c \in Calls, LeavePython(c)
    PROVE  CallInv'
<1>1. HasCif(c)
  BY DEF LeavePython, At, HasCif
<1>2. PICK raised \in BOOLEAN : Resume(c, Converted(frame[c], raised))
  BY DEF LeavePython, Outcomes
<1>. QED  BY <1>1, <1>2, ConvertedStep DEF LeavePython

LEMMA ExecuteStep ==
    ASSUME CallInv, NEW c \in Calls, running = c, Execute(c)
    PROVE  CallInv'
<1>1. HasCif(c)
  BY DEF Execute, AtCall, At, HasCif
<1>. QED  BY <1>1, Continuing DEF Execute

-----------------------------------------------------------------------------
(* Steps of Python code and of the clock. *)

(* While Python runs, every call is idle or has let go of the GIL, and     *)
(* relies on nothing.                                                      *)
LEMMA NobodyRelies ==
    ASSUME CallInv, running = NoCall, UNCHANGED <<frame, running>>, Structure'
    PROVE  CallInv'
<1>1. \A c \in Calls : At(c, "idle") \/ At(c, "python")
  BY NoCallAssumption DEF CallInv, DispatchTypeOK
<1>2. DispatchTypeOK' /\ PythonYields'
  BY DEF CallInv, DispatchTypeOK, PythonYields, At
<1>3. SignatureLiveUntilPythonRuns'
  BY <1>1 DEF CallInv, PythonYields, At, HasCif, SignatureLiveUntilPythonRuns
<1>. QED  BY <1>2, <1>3 DEF CallInv

LEMMA PythonSteps ==
    ASSUME CallInv, Evict \/ Reconfigure
    PROVE  CallInv'
<1>1. [CacheNext]_cacheVars
  BY DEF Evict, Reconfigure, CacheNext
<1>2. Structure'
  BY <1>1, StructureNext DEF CallInv
<1>. QED  BY <1>2, NobodyRelies DEF Evict, Reconfigure

LEMMA SameTable ==
    ASSUME CallInv, [CacheNext]_cacheVars, UNCHANGED <<frame, running, slot, heap>>
    PROVE  CallInv'
<1>1. Structure'
  BY StructureNext DEF CallInv
<1>2. Occupied' = Occupied
  BY DEF Occupied
<1>3. DispatchTypeOK' /\ PythonYields'
  BY DEF CallInv, DispatchTypeOK, PythonYields, At
<1>4. SignatureLiveUntilPythonRuns'
  BY <1>2 DEF CallInv, SignatureLiveUntilPythonRuns, SignatureLive, HasCif
<1>. QED  BY <1>1, <1>3, <1>4 DEF CallInv

-----------------------------------------------------------------------------
LEMMA CallInvInit == DispatchInit => CallInv
<1>. SUFFICES ASSUME DispatchInit PROVE CallInv
  OBVIOUS
<1>1. Structure
  BY StructureInit DEF DispatchInit
<1>2. \A c \in Calls : At(c, "idle") /\ ~HasCif(c)
  BY DEF DispatchInit, At, HasCif, Idle
<1>3. DispatchTypeOK
  BY <1>2, NoCallAssumption DEF DispatchInit, DispatchTypeOK
<1>. QED
  BY <1>1, <1>2, <1>3 DEF CallInv, PythonYields, SignatureLiveUntilPythonRuns, At

LEMMA CallInvNext == CallInv /\ [DispatchNext]_vars => CallInv'
<1>. SUFFICES ASSUME CallInv, [DispatchNext]_vars PROVE CallInv'
  OBVIOUS
<1>1. ASSUME NEW c \in Calls, Begin(c) PROVE CallInv'
  BY <1>1, BeginStep
<1>2. ASSUME NEW c \in Calls, Step(c) PROVE CallInv'
  BY <1>2, LookUpHitStep, LookUpMissStep, BuildStep, BuildFailsStep, CheckArityStep,
     ConvertStep, EnterPythonStep, ExecuteStep DEF Step
<1>3. ASSUME NEW c \in Calls, LeavePython(c) PROVE CallInv'
  BY <1>3, LeavePythonStep
<1>4. CASE Evict \/ Reconfigure
  BY <1>4, PythonSteps
<1>5. CASE TimePasses
  BY <1>5, SameTable DEF TimePasses, Tick, CacheNext
<1>6. CASE UNCHANGED vars
  BY <1>6, SameTable DEF vars, cacheVars
<1>. QED  BY <1>1, <1>2, <1>3, <1>4, <1>5, <1>6 DEF DispatchNext

(* However calls, evictions, reconfigurations and expiry interleave, a     *)
(* call that has run no Python code since its lookup has argument types    *)
(* that are allocated and are its own, and a call in C code is the one     *)
(* that holds the GIL (call.c:38-101).                                     *)
THEOREM SignatureSafe ==
    DispatchSpec => [](DispatchTypeOK /\ SignatureLiveUntilPythonRuns)
<1>1. DispatchInit => CallInv
  BY CallInvInit
<1>2. CallInv /\ [DispatchNext]_vars => CallInv'
  BY CallInvNext
<1>3. CallInv => DispatchTypeOK /\ SignatureLiveUntilPythonRuns
  BY DEF CallInv
<1>. QED  BY <1>1, <1>2, <1>3, PTL DEF DispatchSpec

-----------------------------------------------------------------------------
LEMMA StepsOfTheCache == CallInv /\ [DispatchNext]_vars => [CacheNext]_cacheVars
<1>. SUFFICES ASSUME CallInv, [DispatchNext]_vars PROVE [CacheNext]_cacheVars
  OBVIOUS
<1>1. ASSUME NEW c \in Calls, Begin(c) \/ LeavePython(c) PROVE [CacheNext]_cacheVars
  BY <1>1 DEF Begin, LeavePython
<1>2. ASSUME NEW c \in Calls, Step(c) PROVE [CacheNext]_cacheVars
  <2>1. CASE LookUpHit(c) \/ LookUpMiss(c) \/ Build(c)
    <3>1. frame[c].rec.fn \in Keys /\ Proto(frame[c]) \in Cifs
      BY <2>1, FrameOf, RecordOf DEF CallInv, LookUpHit, LookUpMiss, Build
    <3>. QED  BY <2>1, <3>1 DEF LookUpHit, LookUpMiss, Build, CacheNext
  <2>. QED
    BY <1>2, <2>1 DEF Step, BuildFails, CheckArity, Convert, EnterPython, Execute
<1>3. CASE Evict \/ Reconfigure \/ TimePasses
  BY <1>3 DEF Evict, Reconfigure, TimePasses, CacheNext
<1>4. CASE UNCHANGED vars
  BY <1>4 DEF vars, cacheVars
<1>. QED  BY <1>1, <1>2, <1>3, <1>4 DEF DispatchNext

(* Dispatch, eviction and configuration use the cache only through its     *)
(* interface, so every theorem of module Cache holds of the whole          *)
(* (call.c:38-71, cinpy_core.c:200-215).                                   *)
THEOREM DispatchImplementsCache == DispatchSpec => CacheSpec
<1>1. DispatchInit => CallInv /\ CacheInit
  BY CallInvInit DEF DispatchInit
<1>2. CallInv /\ [DispatchNext]_vars => CallInv'
  BY CallInvNext
<1>3. CallInv /\ [DispatchNext]_vars => [CacheNext]_cacheVars
  BY StepsOfTheCache
<1>. QED  BY <1>1, <1>2, <1>3, PTL DEF DispatchSpec, CacheSpec

(* Calls never lose argument types, duplicate a name or miscount the       *)
(* entries while the capacity stays the allocated one (call.c, cache.c).   *)
THEOREM DispatchExact ==
    ASSUME Caps \subseteq {AllocCap}
    PROVE  DispatchSpec => [](CountExact /\ UniqueKeys /\ NoLeak /\ AlwaysRoom)
BY CacheExact, DispatchImplementsCache, PTL

(* Nor do calls, as they look up, prepare and store signatures and let     *)
(* others do so meanwhile, ever see the cache as anything but a table that *)
(* forgets the name used longest ago (call.c, cache.c).                    *)
THEOREM DispatchImplementsLru ==
    ASSUME Caps \subseteq {AllocCap}
    PROVE  DispatchSpec => ImplementsLru
BY CacheImplementsLru, DispatchImplementsCache, PTL

-----------------------------------------------------------------------------
(* What a call is made with: its cif, and a pending exception.             *)

(* The headers that are loaded declare a function alike. *)
RecordsAgree == \A r, s \in Recs : r.fn = s.fn => r.proto = s.proto

(* x is the cif that some record of the function k is given. *)
CifOf(k, x) == \E r \in Recs : r.fn = k /\ r.proto = x

EntriesHaveRecords == \A s \in Occupied : CifOf(slot[s].key, slot[s].cif)

(* The exception was raised by a truth value, and no argument converted    *)
(* since then has asked for it.                                            *)
RaisedByTruthValue(f) ==
    \E i \in 1..f.done :
        /\ Proto(f)[i] = "bool"
        /\ f.args[i] = "object"
        /\ \A j \in i + 1..f.done : ~ChecksPending(Proto(f)[j], f.args[j])

Explained(f) ==
    f.pc \in {"check", "convert", "python"} =>
        /\ CifOf(f.rec.fn, f.cif)
        /\ f.pending => RaisedByTruthValue(f)

(* Inductive together with CallInv: whatever headers disagree about, a cif *)
(* is one that some record of that name was given.                         *)
RecordInv ==
    /\ CallInv
    /\ EntriesHaveRecords
    /\ \A c \in Calls : Explained(frame[c])

LEMMA OnlyOneFrame ==
    ASSUME DispatchTypeOK, NEW c \in Calls, NEW f, Resume(c, f), Explained(f),
           \A d \in Calls : Explained(frame[d])
    PROVE  \A d \in Calls : Explained(frame[d])'
<1>1. SUFFICES ASSUME NEW d \in Calls PROVE Explained(frame'[d])
  BY DEF Explained, CifOf, RaisedByTruthValue, Proto
<1>2. frame'[d] = IF d = c THEN f ELSE frame[d]
  BY DEF Resume, DispatchTypeOK
<1>. QED  BY <1>2

LEMMA IdleExplained == Explained(Idle)
BY DEF Explained, Idle

(* What the cache does when it stores nothing. *)
KeepsEntries ==
    \/ \E k \in Keys : GetHit(k) \/ GetMiss(k)
    \/ EvictAll
    \/ UNCHANGED slot

(* The entries that such a step leaves have the key and the cif they had. *)
LEMMA KeptEntries ==
    ASSUME Structure, KeepsEntries, NEW s \in Occupied'
    PROVE  s \in Occupied /\ slot'[s].key = slot[s].key /\ slot'[s].cif = slot[s].cif
<1>1. s \in Slots /\ slot'[s] # NoEntry /\ slot \in [Slots -> Entries \cup {NoEntry}]
  BY DEF Occupied, Structure, CacheTypeOK
<1>2. ASSUME slot'[s] = slot[s]
      PROVE  s \in Occupied /\ slot'[s].key = slot[s].key /\ slot'[s].cif = slot[s].cif
  BY <1>1, <1>2 DEF Occupied
<1>3. ASSUME NEW X, slot' = Cleared(X) PROVE slot'[s] = slot[s]
  BY <1>1, <1>3 DEF Cleared
<1>4. ASSUME NEW k \in Keys, GetHit(k)
      PROVE  s \in Occupied /\ slot'[s].key = slot[s].key /\ slot'[s].cif = slot[s].cif
  <2>. DEFINE t == First(Found(k))
  <2>1. t \in Occupied \ Stale
    BY <1>4, ScanResults, FirstIsMember DEF GetHit, Visible
  <2>2. slot' = [Cleared(Stale) EXCEPT ![t] = [slot[t] EXCEPT !.used = now]]
    BY <1>4 DEF GetHit
  <2>. HIDE DEF t
  <2>3. t \in Slots /\ slot[t] \in Entries
    BY <1>1, <2>1 DEF Occupied
  <2>4. slot'[s] = IF s = t THEN [slot[t] EXCEPT !.used = now] ELSE Cleared(Stale)[s]
    BY <1>1, <2>2 DEF Cleared
  <2>5. CASE s = t
    BY <2>1, <2>3, <2>4, <2>5 DEF Entries
  <2>6. CASE s # t
    BY <1>1, <1>2, <2>4, <2>6 DEF Cleared
  <2>. QED  BY <2>5, <2>6
<1>5. CASE \E k \in Keys : GetMiss(k)
  BY <1>2, <1>3, <1>5 DEF GetMiss
<1>6. CASE EvictAll
  BY <1>2, <1>3, <1>6 DEF EvictAll
<1>7. CASE UNCHANGED slot
  BY <1>2, <1>7
<1>. QED  BY <1>4, <1>5, <1>6, <1>7 DEF KeepsEntries

LEMMA EntriesHaveRecordsKept ==
    ASSUME Structure, EntriesHaveRecords, KeepsEntries
    PROVE  EntriesHaveRecords'
<1>1. SUFFICES ASSUME NEW s \in Occupied' PROVE CifOf(slot'[s].key, slot'[s].cif)
  BY DEF EntriesHaveRecords, CifOf
<1>. QED  BY <1>1, KeptEntries DEF EntriesHaveRecords

(* A frame that goes on where the cache stores nothing. *)
LEMMA RecordInvKept ==
    ASSUME RecordInv, CallInv', KeepsEntries, NEW c \in Calls, NEW f,
           Resume(c, f), Explained(f)
    PROVE  RecordInv'
<1>1. EntriesHaveRecords'
  BY EntriesHaveRecordsKept DEF RecordInv, CallInv
<1>2. \A d \in Calls : Explained(frame[d])'
  BY OnlyOneFrame DEF RecordInv, CallInv
<1>. QED  BY <1>1, <1>2 DEF RecordInv

-----------------------------------------------------------------------------
(* A lookup copies the cif of an entry with the name that was asked for. *)
LEMMA RecordLookUpHit ==
    ASSUME RecordInv, CallInv', NEW c \in Calls, running = c, LookUpHit(c)
    PROVE  RecordInv'
<1>. DEFINE k == frame[c].rec.fn
            s == First(Found(k))
<1>. PICK f : f = Bound(frame[c], slot[s].cif, slot[s].args)
  OBVIOUS
<1>1. k \in Keys
  BY FrameOf, RecordOf DEF RecordInv, CallInv, LookUpHit
<1>2. GetHit(k) /\ Resume(c, f)
  BY DEF LookUpHit
<1>3. s \in Found(k)
  BY <1>2, ScanResults, FirstIsMember DEF GetHit, Visible, RecordInv, CallInv
<1>4. s \in Occupied /\ slot[s].key = k
  BY <1>3 DEF Found
<1>5. CifOf(k, slot[s].cif)
  BY <1>4 DEF RecordInv, EntriesHaveRecords
<1>. HIDE DEF s
<1>6. Explained(f)
  BY <1>5 DEF Explained, Bound
<1>. QED  BY <1>1, <1>2, <1>6, RecordInvKept DEF KeepsEntries

LEMMA RecordLookUpMiss ==
    ASSUME RecordInv, CallInv', NEW c \in Calls, running = c, LookUpMiss(c)
    PROVE  RecordInv'
<1>1. frame[c] \in StartedFrames({"lookup", "build"}) /\ frame[c].rec.fn \in Keys
  BY FrameOf, RecordOf DEF RecordInv, CallInv, LookUpMiss
<1>2. Explained([frame[c] EXCEPT !.pc = "build"])
  BY <1>1 DEF Explained, StartedFrames
<1>. QED  BY <1>1, <1>2, RecordInvKept DEF LookUpMiss, KeepsEntries

(* A cif that is built is stored under the name of its own record. *)
LEMMA RecordBuild ==
    ASSUME RecordInv, CallInv', NEW c \in Calls, running = c, Build(c)
    PROVE  RecordInv'
<1>. PICK k, x : k = frame[c].rec.fn /\ x = Proto(frame[c])
  OBVIOUS
<1>1. frame[c].rec \in Recs /\ k \in Keys /\ x \in Cifs
  BY FrameOf, RecordOf DEF RecordInv, CallInv, Build
<1>2. PICK b \in Blocks \ heap : Put(k, x, b) /\ Resume(c, Bound(frame[c], x, b))
  BY DEF Build
<1>3. CifOf(k, x)
  BY <1>1 DEF CifOf, Proto
<1>4. Explained(Bound(frame[c], x, b))
  BY <1>3 DEF Explained, Bound
<1>5. EntriesHaveRecords'
  <2>1. SUFFICES ASSUME NEW s \in Occupied' PROVE CifOf(slot'[s].key, slot'[s].cif)
    BY DEF EntriesHaveRecords, CifOf
  <2>. DEFINE e == [key |-> k, cif |-> x, args |-> b, used |-> now]
  <2>2. s \in Slots /\ slot'[s] # NoEntry /\ slot \in [Slots -> Entries \cup {NoEntry}]
    BY DEF Occupied, RecordInv, CallInv, Structure, CacheTypeOK
  <2>3. ASSUME slot'[s] = slot[s] PROVE CifOf(slot'[s].key, slot'[s].cif)
    BY <2>2, <2>3 DEF Occupied, RecordInv, EntriesHaveRecords
  <2>4. ASSUME slot'[s] = e PROVE CifOf(slot'[s].key, slot'[s].cif)
    BY <1>3, <2>4
  <2>5. ASSUME NEW X, NEW t, slot' = [Cleared(X) EXCEPT ![t] = e]
        PROVE  slot'[s] = e \/ slot'[s] = slot[s]
    BY <2>2, <2>5 DEF Cleared
  <2>6. ASSUME NEW X, slot' = Cleared(X) PROVE slot'[s] = slot[s]
    BY <2>2, <2>6 DEF Cleared
  <2>7. slot'[s] = e \/ slot'[s] = slot[s]
    BY <1>2, <2>5, <2>6 DEF Put, PutReplace, PutInsert, PutReject
  <2>. QED  BY <2>3, <2>4, <2>7
<1>6. \A d \in Calls : Explained(frame[d])'
  BY <1>2, <1>4, OnlyOneFrame DEF RecordInv, CallInv
<1>. QED  BY <1>5, <1>6 DEF RecordInv

-----------------------------------------------------------------------------
(* One argument is converted. *)
LEMMA ConvertedExplained ==
    ASSUME NEW f \in BoundFrames, Explained(f), NEW raised \in Outcomes(f)
    PROVE  Explained(Converted(f, raised))
<1>. DEFINE n == f.done
            g == [f EXCEPT !.pc = "convert", !.done = n + 1,
                           !.pending = f.pending \/ raised]
            t == Proto(f)[n + 1]
            obj == f.args[n + 1]
<1>1. CASE Rejects(t, obj, raised, f.pending)
  BY <1>1, IdleExplained DEF Converted
<1>2. CASE ~Rejects(t, obj, raised, f.pending)
  <2>1. Converted(f, raised) = g
    BY <1>2 DEF Converted
  <2>2. /\ g.rec = f.rec /\ g.args = f.args /\ g.cif = f.cif
        /\ g.done = n + 1 /\ g.pending = (f.pending \/ raised) /\ n \in Nat
        /\ f.pc \in {"check", "convert", "python"}
    BY DEF BoundFrames
  <2>3. CifOf(g.rec.fn, g.cif)
    BY <2>2 DEF Explained
  <2>4. Proto(g) = Proto(f)
    BY <2>2 DEF Proto
  <2>. HIDE DEF g
  <2>5. ASSUME raised PROVE RaisedByTruthValue(g)
    <3>1. t = "bool" /\ obj = "object"
      BY <1>2, <2>5 DEF Rejects, Outcomes, MayRaise
    <3>2. n + 1 \in 1..n + 1 /\ (n + 1) + 1..n + 1 = {}
      BY <2>2
    <3>. QED  BY <2>2, <2>4, <3>1, <3>2 DEF RaisedByTruthValue
  <2>6. ASSUME f.pending PROVE RaisedByTruthValue(g)
    <3>1. PICK i \in 1..n : /\ Proto(f)[i] = "bool" /\ f.args[i] = "object"
                            /\ \A j \in i + 1..n : ~ChecksPending(Proto(f)[j], f.args[j])
      BY <2>2, <2>6 DEF Explained, RaisedByTruthValue
    <3>2. ~ChecksPending(t, obj)
      BY <1>2, <2>6 DEF Rejects
    <3>3. i \in 1..n + 1 /\ \A j \in i + 1..n + 1 : j \in i + 1..n \/ j = n + 1
      BY <2>2
    <3>4. \A j \in i + 1..n + 1 : ~ChecksPending(Proto(f)[j], f.args[j])
      BY <3>1, <3>2, <3>3
    <3>. QED  BY <2>2, <2>4, <3>1, <3>3, <3>4 DEF RaisedByTruthValue
  <2>7. g.pending => RaisedByTruthValue(g)
    BY <2>2, <2>5, <2>6
  <2>. QED  BY <2>1, <2>3, <2>7 DEF Explained
<1>. QED  BY <1>1, <1>2

LEMMA RecordConverted ==
    ASSUME RecordInv, CallInv', NEW c \in Calls, HasCif(c), UNCHANGED cacheVars,
           NEW raised \in Outcomes(frame[c]), Resume(c, Converted(frame[c], raised))
    PROVE  RecordInv'
<1>1. frame[c] \in BoundFrames /\ Explained(frame[c])
  BY FrameOf DEF RecordInv, CallInv
<1>2. Explained(Converted(frame[c], raised))
  BY <1>1, ConvertedExplained
<1>. QED  BY <1>2, RecordInvKept DEF KeepsEntries, cacheVars

(* The steps that change no more of the frame than where it is. *)
LEMMA RecordSameCif ==
    ASSUME RecordInv, CallInv', NEW c \in Calls,
           CheckArity(c) \/ EnterPython(c) \/ Execute(c) \/ BuildFails(c) \/ Begin(c)
    PROVE  RecordInv'
<1>1. KeepsEntries
  BY DEF CheckArity, EnterPython, Execute, BuildFails, Begin, KeepsEntries, cacheVars
<1>2. CASE Execute(c) \/ BuildFails(c)
  BY <1>1, <1>2, IdleExplained, RecordInvKept DEF Execute, BuildFails
<1>3. CASE Begin(c)
  <2>1. PICK r \in Recs, a \in ArgTuples : Resume(c, Started(r, a))
    BY <1>3 DEF Begin
  <2>2. Explained(Started(r, a))
    BY DEF Explained, Started
  <2>. QED  BY <1>1, <2>1, <2>2, RecordInvKept
<1>4. CASE CheckArity(c)
  <2>1. frame[c] \in BoundFrames /\ Explained(frame[c])
    BY <1>4, FrameOf DEF RecordInv, CallInv, CheckArity, At, HasCif
  <2>2. Explained([frame[c] EXCEPT !.pc = "convert"])
    BY <2>1 DEF Explained, BoundFrames, RaisedByTruthValue, Proto
  <2>. QED  BY <1>1, <1>4, <2>2, IdleExplained, RecordInvKept DEF CheckArity
<1>5. CASE EnterPython(c)
  <2>1. frame[c] \in BoundFrames /\ Explained(frame[c])
    BY <1>5, FrameOf DEF RecordInv, CallInv, EnterPython, MoreArguments, At, HasCif
  <2>. DEFINE f == [frame[c] EXCEPT !.pc = "python", !.yielded = TRUE]
  <2>2. Explained(f)
    BY <2>1 DEF Explained, BoundFrames, RaisedByTruthValue, Proto
  <2>3. frame' = [frame EXCEPT ![c] = f]
    BY <1>5 DEF EnterPython
  <2>. HIDE DEF f
  <2>4. \A d \in Calls : frame'[d] = IF d = c THEN f ELSE frame[d]
    BY <2>3 DEF RecordInv, CallInv, DispatchTypeOK
  <2>5. \A d \in Calls : Explained(frame'[d])
    BY <2>2, <2>4 DEF RecordInv
  <2>6. \A d \in Calls : Explained(frame[d])'
    BY <2>5 DEF Explained, CifOf, RaisedByTruthValue, Proto
  <2>7. EntriesHaveRecords'
    BY <1>1, EntriesHaveRecordsKept DEF RecordInv, CallInv
  <2>. QED  BY <2>6, <2>7 DEF RecordInv
<1>. QED  BY <1>2, <1>3, <1>4, <1>5

(* Python code and the clock change no frame. *)
LEMMA RecordFrames ==
    ASSUME RecordInv, CallInv', KeepsEntries, UNCHANGED frame
    PROVE  RecordInv'
<1>1. \A d \in Calls : Explained(frame'[d])
  BY DEF RecordInv
<1>2. \A d \in Calls : Explained(frame[d])'
  BY <1>1 DEF Explained, CifOf, RaisedByTruthValue, Proto
<1>3. EntriesHaveRecords'
  BY EntriesHaveRecordsKept DEF RecordInv, CallInv
<1>. QED  BY <1>2, <1>3 DEF RecordInv

LEMMA RecordInvInit == DispatchInit => RecordInv
<1>. SUFFICES ASSUME DispatchInit PROVE RecordInv
  OBVIOUS
<1>1. Occupied = {}
  BY DEF DispatchInit, CacheInit, Occupied
<1>2. \A c \in Calls : frame[c] = Idle
  BY DEF DispatchInit
<1>. QED
  BY <1>1, <1>2, CallInvInit, IdleExplained DEF RecordInv, EntriesHaveRecords

LEMMA RecordInvNext == RecordInv /\ [DispatchNext]_vars => RecordInv'
<1>. SUFFICES ASSUME RecordInv, [DispatchNext]_vars PROVE RecordInv'
  OBVIOUS
<1>1. CallInv'
  BY CallInvNext DEF RecordInv
<1>2. ASSUME NEW c \in Calls, Begin(c) PROVE RecordInv'
  BY <1>1, <1>2, RecordSameCif
<1>3. ASSUME NEW c \in Calls, Convert(c) \/ LeavePython(c) PROVE RecordInv'
  <2>1. HasCif(c) /\ UNCHANGED cacheVars
    BY <1>3 DEF Convert, LeavePython, MoreArguments, At, HasCif
  <2>2. PICK raised \in Outcomes(frame[c]) : Resume(c, Converted(frame[c], raised))
    BY <1>3 DEF Convert, LeavePython
  <2>. QED  BY <1>1, <2>1, <2>2, RecordConverted
<1>4. ASSUME NEW c \in Calls, Step(c) PROVE RecordInv'
  BY <1>1, <1>3, <1>4, RecordLookUpHit, RecordLookUpMiss, RecordBuild, RecordSameCif
  DEF Step
<1>5. CASE Evict \/ Reconfigure \/ TimePasses \/ UNCHANGED vars
  <2>1. KeepsEntries /\ UNCHANGED frame
    BY <1>5 DEF Evict, Reconfigure, TimePasses, Config, Tick, KeepsEntries, vars
  <2>. QED  BY <1>1, <2>1, RecordFrames
<1>. QED  BY <1>2, <1>3, <1>4, <1>5 DEF DispatchNext

(* However calls interleave, the function is called with an exception set  *)
(* only if a truth value raised it and no later argument asked             *)
(* (marshal.c:27-87).  And whatever the headers that are loaded disagree   *)
(* about, the cif is one that a record of that name was given              *)
(* (call.c:42-44).                                                         *)
THEOREM PendingFromTruthValues ==
    DispatchSpec =>
        [](/\ PendingOnlyFromBool
           /\ \A c \in Calls : HasCif(c) => CifOf(frame[c].rec.fn, frame[c].cif))
<1>1. DispatchInit => RecordInv
  BY RecordInvInit
<1>2. RecordInv /\ [DispatchNext]_vars => RecordInv'
  BY RecordInvNext
<1>3. RecordInv => /\ PendingOnlyFromBool
                   /\ \A c \in Calls : HasCif(c) => CifOf(frame[c].rec.fn, frame[c].cif)
  BY DEF RecordInv, Explained, RaisedByTruthValue, PendingOnlyFromBool, AtCall, At, HasCif
<1>. QED  BY <1>1, <1>2, <1>3, PTL DEF DispatchSpec

LEMMA AgreeingCif ==
    ASSUME RecordsAgree, RecordInv
    PROVE  CifIsTheRecords /\ ArityIsTheCifs
<1>1. ASSUME NEW c \in Calls, HasCif(c) PROVE frame[c].cif = Proto(frame[c])
  <2>1. frame[c] \in BoundFrames /\ Explained(frame[c])
    BY <1>1, FrameOf DEF RecordInv, CallInv
  <2>2. frame[c].rec \in Recs /\ CifOf(frame[c].rec.fn, frame[c].cif)
    BY <1>1, <2>1, RecordOf DEF Explained, HasCif
  <2>. QED  BY <2>2 DEF RecordsAgree, CifOf, Proto
<1>. QED
  BY <1>1 DEF CifIsTheRecords, ArityIsTheCifs, AtCall, At, HasCif

(* When the loaded headers declare each function alike, a call is made     *)
(* with its own record's cif, and ffi_call reads exactly the arguments     *)
(* that were converted (call.c:42-44, 73-78, 101).                         *)
THEOREM AgreeingHeaders ==
    ASSUME RecordsAgree
    PROVE  DispatchSpec => [](CifIsTheRecords /\ ArityIsTheCifs)
<1>1. DispatchInit => RecordInv
  BY RecordInvInit
<1>2. RecordInv /\ [DispatchNext]_vars => RecordInv'
  BY RecordInvNext
<1>3. RecordInv => CifIsTheRecords /\ ArityIsTheCifs
  BY AgreeingCif
<1>. QED  BY <1>1, <1>2, <1>3, PTL DEF DispatchSpec
=============================================================================
