--------------------------- MODULE FrontEndProofs ---------------------------
(***************************************************************************)
(* Theorems of module FrontEnd, for every set of paths, builds of          *)
(* libclang, candidates, threads, headers, IRs, record capsules and names. *)
(* The first part is about libclang: the parser finds a whole table of the *)
(* one library that is open.  The second is about the capsules: the        *)
(* reference counts are the numbers of the references there are, and so no *)
(* call works with a record of an IR that was freed.                       *)
(***************************************************************************)
EXTENDS FrontEnd, FiniteSetTheorems, TLAPS

(* The invariant of the first part.  A handle that is set stands for a     *)
(* whole table (clang_bridge_init resets it otherwise), and a thread that  *)
(* is between _init_clang and the assignment to _clang_initialized knows   *)
(* that it is set, as one that is about to parse does.                     *)
LibraryInv ==
    /\ opens \in Nat
    /\ OneLibraryOpen
    /\ handle # 0 => Ready
    /\ initialized => Ready
    /\ \A t \in Threads : At(t, "flag") \/ At(t, "parse") => Ready

(* What a thread that goes on does to LibraryInv, if it leaves libclang alone. *)
LEMMA GoOn ==
    ASSUME LibraryInv, UNCHANGED bridgeVars, UNCHANGED initialized,
           NEW t \in Threads, NEW f, Go(t, f),
           f.pc \in {"flag", "parse"} => Ready
    PROVE  LibraryInv'
<1>1. Ready' <=> Ready
  BY DEF bridgeVars, Ready
<1>2. /\ opens' \in Nat
      /\ OneLibraryOpen' /\ (handle' # 0 => Ready') /\ (initialized' => Ready')
  BY <1>1 DEF LibraryInv, OneLibraryOpen, bridgeVars
<1>3. ASSUME NEW u \in Threads, At(u, "flag")' \/ At(u, "parse")'
      PROVE  Ready'
  <2>1. CASE frame'[u] = frame[u]
    BY <1>1, <1>3, <2>1 DEF LibraryInv, At
  <2>2. CASE frame'[u] # frame[u]
    <3>1. frame'[u] = f
      BY <2>2 DEF Go
    <3>. QED  BY <1>1, <1>3, <3>1 DEF At
  <2>. QED  BY <2>1, <2>2
<1>. QED  BY <1>2, <1>3 DEF LibraryInv

(* The steps that leave the frames and g_clang alone. *)
LEMMA LibraryUntouched ==
    ASSUME LibraryInv, UNCHANGED <<handle, table, opens, mapped, initialized, frame>>
    PROVE  LibraryInv'
BY DEF LibraryInv, OneLibraryOpen, Ready, At

(* clang_bridge_init, whichever way it returns. *)
LEMMA BridgeInitialised ==
    ASSUME LibraryInv, NEW p
    PROVE  /\ InitSucceeds(p) \/ InitFails(p) => opens' \in Nat /\ OneLibraryOpen'
           /\ InitSucceeds(p) => Ready'
           /\ InitFails(p) => handle' = handle /\ (Ready => Ready')
<1>1. InitAgain(p) => opens' \in Nat /\ OneLibraryOpen' /\ Ready'
  BY DEF InitAgain, bridgeVars, LibraryInv, OneLibraryOpen, Ready
<1>2. InitComplete(p) => opens' \in Nat /\ OneLibraryOpen' /\ Ready'
  BY DEF InitComplete, LibraryInv, OneLibraryOpen, Ready
<1>3. InitUnloadable(p) =>
          opens' \in Nat /\ OneLibraryOpen' /\ handle' = handle /\ (Ready => Ready')
  BY DEF InitUnloadable, bridgeVars, LibraryInv, OneLibraryOpen, Ready
<1>4. InitIncomplete(p) =>
          opens' \in Nat /\ OneLibraryOpen' /\ handle' = handle /\ (Ready => Ready')
  BY DEF InitIncomplete, LibraryInv, OneLibraryOpen, Ready
<1>. QED  BY <1>1, <1>2, <1>3, <1>4 DEF InitSucceeds, InitFails

LEMMA InitClangStep ==
    ASSUME LibraryInv, NEW t \in Threads, InitClang(t)
    PROVE  LibraryInv'
<1>1. CASE InitSucceeds(frame[t].path)
  <2>1. opens' \in Nat /\ OneLibraryOpen' /\ Ready'
    BY <1>1, BridgeInitialised
  <2>. QED  BY <2>1 DEF LibraryInv
<1>2. CASE InitFails(frame[t].path) /\ Go(t, Idle)
  <2>1. /\ opens' \in Nat /\ OneLibraryOpen'
        /\ handle' = handle /\ (Ready => Ready')
    BY <1>2, BridgeInitialised
  <2>2. initialized' = initialized
    BY DEF InitClang
  <2>3. \A u \in Threads : At(u, "flag")' \/ At(u, "parse")' => At(u, "flag") \/ At(u, "parse")
    BY <1>2 DEF Go, Idle, At
  <2>. QED  BY <2>1, <2>2, <2>3 DEF LibraryInv
<1>. QED  BY <1>1, <1>2 DEF InitClang

(* The steps of a thread that leave libclang alone. *)
LEMMA OtherThreadStep ==
    ASSUME LibraryInv, NEW t \in Threads, ThreadStep(t), ~InitClang(t), ~SetInitialized(t)
    PROVE  LibraryInv' /\ UNCHANGED <<handle, table, mapped>>
<1>1. UNCHANGED bridgeVars /\ UNCHANGED initialized
  BY DEF ThreadStep, Load, LoadCPyC, Ensure, Obtain, Emit, LetGo, Return, GetAttr, CheckMemo,
         Resolve, Store, Fetch, Call, CallReturns, DropFn, bridgeVars
<1>2. UNCHANGED <<handle, table, opens, mapped>>
  BY <1>1 DEF bridgeVars
<1>3. CASE DropFn(t)
  <2>1. UNCHANGED frame
    BY <1>3 DEF DropFn
  <2>. QED  BY <1>1, <1>2, <2>1, LibraryUntouched
<1>4. CASE Ensure(t)
  <2>1. CASE initialized /\ Ensured(t)
    <3>1. Ready
      BY <2>1 DEF LibraryInv
    <3>. QED  BY <1>1, <1>2, <2>1, <3>1, GoOn DEF Ensured
  <2>2. CASE Go(t, Idle)
    BY <1>1, <1>2, <2>2, GoOn DEF Idle
  <2>3. CASE \E p \in Paths : Go(t, [pc |-> "init", path |-> p, keep |-> frame[t].keep])
    BY <1>1, <1>2, <2>3, GoOn
  <2>. QED  BY <1>4, <2>1, <2>2, <2>3 DEF Ensure
<1>5. CASE CheckMemo(t)
  <2>1. PICK pc \in {"resolve", "fetch"} :
            Go(t, [pc |-> pc, ir |-> frame[t].ir, name |-> frame[t].name])
    BY <1>5 DEF CheckMemo
  <2>. QED  BY <1>1, <1>2, <2>1, GoOn
<1>6. CASE Load(t)
  BY <1>1, <1>2, <1>6, GoOn DEF Load
<1>7. CASE LoadCPyC(t)
  BY <1>1, <1>2, <1>7, GoOn DEF LoadCPyC
<1>8. CASE Obtain(t)
  BY <1>1, <1>2, <1>8, GoOn DEF Obtain, Idle
<1>9. CASE Emit(t)
  BY <1>1, <1>2, <1>9, GoOn DEF Emit
<1>10. CASE LetGo(t)
  BY <1>1, <1>2, <1>10, GoOn DEF LetGo, Idle
<1>11. CASE Return(t)
  BY <1>1, <1>2, <1>11, GoOn DEF Return, Idle
<1>12. CASE GetAttr(t)
  BY <1>1, <1>2, <1>12, GoOn DEF GetAttr
<1>13. CASE Resolve(t)
  BY <1>1, <1>2, <1>13, GoOn DEF Resolve, Idle
<1>14. CASE Store(t)
  BY <1>1, <1>2, <1>14, GoOn DEF Store
<1>15. CASE Fetch(t)
  BY <1>1, <1>2, <1>15, GoOn DEF Fetch, Idle
<1>16. CASE Call(t)
  BY <1>1, <1>2, <1>16, GoOn DEF Call
<1>17. CASE CallReturns(t)
  BY <1>1, <1>2, <1>17, GoOn DEF CallReturns, Idle
<1>. QED
  BY <1>3, <1>4, <1>5, <1>6, <1>7, <1>8, <1>9, <1>10, <1>11, <1>12, <1>13, <1>14, <1>15, <1>16, <1>17 DEF ThreadStep

LEMMA SetInitializedStep ==
    ASSUME LibraryInv, NEW t \in Threads, SetInitialized(t)
    PROVE  LibraryInv' /\ UNCHANGED <<handle, table, mapped>>
<1>1. Ready
  BY DEF SetInitialized, LibraryInv
<1>2. UNCHANGED <<handle, table, opens, mapped>>
  BY DEF SetInitialized, bridgeVars
<1>. QED  BY <1>1, <1>2 DEF LibraryInv, OneLibraryOpen, Ready

LEMMA LibraryInvInit == FrontEndInit => LibraryInv
BY DEF FrontEndInit, BridgeInit, LibraryInv, OneLibraryOpen, Idle, At

LEMMA LibraryInvNext == LibraryInv /\ [FrontEndNext]_vars => LibraryInv'
<1>. SUFFICES ASSUME LibraryInv, [FrontEndNext]_vars
              PROVE  LibraryInv'
  OBVIOUS
<1>1. CASE UNCHANGED vars
  BY <1>1, LibraryUntouched DEF vars
<1>2. ASSUME NEW t \in Threads, ThreadStep(t)
      PROVE  LibraryInv'
  BY <1>2, OtherThreadStep, InitClangStep, SetInitializedStep
<1>3. CASE \E i \in Irs : DropHeader(i) \/ Deallocate(i)
  <2>1. UNCHANGED <<handle, table, opens, mapped, initialized, frame>>
    BY <1>3 DEF DropHeader, Deallocate, ReleaseCapsule, ReleaseEntry, bridgeVars
  <2>. QED  BY <2>1, LibraryUntouched
<1>4. CASE SetVariable \/ InstallLibrary
  <2>1. UNCHANGED <<handle, table, opens, mapped, initialized, frame>>
    BY <1>4 DEF SetVariable, InstallLibrary, Install, bridgeVars
  <2>. QED  BY <2>1, LibraryUntouched
<1>. QED  BY <1>1, <1>2, <1>3, <1>4 DEF FrontEndNext

(* Whatever attempts to load libclang failed before and whoever made them, *)
(* a thread that parses, and every one after _clang_initialized was set,   *)
(* finds each pointer of g_clang taken from the one library that is open.  *)
THEOREM ParserFindsOneLibrary == FrontEndSpec => [](SymbolsReady /\ OneLibraryOpen)
<1>1. LibraryInv => SymbolsReady /\ OneLibraryOpen
  BY DEF LibraryInv, SymbolsReady
<1>. QED  BY <1>1, LibraryInvInit, LibraryInvNext, PTL DEF FrontEndSpec

(* Once the table is whole, no step of any thread changes it or the        *)
(* libraries that are open.                                                *)
THEOREM OneLibraryForEver == FrontEndSpec => LibraryStays
<1>1. ASSUME LibraryInv, [FrontEndNext]_vars, Ready
      PROVE  UNCHANGED <<handle, table, mapped>>
  <2>1. CASE UNCHANGED vars
    BY <2>1 DEF vars
  <2>2. ASSUME NEW t \in Threads, ThreadStep(t)
        PROVE  UNCHANGED <<handle, table, mapped>>
    <3>1. CASE InitClang(t)
      BY <1>1, <3>1 DEF InitClang, Ready, InitSucceeds, InitFails, InitAgain, InitComplete,
                        InitUnloadable, InitIncomplete, bridgeVars
    <3>. QED  BY <1>1, <2>2, <3>1, OtherThreadStep, SetInitializedStep
  <2>3. CASE \E i \in Irs : DropHeader(i) \/ Deallocate(i)
    BY <2>3 DEF DropHeader, Deallocate, ReleaseCapsule, ReleaseEntry, bridgeVars
  <2>4. CASE SetVariable \/ InstallLibrary
    BY <2>4 DEF SetVariable, InstallLibrary, Install, bridgeVars
  <2>. QED  BY <1>1, <2>1, <2>2, <2>3, <2>4 DEF FrontEndNext
<1>2. LibraryInv /\ [FrontEndNext]_vars => [Ready => UNCHANGED <<handle, table, mapped>>]_vars
  BY <1>1
<1>. QED  BY <1>2, LibraryInvInit, LibraryInvNext, PTL DEF FrontEndSpec, LibraryStays

-----------------------------------------------------------------------------
(* The capsules. *)

MemoryTypeOK ==
    /\ ir \in [Irs -> {"none", "live", "freed", "lost"}]
    /\ capRefs \in [Irs -> Nat] /\ recRefs \in [Recs -> Nat]
    /\ rec \in [Recs -> [ir : Irs, name : Names] \cup {None}]
    /\ header \in [Irs -> {"none", "held", "unheld", "dead"}]
    /\ memo \in [Irs -> [Names -> Recs \cup {None}]]
    /\ fn \in [Threads -> Recs \cup {None}]
    /\ frame \in [Threads -> Frames]

(* What a frame may rely on between its steps. *)
FrameHolds(t) ==
    /\ \A i \in Irs : HoldsIr(t, i) => header[i] = "none"
    /\ \A i \in Irs : InHeader(t, i) => HasCapsule(i) /\ fn[t] = None
    /\ At(t, "fetch") => memo[frame[t].ir][frame[t].name] # None
    /\ At(t, "store") => rec[frame[t].rec] = [ir |-> frame[t].ir, name |-> frame[t].name]
    /\ At(t, "call") => rec[frame[t].rec] = frame[t].fnrec

(* A capsule that no HeaderProxy has yet is in one frame. *)
OneFrame == \A t, u \in Threads, i \in Irs : HoldsIr(t, i) /\ HoldsIr(u, i) => t = u

(* An address without a record capsule has no references, and an IR that   *)
(* was not made has no HeaderProxy.                                        *)
UnusedIsFree ==
    /\ \A r \in Recs : rec[r] = None => recRefs[r] = 0
    /\ \A i \in Irs : ir[i] = "none" => header[i] = "none"

(* The inductive invariant of the second part. *)
MemoryInv ==
    /\ MemoryTypeOK
    /\ \A t \in Threads : FrameHolds(t)
    /\ OneFrame
    /\ UnusedIsFree
    /\ CountsExact
    /\ IrLivesWithCapsule
    /\ MemoIsOfTheName

-----------------------------------------------------------------------------
LEMMA FrameOf ==
    ASSUME MemoryTypeOK, NEW t \in Threads
    PROVE  /\ frame[t] \in Frames
           /\ At(t, "emit") \/ At(t, "proxy") => frame[t].ir \in Irs
           /\ frame[t].pc \in {"check", "resolve", "store", "fetch"} =>
                  frame[t].ir \in Irs /\ frame[t].name \in Names
           /\ At(t, "store") \/ At(t, "call") => frame[t].rec \in Recs
           /\ At(t, "call") => frame[t].fnrec \in [ir : Irs, name : Names]
<1>1. frame[t] \in Frames
  BY DEF MemoryTypeOK
<1>. QED  BY <1>1 DEF Frames, Idle, At

LEMMA Stepping ==
    ASSUME MemoryTypeOK, NEW t \in Threads, NEW f \in Frames, Go(t, f)
    PROVE  /\ frame' \in [Threads -> Frames]
           /\ frame'[t] = f
           /\ \A u \in Threads \ {t} : frame'[u] = frame[u]
BY DEF MemoryTypeOK, Go

-----------------------------------------------------------------------------
(* The sets of holders are finite, before a step and after it. *)
LEMMA CapsuleHoldersFinite ==
    ASSUME NEW i \in Irs
    PROVE  IsFiniteSet(CapsuleHolders(i)) /\ IsFiniteSet(CapsuleHolders(i)')
<1>. DEFINE U == ({"frame"} \X Threads) \cup ({"header"} \X Irs) \cup ({"record"} \X Recs)
<1>1. IsFiniteSet(U)
  BY FiniteAssumption, FS_Singleton, FS_Product, FS_Union, Zenon
<1>2. CapsuleHolders(i) \subseteq U /\ CapsuleHolders(i)' \subseteq U
  BY DEF CapsuleHolders
<1>. HIDE DEF U
<1>. QED  BY <1>1, <1>2, FS_Subset

LEMMA RecordHoldersFinite ==
    ASSUME NEW r \in Recs
    PROVE  IsFiniteSet(RecordHolders(r)) /\ IsFiniteSet(RecordHolders(r)')
<1>. DEFINE U == ({"frame"} \X Threads) \cup ({"fn"} \X Threads) \cup ({"memo"} \X (Irs \X Names))
<1>1. IsFiniteSet(U)
  BY FiniteAssumption, FS_Singleton, FS_Product, FS_Union, Zenon
<1>2. RecordHolders(r) \subseteq U /\ RecordHolders(r)' \subseteq U
  BY DEF RecordHolders
<1>. HIDE DEF U
<1>. QED  BY <1>1, <1>2, FS_Subset

(* A set that gains a holder, loses one, or has one for another. *)
LEMMA Gains ==
    ASSUME NEW S, IsFiniteSet(S), NEW x, x \notin S
    PROVE  Cardinality(S \cup {x}) = Cardinality(S) + 1
BY FS_AddElement

LEMMA Loses ==
    ASSUME NEW S, IsFiniteSet(S), NEW x \in S
    PROVE  Cardinality(S \ {x}) = Cardinality(S) - 1 /\ Cardinality(S) \in Nat \ {0}
<1>1. Cardinality(S \ {x}) = Cardinality(S) - 1 /\ IsFiniteSet(S \ {x})
  BY FS_RemoveElement
<1>2. Cardinality(S) \in Nat /\ Cardinality(S \ {x}) \in Nat
  BY <1>1, FS_CardinalityType
<1>. QED  BY <1>1, <1>2

LEMMA Swaps ==
    ASSUME NEW S, IsFiniteSet(S), NEW x \in S, NEW y, y \notin S
    PROVE  Cardinality((S \ {x}) \cup {y}) = Cardinality(S)
<1>1. IsFiniteSet(S \ {x}) /\ y \notin S \ {x}
  BY FS_RemoveElement
<1>2. Cardinality((S \ {x}) \cup {y}) = Cardinality(S \ {x}) + 1
  BY <1>1, Gains
<1>3. Cardinality(S \ {x}) = Cardinality(S) - 1 /\ Cardinality(S) \in Nat
  BY Loses
<1>. QED  BY <1>2, <1>3

-----------------------------------------------------------------------------
RecordOf(r, i) == rec[r] # None /\ rec[r].ir = i

(* Which holders there are, and when they are the same as before. *)
LEMMA SameCapsuleHolders ==
    ASSUME NEW i \in Irs, HasCapsule(i)' <=> HasCapsule(i),
           \A t \in Threads : HoldsIr(t, i)' <=> HoldsIr(t, i),
           \A r \in Recs : RecordOf(r, i)' <=> RecordOf(r, i)
    PROVE  CapsuleHolders(i)' = CapsuleHolders(i)
<1>1. \A k \in {i} : HasCapsule(k)' <=> HasCapsule(k)
  OBVIOUS
<1>. QED  BY <1>1 DEF CapsuleHolders, RecordOf

LEMMA SameRecordHolders ==
    ASSUME NEW r \in Recs,
           \A t \in Threads : HoldsRecord(t, r)' <=> HoldsRecord(t, r),
           \A t \in Threads : fn'[t] = r <=> fn[t] = r,
           \A i \in Irs, n \in Names : memo'[i][n] = r <=> memo[i][n] = r
    PROVE  RecordHolders(r)' = RecordHolders(r)
<1>1. \A q \in Irs \X Names : memo'[q[1]][q[2]] = r <=> memo[q[1]][q[2]] = r
  OBVIOUS
<1>. QED  BY <1>1 DEF RecordHolders

(* A thing that has a holder is counted. *)
LEMMA HeldIr ==
    ASSUME MemoryInv, NEW i \in Irs, NEW x, x \in CapsuleHolders(i)
    PROVE  capRefs[i] \in Nat \ {0} /\ ir[i] = "live"
<1>1. capRefs[i] = Cardinality(CapsuleHolders(i))
  BY DEF MemoryInv, CountsExact
<1>2. capRefs[i] \in Nat \ {0}
  BY <1>1, CapsuleHoldersFinite, Loses
<1>. QED  BY <1>2 DEF MemoryInv, IrLivesWithCapsule

LEMMA HeldRecord ==
    ASSUME MemoryInv, NEW r \in Recs, NEW x, x \in RecordHolders(r)
    PROVE  recRefs[r] \in Nat \ {0} /\ rec[r] \in [ir : Irs, name : Names]
<1>1. recRefs[r] = Cardinality(RecordHolders(r))
  BY DEF MemoryInv, CountsExact
<1>2. recRefs[r] \in Nat \ {0}
  BY <1>1, RecordHoldersFinite, Loses
<1>. QED  BY <1>2 DEF MemoryInv, UnusedIsFree, MemoryTypeOK

(* Each kind of holder is one. *)
LEMMA Holders ==
    /\ \A t \in Threads, i \in Irs : HoldsIr(t, i) => <<"frame", t>> \in CapsuleHolders(i)
    /\ \A i \in Irs : HasCapsule(i) => <<"header", i>> \in CapsuleHolders(i)
    /\ \A r \in Recs, i \in Irs : RecordOf(r, i) => <<"record", r>> \in CapsuleHolders(i)
    /\ \A t \in Threads, r \in Recs : HoldsRecord(t, r) => <<"frame", t>> \in RecordHolders(r)
    /\ \A t \in Threads, r \in Recs : fn[t] = r => <<"fn", t>> \in RecordHolders(r)
    /\ \A i \in Irs, n \in Names, r \in Recs :
         memo[i][n] = r => <<"memo", <<i, n>>>> \in RecordHolders(r)
<1>1. \A i \in Irs : HasCapsule(i) => i \in {k \in {i} : HasCapsule(k)}
  OBVIOUS
<1>2. \A i \in Irs, n \in Names, r \in Recs :
        memo[i][n] = r => <<i, n>> \in {q \in Irs \X Names : memo[q[1]][q[2]] = r}
  OBVIOUS
<1>. QED  BY <1>1, <1>2 DEF CapsuleHolders, RecordHolders, RecordOf

-----------------------------------------------------------------------------
(* What a step may do to the frame of another thread. *)
LEMMA FrameKept ==
    ASSUME NEW t \in Threads, FrameHolds(t), frame'[t] = frame[t], MemoryTypeOK,
           \A i \in Irs : HoldsIr(t, i) => header'[i] = header[i],
           \A i \in Irs : InHeader(t, i) => HasCapsule(i)',
           fn'[t] \in {fn[t], None},
           At(t, "fetch") => memo'[frame[t].ir][frame[t].name] # None,
           \A r \in Recs : HoldsRecord(t, r) => rec'[r] = rec[r]
    PROVE  FrameHolds(t)'
<1>1. \A i \in Irs : HoldsIr(t, i)' => header'[i] = "none"
  BY DEF FrameHolds, HoldsIr
<1>2. \A i \in Irs : InHeader(t, i)' => HasCapsule(i)' /\ fn'[t] = None
  BY DEF FrameHolds, InHeader
<1>3. At(t, "store")' \/ At(t, "call")' => rec'[frame[t].rec] = rec[frame[t].rec]
  BY FrameOf DEF HoldsRecord, At
<1>. QED  BY <1>1, <1>2, <1>3 DEF FrameHolds, At

(* The steps that leave every reference alone. *)
LEMMA Quiet ==
    ASSUME MemoryInv, UNCHANGED <<capRefs, rec, recRefs, header, memo, fn>>,
           ir' \in [Irs -> {"none", "live", "freed", "lost"}],
           \A i \in Irs : /\ ir'[i] = "live" <=> ir[i] = "live"
                          /\ ir'[i] = "none" => ir[i] = "none",
           NEW t \in Threads, NEW f \in Frames, Go(t, f),
           \A i \in Irs : HoldsIr(t, i)' <=> HoldsIr(t, i),
           \A r \in Recs : HoldsRecord(t, r)' <=> HoldsRecord(t, r),
           FrameHolds(t)'
    PROVE  MemoryInv'
<1>1. /\ frame' \in [Threads -> Frames]
      /\ \A u \in Threads \ {t} : frame'[u] = frame[u]
  BY Stepping DEF MemoryInv
<1>2. \A u \in Threads, i \in Irs : HoldsIr(u, i)' <=> HoldsIr(u, i)
  BY <1>1 DEF HoldsIr
<1>3. \A u \in Threads, r \in Recs : HoldsRecord(u, r)' <=> HoldsRecord(u, r)
  BY <1>1 DEF HoldsRecord
<1>4. MemoryTypeOK'
  BY <1>1 DEF MemoryInv, MemoryTypeOK
<1>5. ASSUME NEW u \in Threads
      PROVE  FrameHolds(u)'
  <2>1. CASE u # t
    <3>1. FrameHolds(u) /\ frame'[u] = frame[u] /\ MemoryTypeOK
      BY <1>1, <2>1 DEF MemoryInv
    <3>2. \A i \in Irs : InHeader(u, i) => HasCapsule(i)'
      BY <3>1 DEF FrameHolds, HasCapsule
    <3>3. At(u, "fetch") => memo'[frame[u].ir][frame[u].name] # None
      BY <3>1 DEF FrameHolds
    <3>. QED  BY <3>1, <3>2, <3>3, FrameKept
  <2>. QED  BY <2>1
<1>6. OneFrame'
  BY <1>2 DEF MemoryInv, OneFrame
<1>7. UnusedIsFree'
  BY DEF MemoryInv, UnusedIsFree
<1>8. CountsExact'
  <2>1. ASSUME NEW i \in Irs
        PROVE  CapsuleHolders(i)' = CapsuleHolders(i)
    BY <1>2, SameCapsuleHolders DEF HasCapsule, RecordOf
  <2>2. ASSUME NEW r \in Recs
        PROVE  RecordHolders(r)' = RecordHolders(r)
    BY <1>3, SameRecordHolders
  <2>. QED  BY <2>1, <2>2 DEF MemoryInv, CountsExact
<1>9. IrLivesWithCapsule' /\ MemoIsOfTheName'
  BY DEF MemoryInv, IrLivesWithCapsule, MemoIsOfTheName
<1>. QED  BY <1>4, <1>5, <1>6, <1>7, <1>8, <1>9 DEF MemoryInv

(* Of them, those of a frame that holds nothing, and goes on to hold nothing. *)
LEMMA NothingHeld ==
    ASSUME MemoryInv, UNCHANGED <<capRefs, rec, recRefs, header, memo, fn>>,
           ir' \in [Irs -> {"none", "live", "freed", "lost"}],
           \A i \in Irs : /\ ir'[i] = "live" <=> ir[i] = "live"
                          /\ ir'[i] = "none" => ir[i] = "none",
           NEW t \in Threads, NEW f \in Frames, Go(t, f),
           frame[t].pc \notin {"emit", "proxy", "store", "call"},
           f.pc \in {"idle", "ensure", "flag", "parse", "init", "read"}
    PROVE  MemoryInv'
<1>1. frame'[t] = f
  BY Stepping DEF MemoryInv
<1>2. /\ \A i \in Irs : ~HoldsIr(t, i) /\ ~HoldsIr(t, i)'
      /\ \A r \in Recs : ~HoldsRecord(t, r) /\ ~HoldsRecord(t, r)'
  BY <1>1 DEF HoldsIr, HoldsRecord
<1>3. FrameHolds(t)'
  BY <1>1, <1>2 DEF FrameHolds, InHeader, At
<1>. QED  BY <1>2, <1>3, Quiet

LEMMA EveryFrame ==
    /\ Idle \in Frames /\ [pc |-> "read"] \in Frames
    /\ \A k \in BOOLEAN, pc \in {"ensure", "flag", "parse"} : [pc |-> pc, keep |-> k] \in Frames
    /\ \A p \in Paths, k \in BOOLEAN : [pc |-> "init", path |-> p, keep |-> k] \in Frames
    /\ \A i \in Irs, k \in BOOLEAN : [pc |-> "emit", ir |-> i, keep |-> k] \in Frames
    /\ \A i \in Irs : [pc |-> "proxy", ir |-> i] \in Frames
    /\ \A i \in Irs, n \in Names, pc \in {"check", "resolve", "fetch"} :
         [pc |-> pc, ir |-> i, name |-> n] \in Frames
    /\ \A i \in Irs, n \in Names, r \in Recs :
         [pc |-> "store", ir |-> i, name |-> n, rec |-> r] \in Frames
    /\ \A r \in Recs, d \in [ir : Irs, name : Names] :
         [pc |-> "call", rec |-> r, fnrec |-> d] \in Frames
BY DEF Frames, Idle

(* A frame that knows what its caller wants. *)
LEMMA KeepOf ==
    ASSUME MemoryTypeOK, NEW t \in Threads,
           frame[t].pc \in {"ensure", "flag", "parse", "init", "emit"}
    PROVE  frame[t].keep \in BOOLEAN
<1>1. frame[t] \in Frames
  BY DEF MemoryTypeOK
<1>. QED  BY <1>1 DEF Frames, Idle

LEMMA LibraryStep ==
    ASSUME MemoryInv, NEW t \in Threads,
           Load(t) \/ LoadCPyC(t) \/ Ensure(t) \/ InitClang(t) \/ SetInitialized(t)
    PROVE  MemoryInv'
<1>1. /\ UNCHANGED <<capRefs, rec, recRefs, header, memo, fn>> /\ ir' = ir
      /\ ir \in [Irs -> {"none", "live", "freed", "lost"}]
  BY DEF Load, LoadCPyC, Ensure, InitClang, SetInitialized, pyVars, MemoryInv, MemoryTypeOK
<1>2. frame[t].pc \notin {"emit", "proxy", "store", "call"}
  BY DEF Load, LoadCPyC, Ensure, InitClang, SetInitialized, At
<1>3. ASSUME NEW f \in Frames, Go(t, f), f.pc \in {"idle", "ensure", "flag", "parse", "init", "read"}
      PROVE  MemoryInv'
  BY <1>1, <1>2, <1>3, NothingHeld
<1>4. CASE Load(t)
  BY <1>3, <1>4, EveryFrame DEF Load
<1>5. CASE LoadCPyC(t)
  BY <1>3, <1>5, EveryFrame DEF LoadCPyC
<1>6. ASSUME frame[t].pc \in {"ensure", "flag"}, Ensured(t)
      PROVE  MemoryInv'
  <2>1. frame[t].keep \in BOOLEAN
    BY <1>6, KeepOf DEF MemoryInv
  <2>. QED  BY <1>3, <1>6, <2>1, EveryFrame DEF Ensured
<1>7. CASE Go(t, Idle)
  BY <1>3, <1>7, EveryFrame DEF Idle
<1>8. CASE Ensure(t)
  <2>1. ASSUME NEW p \in Paths, Go(t, [pc |-> "init", path |-> p, keep |-> frame[t].keep])
        PROVE  MemoryInv'
    <3>1. frame[t].keep \in BOOLEAN
      BY <1>8, KeepOf DEF MemoryInv, Ensure, At
    <3>. QED  BY <1>3, <2>1, <3>1, EveryFrame
  <2>. QED  BY <1>6, <1>7, <1>8, <2>1 DEF Ensure, At
<1>9. CASE InitClang(t)
  <2>1. frame[t].keep \in BOOLEAN
    BY <1>9, KeepOf DEF MemoryInv, InitClang, At
  <2>2. CASE Go(t, [pc |-> "flag", keep |-> frame[t].keep])
    BY <1>3, <2>1, <2>2, EveryFrame
  <2>. QED  BY <1>7, <1>9, <2>2 DEF InitClang
<1>10. CASE SetInitialized(t)
  BY <1>6, <1>10 DEF SetInitialized, At
<1>. QED  BY <1>4, <1>5, <1>8, <1>9, <1>10

LEMMA EmitStep ==
    ASSUME MemoryInv, NEW t \in Threads, Emit(t)
    PROVE  MemoryInv'
<1>. DEFINE i == frame[t].ir
            f == [pc |-> "proxy", ir |-> i]
<1>1. i \in Irs /\ f \in Frames
  BY FrameOf, EveryFrame DEF Emit, MemoryInv
<1>2. Go(t, f) /\ frame'[t] = f
  BY <1>1, Stepping DEF Emit, MemoryInv
<1>3. /\ \A j \in Irs : HoldsIr(t, j)' <=> HoldsIr(t, j)
      /\ \A r \in Recs : ~HoldsRecord(t, r)' /\ ~HoldsRecord(t, r)
  BY <1>2 DEF HoldsIr, HoldsRecord, Emit, At
<1>4. UNCHANGED <<ir, capRefs, rec, recRefs, header, memo, fn>>
  BY DEF Emit, pyVars
<1>5. FrameHolds(t)'
  <2>1. \A j \in Irs : HoldsIr(t, j)' => header'[j] = "none"
    BY <1>3, <1>4 DEF FrameHolds, MemoryInv
  <2>2. \A j \in Irs : ~InHeader(t, j)'
    BY <1>2 DEF InHeader
  <2>3. ~At(t, "fetch")' /\ ~At(t, "store")' /\ ~At(t, "call")'
    BY <1>2 DEF At
  <2>. QED  BY <2>1, <2>2, <2>3 DEF FrameHolds
<1>6. /\ ir' \in [Irs -> {"none", "live", "freed", "lost"}]
      /\ \A j \in Irs : ir'[j] = ir[j]
  BY <1>4 DEF MemoryInv, MemoryTypeOK
<1>. HIDE DEF f, i
<1>. QED  BY <1>1, <1>2, <1>3, <1>4, <1>5, <1>6, Quiet

LEMMA LookUpStep ==
    ASSUME MemoryInv, NEW t \in Threads, GetAttr(t) \/ CheckMemo(t)
    PROVE  MemoryInv'
<1>1. /\ UNCHANGED <<ir, capRefs, rec, recRefs, header, memo, fn>>
      /\ frame[t].pc \in {"idle", "check"}
  BY DEF GetAttr, CheckMemo, pyVars, At
<1>2. /\ ir' \in [Irs -> {"none", "live", "freed", "lost"}]
      /\ \A j \in Irs : ir'[j] = ir[j]
  BY <1>1 DEF MemoryInv, MemoryTypeOK
<1>3. ASSUME NEW i \in Irs, NEW n \in Names, NEW pc \in {"check", "resolve", "fetch"},
             HasCapsule(i), fn[t] = None, pc = "fetch" => memo[i][n] # None,
             Go(t, [pc |-> pc, ir |-> i, name |-> n])
      PROVE  MemoryInv'
  <2>. DEFINE f == [pc |-> pc, ir |-> i, name |-> n]
  <2>1. f \in Frames /\ Go(t, f) /\ frame'[t] = f
    BY <1>3, EveryFrame, Stepping DEF MemoryInv
  <2>2. /\ \A j \in Irs : ~HoldsIr(t, j)' /\ ~HoldsIr(t, j)
        /\ \A r \in Recs : ~HoldsRecord(t, r)' /\ ~HoldsRecord(t, r)
    BY <1>1, <2>1 DEF HoldsIr, HoldsRecord
  <2>3. FrameHolds(t)'
    BY <1>1, <1>3, <2>1, <2>2 DEF FrameHolds, InHeader, HasCapsule, At
  <2>. HIDE DEF f
  <2>. QED  BY <1>1, <1>2, <2>1, <2>2, <2>3, Quiet
<1>4. CASE GetAttr(t)
  BY <1>3, <1>4 DEF GetAttr, HasCapsule
<1>5. CASE CheckMemo(t)
  <2>1. frame[t].ir \in Irs /\ frame[t].name \in Names
    BY <1>5, FrameOf DEF CheckMemo, At, MemoryInv
  <2>2. HasCapsule(frame[t].ir) /\ fn[t] = None
    BY <1>5, <2>1 DEF CheckMemo, At, MemoryInv, FrameHolds, InHeader
  <2>3. PICK pc \in {"resolve", "fetch"} :
            /\ pc = "resolve" <=> memo[frame[t].ir][frame[t].name] = None
            /\ Go(t, [pc |-> pc, ir |-> frame[t].ir, name |-> frame[t].name])
    BY <1>5 DEF CheckMemo
  <2>. QED  BY <1>3, <2>1, <2>2, <2>3
<1>. QED  BY <1>4, <1>5

-----------------------------------------------------------------------------
(* A reference to an IR's capsule is given back. *)
LEMMA CapsuleLetGo ==
    ASSUME MemoryInv, NEW i \in Irs, DecCapsule(i, capRefs[i]),
           NEW x \in CapsuleHolders(i), CapsuleHolders(i)' = CapsuleHolders(i) \ {x},
           \A j \in Irs \ {i} : CapsuleHolders(j)' = CapsuleHolders(j)
    PROVE  /\ ir' \in [Irs -> {"none", "live", "freed", "lost"}]
           /\ capRefs' \in [Irs -> Nat]
           /\ \A j \in Irs : capRefs'[j] = Cardinality(CapsuleHolders(j)')
           /\ IrLivesWithCapsule'
           /\ \A j \in Irs : ir'[j] = "none" => ir[j] = "none"
<1>1. capRefs[i] \in Nat \ {0} /\ ir[i] = "live"
  BY HeldIr
<1>2. /\ ir' \in [Irs -> {"none", "live", "freed", "lost"}]
      /\ capRefs' \in [Irs -> Nat]
      /\ \A j \in Irs : ir'[j] = "none" => ir[j] = "none"
  <2>1. /\ ir \in [Irs -> {"none", "live", "freed", "lost"}] /\ capRefs \in [Irs -> Nat]
        /\ capRefs[i] - 1 \in Nat
    BY <1>1 DEF MemoryInv, MemoryTypeOK
  <2>2. capRefs' \in [Irs -> Nat]
    BY <2>1 DEF DecCapsule
  <2>3. ir' = ir \/ ir' = [ir EXCEPT ![i] = "freed"]
    BY DEF DecCapsule
  <2>. QED  BY <2>1, <2>2, <2>3
<1>3. capRefs'[i] = capRefs[i] - 1 /\ \A j \in Irs \ {i} : capRefs'[j] = capRefs[j]
  BY DEF DecCapsule, MemoryInv, MemoryTypeOK
<1>4. Cardinality(CapsuleHolders(i)') = Cardinality(CapsuleHolders(i)) - 1
  BY CapsuleHoldersFinite, Loses
<1>5. \A j \in Irs : capRefs'[j] = Cardinality(CapsuleHolders(j)')
  BY <1>3, <1>4 DEF MemoryInv, CountsExact
<1>6. IrLivesWithCapsule'
  <2>1. ASSUME NEW j \in Irs \ {i}
        PROVE  ir'[j] = ir[j] /\ capRefs'[j] = capRefs[j]
    BY <1>3 DEF DecCapsule, MemoryInv, MemoryTypeOK
  <2>2. ir'[i] = "live" <=> capRefs'[i] > 0
    <3>1. ir'[i] = IF capRefs[i] = 1 THEN "freed" ELSE ir[i]
      BY DEF DecCapsule, MemoryInv, MemoryTypeOK
    <3>. QED  BY <1>1, <1>3, <3>1
  <2>3. \A j \in Irs : ir[j] = "live" <=> capRefs[j] > 0
    BY DEF MemoryInv, IrLivesWithCapsule
  <2>4. ASSUME NEW j \in Irs
        PROVE  ir'[j] = "live" <=> capRefs'[j] > 0
    BY <2>1, <2>2, <2>3
  <2>. QED  BY <2>4 DEF IrLivesWithCapsule
<1>. QED  BY <1>2, <1>5, <1>6

(* A reference to a record capsule is given back, or passed on and another *)
(* one given back.                                                         *)
LEMMA RecordLetGo ==
    ASSUME MemoryInv, NEW q \in Recs, DecRecord(q), UNCHANGED header,
           \A t \in Threads, i \in Irs : HoldsIr(t, i)' <=> HoldsIr(t, i),
           RecordHolders(q) # {},
           Cardinality(RecordHolders(q)') = Cardinality(RecordHolders(q)) - 1,
           \A r \in Recs \ {q} : Cardinality(RecordHolders(r)') = Cardinality(RecordHolders(r))
    PROVE  /\ ir' \in [Irs -> {"none", "live", "freed", "lost"}]
           /\ capRefs' \in [Irs -> Nat] /\ recRefs' \in [Recs -> Nat]
           /\ rec' \in [Recs -> [ir : Irs, name : Names] \cup {None}]
           /\ UnusedIsFree' /\ CountsExact' /\ IrLivesWithCapsule'
           /\ \A r \in Recs : RecordHolders(r)' # {} => rec'[r] = rec[r]
<1>1. recRefs[q] \in Nat \ {0} /\ rec[q] \in [ir : Irs, name : Names]
  BY HeldRecord
<1>2. /\ recRefs' \in [Recs -> Nat]
      /\ recRefs'[q] = recRefs[q] - 1
      /\ \A r \in Recs \ {q} : recRefs'[r] = recRefs[r]
  <2>1. recRefs \in [Recs -> Nat] /\ recRefs[q] - 1 \in Nat
    BY <1>1 DEF MemoryInv, MemoryTypeOK
  <2>. QED  BY <2>1 DEF DecRecord
<1>3. \A r \in Recs : recRefs'[r] = Cardinality(RecordHolders(r)')
  BY <1>2 DEF MemoryInv, CountsExact
<1>4. \A r \in Recs \ {q} : rec'[r] = rec[r]
  BY DEF DecRecord, MemoryInv, MemoryTypeOK
<1>5. \A i \in Irs : HasCapsule(i)' <=> HasCapsule(i)
  BY DEF HasCapsule
<1>6. CASE recRefs[q] = 1
  <2>0. PICK i \in Irs : i = rec[q].ir
    BY <1>1
  <2>1. RecordOf(q, i) /\ DecCapsule(i, capRefs[i]) /\ rec'[q] = None
    BY <1>1, <1>6, <2>0, NoneAssumption DEF DecRecord, RecordOf, MemoryInv, MemoryTypeOK
  <2>2. <<"record", q>> \in CapsuleHolders(i)
    BY <2>1, Holders
  <2>3. CapsuleHolders(i)' = CapsuleHolders(i) \ {<<"record", q>>}
    <3>1. {r \in Recs : rec'[r] # None /\ rec'[r].ir = i}
             = {r \in Recs : rec[r] # None /\ rec[r].ir = i} \ {q}
      BY <1>4, <2>1
    <3>2. {u \in Threads : HoldsIr(u, i)'} = {u \in Threads : HoldsIr(u, i)}
      BY <2>1
    <3>3. {k \in {i} : HasCapsule(k)'} = {k \in {i} : HasCapsule(k)}
      BY <1>5, <2>1
    <3>. QED  BY <3>1, <3>2, <3>3 DEF CapsuleHolders
  <2>4. ASSUME NEW j \in Irs \ {i}
        PROVE  CapsuleHolders(j)' = CapsuleHolders(j)
    <3>1. \A r \in Recs : RecordOf(r, j)' <=> RecordOf(r, j)
      BY <1>4, <2>0, <2>1 DEF RecordOf
    <3>. QED  BY <1>5, <3>1, SameCapsuleHolders
  <2>5. /\ ir' \in [Irs -> {"none", "live", "freed", "lost"}]
        /\ capRefs' \in [Irs -> Nat]
        /\ \A j \in Irs : capRefs'[j] = Cardinality(CapsuleHolders(j)')
        /\ IrLivesWithCapsule'
        /\ \A j \in Irs : ir'[j] = "none" => ir[j] = "none"
    BY <2>1, <2>2, <2>3, <2>4, CapsuleLetGo
  <2>6. rec' \in [Recs -> [ir : Irs, name : Names] \cup {None}]
    BY <1>6 DEF DecRecord, MemoryInv, MemoryTypeOK
  <2>7. UnusedIsFree'
    BY <1>2, <1>4, <1>6, <2>5 DEF UnusedIsFree, MemoryInv
  <2>8. RecordHolders(q)' = {}
    <3>1. Cardinality(RecordHolders(q)') = 0
      BY <1>6 DEF MemoryInv, CountsExact
    <3>. QED  BY <3>1, RecordHoldersFinite, FS_EmptySet
  <2>. QED  BY <1>2, <1>3, <1>4, <2>5, <2>6, <2>7, <2>8 DEF CountsExact
<1>7. CASE recRefs[q] # 1
  <2>1. UNCHANGED <<rec, capRefs, ir>>
    BY <1>7 DEF DecRecord
  <2>2. ASSUME NEW j \in Irs
        PROVE  CapsuleHolders(j)' = CapsuleHolders(j)
    BY <1>5, <2>1, SameCapsuleHolders DEF RecordOf
  <2>3. UnusedIsFree'
    BY <1>1, <1>2, <2>1, NoneAssumption DEF UnusedIsFree, MemoryInv
  <2>4. IrLivesWithCapsule'
    BY <2>1 DEF IrLivesWithCapsule, MemoryInv
  <2>5. CountsExact'
    BY <1>3, <2>1, <2>2 DEF CountsExact, MemoryInv
  <2>. QED  BY <1>2, <2>1, <2>3, <2>4, <2>5 DEF MemoryInv, MemoryTypeOK
<1>. QED  BY <1>6, <1>7

LEMMA HoldersAfter ==
    /\ \A t \in Threads, r \in Recs : HoldsRecord(t, r)' => RecordHolders(r)' # {}
    /\ \A i \in Irs, n \in Names, r \in Recs : memo'[i][n] = r => RecordHolders(r)' # {}
<1>1. \A i \in Irs, n \in Names, r \in Recs :
        memo'[i][n] = r => <<i, n>> \in {q \in Irs \X Names : memo'[q[1]][q[2]] = r}
  OBVIOUS
<1>2. \A t \in Threads, r \in Recs : HoldsRecord(t, r)' => <<"frame", t>> \in RecordHolders(r)'
  BY DEF RecordHolders
<1>3. \A i \in Irs, n \in Names, r \in Recs :
        memo'[i][n] = r => <<"memo", <<i, n>>>> \in RecordHolders(r)'
  BY <1>1 DEF RecordHolders
<1>. QED  BY <1>2, <1>3

LEMMA RecordStep ==
    ASSUME MemoryInv, NEW q \in Recs, DecRecord(q), UNCHANGED header,
           \A t \in Threads, i \in Irs : HoldsIr(t, i)' <=> HoldsIr(t, i),
           RecordHolders(q) # {},
           Cardinality(RecordHolders(q)') = Cardinality(RecordHolders(q)) - 1,
           \A r \in Recs \ {q} : Cardinality(RecordHolders(r)') = Cardinality(RecordHolders(r)),
           memo' \in [Irs -> [Names -> Recs \cup {None}]],
           fn' \in [Threads -> Recs \cup {None}],
           frame' \in [Threads -> Frames],
           \A i \in Irs, n \in Names :
               memo'[i][n] # None => rec[memo'[i][n]] = [ir |-> i, name |-> n],
           \A t \in Threads : fn'[t] \in {fn[t], None},
           \A t \in Threads :
               \/ /\ frame'[t] = frame[t]
                  /\ At(t, "fetch") => memo'[frame[t].ir][frame[t].name] # None
               \/ FrameHolds(t)'
    PROVE  MemoryInv'
<1>1. /\ ir' \in [Irs -> {"none", "live", "freed", "lost"}]
      /\ capRefs' \in [Irs -> Nat] /\ recRefs' \in [Recs -> Nat]
      /\ rec' \in [Recs -> [ir : Irs, name : Names] \cup {None}]
      /\ UnusedIsFree' /\ CountsExact' /\ IrLivesWithCapsule'
      /\ \A r \in Recs : RecordHolders(r)' # {} => rec'[r] = rec[r]
  BY RecordLetGo
<1>2. MemoryTypeOK'
  BY <1>1 DEF MemoryInv, MemoryTypeOK
<1>3. ASSUME NEW t \in Threads
      PROVE  FrameHolds(t)'
  <2>1. CASE /\ frame'[t] = frame[t]
             /\ At(t, "fetch") => memo'[frame[t].ir][frame[t].name] # None
    <3>1. \A r \in Recs : HoldsRecord(t, r) => rec'[r] = rec[r]
      BY <1>1, <2>1, HoldersAfter DEF HoldsRecord
    <3>2. FrameHolds(t) /\ MemoryTypeOK
      BY DEF MemoryInv
    <3>3. \A i \in Irs : InHeader(t, i) => HasCapsule(i)'
      BY <3>2 DEF FrameHolds, HasCapsule
    <3>. QED  BY <2>1, <3>1, <3>2, <3>3, FrameKept
  <2>. QED  BY <2>1
<1>4. OneFrame'
  BY DEF MemoryInv, OneFrame
<1>5. MemoIsOfTheName'
  <2>1. ASSUME NEW i \in Irs, NEW n \in Names, memo'[i][n] # None
        PROVE  rec'[memo'[i][n]] = [ir |-> i, name |-> n]
    <3>1. memo'[i][n] \in Recs
      BY <2>1
    <3>. QED  BY <1>1, <2>1, <3>1, HoldersAfter
  <2>. QED  BY <2>1 DEF MemoIsOfTheName
<1>. QED  BY <1>1, <1>2, <1>3, <1>4, <1>5 DEF MemoryInv

LEMMA CallReturnsStep ==
    ASSUME MemoryInv, NEW t \in Threads, CallReturns(t)
    PROVE  MemoryInv'
<1>1. PICK q \in Recs : q = frame[t].rec
  BY FrameOf DEF CallReturns, MemoryInv
<1>2. /\ frame' \in [Threads -> Frames] /\ frame'[t] = Idle
      /\ \A u \in Threads \ {t} : frame'[u] = frame[u]
  BY EveryFrame, Stepping DEF CallReturns, MemoryInv
<1>3. HoldsRecord(t, q) /\ ~HoldsRecord(t, q)'
  BY <1>1, <1>2 DEF HoldsRecord, CallReturns, At, Idle
<1>4. \A u \in Threads, i \in Irs : HoldsIr(u, i)' <=> HoldsIr(u, i)
  BY <1>2 DEF HoldsIr, CallReturns, At, Idle
<1>5. RecordHolders(q)' = RecordHolders(q) \ {<<"frame", t>>}
  <2>1. {u \in Threads : HoldsRecord(u, q)'} = {u \in Threads : HoldsRecord(u, q)} \ {t}
    BY <1>2, <1>3 DEF HoldsRecord
  <2>. QED  BY <2>1 DEF RecordHolders, CallReturns
<1>6. ASSUME NEW r \in Recs \ {q}
      PROVE  RecordHolders(r)' = RecordHolders(r)
  <2>1. \A u \in Threads : HoldsRecord(u, r)' <=> HoldsRecord(u, r)
    BY <1>1, <1>2 DEF HoldsRecord, Idle
  <2>. QED  BY <2>1, SameRecordHolders DEF CallReturns
<1>7. /\ RecordHolders(q) # {}
      /\ Cardinality(RecordHolders(q)') = Cardinality(RecordHolders(q)) - 1
  BY <1>3, <1>5, Holders, RecordHoldersFinite, Loses
<1>8. /\ memo' = memo /\ fn' = fn /\ UNCHANGED header /\ DecRecord(q)
      /\ memo' \in [Irs -> [Names -> Recs \cup {None}]]
      /\ fn' \in [Threads -> Recs \cup {None}]
  BY <1>1 DEF CallReturns, MemoryInv, MemoryTypeOK
<1>9. FrameHolds(t)'
  BY <1>2 DEF FrameHolds, HoldsIr, InHeader, At, Idle
<1>10. \A u \in Threads : At(u, "fetch") => memo'[frame[u].ir][frame[u].name] # None
  BY <1>8 DEF MemoryInv, FrameHolds
<1>11. \A i \in Irs, n \in Names :
          memo'[i][n] # None => rec[memo'[i][n]] = [ir |-> i, name |-> n]
  BY <1>8 DEF MemoryInv, MemoIsOfTheName
<1>. QED  BY <1>2, <1>4, <1>6, <1>7, <1>8, <1>9, <1>10, <1>11, RecordStep

LEMMA DropFnStep ==
    ASSUME MemoryInv, NEW t \in Threads, DropFn(t)
    PROVE  MemoryInv'
<1>1. PICK q \in Recs : q = fn[t]
  BY DEF DropFn, MemoryInv, MemoryTypeOK
<1>2. /\ fn' \in [Threads -> Recs \cup {None}] /\ fn'[t] = None
      /\ \A u \in Threads \ {t} : fn'[u] = fn[u]
  BY DEF DropFn, MemoryInv, MemoryTypeOK
<1>3. /\ memo' = memo /\ frame' = frame /\ UNCHANGED header /\ DecRecord(q)
      /\ memo' \in [Irs -> [Names -> Recs \cup {None}]]
      /\ frame' \in [Threads -> Frames]
  BY <1>1 DEF DropFn, MemoryInv, MemoryTypeOK
<1>4. \A u \in Threads, i \in Irs : HoldsIr(u, i)' <=> HoldsIr(u, i)
  BY <1>3 DEF HoldsIr
<1>5. RecordHolders(q)' = RecordHolders(q) \ {<<"fn", t>>}
  <2>1. {u \in Threads : fn'[u] = q} = {u \in Threads : fn[u] = q} \ {t}
    BY <1>2, NoneAssumption
  <2>. QED  BY <1>3, <2>1 DEF RecordHolders, HoldsRecord
<1>6. ASSUME NEW r \in Recs \ {q}
      PROVE  RecordHolders(r)' = RecordHolders(r)
  <2>1. \A u \in Threads : fn'[u] = r <=> fn[u] = r
    BY <1>1, <1>2, NoneAssumption
  <2>. QED  BY <1>3, <2>1, SameRecordHolders DEF HoldsRecord
<1>7. /\ RecordHolders(q) # {}
      /\ Cardinality(RecordHolders(q)') = Cardinality(RecordHolders(q)) - 1
  BY <1>1, <1>5, Holders, RecordHoldersFinite, Loses
<1>8. \A u \in Threads : At(u, "fetch") => memo'[frame[u].ir][frame[u].name] # None
  BY <1>3 DEF MemoryInv, FrameHolds
<1>9. \A i \in Irs, n \in Names :
         memo'[i][n] # None => rec[memo'[i][n]] = [ir |-> i, name |-> n]
  BY <1>3 DEF MemoryInv, MemoIsOfTheName
<1>10. \A u \in Threads : fn'[u] \in {fn[u], None}
  BY <1>2
<1>. QED  BY <1>2, <1>3, <1>4, <1>6, <1>7, <1>8, <1>9, <1>10, RecordStep

LEMMA ReleaseEntryStep ==
    ASSUME MemoryInv, NEW i \in Irs, NEW n \in Names, ReleaseEntry(i, n)
    PROVE  MemoryInv'
<1>1. PICK q \in Recs : q = memo[i][n]
  BY DEF ReleaseEntry, MemoryInv, MemoryTypeOK
<1>2. /\ memo' \in [Irs -> [Names -> Recs \cup {None}]]
      /\ \A j \in Irs, m \in Names :
            memo'[j][m] = IF j = i /\ m = n THEN None ELSE memo[j][m]
  BY DEF ReleaseEntry, MemoryInv, MemoryTypeOK
<1>3. /\ fn' = fn /\ frame' = frame /\ UNCHANGED header /\ DecRecord(q)
      /\ fn' \in [Threads -> Recs \cup {None}]
      /\ frame' \in [Threads -> Frames]
  BY <1>1 DEF ReleaseEntry, MemoryInv, MemoryTypeOK
<1>4. \A u \in Threads, j \in Irs : HoldsIr(u, j)' <=> HoldsIr(u, j)
  BY <1>3 DEF HoldsIr
<1>5. RecordHolders(q)' = RecordHolders(q) \ {<<"memo", <<i, n>>>>}
  <2>1. {p \in Irs \X Names : memo'[p[1]][p[2]] = q}
           = {p \in Irs \X Names : memo[p[1]][p[2]] = q} \ {<<i, n>>}
    BY <1>2, NoneAssumption
  <2>. QED  BY <1>3, <2>1 DEF RecordHolders, HoldsRecord
<1>6. ASSUME NEW r \in Recs \ {q}
      PROVE  RecordHolders(r)' = RecordHolders(r)
  <2>1. \A j \in Irs, m \in Names : memo'[j][m] = r <=> memo[j][m] = r
    BY <1>1, <1>2, NoneAssumption
  <2>. QED  BY <1>3, <2>1, SameRecordHolders DEF HoldsRecord
<1>7. /\ RecordHolders(q) # {}
      /\ Cardinality(RecordHolders(q)') = Cardinality(RecordHolders(q)) - 1
  <2>1. <<"memo", <<i, n>>>> \in RecordHolders(q)
    BY <1>1, Holders
  <2>. QED  BY <1>5, <2>1, RecordHoldersFinite, Loses
<1>8. ASSUME NEW u \in Threads, At(u, "fetch")
      PROVE  memo'[frame[u].ir][frame[u].name] # None
  <2>1. frame[u].ir \in Irs /\ frame[u].name \in Names
    BY <1>8, FrameOf DEF At, MemoryInv
  <2>2. FrameHolds(u) /\ InHeader(u, frame[u].ir)
    BY <1>8 DEF MemoryInv, InHeader, At
  <2>3. frame[u].ir # i
    BY <2>1, <2>2 DEF FrameHolds, HasCapsule, ReleaseEntry
  <2>. QED  BY <1>2, <1>8, <2>1, <2>2, <2>3 DEF FrameHolds
<1>9. \A j \in Irs, m \in Names :
         memo'[j][m] # None => rec[memo'[j][m]] = [ir |-> j, name |-> m]
  BY <1>2 DEF MemoryInv, MemoIsOfTheName
<1>. QED  BY <1>2, <1>3, <1>4, <1>6, <1>7, <1>8, <1>9, RecordStep

(* The steps that make a reference, or pass one on, and give none back. *)
LEMMA CountStep ==
    ASSUME MemoryInv, UNCHANGED <<ir, capRefs, rec, header>>,
           \A t \in Threads, i \in Irs : HoldsIr(t, i)' <=> HoldsIr(t, i),
           recRefs' \in [Recs -> Nat],
           \A r \in Recs : recRefs'[r] = Cardinality(RecordHolders(r)'),
           \A r \in Recs : rec[r] = None => recRefs'[r] = 0,
           memo' \in [Irs -> [Names -> Recs \cup {None}]],
           fn' \in [Threads -> Recs \cup {None}],
           frame' \in [Threads -> Frames],
           \A i \in Irs, n \in Names :
               memo'[i][n] # None => rec[memo'[i][n]] = [ir |-> i, name |-> n],
           \A t \in Threads :
               \/ /\ frame'[t] = frame[t] /\ fn'[t] = fn[t]
                  /\ At(t, "fetch") => memo'[frame[t].ir][frame[t].name] # None
               \/ FrameHolds(t)'
    PROVE  MemoryInv'
<1>1. MemoryTypeOK'
  BY DEF MemoryInv, MemoryTypeOK
<1>2. ASSUME NEW t \in Threads
      PROVE  FrameHolds(t)'
  <2>1. CASE /\ frame'[t] = frame[t] /\ fn'[t] = fn[t]
             /\ At(t, "fetch") => memo'[frame[t].ir][frame[t].name] # None
    <3>1. FrameHolds(t) /\ MemoryTypeOK
      BY DEF MemoryInv
    <3>2. \A i \in Irs : InHeader(t, i) => HasCapsule(i)'
      BY <3>1 DEF FrameHolds, HasCapsule
    <3>. QED  BY <2>1, <3>1, <3>2, FrameKept
  <2>. QED  BY <2>1
<1>3. OneFrame' /\ UnusedIsFree' /\ IrLivesWithCapsule' /\ MemoIsOfTheName'
  BY DEF MemoryInv, OneFrame, UnusedIsFree, IrLivesWithCapsule, MemoIsOfTheName
<1>4. CountsExact'
  <2>1. ASSUME NEW i \in Irs
        PROVE  CapsuleHolders(i)' = CapsuleHolders(i)
    BY SameCapsuleHolders DEF HasCapsule, RecordOf
  <2>. QED  BY <2>1 DEF MemoryInv, CountsExact
<1>. QED  BY <1>1, <1>2, <1>3, <1>4 DEF MemoryInv

LEMMA CallStep ==
    ASSUME MemoryInv, NEW t \in Threads, Call(t)
    PROVE  MemoryInv'
<1>1. PICK q \in Recs : q = fn[t]
  BY DEF Call, MemoryInv, MemoryTypeOK
<1>2. <<"fn", t>> \in RecordHolders(q)
  BY <1>1, Holders
<1>3. rec[q] \in [ir : Irs, name : Names] /\ recRefs[q] \in Nat \ {0}
  BY <1>2, HeldRecord
<1>. DEFINE f == [pc |-> "call", rec |-> q, fnrec |-> rec[q]]
<1>4. /\ frame' \in [Threads -> Frames] /\ frame'[t] = f
      /\ \A u \in Threads \ {t} : frame'[u] = frame[u]
  BY <1>1, <1>3, EveryFrame, Stepping DEF Call, MemoryInv
<1>5. UNCHANGED <<ir, capRefs, rec, header, memo, fn>> /\ frame[t].pc = "idle"
  BY DEF Call, At
<1>6. \A u \in Threads, i \in Irs : HoldsIr(u, i)' <=> HoldsIr(u, i)
  BY <1>4, <1>5 DEF HoldsIr
<1>7. RecordHolders(q)' = RecordHolders(q) \cup {<<"frame", t>>}
  <2>1. {u \in Threads : HoldsRecord(u, q)'} = {u \in Threads : HoldsRecord(u, q)} \cup {t}
    BY <1>4, <1>5 DEF HoldsRecord
  <2>. QED  BY <1>5, <2>1 DEF RecordHolders
<1>8. <<"frame", t>> \notin RecordHolders(q)
  BY <1>5 DEF RecordHolders, HoldsRecord
<1>9. Cardinality(RecordHolders(q)') = Cardinality(RecordHolders(q)) + 1
  BY <1>7, <1>8, RecordHoldersFinite, Gains
<1>10. ASSUME NEW r \in Recs \ {q}
       PROVE  RecordHolders(r)' = RecordHolders(r)
  <2>1. \A u \in Threads : HoldsRecord(u, r)' <=> HoldsRecord(u, r)
    BY <1>4, <1>5 DEF HoldsRecord
  <2>. QED  BY <1>5, <2>1, SameRecordHolders
<1>11. /\ recRefs' \in [Recs -> Nat]
       /\ recRefs'[q] = recRefs[q] + 1
       /\ \A r \in Recs \ {q} : recRefs'[r] = recRefs[r]
  BY <1>1, <1>3 DEF Call, MemoryInv, MemoryTypeOK
<1>12. \A r \in Recs : recRefs'[r] = Cardinality(RecordHolders(r)')
  BY <1>9, <1>10, <1>11 DEF MemoryInv, CountsExact
<1>13. \A r \in Recs : rec[r] = None => recRefs'[r] = 0
  BY <1>3, <1>11, NoneAssumption DEF MemoryInv, UnusedIsFree
<1>14. FrameHolds(t)'
  BY <1>4, <1>5 DEF FrameHolds, HoldsIr, InHeader, At
<1>15. /\ memo' \in [Irs -> [Names -> Recs \cup {None}]]
       /\ fn' \in [Threads -> Recs \cup {None}]
       /\ \A i \in Irs, n \in Names :
             memo'[i][n] # None => rec[memo'[i][n]] = [ir |-> i, name |-> n]
       /\ \A u \in Threads :
             fn'[u] = fn[u] /\ (At(u, "fetch") => memo'[frame[u].ir][frame[u].name] # None)
  BY <1>5 DEF MemoryInv, MemoryTypeOK, MemoIsOfTheName, FrameHolds
<1>. QED  BY <1>4, <1>5, <1>6, <1>11, <1>12, <1>13, <1>14, <1>15, CountStep

LEMMA FetchStep ==
    ASSUME MemoryInv, NEW t \in Threads, Fetch(t)
    PROVE  MemoryInv'
<1>. DEFINE i == frame[t].ir
            n == frame[t].name
<1>1. i \in Irs /\ n \in Names /\ FrameHolds(t)
  BY FrameOf DEF Fetch, At, MemoryInv
<1>2. memo[i][n] # None /\ fn[t] = None
  BY <1>1 DEF FrameHolds, InHeader, Fetch, At
<1>3. PICK q \in Recs : q = memo[i][n]
  BY <1>1, <1>2 DEF MemoryInv, MemoryTypeOK
<1>4. rec[q] \in [ir : Irs, name : Names] /\ recRefs[q] \in Nat \ {0}
  <2>1. <<"memo", <<i, n>>>> \in RecordHolders(q)
    BY <1>1, <1>3, Holders
  <2>. QED  BY <2>1, HeldRecord
<1>5. /\ frame' \in [Threads -> Frames] /\ frame'[t] = Idle
      /\ \A u \in Threads \ {t} : frame'[u] = frame[u]
  BY EveryFrame, Stepping DEF Fetch, MemoryInv
<1>6. UNCHANGED <<ir, capRefs, rec, header, memo>> /\ frame[t].pc = "fetch"
  BY DEF Fetch, At
<1>7. /\ fn' \in [Threads -> Recs \cup {None}] /\ fn'[t] = q
      /\ \A u \in Threads \ {t} : fn'[u] = fn[u]
  BY <1>3 DEF Fetch, MemoryInv, MemoryTypeOK
<1>8. \A u \in Threads, j \in Irs : HoldsIr(u, j)' <=> HoldsIr(u, j)
  BY <1>5, <1>6 DEF HoldsIr, Idle
<1>9. \A u \in Threads, r \in Recs : HoldsRecord(u, r)' <=> HoldsRecord(u, r)
  BY <1>5, <1>6 DEF HoldsRecord, Idle
<1>10. RecordHolders(q)' = RecordHolders(q) \cup {<<"fn", t>>}
  <2>1. {u \in Threads : fn'[u] = q} = {u \in Threads : fn[u] = q} \cup {t}
    BY <1>7
  <2>2. {u \in Threads : HoldsRecord(u, q)'} = {u \in Threads : HoldsRecord(u, q)}
    BY <1>9
  <2>. QED  BY <1>6, <2>1, <2>2 DEF RecordHolders
<1>11. <<"fn", t>> \notin RecordHolders(q)
  BY <1>2, NoneAssumption DEF RecordHolders
<1>12. Cardinality(RecordHolders(q)') = Cardinality(RecordHolders(q)) + 1
  BY <1>10, <1>11, RecordHoldersFinite, Gains
<1>13. ASSUME NEW r \in Recs \ {q}
       PROVE  RecordHolders(r)' = RecordHolders(r)
  <2>1. \A u \in Threads : fn'[u] = r <=> fn[u] = r
    BY <1>2, <1>7, NoneAssumption
  <2>. QED  BY <1>6, <1>9, <2>1, SameRecordHolders
<1>14. /\ recRefs' \in [Recs -> Nat]
       /\ recRefs'[q] = recRefs[q] + 1
       /\ \A r \in Recs \ {q} : recRefs'[r] = recRefs[r]
  BY <1>3, <1>4 DEF Fetch, MemoryInv, MemoryTypeOK
<1>15. \A r \in Recs : recRefs'[r] = Cardinality(RecordHolders(r)')
  BY <1>12, <1>13, <1>14 DEF MemoryInv, CountsExact
<1>16. \A r \in Recs : rec[r] = None => recRefs'[r] = 0
  BY <1>4, <1>14, NoneAssumption DEF MemoryInv, UnusedIsFree
<1>17. FrameHolds(t)'
  BY <1>5 DEF FrameHolds, HoldsIr, InHeader, At, Idle
<1>18. /\ memo' \in [Irs -> [Names -> Recs \cup {None}]]
       /\ \A j \in Irs, m \in Names :
             memo'[j][m] # None => rec[memo'[j][m]] = [ir |-> j, name |-> m]
       /\ \A u \in Threads : At(u, "fetch") => memo'[frame[u].ir][frame[u].name] # None
  BY <1>6 DEF MemoryInv, MemoryTypeOK, MemoIsOfTheName, FrameHolds
<1>19. UNCHANGED <<ir, capRefs, rec, header>>
  BY <1>6
<1>. QED  BY <1>5, <1>7, <1>8, <1>14, <1>15, <1>16, <1>17, <1>18, <1>19, CountStep

(* The memo takes the reference of the frame, and gives back the one it    *)
(* had for the name, which may be of the same record.                      *)
Storing(t, i, n, r) ==
    /\ memo' \in [Irs -> [Names -> Recs \cup {None}]]
    /\ \A j \in Irs, m \in Names : memo'[j][m] = IF j = i /\ m = n THEN r ELSE memo[j][m]
    /\ frame' \in [Threads -> Frames]
    /\ frame'[t] = [pc |-> "fetch", ir |-> i, name |-> n]
    /\ \A u \in Threads \ {t} : frame'[u] = frame[u]
    /\ \A u \in Threads, j \in Irs : HoldsIr(u, j)' <=> HoldsIr(u, j)
    /\ HoldsRecord(t, r)
    /\ \A p \in Recs : ~HoldsRecord(t, p)'
    /\ UNCHANGED <<fn, header>>

LEMMA StoreIs ==
    ASSUME MemoryInv, NEW t \in Threads, Store(t),
           NEW i \in Irs, i = frame[t].ir, NEW n \in Names, n = frame[t].name,
           NEW r \in Recs, r = frame[t].rec
    PROVE  Storing(t, i, n, r)
<1>1. /\ memo' \in [Irs -> [Names -> Recs \cup {None}]]
      /\ \A j \in Irs, m \in Names : memo'[j][m] = IF j = i /\ m = n THEN r ELSE memo[j][m]
  BY DEF Store, MemoryInv, MemoryTypeOK
<1>2. /\ frame' \in [Threads -> Frames]
      /\ frame'[t] = [pc |-> "fetch", ir |-> i, name |-> n]
      /\ \A u \in Threads \ {t} : frame'[u] = frame[u]
  BY EveryFrame, Stepping DEF Store, MemoryInv
<1>3. \A u \in Threads, j \in Irs : HoldsIr(u, j)' <=> HoldsIr(u, j)
  BY <1>2 DEF HoldsIr, Store, At
<1>4. HoldsRecord(t, r) /\ \A p \in Recs : ~HoldsRecord(t, p)'
  BY <1>2 DEF HoldsRecord, Store, At
<1>. QED  BY <1>1, <1>2, <1>3, <1>4 DEF Storing, Store

LEMMA StoreTakes ==
    ASSUME NEW t \in Threads, NEW i \in Irs, NEW n \in Names, NEW r \in Recs,
           Storing(t, i, n, r)
    PROVE  /\ <<"frame", t>> \in RecordHolders(r)
           /\ RecordHolders(r)' = (RecordHolders(r) \ {<<"frame", t>>}) \cup {<<"memo", <<i, n>>>>}
<1>1. {u \in Threads : HoldsRecord(u, r)'} = {u \in Threads : HoldsRecord(u, r)} \ {t}
  BY DEF HoldsRecord, Storing
<1>2. {p \in Irs \X Names : memo'[p[1]][p[2]] = r}
         = {p \in Irs \X Names : memo[p[1]][p[2]] = r} \cup {<<i, n>>}
  BY DEF Storing
<1>3. fn' = fn /\ HoldsRecord(t, r)
  BY DEF Storing
<1>. QED  BY <1>1, <1>2, <1>3 DEF RecordHolders

LEMMA StoreGives ==
    ASSUME NEW t \in Threads, NEW i \in Irs, NEW n \in Names, NEW r \in Recs,
           Storing(t, i, n, r), NEW p \in Recs \ {r}
    PROVE  RecordHolders(p)' = RecordHolders(p) \ {<<"memo", <<i, n>>>>}
<1>0. ~HoldsRecord(t, p)
  BY DEF HoldsRecord, Storing
<1>1. {u \in Threads : HoldsRecord(u, p)'} = {u \in Threads : HoldsRecord(u, p)}
  BY <1>0 DEF HoldsRecord, Storing
<1>2. {q \in Irs \X Names : memo'[q[1]][q[2]] = p}
         = {q \in Irs \X Names : memo[q[1]][q[2]] = p} \ {<<i, n>>}
  BY DEF Storing
<1>3. fn' = fn
  BY DEF Storing
<1>. QED  BY <1>1, <1>2, <1>3 DEF RecordHolders

LEMMA StoreStep ==
    ASSUME MemoryInv, NEW t \in Threads, Store(t)
    PROVE  MemoryInv'
<1>1. SUFFICES ASSUME NEW i \in Irs, i = frame[t].ir, NEW n \in Names, n = frame[t].name,
                      NEW r \in Recs, r = frame[t].rec
               PROVE  MemoryInv'
  BY FrameOf DEF Store, At, MemoryInv
<1>2. Storing(t, i, n, r)
  BY <1>1, StoreIs
<1>. DEFINE x == <<"frame", t>>
            y == <<"memo", <<i, n>>>>
<1>3. x \in RecordHolders(r) /\ RecordHolders(r)' = (RecordHolders(r) \ {x}) \cup {y}
  BY <1>2, StoreTakes
<1>4. ASSUME NEW p \in Recs \ {r}
       PROVE  RecordHolders(p)' = RecordHolders(p) \ {y}
  BY <1>2, StoreGives
<1>5. ASSUME NEW p \in Recs
      PROVE  y \in RecordHolders(p) <=> memo[i][n] = p
  <2>1. <<i, n>> \in {q \in Irs \X Names : memo[q[1]][q[2]] = p} <=> memo[i][n] = p
    OBVIOUS
  <2>. QED  BY <2>1 DEF RecordHolders
<1>6. x # y
  OBVIOUS
<1>. HIDE DEF x, y
<1>7. ASSUME NEW p \in Recs \ {r}, memo[i][n] # p
      PROVE  RecordHolders(p)' = RecordHolders(p)
  <2>1. RecordHolders(p)' = RecordHolders(p) \ {y}
    BY <1>4
  <2>2. y \notin RecordHolders(p)
    BY <1>5, <1>7
  <2>. QED  BY <2>1, <2>2
<1>8. memo[i][n] # r => Cardinality(RecordHolders(r)') = Cardinality(RecordHolders(r))
  BY <1>5, <1>3, RecordHoldersFinite, Swaps
<1>9. FrameHolds(t) /\ InHeader(t, i) /\ fn[t] = None /\ HasCapsule(i)
  BY <1>1 DEF MemoryInv, FrameHolds, InHeader, Store, At
<1>10. rec[r] = [ir |-> i, name |-> n]
  BY <1>1, <1>9 DEF FrameHolds, Store, At
<1>11. fn' = fn /\ header' = header /\ fn' \in [Threads -> Recs \cup {None}]
  BY DEF Store, MemoryInv, MemoryTypeOK
<1>12. \A j \in Irs, m \in Names :
          memo'[j][m] # None => rec[memo'[j][m]] = [ir |-> j, name |-> m]
  BY <1>2, <1>10 DEF Storing, MemoryInv, MemoIsOfTheName
<1>13. FrameHolds(t)'
  <2>1. \A j \in Irs : ~HoldsIr(t, j)'
    BY <1>2 DEF Storing, HoldsIr
  <2>2. \A j \in Irs : InHeader(t, j)' => HasCapsule(j)' /\ fn'[t] = None
    BY <1>2, <1>9, <1>11 DEF Storing, InHeader, HasCapsule
  <2>3. memo'[i][n] # None
    BY <1>2, NoneAssumption DEF Storing
  <2>. QED  BY <1>2, <2>1, <2>2, <2>3 DEF Storing, FrameHolds, At
<1>14. ASSUME NEW u \in Threads, At(u, "fetch")
       PROVE  memo'[frame[u].ir][frame[u].name] # None
  <2>1. frame[u].ir \in Irs /\ frame[u].name \in Names
    BY <1>14, FrameOf DEF At, MemoryInv
  <2>2. memo[frame[u].ir][frame[u].name] # None
    BY <1>14 DEF FrameHolds, MemoryInv
  <2>. QED  BY <1>2, <2>1, <2>2, NoneAssumption DEF Storing
<1>15. CASE memo[i][n] = None
  <2>1. UNCHANGED <<ir, capRefs, rec, recRefs, header>>
    BY <1>1, <1>11, <1>15 DEF Store
  <2>2. \A p \in Recs : memo[i][n] # p
    BY <1>15, NoneAssumption
  <2>3. ASSUME NEW p \in Recs
        PROVE  recRefs'[p] = Cardinality(RecordHolders(p)')
    BY <1>7, <1>8, <2>1, <2>2 DEF MemoryInv, CountsExact
  <2>4. recRefs' \in [Recs -> Nat] /\ \A p \in Recs : rec[p] = None => recRefs'[p] = 0
    BY <2>1 DEF MemoryInv, MemoryTypeOK, UnusedIsFree
  <2>5. UNCHANGED <<ir, capRefs, rec, header>>
    BY <2>1
  <2>. QED  BY <1>2, <1>11, <1>12, <1>13, <1>14, <2>3, <2>4, <2>5, CountStep DEF Storing
<1>16. CASE memo[i][n] # None
  <2>1. PICK q \in Recs : q = memo[i][n]
    BY <1>16 DEF MemoryInv, MemoryTypeOK
  <2>2. DecRecord(q)
    BY <1>1, <1>16, <2>1 DEF Store
  <2>3. y \in RecordHolders(q)
    BY <1>5, <2>1
  <2>4. Cardinality(RecordHolders(q)') = Cardinality(RecordHolders(q)) - 1
    <3>1. CASE q = r
      <4>1. RecordHolders(r)' = RecordHolders(r) \ {x}
        BY <1>6, <1>3, <2>3, <3>1
      <4>. QED  BY <1>3, <3>1, <4>1, RecordHoldersFinite, Loses
    <3>2. CASE q # r
      <4>1. RecordHolders(q)' = RecordHolders(q) \ {y}
        BY <1>4, <3>2
      <4>. QED  BY <2>3, <4>1, RecordHoldersFinite, Loses
    <3>. QED  BY <3>1, <3>2
  <2>5. ASSUME NEW p \in Recs \ {q}
        PROVE  Cardinality(RecordHolders(p)') = Cardinality(RecordHolders(p))
    BY <1>7, <1>8, <2>1
  <2>6. RecordHolders(q) # {}
    BY <2>3
  <2>7. \A u \in Threads : fn'[u] \in {fn[u], None}
    BY <1>11
  <2>. QED  BY <1>2, <1>11, <1>12, <1>13, <1>14, <2>2, <2>4, <2>5, <2>6, <2>7, RecordStep DEF Storing
<1>. QED  BY <1>15, <1>16

-----------------------------------------------------------------------------
(* The steps that leave the records alone. *)
LEMMA CapsuleStep ==
    ASSUME MemoryInv, UNCHANGED <<rec, recRefs, memo, fn>>,
           ir' \in [Irs -> {"none", "live", "freed", "lost"}],
           capRefs' \in [Irs -> Nat],
           header' \in [Irs -> {"none", "held", "unheld", "dead"}],
           frame' \in [Threads -> Frames],
           \A i \in Irs : capRefs'[i] = Cardinality(CapsuleHolders(i)'),
           IrLivesWithCapsule',
           \A i \in Irs : ir'[i] = "none" => header'[i] = "none",
           \A t \in Threads, r \in Recs : HoldsRecord(t, r)' <=> HoldsRecord(t, r),
           OneFrame',
           \A t \in Threads : FrameHolds(t)'
    PROVE  MemoryInv'
<1>1. MemoryTypeOK'
  BY DEF MemoryInv, MemoryTypeOK
<1>2. UnusedIsFree' /\ MemoIsOfTheName'
  BY DEF MemoryInv, UnusedIsFree, MemoIsOfTheName
<1>3. CountsExact'
  <2>1. ASSUME NEW r \in Recs
        PROVE  RecordHolders(r)' = RecordHolders(r)
    BY SameRecordHolders
  <2>. QED  BY <2>1 DEF MemoryInv, CountsExact
<1>. QED  BY <1>1, <1>2, <1>3 DEF MemoryInv

LEMMA DropHeaderStep ==
    ASSUME MemoryInv, NEW i \in Irs, DropHeader(i)
    PROVE  MemoryInv'
<1>1. /\ UNCHANGED <<ir, capRefs, rec, recRefs, memo, fn, frame>>
      /\ header[i] = "held" /\ header' = [header EXCEPT ![i] = "unheld"]
  BY DEF DropHeader
<1>2. /\ header' \in [Irs -> {"none", "held", "unheld", "dead"}]
      /\ header'[i] = "unheld"
      /\ \A j \in Irs \ {i} : header'[j] = header[j]
  BY <1>1 DEF MemoryInv, MemoryTypeOK
<1>3. \A j \in Irs : HasCapsule(j)' <=> HasCapsule(j)
  BY <1>1, <1>2 DEF HasCapsule
<1>4. \A t \in Threads, j \in Irs : HoldsIr(t, j)' <=> HoldsIr(t, j)
  BY <1>1 DEF HoldsIr
<1>5. \A t \in Threads, r \in Recs : HoldsRecord(t, r)' <=> HoldsRecord(t, r)
  BY <1>1 DEF HoldsRecord
<1>6. ASSUME NEW j \in Irs
      PROVE  capRefs'[j] = Cardinality(CapsuleHolders(j)')
  <2>1. CapsuleHolders(j)' = CapsuleHolders(j)
    BY <1>1, <1>3, <1>4, SameCapsuleHolders DEF RecordOf
  <2>. QED  BY <1>1, <2>1 DEF MemoryInv, CountsExact
<1>7. IrLivesWithCapsule' /\ OneFrame'
  BY <1>1, <1>4 DEF MemoryInv, IrLivesWithCapsule, OneFrame
<1>8. \A j \in Irs : ir'[j] = "none" => header'[j] = "none"
  BY <1>1, <1>2 DEF MemoryInv, UnusedIsFree
<1>9. ASSUME NEW t \in Threads
      PROVE  FrameHolds(t)'
  <2>1. FrameHolds(t) /\ MemoryTypeOK
    BY DEF MemoryInv
  <2>2. \A j \in Irs : HoldsIr(t, j) => header'[j] = header[j]
    BY <1>1, <1>2, <2>1 DEF FrameHolds
  <2>3. \A j \in Irs : InHeader(t, j) => HasCapsule(j)'
    BY <1>3, <2>1 DEF FrameHolds
  <2>4. At(t, "fetch") => memo'[frame[t].ir][frame[t].name] # None
    BY <1>1, <2>1 DEF FrameHolds
  <2>. QED  BY <1>1, <2>1, <2>2, <2>3, <2>4, FrameKept
<1>10. /\ ir' \in [Irs -> {"none", "live", "freed", "lost"}]
       /\ capRefs' \in [Irs -> Nat] /\ frame' \in [Threads -> Frames]
       /\ UNCHANGED <<rec, recRefs, memo, fn>>
  BY <1>1 DEF MemoryInv, MemoryTypeOK
<1>. QED  BY <1>2, <1>5, <1>6, <1>7, <1>8, <1>9, <1>10, CapsuleStep

LEMMA ReleaseCapsuleStep ==
    ASSUME MemoryInv, NEW i \in Irs, ReleaseCapsule(i)
    PROVE  MemoryInv'
<1>1. /\ UNCHANGED <<rec, recRefs, memo, fn, frame>>
      /\ header[i] = "unheld" /\ header' = [header EXCEPT ![i] = "dead"]
      /\ DecCapsule(i, capRefs[i])
      /\ \A t \in Threads : ~InHeader(t, i)
  BY DEF ReleaseCapsule, Unreachable
<1>2. /\ header' \in [Irs -> {"none", "held", "unheld", "dead"}]
      /\ header'[i] = "dead"
      /\ \A j \in Irs \ {i} : header'[j] = header[j]
  BY <1>1 DEF MemoryInv, MemoryTypeOK
<1>3. /\ HasCapsule(i) /\ ~HasCapsule(i)'
      /\ \A j \in Irs \ {i} : HasCapsule(j)' <=> HasCapsule(j)
  BY <1>1, <1>2 DEF HasCapsule
<1>4. \A t \in Threads, j \in Irs : HoldsIr(t, j)' <=> HoldsIr(t, j)
  BY <1>1 DEF HoldsIr
<1>5. \A t \in Threads, r \in Recs : HoldsRecord(t, r)' <=> HoldsRecord(t, r)
  BY <1>1 DEF HoldsRecord
<1>6. CapsuleHolders(i)' = CapsuleHolders(i) \ {<<"header", i>>}
  <2>1. {k \in {i} : HasCapsule(k)'} = {} /\ {k \in {i} : HasCapsule(k)} = {i}
    BY <1>3
  <2>2. {t \in Threads : HoldsIr(t, i)'} = {t \in Threads : HoldsIr(t, i)}
    BY <1>4
  <2>. QED  BY <1>1, <2>1, <2>2 DEF CapsuleHolders
<1>7. ASSUME NEW j \in Irs \ {i}
      PROVE  CapsuleHolders(j)' = CapsuleHolders(j)
  BY <1>1, <1>3, <1>4, SameCapsuleHolders DEF RecordOf
<1>8. <<"header", i>> \in CapsuleHolders(i)
  BY <1>3, Holders
<1>9. /\ ir' \in [Irs -> {"none", "live", "freed", "lost"}]
      /\ capRefs' \in [Irs -> Nat]
      /\ \A j \in Irs : capRefs'[j] = Cardinality(CapsuleHolders(j)')
      /\ IrLivesWithCapsule'
      /\ \A j \in Irs : ir'[j] = "none" => ir[j] = "none"
  BY <1>1, <1>6, <1>7, <1>8, CapsuleLetGo
<1>10. \A j \in Irs : ir'[j] = "none" => header'[j] = "none"
  BY <1>1, <1>2, <1>9 DEF MemoryInv, UnusedIsFree
<1>11. OneFrame'
  BY <1>4 DEF MemoryInv, OneFrame
<1>12. ASSUME NEW t \in Threads
       PROVE  FrameHolds(t)'
  <2>1. FrameHolds(t) /\ MemoryTypeOK
    BY DEF MemoryInv
  <2>2. \A j \in Irs : HoldsIr(t, j) => header'[j] = header[j]
    BY <1>1, <1>2, <2>1 DEF FrameHolds
  <2>3. \A j \in Irs : InHeader(t, j) => HasCapsule(j)'
    BY <1>1, <1>3, <2>1 DEF FrameHolds
  <2>4. At(t, "fetch") => memo'[frame[t].ir][frame[t].name] # None
    BY <1>1, <2>1 DEF FrameHolds
  <2>. QED  BY <1>1, <2>1, <2>2, <2>3, <2>4, FrameKept
<1>13. frame' \in [Threads -> Frames] /\ UNCHANGED <<rec, recRefs, memo, fn>>
  BY <1>1 DEF MemoryInv, MemoryTypeOK
<1>. QED  BY <1>2, <1>5, <1>9, <1>10, <1>11, <1>12, <1>13, CapsuleStep

LEMMA LetGoStep ==
    ASSUME MemoryInv, NEW t \in Threads, LetGo(t)
    PROVE  MemoryInv'
<1>1. SUFFICES ASSUME NEW i \in Irs, i = frame[t].ir
               PROVE  MemoryInv'
  BY FrameOf DEF LetGo, MemoryInv
<1>2. /\ UNCHANGED <<rec, recRefs, memo, fn, header>>
      /\ DecCapsule(i, capRefs[i]) /\ frame[t].pc \in {"emit", "proxy"}
  BY <1>1 DEF LetGo, At
<1>3. /\ frame' \in [Threads -> Frames] /\ frame'[t] = Idle
      /\ \A u \in Threads \ {t} : frame'[u] = frame[u]
  BY EveryFrame, Stepping DEF LetGo, MemoryInv
<1>4. HoldsIr(t, i) /\ \A j \in Irs : ~HoldsIr(t, j)'
  BY <1>1, <1>2, <1>3 DEF HoldsIr, Idle
<1>5. \A u \in Threads, r \in Recs : HoldsRecord(u, r)' <=> HoldsRecord(u, r)
  BY <1>2, <1>3 DEF HoldsRecord, Idle
<1>6. \A j \in Irs : HasCapsule(j)' <=> HasCapsule(j)
  BY <1>2 DEF HasCapsule
<1>7. CapsuleHolders(i)' = CapsuleHolders(i) \ {<<"frame", t>>}
  <2>1. {u \in Threads : HoldsIr(u, i)'} = {u \in Threads : HoldsIr(u, i)} \ {t}
    BY <1>3, <1>4 DEF HoldsIr
  <2>2. {k \in {i} : HasCapsule(k)'} = {k \in {i} : HasCapsule(k)}
    BY <1>6
  <2>. QED  BY <1>2, <2>1, <2>2 DEF CapsuleHolders
<1>8. ASSUME NEW j \in Irs \ {i}
      PROVE  CapsuleHolders(j)' = CapsuleHolders(j)
  <2>1. \A u \in Threads : HoldsIr(u, j)' <=> HoldsIr(u, j)
    BY <1>1, <1>3, <1>4 DEF HoldsIr
  <2>. QED  BY <1>2, <1>6, <2>1, SameCapsuleHolders DEF RecordOf
<1>9. <<"frame", t>> \in CapsuleHolders(i)
  BY <1>4, Holders
<1>10. /\ ir' \in [Irs -> {"none", "live", "freed", "lost"}]
       /\ capRefs' \in [Irs -> Nat]
       /\ \A j \in Irs : capRefs'[j] = Cardinality(CapsuleHolders(j)')
       /\ IrLivesWithCapsule'
       /\ \A j \in Irs : ir'[j] = "none" => ir[j] = "none"
  BY <1>2, <1>7, <1>8, <1>9, CapsuleLetGo
<1>11. \A j \in Irs : ir'[j] = "none" => header'[j] = "none"
  BY <1>2, <1>10 DEF MemoryInv, UnusedIsFree
<1>12. OneFrame'
  <2>1. \A u \in Threads, j \in Irs : HoldsIr(u, j)' => HoldsIr(u, j)
    BY <1>3, <1>4 DEF HoldsIr
  <2>. QED  BY <2>1 DEF MemoryInv, OneFrame
<1>13. ASSUME NEW u \in Threads
       PROVE  FrameHolds(u)'
  <2>1. CASE u = t
    BY <1>3, <2>1 DEF FrameHolds, HoldsIr, InHeader, At, Idle
  <2>2. CASE u # t
    <3>1. FrameHolds(u) /\ MemoryTypeOK /\ frame'[u] = frame[u]
      BY <1>3, <2>2 DEF MemoryInv
    <3>2. \A j \in Irs : InHeader(u, j) => HasCapsule(j)'
      BY <1>6, <3>1 DEF FrameHolds
    <3>3. At(u, "fetch") => memo'[frame[u].ir][frame[u].name] # None
      BY <1>2, <3>1 DEF FrameHolds
    <3>. QED  BY <1>2, <3>1, <3>2, <3>3, FrameKept
  <2>. QED  BY <2>1, <2>2
<1>14. header' \in [Irs -> {"none", "held", "unheld", "dead"}] /\ UNCHANGED <<rec, recRefs, memo, fn>>
  BY <1>2 DEF MemoryInv, MemoryTypeOK
<1>. QED  BY <1>3, <1>5, <1>10, <1>11, <1>12, <1>13, <1>14, CapsuleStep

(* The HeaderProxy takes the reference of the frame. *)
LEMMA ReturnStep ==
    ASSUME MemoryInv, NEW t \in Threads, Return(t)
    PROVE  MemoryInv'
<1>1. SUFFICES ASSUME NEW i \in Irs, i = frame[t].ir
               PROVE  MemoryInv'
  BY FrameOf DEF Return, MemoryInv
<1>2. /\ UNCHANGED <<ir, capRefs, rec, recRefs, memo, fn>> /\ frame[t].pc = "proxy"
      /\ header' = [header EXCEPT ![i] = "held"]
  BY <1>1 DEF Return, At
<1>3. /\ frame' \in [Threads -> Frames] /\ frame'[t] = Idle
      /\ \A u \in Threads \ {t} : frame'[u] = frame[u]
  BY EveryFrame, Stepping DEF Return, MemoryInv
<1>4. HoldsIr(t, i) /\ \A j \in Irs : ~HoldsIr(t, j)'
  BY <1>1, <1>2, <1>3 DEF HoldsIr, Idle
<1>5. header[i] = "none"
  BY <1>4 DEF MemoryInv, FrameHolds
<1>6. /\ header' \in [Irs -> {"none", "held", "unheld", "dead"}]
      /\ header'[i] = "held"
      /\ \A j \in Irs \ {i} : header'[j] = header[j]
  BY <1>2 DEF MemoryInv, MemoryTypeOK
<1>7. /\ HasCapsule(i)' /\ ~HasCapsule(i)
      /\ \A j \in Irs \ {i} : HasCapsule(j)' <=> HasCapsule(j)
  BY <1>5, <1>6 DEF HasCapsule
<1>8. \A u \in Threads, r \in Recs : HoldsRecord(u, r)' <=> HoldsRecord(u, r)
  BY <1>2, <1>3 DEF HoldsRecord, Idle
<1>9. Cardinality(CapsuleHolders(i)') = Cardinality(CapsuleHolders(i))
  <2>1. {u \in Threads : HoldsIr(u, i)'} = {u \in Threads : HoldsIr(u, i)} \ {t}
    BY <1>3, <1>4 DEF HoldsIr
  <2>2. {k \in {i} : HasCapsule(k)'} = {i} /\ {k \in {i} : HasCapsule(k)} = {}
    BY <1>7
  <2>3. CapsuleHolders(i)' = (CapsuleHolders(i) \ {<<"frame", t>>}) \cup {<<"header", i>>}
    BY <1>2, <2>1, <2>2 DEF CapsuleHolders
  <2>4. <<"header", i>> \notin CapsuleHolders(i) /\ <<"frame", t>> \in CapsuleHolders(i)
    BY <1>4, <2>2 DEF CapsuleHolders
  <2>. QED  BY <2>3, <2>4, CapsuleHoldersFinite, Swaps
<1>10. ASSUME NEW j \in Irs \ {i}
       PROVE  CapsuleHolders(j)' = CapsuleHolders(j)
  <2>1. \A u \in Threads : HoldsIr(u, j)' <=> HoldsIr(u, j)
    BY <1>1, <1>3, <1>4 DEF HoldsIr
  <2>. QED  BY <1>2, <1>7, <2>1, SameCapsuleHolders DEF RecordOf
<1>11. ASSUME NEW j \in Irs
       PROVE  capRefs'[j] = Cardinality(CapsuleHolders(j)')
  BY <1>2, <1>9, <1>10 DEF MemoryInv, CountsExact
<1>12. ir[i] = "live"
  BY <1>4, Holders, HeldIr
<1>13. \A j \in Irs : ir'[j] = "none" => header'[j] = "none"
  BY <1>2, <1>6, <1>12 DEF MemoryInv, UnusedIsFree
<1>14. OneFrame'
  <2>1. \A u \in Threads, j \in Irs : HoldsIr(u, j)' => HoldsIr(u, j)
    BY <1>3, <1>4 DEF HoldsIr
  <2>. QED  BY <2>1 DEF MemoryInv, OneFrame
<1>15. ASSUME NEW u \in Threads
       PROVE  FrameHolds(u)'
  <2>1. CASE u = t
    BY <1>3, <2>1 DEF FrameHolds, HoldsIr, InHeader, At, Idle
  <2>2. CASE u # t
    <3>1. FrameHolds(u) /\ MemoryTypeOK /\ frame'[u] = frame[u]
      BY <1>3, <2>2 DEF MemoryInv
    <3>2. \A j \in Irs : HoldsIr(u, j) => header'[j] = header[j]
      BY <1>4, <1>6, <2>2 DEF MemoryInv, OneFrame
    <3>3. \A j \in Irs : InHeader(u, j) => HasCapsule(j)'
      BY <1>7, <3>1 DEF FrameHolds
    <3>4. At(u, "fetch") => memo'[frame[u].ir][frame[u].name] # None
      BY <1>2, <3>1 DEF FrameHolds
    <3>. QED  BY <1>2, <3>1, <3>2, <3>3, <3>4, FrameKept
  <2>. QED  BY <2>1, <2>2
<1>16. /\ ir' \in [Irs -> {"none", "live", "freed", "lost"}]
       /\ capRefs' \in [Irs -> Nat] /\ IrLivesWithCapsule'
       /\ UNCHANGED <<rec, recRefs, memo, fn>>
  BY <1>2 DEF MemoryInv, MemoryTypeOK, IrLivesWithCapsule
<1>. QED  BY <1>3, <1>6, <1>8, <1>11, <1>13, <1>14, <1>15, <1>16, CapsuleStep

(* What nobody counts has no holders. *)
LEMMA NoHolders ==
    /\ MemoryInv => \A i \in Irs : ir[i] # "live" => capRefs[i] = 0 /\ CapsuleHolders(i) = {}
    /\ MemoryInv => \A r \in Recs : rec[r] = None => recRefs[r] = 0 /\ RecordHolders(r) = {}
<1>1. ASSUME MemoryInv, NEW i \in Irs, ir[i] # "live"
      PROVE  capRefs[i] = 0 /\ CapsuleHolders(i) = {}
  <2>1. capRefs[i] = 0 /\ capRefs[i] = Cardinality(CapsuleHolders(i))
    BY <1>1 DEF MemoryInv, MemoryTypeOK, IrLivesWithCapsule, CountsExact
  <2>. QED  BY <2>1, CapsuleHoldersFinite, FS_EmptySet
<1>2. ASSUME MemoryInv, NEW r \in Recs, rec[r] = None
      PROVE  recRefs[r] = 0 /\ RecordHolders(r) = {}
  <2>1. recRefs[r] = 0 /\ recRefs[r] = Cardinality(RecordHolders(r))
    BY <1>2 DEF MemoryInv, UnusedIsFree, CountsExact
  <2>. QED  BY <2>1, RecordHoldersFinite, FS_EmptySet
<1>. QED  BY <1>1, <1>2

LEMMA ObtainIr ==
    ASSUME MemoryInv, NEW t \in Threads, frame[t].pc \in {"parse", "read"},
           NEW i \in Irs, ir[i] = "none", ir' = [ir EXCEPT ![i] = "live"],
           capRefs' = [capRefs EXCEPT ![i] = 1],
           NEW f \in Frames, Go(t, f), f.pc \in {"emit", "proxy"}, f.ir = i,
           UNCHANGED <<rec, recRefs, header, memo, fn>>
    PROVE  MemoryInv'
<1>1. /\ frame' \in [Threads -> Frames] /\ frame'[t] = f
      /\ \A u \in Threads \ {t} : frame'[u] = frame[u]
  BY Stepping DEF MemoryInv
<1>2. /\ capRefs[i] = 0 /\ CapsuleHolders(i) = {}
      /\ header[i] = "none"
  BY NoHolders DEF MemoryInv, UnusedIsFree
<1>3. \A u \in Threads : ~HoldsIr(u, i)
  BY <1>2, Holders
<1>4. HoldsIr(t, i)' /\ \A j \in Irs : ~HoldsIr(t, j) /\ (HoldsIr(t, j)' => j = i)
  BY <1>1 DEF HoldsIr
<1>5. \A u \in Threads, r \in Recs : HoldsRecord(u, r)' <=> HoldsRecord(u, r)
  BY <1>1 DEF HoldsRecord
<1>6. \A j \in Irs : HasCapsule(j)' <=> HasCapsule(j)
  BY DEF HasCapsule
<1>7. /\ ir' \in [Irs -> {"none", "live", "freed", "lost"}]
      /\ capRefs' \in [Irs -> Nat]
      /\ ir'[i] = "live" /\ capRefs'[i] = 1
      /\ \A j \in Irs \ {i} : ir'[j] = ir[j] /\ capRefs'[j] = capRefs[j]
  BY DEF MemoryInv, MemoryTypeOK
<1>8. Cardinality(CapsuleHolders(i)') = 1
  <2>1. {u \in Threads : HoldsIr(u, i)'} = {u \in Threads : HoldsIr(u, i)} \cup {t}
    BY <1>1, <1>4 DEF HoldsIr
  <2>2. {k \in {i} : HasCapsule(k)'} = {k \in {i} : HasCapsule(k)}
    BY <1>6
  <2>3. CapsuleHolders(i)' = CapsuleHolders(i) \cup {<<"frame", t>>}
    BY <2>1, <2>2 DEF CapsuleHolders
  <2>4. CapsuleHolders(i)' = {<<"frame", t>>}
    BY <1>2, <2>3
  <2>. QED  BY <2>4, FS_Singleton
<1>9. ASSUME NEW j \in Irs \ {i}
      PROVE  CapsuleHolders(j)' = CapsuleHolders(j)
  <2>1. \A u \in Threads : HoldsIr(u, j)' <=> HoldsIr(u, j)
    BY <1>1, <1>4 DEF HoldsIr
  <2>. QED  BY <1>6, <2>1, SameCapsuleHolders DEF RecordOf
<1>10. ASSUME NEW j \in Irs
       PROVE  capRefs'[j] = Cardinality(CapsuleHolders(j)')
  BY <1>7, <1>8, <1>9 DEF MemoryInv, CountsExact
<1>11. IrLivesWithCapsule'
  BY <1>7 DEF MemoryInv, IrLivesWithCapsule
<1>12. \A j \in Irs : ir'[j] = "none" => header'[j] = "none"
  BY <1>7 DEF MemoryInv, UnusedIsFree
<1>13. OneFrame'
  <2>1. \A u \in Threads \ {t}, j \in Irs : HoldsIr(u, j)' <=> HoldsIr(u, j)
    BY <1>1 DEF HoldsIr
  <2>. QED  BY <1>3, <1>4, <2>1 DEF MemoryInv, OneFrame
<1>14. ASSUME NEW u \in Threads
       PROVE  FrameHolds(u)'
  <2>1. CASE u = t
    BY <1>1, <1>2, <1>4, <2>1 DEF FrameHolds, InHeader, At
  <2>2. CASE u # t
    <3>1. FrameHolds(u) /\ MemoryTypeOK /\ frame'[u] = frame[u]
      BY <1>1, <2>2 DEF MemoryInv
    <3>2. \A j \in Irs : InHeader(u, j) => HasCapsule(j)'
      BY <1>6, <3>1 DEF FrameHolds
    <3>3. At(u, "fetch") => memo'[frame[u].ir][frame[u].name] # None
      BY <3>1 DEF FrameHolds
    <3>. QED  BY <3>1, <3>2, <3>3, FrameKept
  <2>. QED  BY <2>1, <2>2
<1>15. header' \in [Irs -> {"none", "held", "unheld", "dead"}]
  BY DEF MemoryInv, MemoryTypeOK
<1>. QED  BY <1>1, <1>5, <1>7, <1>10, <1>11, <1>12, <1>13, <1>14, <1>15, CapsuleStep

LEMMA ObtainStep ==
    ASSUME MemoryInv, NEW t \in Threads, Obtain(t)
    PROVE  MemoryInv'
<1>1. UNCHANGED <<rec, recRefs, header, memo, fn>> /\ frame[t].pc \in {"parse", "read"}
  BY DEF Obtain, At
<1>2. ASSUME NEW i \in Irs, ir[i] = "none", ir' = [ir EXCEPT ![i] = "live"],
             capRefs' = [capRefs EXCEPT ![i] = 1],
             Go(t, IF At(t, "read")
                   THEN [pc |-> "proxy", ir |-> i]
                   ELSE [pc |-> "emit", ir |-> i, keep |-> frame[t].keep])
      PROVE  MemoryInv'
  <2>1. CASE At(t, "read")
    BY <1>1, <1>2, <2>1, EveryFrame, ObtainIr
  <2>2. CASE ~At(t, "read")
    <3>1. frame[t].keep \in BOOLEAN
      BY <1>1, <2>2, KeepOf DEF At, MemoryInv
    <3>. QED  BY <1>1, <1>2, <2>2, <3>1, EveryFrame, ObtainIr
  <2>. QED  BY <2>1, <2>2
<1>3. ASSUME NEW i \in Irs, ir[i] = "none", ir' = [ir EXCEPT ![i] = "lost"],
             Go(t, Idle), UNCHANGED capRefs
      PROVE  MemoryInv'
  <2>1. /\ ir' \in [Irs -> {"none", "live", "freed", "lost"}]
        /\ \A j \in Irs : /\ ir'[j] = "live" <=> ir[j] = "live"
                          /\ ir'[j] = "none" => ir[j] = "none"
    BY <1>3 DEF MemoryInv, MemoryTypeOK
  <2>. QED  BY <1>1, <1>3, <2>1, EveryFrame, NothingHeld DEF Idle
<1>4. CASE Go(t, Idle) /\ UNCHANGED <<ir, capRefs>>
  <2>1. ir' \in [Irs -> {"none", "live", "freed", "lost"}] /\ \A j \in Irs : ir'[j] = ir[j]
    BY <1>4 DEF MemoryInv, MemoryTypeOK
  <2>. QED  BY <1>1, <1>4, <2>1, EveryFrame, NothingHeld DEF Idle
<1>. QED  BY <1>2, <1>3, <1>4 DEF Obtain

LEMMA ResolveRecord ==
    ASSUME MemoryInv, NEW t \in Threads, At(t, "resolve"),
           NEW i \in Irs, i = frame[t].ir, NEW n \in Names, n = frame[t].name,
           NEW r \in Recs, NewRecord(r, i, n),
           Go(t, [pc |-> "store", ir |-> i, name |-> n, rec |-> r]),
           UNCHANGED <<ir, header, memo, fn>>
    PROVE  MemoryInv'
<1>1. /\ frame' \in [Threads -> Frames]
      /\ frame'[t] = [pc |-> "store", ir |-> i, name |-> n, rec |-> r]
      /\ \A u \in Threads \ {t} : frame'[u] = frame[u]
  BY EveryFrame, Stepping DEF MemoryInv
<1>2. rec[r] = None /\ recRefs[r] = 0 /\ RecordHolders(r) = {}
  BY NoHolders DEF NewRecord
<1>3. /\ FrameHolds(t) /\ InHeader(t, i) /\ HasCapsule(i) /\ fn[t] = None
  BY DEF MemoryInv, FrameHolds, InHeader, At
<1>4. capRefs[i] \in Nat \ {0} /\ ir[i] = "live"
  BY <1>3, Holders, HeldIr
<1>5. /\ rec' \in [Recs -> [ir : Irs, name : Names] \cup {None}]
      /\ recRefs' \in [Recs -> Nat]
      /\ rec'[r] = [ir |-> i, name |-> n] /\ recRefs'[r] = 1
      /\ \A p \in Recs \ {r} : rec'[p] = rec[p] /\ recRefs'[p] = recRefs[p]
  BY DEF NewRecord, MemoryInv, MemoryTypeOK
<1>6. /\ capRefs' \in [Irs -> Nat]
      /\ capRefs'[i] = capRefs[i] + 1
      /\ \A j \in Irs \ {i} : capRefs'[j] = capRefs[j]
  BY <1>4 DEF NewRecord, MemoryInv, MemoryTypeOK
<1>7. rec'[r] # None
  BY <1>5, NoneAssumption
<1>8. \A u \in Threads, j \in Irs : HoldsIr(u, j)' <=> HoldsIr(u, j)
  BY <1>1 DEF HoldsIr, At
<1>9. \A j \in Irs : HasCapsule(j)' <=> HasCapsule(j)
  BY DEF HasCapsule
<1>10. /\ HoldsRecord(t, r)' /\ ~HoldsRecord(t, r)
       /\ \A p \in Recs \ {r} : ~HoldsRecord(t, p)' /\ ~HoldsRecord(t, p)
  BY <1>1 DEF HoldsRecord, At
<1>11. Cardinality(RecordHolders(r)') = 1
  <2>1. {u \in Threads : HoldsRecord(u, r)'} = {u \in Threads : HoldsRecord(u, r)} \cup {t}
    BY <1>1, <1>10 DEF HoldsRecord
  <2>2. RecordHolders(r)' = RecordHolders(r) \cup {<<"frame", t>>}
    BY <2>1 DEF RecordHolders
  <2>3. RecordHolders(r)' = {<<"frame", t>>}
    BY <1>2, <2>2
  <2>. QED  BY <2>3, FS_Singleton
<1>12. ASSUME NEW p \in Recs \ {r}
       PROVE  RecordHolders(p)' = RecordHolders(p)
  <2>1. \A u \in Threads : HoldsRecord(u, p)' <=> HoldsRecord(u, p)
    BY <1>1, <1>10 DEF HoldsRecord
  <2>. QED  BY <2>1, SameRecordHolders
<1>13. Cardinality(CapsuleHolders(i)') = Cardinality(CapsuleHolders(i)) + 1
  <2>1. {p \in Recs : rec'[p] # None /\ rec'[p].ir = i}
           = {p \in Recs : rec[p] # None /\ rec[p].ir = i} \cup {r}
    BY <1>5, <1>7
  <2>2. {u \in Threads : HoldsIr(u, i)'} = {u \in Threads : HoldsIr(u, i)}
    BY <1>8
  <2>3. {k \in {i} : HasCapsule(k)'} = {k \in {i} : HasCapsule(k)}
    BY <1>9
  <2>4. CapsuleHolders(i)' = CapsuleHolders(i) \cup {<<"record", r>>}
    BY <2>1, <2>2, <2>3 DEF CapsuleHolders
  <2>5. <<"record", r>> \notin CapsuleHolders(i)
    BY <1>2 DEF CapsuleHolders
  <2>. QED  BY <2>4, <2>5, CapsuleHoldersFinite, Gains
<1>14. ASSUME NEW j \in Irs \ {i}
       PROVE  CapsuleHolders(j)' = CapsuleHolders(j)
  <2>1. \A p \in Recs : RecordOf(p, j)' <=> RecordOf(p, j)
    BY <1>2, <1>5 DEF RecordOf
  <2>. QED  BY <1>8, <1>9, <2>1, SameCapsuleHolders
<1>15. CountsExact'
  <2>1. ASSUME NEW j \in Irs
        PROVE  capRefs'[j] = Cardinality(CapsuleHolders(j)')
    BY <1>6, <1>13, <1>14 DEF MemoryInv, CountsExact
  <2>2. ASSUME NEW p \in Recs
        PROVE  recRefs'[p] = Cardinality(RecordHolders(p)')
    BY <1>5, <1>11, <1>12 DEF MemoryInv, CountsExact
  <2>. QED  BY <2>1, <2>2 DEF CountsExact
<1>16. IrLivesWithCapsule'
  BY <1>4, <1>6 DEF MemoryInv, IrLivesWithCapsule
<1>17. UnusedIsFree'
  BY <1>5, <1>7 DEF MemoryInv, UnusedIsFree
<1>18. OneFrame'
  BY <1>8 DEF MemoryInv, OneFrame
<1>19. MemoIsOfTheName'
  <2>1. ASSUME NEW j \in Irs, NEW m \in Names, memo'[j][m] # None
        PROVE  rec'[memo'[j][m]] = [ir |-> j, name |-> m]
    <3>1. PICK p \in Recs : p = memo[j][m]
      BY <2>1 DEF MemoryInv, MemoryTypeOK
    <3>2. p # r
      BY <1>2, <3>1, Holders
    <3>. QED  BY <1>5, <2>1, <3>1, <3>2 DEF MemoryInv, MemoIsOfTheName
  <2>. QED  BY <2>1 DEF MemoIsOfTheName
<1>20. ASSUME NEW u \in Threads
       PROVE  FrameHolds(u)'
  <2>1. CASE u = t
    <3>1. \A j \in Irs : ~HoldsIr(t, j)'
      BY <1>1 DEF HoldsIr
    <3>2. \A j \in Irs : InHeader(t, j)' => HasCapsule(j)' /\ fn'[t] = None
      BY <1>1, <1>3, <1>9 DEF InHeader
    <3>. QED  BY <1>1, <1>5, <2>1, <3>1, <3>2 DEF FrameHolds, At
  <2>2. CASE u # t
    <3>1. FrameHolds(u) /\ MemoryTypeOK /\ frame'[u] = frame[u]
      BY <1>1, <2>2 DEF MemoryInv
    <3>2. \A j \in Irs : InHeader(u, j) => HasCapsule(j)'
      BY <1>9, <3>1 DEF FrameHolds
    <3>3. At(u, "fetch") => memo'[frame[u].ir][frame[u].name] # None
      BY <3>1 DEF FrameHolds
    <3>4. \A p \in Recs : HoldsRecord(u, p) => rec'[p] = rec[p]
      BY <1>2, <1>5, Holders
    <3>. QED  BY <3>1, <3>2, <3>3, <3>4, FrameKept
  <2>. QED  BY <2>1, <2>2
<1>21. MemoryTypeOK'
  BY <1>1, <1>5, <1>6 DEF MemoryInv, MemoryTypeOK
<1>. QED  BY <1>15, <1>16, <1>17, <1>18, <1>19, <1>20, <1>21 DEF MemoryInv

LEMMA ResolveStep ==
    ASSUME MemoryInv, NEW t \in Threads, Resolve(t)
    PROVE  MemoryInv'
<1>1. SUFFICES ASSUME NEW i \in Irs, i = frame[t].ir, NEW n \in Names, n = frame[t].name
               PROVE  MemoryInv'
  BY FrameOf DEF Resolve, At, MemoryInv
<1>2. At(t, "resolve") /\ UNCHANGED <<ir, header, memo, fn>>
  BY DEF Resolve
<1>3. ASSUME NEW r \in Recs, NewRecord(r, i, n),
             Go(t, [pc |-> "store", ir |-> i, name |-> n, rec |-> r])
      PROVE  MemoryInv'
  BY <1>1, <1>2, <1>3, ResolveRecord
<1>4. CASE Go(t, Idle) /\ UNCHANGED <<capRefs, rec, recRefs>>
  <2>1. ir' \in [Irs -> {"none", "live", "freed", "lost"}] /\ \A j \in Irs : ir'[j] = ir[j]
    BY <1>2 DEF MemoryInv, MemoryTypeOK
  <2>. QED  BY <1>2, <1>4, <2>1, EveryFrame, NothingHeld DEF Idle, At
<1>. QED  BY <1>1, <1>3, <1>4 DEF Resolve

LEMMA Untouched ==
    ASSUME MemoryInv, UNCHANGED <<pyVars, frame>>
    PROVE  MemoryInv'
BY DEF MemoryInv, MemoryTypeOK, FrameHolds, OneFrame, UnusedIsFree, CountsExact,
       IrLivesWithCapsule, MemoIsOfTheName, CapsuleHolders, RecordHolders, HoldsIr,
       HoldsRecord, InHeader, HasCapsule, At, pyVars

-----------------------------------------------------------------------------
LEMMA MemoryInvInit == FrontEndInit => MemoryInv
<1>. SUFFICES ASSUME FrontEndInit
              PROVE  MemoryInv
  OBVIOUS
<1>1. /\ \A t \in Threads : frame[t] = Idle /\ fn[t] = None
      /\ \A i \in Irs : ir[i] = "none" /\ capRefs[i] = 0 /\ header[i] = "none"
      /\ \A r \in Recs : rec[r] = None /\ recRefs[r] = 0
      /\ \A i \in Irs, n \in Names : memo[i][n] = None
  BY DEF FrontEndInit
<1>2. MemoryTypeOK
  BY EveryFrame DEF FrontEndInit, MemoryTypeOK
<1>3. /\ \A t \in Threads : FrameHolds(t)
      /\ OneFrame /\ UnusedIsFree /\ IrLivesWithCapsule /\ MemoIsOfTheName
  BY <1>1 DEF FrameHolds, OneFrame, UnusedIsFree, IrLivesWithCapsule, MemoIsOfTheName,
              HoldsIr, InHeader, At, Idle
<1>4. \A i \in Irs : CapsuleHolders(i) = {}
  BY <1>1 DEF CapsuleHolders, HoldsIr, HasCapsule, Idle
<1>5. \A r \in Recs : RecordHolders(r) = {}
  BY <1>1, NoneAssumption DEF RecordHolders, HoldsRecord, Idle
<1>6. CountsExact
  BY <1>1, <1>4, <1>5, FS_EmptySet DEF CountsExact
<1>. QED  BY <1>2, <1>3, <1>6 DEF MemoryInv

LEMMA MemoryInvNext == MemoryInv /\ [FrontEndNext]_vars => MemoryInv'
<1>. SUFFICES ASSUME MemoryInv, [FrontEndNext]_vars
              PROVE  MemoryInv'
  OBVIOUS
<1>1. CASE UNCHANGED vars
  BY <1>1, Untouched DEF vars, pyVars
<1>2. ASSUME NEW t \in Threads, ThreadStep(t)
      PROVE  MemoryInv'
  BY <1>2, LibraryStep, ObtainStep, EmitStep, LetGoStep, ReturnStep, LookUpStep, ResolveStep,
     StoreStep, FetchStep, CallStep, CallReturnsStep, DropFnStep DEF ThreadStep
<1>3. ASSUME NEW i \in Irs, DropHeader(i) \/ Deallocate(i)
      PROVE  MemoryInv'
  BY <1>3, DropHeaderStep, ReleaseCapsuleStep, ReleaseEntryStep DEF Deallocate
<1>4. CASE SetVariable \/ InstallLibrary
  BY <1>4, Untouched DEF SetVariable, InstallLibrary
<1>. QED  BY <1>1, <1>2, <1>3, <1>4 DEF FrontEndNext

(* Every reference count is the number of the references there are, and an *)
(* IR lives exactly as long as its capsule is counted: none is freed too   *)
(* early, too late or twice.  A memo entry is of the header and the name   *)
(* it is asked for.                                                        *)
THEOREM CountsAreExact == FrontEndSpec => [](CountsExact /\ IrLivesWithCapsule /\ MemoIsOfTheName)
<1>1. MemoryInv => CountsExact /\ IrLivesWithCapsule /\ MemoIsOfTheName
  BY DEF MemoryInv
<1>. QED  BY <1>1, MemoryInvInit, MemoryInvNext, PTL DEF FrontEndSpec

(* The record that cinpy_call works with is in an IR that lives, whatever  *)
(* Python lets go of while the call lasts: the arguments of the call hold  *)
(* the record's capsule, and that one holds the IR's.                      *)
THEOREM CallsFindTheirRecord == FrontEndSpec => []RecordsAlive
<1>1. MemoryInv => RecordsAlive
  <2>. SUFFICES ASSUME MemoryInv, NEW t \in Threads, At(t, "call")
                PROVE  ir[frame[t].fnrec.ir] = "live"
    BY DEF RecordsAlive
  <2>1. SUFFICES ASSUME NEW r \in Recs, r = frame[t].rec, NEW i \in Irs, i = frame[t].fnrec.ir
                 PROVE  ir[i] = "live"
    BY FrameOf DEF MemoryInv
  <2>2. rec[r] = frame[t].fnrec /\ rec[r] # None
    <3>1. frame[t].fnrec \in [ir : Irs, name : Names]
      BY FrameOf DEF MemoryInv
    <3>2. rec[r] = frame[t].fnrec
      BY <2>1 DEF MemoryInv, FrameHolds
    <3>. QED  BY <3>1, <3>2, NoneAssumption
  <2>3. RecordOf(r, i)
    BY <2>1, <2>2 DEF RecordOf
  <2>. QED  BY <2>3, Holders, HeldIr
<1>. QED  BY <1>1, MemoryInvInit, MemoryInvNext, PTL DEF FrontEndSpec

-----------------------------------------------------------------------------
(* The variables of the bridge and of _ensure_clang. *)
LibraryTypeOK == BridgeTypeOK /\ variable \in Named \cup {Unset} /\ initialized \in BOOLEAN

LEMMA BridgeTypeStep ==
    ASSUME BridgeTypeOK, NEW p \in Paths,
           Install(p) \/ InitSucceeds(p) \/ InitFails(p) \/ UNCHANGED bridgeVars
    PROVE  BridgeTypeOK'
<1>1. CASE UNCHANGED bridgeVars \/ InitAgain(p) \/ InitUnloadable(p)
  BY <1>1 DEF BridgeTypeOK, InitAgain, InitUnloadable, bridgeVars
<1>2. CASE Install(p)
  BY <1>2 DEF BridgeTypeOK, Install
<1>3. CASE InitComplete(p)
  BY <1>3, MaxOpensAssumption DEF BridgeTypeOK, InitComplete, Handles
<1>4. CASE InitIncomplete(p)
  BY <1>4, MaxOpensAssumption DEF BridgeTypeOK, InitIncomplete, Handles
<1>. QED  BY <1>1, <1>2, <1>3, <1>4 DEF InitSucceeds, InitFails

LEMMA LibraryTypeNext ==
    LibraryTypeOK /\ MemoryTypeOK /\ [FrontEndNext]_vars => LibraryTypeOK'
<1>. SUFFICES ASSUME LibraryTypeOK, MemoryTypeOK, [FrontEndNext]_vars
              PROVE  LibraryTypeOK'
  OBVIOUS
<1>1. ASSUME UNCHANGED <<disk, handle, table, opens, mapped, variable, initialized>>
      PROVE  LibraryTypeOK'
  BY <1>1 DEF LibraryTypeOK, BridgeTypeOK
<1>2. CASE UNCHANGED vars
  BY <1>1, <1>2 DEF vars
<1>3. ASSUME NEW t \in Threads, ThreadStep(t)
      PROVE  LibraryTypeOK'
  <2>1. CASE InitClang(t)
    <3>1. frame[t] \in Frames /\ frame[t].pc = "init"
      BY <2>1 DEF MemoryTypeOK, InitClang, At
    <3>2. frame[t].path \in Paths
      BY <3>1 DEF Frames, Idle
    <3>. QED  BY <2>1, <3>2, BridgeTypeStep DEF InitClang, LibraryTypeOK
  <2>2. CASE SetInitialized(t)
    BY <2>2 DEF SetInitialized, LibraryTypeOK, BridgeTypeOK, bridgeVars
  <2>3. CASE ~InitClang(t) /\ ~SetInitialized(t)
    <3>1. UNCHANGED <<disk, handle, table, opens, mapped, variable, initialized>>
      BY <1>3, <2>3 DEF ThreadStep, Load, LoadCPyC, Ensure, Obtain, Emit, LetGo, Return, GetAttr,
         CheckMemo, Resolve, Store, Fetch, Call, CallReturns, DropFn, bridgeVars
    <3>. QED  BY <1>1, <3>1
  <2>. QED  BY <2>1, <2>2, <2>3
<1>4. ASSUME NEW i \in Irs, DropHeader(i) \/ Deallocate(i)
      PROVE  LibraryTypeOK'
  BY <1>1, <1>4 DEF DropHeader, Deallocate, ReleaseCapsule, ReleaseEntry, bridgeVars
<1>5. CASE SetVariable
  BY <1>5 DEF SetVariable, LibraryTypeOK, BridgeTypeOK, bridgeVars
<1>6. CASE InstallLibrary
  BY <1>6, BridgeTypeStep DEF InstallLibrary, LibraryTypeOK
<1>. QED  BY <1>2, <1>3, <1>4, <1>5, <1>6 DEF FrontEndNext

(* The variables of the front end and of the bridge have their types. *)
THEOREM FrontEndTypeCorrect == FrontEndSpec => []FrontEndTypeOK
<1>1. FrontEndInit => LibraryTypeOK
  <2>1. 0 \in Handles
    BY MaxOpensAssumption DEF Handles
  <2>. QED  BY <2>1 DEF FrontEndInit, BridgeInit, LibraryTypeOK, BridgeTypeOK
<1>2. LibraryTypeOK /\ MemoryInv => FrontEndTypeOK
  BY DEF LibraryTypeOK, MemoryInv, MemoryTypeOK, FrontEndTypeOK
<1>3. MemoryInv => MemoryTypeOK
  BY DEF MemoryInv
<1>. QED  BY <1>1, <1>2, <1>3, LibraryTypeNext, MemoryInvInit, MemoryInvNext, PTL DEF FrontEndSpec
=============================================================================
