---------------------------- MODULE CacheProofs ----------------------------
(***************************************************************************)
(* Theorems of module Cache, for every set of names, number of elements,   *)
(* timeout and clock.  The first part holds however the capacity is        *)
(* configured, the second while it stays the allocated one.  That is an    *)
(* assumption about the callers of config(cache_size=...), which is        *)
(* public: nothing in the code keeps them to 0 or DEFAULT_CAP.             *)
(***************************************************************************)
EXTENDS CacheLru, RecencyProofs

(* The inductive invariant of the first part. *)
Structure == CacheTypeOK /\ ListThreadsEntries /\ OwnedOnce

-----------------------------------------------------------------------------
(* Every action evicts a set of entries and then fills at most one element.*)

LEMMA FiniteSlots ==
    /\ IsFiniteSet(Slots)
    /\ Cardinality(Slots) = AllocCap
    /\ \A X : X \subseteq Slots => /\ IsFiniteSet(X)
                                   /\ Cardinality(X) \in Nat
                                   /\ Cardinality(X) <= AllocCap
<1>1. IsFiniteSet(Slots) /\ Cardinality(Slots) = AllocCap
  BY AllocCapAssumption, FS_Interval DEF Slots
<1>2. ASSUME NEW X, X \subseteq Slots
      PROVE  IsFiniteSet(X) /\ Cardinality(X) \in Nat /\ Cardinality(X) <= AllocCap
  <2>1. IsFiniteSet(X) /\ Cardinality(X) <= AllocCap
    BY <1>1, <1>2, FS_Subset
  <2>. QED  BY <2>1, FS_CardinalityType
<1>. QED  BY <1>1, <1>2

LEMMA FirstIsMember ==
    ASSUME NEW S, S \subseteq Slots, S # {}
    PROVE  First(S) \in S
<1>1. S \subseteq Nat
  BY AllocCapAssumption DEF Slots
<1>2. \E s \in S : \A t \in S : s <= t
  BY <1>1, LeastNatural
<1>. QED  BY <1>2 DEF First

LEMMA CountInRange == \A n \in Int : Count(n) \in 0..SizeMod - 1
BY SizeModAssumption, AllocCapAssumption DEF Count

LEMMA CountIdentity == \A n \in 0..SizeMod - 1 : Count(n) = n
BY SizeModAssumption, AllocCapAssumption DEF Count

(* What find_slot and find_empty return, and what is evicted. *)
LEMMA ScanResults ==
    ASSUME Structure
    PROVE  /\ Members(order) = Occupied
           /\ Stale \subseteq Occupied
           /\ Victims \subseteq Occupied \ Stale
           /\ \A k : Found(k) \subseteq (Visible \cap Occupied) \ Stale
           /\ Empty \subseteq Slots
           /\ Empty \cap (Occupied \ (Stale \cup Victims)) = {}
<1>1. Members(order) = Occupied
  BY MembersOfList DEF Structure, ListThreadsEntries
<1>2. IsListOf(Unlink(order, Stale), Occupied \ Stale)
  BY UnlinkList DEF Structure, ListThreadsEntries
<1>3. Victims \subseteq Occupied \ Stale
  <2>1. Oldest(Unlink(order, Stale)) \subseteq Occupied \ Stale
    BY <1>2, OldestOfList
  <2>. QED  BY <2>1 DEF Victims
<1>. QED  BY <1>1, <1>3 DEF Stale, Found, Empty, Visible

(* Evicting G keeps the list, the ownership of blocks and the types. *)
LEMMA Evicting ==
    ASSUME Structure, NEW G, G \subseteq Occupied,
           slot' = Cleared(G), order' = Unlink(order, G), NEW H,
           heap' = (heap \ ArgsOf(G)) \cup H
    PROVE  /\ Occupied' = Occupied \ G
           /\ slot' \in [Slots -> Entries \cup {NoEntry}]
           /\ order' \subseteq Slots \X Slots
           /\ ListThreadsEntries'
           /\ OwnedOnce'
<1>1. slot' \in [Slots -> Entries \cup {NoEntry}]
  BY DEF Structure, CacheTypeOK, Cleared
<1>2. Occupied' = Occupied \ G /\ \A s \in Occupied \ G : slot'[s] = slot[s]
  BY DEF Cleared, Occupied
<1>3. ListThreadsEntries'
  BY <1>2, UnlinkList DEF Structure, ListThreadsEntries
<1>4. order' \subseteq Slots \X Slots
  BY DEF Structure, CacheTypeOK, Unlink
<1>5. OwnedOnce'
  <2>1. ASSUME NEW s \in Occupied \ G PROVE slot[s].args \in heap'
    <3>1. slot[s].args \in heap
      BY DEF Structure, OwnedOnce
    <3>2. slot[s].args \notin ArgsOf(G)
      BY DEF Structure, OwnedOnce, ArgsOf
    <3>. QED  BY <3>1, <3>2
  <2>2. \A s, t \in Occupied \ G : slot[s].args = slot[t].args => s = t
    BY DEF Structure, OwnedOnce
  <2>. QED  BY <1>2, <2>1, <2>2 DEF OwnedOnce
<1>. QED  BY <1>1, <1>2, <1>3, <1>4, <1>5

(* Evicting G and then filling element s with e does too. *)
LEMMA Filling ==
    ASSUME Structure, NEW G, G \subseteq Occupied,
           NEW s \in Slots, s \notin Occupied \ G,
           NEW e \in Entries, e.args \notin ArgsOf(Occupied \ G),
           slot' = [Cleared(G) EXCEPT ![s] = e],
           order' = PushFront(Unlink(order, G), s),
           heap' = (heap \ ArgsOf(G)) \cup {e.args}
    PROVE  /\ Occupied' = (Occupied \ G) \cup {s}
           /\ slot'[s] = e
           /\ \A t \in Occupied \ G : slot'[t] = slot[t]
           /\ slot' \in [Slots -> Entries \cup {NoEntry}]
           /\ order' \subseteq Slots \X Slots
           /\ ListThreadsEntries'
           /\ OwnedOnce'
<1>1. slot' \in [Slots -> Entries \cup {NoEntry}]
  BY DEF Structure, CacheTypeOK, Cleared
<1>2. slot'[s] = e /\ \A t \in Slots \ {s} : slot'[t] = Cleared(G)[t]
  BY DEF Cleared
<1>3. \A t \in Occupied \ G : slot'[t] = slot[t]
  BY <1>2 DEF Cleared, Occupied
<1>4. Occupied' = (Occupied \ G) \cup {s}
  BY <1>2, NoEntryAssumption DEF Cleared, Occupied
<1>5. IsListOf(order', Occupied')
  BY <1>4, UnlinkList, PushFrontList DEF Structure, ListThreadsEntries
<1>6. order' \subseteq Slots \X Slots
  BY <1>5 DEF IsListOf, Occupied
<1>7. OwnedOnce'
  <2>1. ASSUME NEW t \in Occupied \ G PROVE slot[t].args \in heap'
    <3>1. slot[t].args \in heap
      BY DEF Structure, OwnedOnce
    <3>2. slot[t].args \notin ArgsOf(G)
      BY DEF Structure, OwnedOnce, ArgsOf
    <3>. QED  BY <3>1, <3>2
  <2>2. \A t, u \in Occupied \ G : slot[t].args = slot[u].args => t = u
    BY DEF Structure, OwnedOnce
  <2>3. \A t \in Occupied \ G : slot[t].args # e.args
    BY DEF ArgsOf
  <2>4. slot'[s].args \in heap'
    BY <1>2
  <2>. QED  BY <1>2, <1>3, <1>4, <2>1, <2>2, <2>3, <2>4 DEF OwnedOnce
<1>. QED  BY <1>1, <1>2, <1>3, <1>4, <1>5, <1>6, <1>7 DEF ListThreadsEntries

-----------------------------------------------------------------------------
(* Each action preserves Structure. *)

LEMMA StructureInit == CacheInit => Structure
<1>. SUFFICES ASSUME CacheInit PROVE Structure
  OBVIOUS
<1>1. Occupied = {}
  BY DEF CacheInit, Occupied
<1>2. CacheTypeOK
  BY SizeModAssumption, AllocCapAssumption, ClockAssumption
  DEF CacheInit, CacheTypeOK, Times
<1>3. ListThreadsEntries
  BY <1>1 DEF CacheInit, ListThreadsEntries, IsListOf
<1>. QED  BY <1>1, <1>2, <1>3 DEF Structure, OwnedOnce

LEMMA StructureGetHit ==
    ASSUME Structure, NEW k \in Keys, GetHit(k)
    PROVE  Structure'
<1>. DEFINE s == First(Found(k))
            e == [slot[s] EXCEPT !.used = now]
            G == Stale \cup {s}
<1>1. s \in Found(k) /\ s \in Occupied \ Stale /\ s \in Slots
  BY ScanResults, FirstIsMember DEF GetHit, Visible
<1>2. slot[s] \in Entries
  BY <1>1 DEF Structure, CacheTypeOK, Occupied
<1>3. e \in Entries /\ e.args = slot[s].args
  BY <1>2 DEF Entries, Structure, CacheTypeOK
<1>4. slot' = [Cleared(G) EXCEPT ![s] = e]
  BY <1>1 DEF GetHit, Cleared
<1>5. order' = PushFront(Unlink(order, G), s)
  BY DEF GetHit
<1>6. G \subseteq Occupied /\ s \notin Occupied \ G
  BY <1>1, ScanResults
<1>7. slot[s].args \in heap /\ slot[s].args \notin ArgsOf(Occupied \ {s})
  BY <1>1 DEF Structure, OwnedOnce, ArgsOf
<1>8. heap' = (heap \ ArgsOf(G)) \cup {e.args}
  <2>1. slot[s].args \notin ArgsOf(Stale)
    BY <1>1, <1>7, ScanResults DEF ArgsOf
  <2>2. ArgsOf(G) = ArgsOf(Stale) \cup {slot[s].args}
    BY DEF ArgsOf
  <2>. QED  BY <1>3, <1>7, <2>1, <2>2 DEF GetHit
<1>9. e.args \notin ArgsOf(Occupied \ G)
  BY <1>3, <1>7 DEF ArgsOf
<1>. HIDE DEF s, e, G
<1>10. /\ slot' \in [Slots -> Entries \cup {NoEntry}]
       /\ order' \subseteq Slots \X Slots
       /\ ListThreadsEntries' /\ OwnedOnce'
  BY <1>1, <1>3, <1>4, <1>5, <1>6, <1>8, <1>9, Filling
<1>11. count' \in 0..SizeMod - 1
  BY ScanResults, FiniteSlots, CountInRange DEF GetHit, Structure, CacheTypeOK, Occupied
<1>12. heap' \subseteq Blocks
  BY DEF GetHit, Structure, CacheTypeOK
<1>. QED  BY <1>10, <1>11, <1>12 DEF GetHit, Structure, CacheTypeOK

LEMMA StructureGetMiss ==
    ASSUME Structure, NEW k \in Keys, GetMiss(k)
    PROVE  Structure'
<1>1. heap' = (heap \ ArgsOf(Stale)) \cup {}
  BY DEF GetMiss
<1>2. /\ slot' \in [Slots -> Entries \cup {NoEntry}]
      /\ order' \subseteq Slots \X Slots
      /\ ListThreadsEntries' /\ OwnedOnce'
  BY <1>1, ScanResults, Evicting DEF GetMiss
<1>3. count' \in 0..SizeMod - 1
  BY ScanResults, FiniteSlots, CountInRange DEF GetMiss, Structure, CacheTypeOK, Occupied
<1>. QED  BY <1>2, <1>3 DEF GetMiss, Structure, CacheTypeOK

(* The argument types handed to cinpy_cache_put: allocated by the caller,  *)
(* not yet in the cache.                                                   *)
NewBlock(b) == b \in Blocks /\ \A s \in Occupied : slot[s].args # b

LEMMA FreshIsNew ==
    ASSUME Structure, NEW b \in Blocks \ heap
    PROVE  NewBlock(b)
BY DEF Structure, OwnedOnce, NewBlock

LEMMA StructurePutReplace ==
    ASSUME Structure, NEW k \in Keys, NEW c \in Cifs, NEW b, NewBlock(b),
           PutReplace(k, c, b)
    PROVE  Structure'
<1>. DEFINE s == First(Found(k))
            e == [key |-> k, cif |-> c, args |-> b, used |-> now]
            G == Stale \cup {s}
<1>1. s \in Found(k) /\ s \in Occupied \ Stale /\ s \in Slots
  BY ScanResults, FirstIsMember DEF PutReplace, Visible
<1>2. e \in Entries /\ e.args = b
  BY DEF Entries, Structure, CacheTypeOK, NewBlock
<1>3. slot' = [Cleared(G) EXCEPT ![s] = e]
  BY <1>1 DEF PutReplace, Cleared
<1>4. order' = PushFront(Unlink(order, G), s)
  BY DEF PutReplace
<1>5. G \subseteq Occupied /\ s \notin Occupied \ G
  BY <1>1, ScanResults
<1>6. heap' = (heap \ ArgsOf(G)) \cup {e.args}
  BY DEF PutReplace
<1>7. e.args \notin ArgsOf(Occupied \ G)
  BY DEF ArgsOf, NewBlock
<1>8. heap' \subseteq Blocks
  BY <1>6, <1>2 DEF Structure, CacheTypeOK, NewBlock
<1>. HIDE DEF s, e, G
<1>9. /\ slot' \in [Slots -> Entries \cup {NoEntry}]
      /\ order' \subseteq Slots \X Slots
      /\ ListThreadsEntries' /\ OwnedOnce'
  BY <1>1, <1>2, <1>3, <1>4, <1>5, <1>6, <1>7, Filling
<1>10. count' \in 0..SizeMod - 1
  BY ScanResults, FiniteSlots, CountInRange
  DEF PutReplace, Structure, CacheTypeOK, Occupied
<1>. QED  BY <1>8, <1>9, <1>10 DEF PutReplace, Structure, CacheTypeOK

LEMMA StructurePutInsert ==
    ASSUME Structure, NEW k \in Keys, NEW c \in Cifs, NEW b, NewBlock(b),
           PutInsert(k, c, b)
    PROVE  Structure'
<1>. DEFINE s == First(Empty)
            e == [key |-> k, cif |-> c, args |-> b, used |-> now]
            G == Stale \cup Victims
<1>1. s \in Slots /\ s \notin Occupied \ G
  BY ScanResults, FirstIsMember DEF PutInsert
<1>2. e \in Entries /\ e.args = b
  BY DEF Entries, Structure, CacheTypeOK, NewBlock
<1>3. slot' = [Cleared(G) EXCEPT ![s] = e]
  BY DEF PutInsert
<1>4. order' = PushFront(Unlink(order, G), s)
  BY DEF PutInsert
<1>5. G \subseteq Occupied
  BY ScanResults
<1>6. heap' = (heap \ ArgsOf(G)) \cup {e.args}
  BY DEF PutInsert
<1>7. e.args \notin ArgsOf(Occupied \ G)
  BY DEF ArgsOf, NewBlock
<1>8. heap' \subseteq Blocks
  BY <1>6, <1>2 DEF Structure, CacheTypeOK, NewBlock
<1>9. count' \in 0..SizeMod - 1
  <2>1. Cardinality(G) \in Nat
    BY <1>5, FiniteSlots DEF Occupied
  <2>2. count - Cardinality(G) \in Int
    BY <2>1 DEF Structure, CacheTypeOK
  <2>3. Count(count - Cardinality(G)) + 1 \in Int
    BY <2>2, CountInRange, SizeModAssumption
  <2>. QED  BY <2>3, CountInRange DEF PutInsert
<1>. HIDE DEF s, e, G
<1>10. /\ slot' \in [Slots -> Entries \cup {NoEntry}]
       /\ order' \subseteq Slots \X Slots
       /\ ListThreadsEntries' /\ OwnedOnce'
  BY <1>1, <1>2, <1>3, <1>4, <1>5, <1>6, <1>7, Filling
<1>. QED  BY <1>8, <1>9, <1>10 DEF PutInsert, Structure, CacheTypeOK

LEMMA StructurePutReject ==
    ASSUME Structure, NEW k \in Keys, NEW c \in Cifs, NEW b, NewBlock(b),
           PutReject(k, c, b)
    PROVE  Structure'
<1>. DEFINE G == Stale \cup Victims
<1>1. G \subseteq Occupied
  BY ScanResults
<1>2. /\ slot' = Cleared(G) /\ order' = Unlink(order, G)
      /\ heap' = (heap \ ArgsOf(G)) \cup {b}
  BY DEF PutReject
<1>3. heap' \subseteq Blocks
  BY <1>2 DEF Structure, CacheTypeOK, NewBlock
<1>4. count' \in 0..SizeMod - 1
  <2>1. Cardinality(G) \in Nat
    BY <1>1, FiniteSlots DEF Occupied
  <2>. QED  BY <2>1, CountInRange DEF PutReject, Structure, CacheTypeOK
<1>. HIDE DEF G
<1>5. /\ slot' \in [Slots -> Entries \cup {NoEntry}]
      /\ order' \subseteq Slots \X Slots
      /\ ListThreadsEntries' /\ OwnedOnce'
  BY <1>1, <1>2, Evicting
<1>. QED  BY <1>3, <1>4, <1>5 DEF PutReject, Structure, CacheTypeOK

LEMMA StructureEvictAll ==
    ASSUME Structure, EvictAll
    PROVE  Structure'
<1>. DEFINE G == Visible \cap Occupied
<1>1. G \subseteq Occupied
  OBVIOUS
<1>2. /\ slot' = Cleared(G) /\ order' = Unlink(order, G)
      /\ heap' = (heap \ ArgsOf(G)) \cup {}
  BY DEF EvictAll
<1>. HIDE DEF G
<1>3. /\ slot' \in [Slots -> Entries \cup {NoEntry}]
      /\ order' \subseteq Slots \X Slots
      /\ ListThreadsEntries' /\ OwnedOnce'
  BY <1>1, <1>2, Evicting
<1>4. count' \in 0..SizeMod - 1
  BY SizeModAssumption, AllocCapAssumption DEF EvictAll
<1>. QED  BY <1>2, <1>3, <1>4 DEF EvictAll, Structure, CacheTypeOK

(* Steps that leave the table, the list and the heap alone. *)
LEMMA StructureFrame ==
    ASSUME Structure, UNCHANGED <<slot, order, count, heap>>,
           cap' \in Caps \cup {AllocCap}, timeout' \in Timeouts \cup {InitTimeout},
           now' \in Times
    PROVE  Structure'
<1>1. Occupied' = Occupied
  BY DEF Occupied
<1>. QED
  BY <1>1 DEF Structure, CacheTypeOK, ListThreadsEntries, OwnedOnce

LEMMA StructureNext == Structure /\ [CacheNext]_cacheVars => Structure'
<1>. SUFFICES ASSUME Structure, [CacheNext]_cacheVars PROVE Structure'
  OBVIOUS
<1>1. CASE \E k \in Keys : GetHit(k) \/ GetMiss(k)
  BY <1>1, StructureGetHit, StructureGetMiss
<1>2. CASE \E k \in Keys, c \in Cifs, b \in Blocks \ heap : Put(k, c, b)
  <2>1. PICK k \in Keys, c \in Cifs, b \in Blocks \ heap : Put(k, c, b)
    BY <1>2
  <2>2. NewBlock(b)
    BY FreshIsNew
  <2>. QED
    BY <2>1, <2>2, StructurePutReplace, StructurePutInsert, StructurePutReject DEF Put
<1>3. CASE EvictAll
  BY <1>3, StructureEvictAll
<1>4. CASE \E c \in Caps \cup {0}, t \in Timeouts \cup {0} : Config(c, t)
  BY <1>4, CapsAssumption, TimeoutsAssumption, StructureFrame
  DEF Config, Structure, CacheTypeOK
<1>5. CASE Tick
  BY <1>5, StructureFrame DEF Tick, Structure, CacheTypeOK
<1>6. CASE UNCHANGED cacheVars
  BY <1>6, StructureFrame DEF cacheVars, Structure, CacheTypeOK
<1>. QED  BY <1>1, <1>2, <1>3, <1>4, <1>5, <1>6 DEF CacheNext

(* Whatever sequence of lookups, insertions, evictions, expiries and       *)
(* reconfigurations the program makes, the variables keep their types, the *)
(* LRU list threads exactly the entries in use and every entry owns an     *)
(* allocated block no other entry owns (cache.c as a whole).               *)
THEOREM CacheStructure == CacheSpec => [](CacheTypeOK /\ ListThreadsEntries /\ OwnedOnce)
<1>1. CacheInit => Structure
  BY StructureInit
<1>2. Structure /\ [CacheNext]_cacheVars => Structure'
  BY StructureNext
<1>3. Structure => CacheTypeOK /\ ListThreadsEntries /\ OwnedOnce
  BY DEF Structure
<1>. QED  BY <1>1, <1>2, <1>3, PTL DEF CacheSpec

-----------------------------------------------------------------------------
(* The inductive invariant of the second part: all elements are visible to *)
(* the scans, and the counter, the names and the heap are those of the     *)
(* entries.                                                                *)
Settled ==
    /\ Structure
    /\ cap = AllocCap
    /\ CountExact
    /\ UniqueKeys
    /\ NoLeak

-----------------------------------------------------------------------------
LEMMA AllVisible ==
    ASSUME Settled
    PROVE  Visible = Slots
BY AllocCapAssumption DEF Settled, Visible, Slots

(* The counter after the eviction of G. *)
LEMMA CountAfterEvicting ==
    ASSUME Settled, NEW G, G \subseteq Occupied
    PROVE  /\ Count(count - Cardinality(G)) = Cardinality(Occupied \ G)
           /\ Cardinality(Occupied \ G) \in Nat
           /\ Cardinality(Occupied \ G) <= AllocCap
<1>1. IsFiniteSet(Occupied) /\ Occupied \subseteq Slots
  BY FiniteSlots DEF Occupied
<1>2. /\ Cardinality(Occupied) \in Nat /\ Cardinality(G) \in Nat
      /\ Cardinality(Occupied \ G) \in Nat /\ Cardinality(Occupied \ G) <= AllocCap
  BY <1>1, FiniteSlots
<1>3. Cardinality(Occupied \ G) = Cardinality(Occupied) - Cardinality(Occupied \cap G)
  BY <1>1, FS_Difference, FS_Subset
<1>4. Occupied \cap G = G
  OBVIOUS
<1>5. count - Cardinality(G) = Cardinality(Occupied \ G)
  BY <1>3, <1>4 DEF Settled, CountExact
<1>6. Cardinality(Occupied \ G) \in 0..SizeMod - 1
  BY <1>2, SizeModAssumption, AllocCapAssumption
<1>. QED  BY <1>2, <1>5, <1>6, CountIdentity

(* The counter when a listed entry is refilled, and when a new one is filled. *)
LEMMA UsedEntryCount ==
    ASSUME Settled, NEW s \in Occupied \ Stale
    PROVE  Count(count - Cardinality(Stale))
               = Cardinality(Occupied \ (Stale \cup {s})) + 1
<1>1. Stale \subseteq Occupied /\ Stale \cup {s} \subseteq Occupied
  BY ScanResults DEF Settled
<1>2. Count(count - Cardinality(Stale)) = Cardinality(Occupied \ Stale)
  BY <1>1, CountAfterEvicting
<1>3. IsFiniteSet(Occupied \ (Stale \cup {s}))
  BY FiniteSlots DEF Occupied
<1>4. Occupied \ Stale = (Occupied \ (Stale \cup {s})) \cup {s}
  OBVIOUS
<1>5. s \notin Occupied \ (Stale \cup {s})
  OBVIOUS
<1>6. Cardinality((Occupied \ (Stale \cup {s})) \cup {s})
          = Cardinality(Occupied \ (Stale \cup {s})) + 1
  BY <1>3, <1>5, FS_AddElement
<1>. QED  BY <1>2, <1>4, <1>6

LEMMA NewEntryCount ==
    ASSUME Settled, NEW G, G \subseteq Occupied, NEW s \in Slots, s \notin Occupied \ G
    PROVE  Count(Count(count - Cardinality(G)) + 1) = Cardinality(Occupied \ G) + 1
<1>1. Count(count - Cardinality(G)) = Cardinality(Occupied \ G)
  BY CountAfterEvicting
<1>2. IsFiniteSet(Occupied \ G) /\ (Occupied \ G) \cup {s} \subseteq Slots
  BY FiniteSlots DEF Occupied
<1>3. Cardinality((Occupied \ G) \cup {s}) = Cardinality(Occupied \ G) + 1
  BY <1>2, FS_AddElement
<1>4. /\ Cardinality((Occupied \ G) \cup {s}) \in Nat
      /\ Cardinality((Occupied \ G) \cup {s}) <= AllocCap
  BY <1>2, FiniteSlots
<1>5. Cardinality(Occupied \ G) + 1 \in 0..SizeMod - 1
  BY <1>3, <1>4, SizeModAssumption, AllocCapAssumption
<1>. QED  BY <1>1, <1>5, CountIdentity

(* No name in the cache is lost from sight, so a name that is not found    *)
(* is not there.                                                           *)
LEMMA NotFoundIsAbsent ==
    ASSUME Settled, NEW k, Found(k) = {}
    PROVE  \A s \in Occupied \ Stale : slot[s].key # k
BY AllVisible DEF Found, Occupied

(* The capacity test, the eviction and the scan for an empty element agree.*)
LEMMA RoomForOne ==
    ASSUME Settled
    PROVE  Empty # {}
<1>. SUFFICES ASSUME Empty = {} PROVE FALSE
  OBVIOUS
<1>1. Occupied = Slots /\ Stale = {} /\ Victims = {}
  BY AllVisible, ScanResults DEF Empty, Occupied, Settled
<1>2. Cardinality(Occupied) = AllocCap /\ IsFiniteSet(Occupied)
  BY <1>1, FiniteSlots
<1>3. Count(count - Cardinality(Stale)) = AllocCap
  <2>1. Count(count - Cardinality(Stale)) = Cardinality(Occupied \ Stale)
    BY <1>1, CountAfterEvicting
  <2>2. Occupied \ Stale = Occupied
    BY <1>1
  <2>. QED  BY <1>2, <2>1, <2>2
<1>4. Victims = Oldest(Unlink(order, Stale))
  BY <1>3, AllocCapAssumption DEF Victims, Settled
<1>5. IsListOf(Unlink(order, Stale), Occupied \ Stale)
  BY UnlinkList DEF Settled, Structure, ListThreadsEntries
<1>6. Occupied \ Stale # {}
  <2>1. 1 \in Slots
    BY AllocCapAssumption DEF Slots
  <2>. QED  BY <1>1, <2>1
<1>7. Oldest(Unlink(order, Stale)) # {}
  <2>1. IsFiniteSet(Occupied \ Stale)
    BY <1>2, FS_Subset
  <2>. QED  BY <1>5, <1>6, <2>1, OldestExists
<1>. QED  BY <1>1, <1>4, <1>7

-----------------------------------------------------------------------------
(* Evicting G keeps the invariant. *)
LEMMA SettledEvicting ==
    ASSUME Settled, Structure', NEW G, G \subseteq Occupied,
           slot' = Cleared(G), heap' = heap \ ArgsOf(G),
           count' = Cardinality(Occupied \ G), cap' = cap
    PROVE  Settled'
<1>1. Occupied' = Occupied \ G /\ \A s \in Occupied \ G : slot'[s] = slot[s]
  BY DEF Cleared, Occupied
<1>2. UniqueKeys'
  BY <1>1 DEF Settled, UniqueKeys
<1>3. NoLeak'
  <2>1. heap' = ArgsOf(Occupied) \ ArgsOf(G)
    BY DEF Settled, NoLeak
  <2>2. ArgsOf(Occupied) \ ArgsOf(G) = ArgsOf(Occupied \ G)
    BY DEF ArgsOf, Settled, Structure, OwnedOnce
  <2>3. ArgsOf(Occupied)' = ArgsOf(Occupied \ G)
    BY <1>1 DEF ArgsOf
  <2>. QED  BY <2>1, <2>2, <2>3 DEF NoLeak
<1>. QED  BY <1>1, <1>2, <1>3 DEF Settled, CountExact

(* So does filling element s with e after the eviction of G. *)
LEMMA SettledFilling ==
    ASSUME Settled, Structure', NEW G, G \subseteq Occupied,
           NEW s \in Slots, s \notin Occupied \ G,
           NEW e \in Entries, \A t \in Occupied \ G : slot[t].key # e.key,
           slot' = [Cleared(G) EXCEPT ![s] = e],
           heap' = (heap \ ArgsOf(G)) \cup {e.args},
           count' = Cardinality(Occupied \ G) + 1, cap' = cap
    PROVE  Settled'
<1>1. slot' \in [Slots -> Entries \cup {NoEntry}] /\ slot'[s] = e
  BY DEF Settled, Structure, CacheTypeOK, Cleared
<1>2. \A t \in Occupied \ G : slot'[t] = slot[t]
  BY DEF Cleared, Occupied
<1>3. Occupied' = (Occupied \ G) \cup {s}
  BY <1>1, NoEntryAssumption DEF Cleared, Occupied
<1>4. CountExact'
  <2>1. IsFiniteSet(Occupied \ G)
    BY FiniteSlots DEF Occupied
  <2>2. Cardinality((Occupied \ G) \cup {s}) = Cardinality(Occupied \ G) + 1
    BY <2>1, FS_AddElement
  <2>. QED  BY <1>3, <2>2 DEF CountExact
<1>5. UniqueKeys'
  BY <1>1, <1>2, <1>3 DEF Settled, UniqueKeys
<1>6. NoLeak'
  <2>1. heap \ ArgsOf(G) = ArgsOf(Occupied \ G)
    BY DEF ArgsOf, Settled, NoLeak, Structure, OwnedOnce
  <2>2. ArgsOf(Occupied)' = ArgsOf(Occupied \ G) \cup {e.args}
    BY <1>1, <1>2, <1>3 DEF ArgsOf
  <2>. QED  BY <2>1, <2>2 DEF NoLeak
<1>. QED  BY <1>4, <1>5, <1>6 DEF Settled

-----------------------------------------------------------------------------
(* Each action preserves Settled. *)

LEMMA SettledGetHit ==
    ASSUME Settled, NEW k \in Keys, GetHit(k)
    PROVE  Settled'
<1>. DEFINE s == First(Found(k))
            e == [slot[s] EXCEPT !.used = now]
            G == Stale \cup {s}
<1>1. Structure'
  BY StructureGetHit DEF Settled
<1>2. s \in Occupied \ Stale /\ s \in Slots
  BY ScanResults, FirstIsMember DEF GetHit, Visible, Settled
<1>3. slot[s] \in Entries
  BY <1>2 DEF Settled, Structure, CacheTypeOK, Occupied
<1>4. e \in Entries /\ e.args = slot[s].args /\ e.key = slot[s].key
  BY <1>3 DEF Entries, Settled, Structure, CacheTypeOK
<1>5. slot' = [Cleared(G) EXCEPT ![s] = e]
  BY <1>2 DEF GetHit, Cleared
<1>6. G \subseteq Occupied /\ s \notin Occupied \ G
  BY <1>2, ScanResults DEF Settled
<1>7. \A t \in Occupied \ G : slot[t].key # e.key
  BY <1>2, <1>4 DEF Settled, UniqueKeys
<1>8. heap' = (heap \ ArgsOf(G)) \cup {e.args}
  <2>1. slot[s].args \in heap /\ slot[s].args \notin ArgsOf(Stale)
    BY <1>2, ScanResults DEF Settled, Structure, OwnedOnce, ArgsOf
  <2>2. ArgsOf(G) = ArgsOf(Stale) \cup {slot[s].args}
    BY DEF ArgsOf
  <2>. QED  BY <1>4, <2>1, <2>2 DEF GetHit
<1>9. count' = Cardinality(Occupied \ G) + 1
  BY <1>2, UsedEntryCount DEF GetHit
<1>10. cap' = cap
  BY DEF GetHit
<1>. HIDE DEF s, e, G
<1>. QED
  BY <1>1, <1>2, <1>4, <1>5, <1>6, <1>7, <1>8, <1>9, <1>10, SettledFilling

LEMMA SettledGetMiss ==
    ASSUME Settled, NEW k \in Keys, GetMiss(k)
    PROVE  Settled'
<1>1. Structure'
  BY StructureGetMiss DEF Settled
<1>2. Stale \subseteq Occupied
  BY ScanResults DEF Settled
<1>3. count' = Cardinality(Occupied \ Stale)
  BY <1>2, CountAfterEvicting DEF GetMiss
<1>4. slot' = Cleared(Stale) /\ heap' = heap \ ArgsOf(Stale) /\ cap' = cap
  BY DEF GetMiss
<1>. QED  BY <1>1, <1>2, <1>3, <1>4, SettledEvicting

LEMMA SettledPutReplace ==
    ASSUME Settled, NEW k \in Keys, NEW c \in Cifs, NEW b, NewBlock(b),
           PutReplace(k, c, b)
    PROVE  Settled'
<1>. DEFINE s == First(Found(k))
            e == [key |-> k, cif |-> c, args |-> b, used |-> now]
            G == Stale \cup {s}
<1>1. Structure'
  BY StructurePutReplace DEF Settled
<1>2. s \in Occupied \ Stale /\ s \in Slots /\ slot[s].key = k
  <2>1. Found(k) \subseteq Slots /\ Found(k) # {}
    BY DEF Found, Visible, PutReplace
  <2>2. s \in Found(k)
    BY <2>1, FirstIsMember
  <2>. QED  BY <2>1, <2>2 DEF Found
<1>3. e \in Entries /\ e.args = b /\ e.key = k
  BY DEF Entries, Settled, Structure, CacheTypeOK, NewBlock
<1>4. slot' = [Cleared(G) EXCEPT ![s] = e]
  BY <1>2 DEF PutReplace, Cleared
<1>5. G \subseteq Occupied /\ s \notin Occupied \ G
  BY <1>2, ScanResults DEF Settled
<1>6. \A t \in Occupied \ G : slot[t].key # e.key
  BY <1>2, <1>3 DEF Settled, UniqueKeys
<1>7. heap' = (heap \ ArgsOf(G)) \cup {e.args}
  BY DEF PutReplace
<1>8. count' = Cardinality(Occupied \ G) + 1
  BY <1>2, UsedEntryCount DEF PutReplace
<1>9. cap' = cap
  BY DEF PutReplace
<1>. HIDE DEF s, e, G
<1>. QED
  BY <1>1, <1>2, <1>3, <1>4, <1>5, <1>6, <1>7, <1>8, <1>9, SettledFilling

LEMMA SettledPutInsert ==
    ASSUME Settled, NEW k \in Keys, NEW c \in Cifs, NEW b, NewBlock(b),
           PutInsert(k, c, b)
    PROVE  Settled'
<1>. DEFINE s == First(Empty)
            e == [key |-> k, cif |-> c, args |-> b, used |-> now]
            G == Stale \cup Victims
<1>1. Structure'
  BY StructurePutInsert DEF Settled
<1>2. s \in Slots /\ s \notin Occupied \ G
  BY ScanResults, FirstIsMember DEF PutInsert, Settled
<1>3. e \in Entries /\ e.args = b /\ e.key = k
  BY DEF Entries, Settled, Structure, CacheTypeOK, NewBlock
<1>4. slot' = [Cleared(G) EXCEPT ![s] = e]
  BY DEF PutInsert
<1>5. G \subseteq Occupied
  BY ScanResults DEF Settled
<1>6. \A t \in Occupied \ G : slot[t].key # e.key
  BY <1>3, NotFoundIsAbsent DEF PutInsert
<1>7. heap' = (heap \ ArgsOf(G)) \cup {e.args}
  BY DEF PutInsert
<1>8. count' = Cardinality(Occupied \ G) + 1
  BY <1>2, <1>5, NewEntryCount DEF PutInsert
<1>9. cap' = cap
  BY DEF PutInsert
<1>. HIDE DEF s, e, G
<1>. QED
  BY <1>1, <1>2, <1>3, <1>4, <1>5, <1>6, <1>7, <1>8, <1>9, SettledFilling

LEMMA SettledEvictAll ==
    ASSUME Settled, EvictAll
    PROVE  Settled'
<1>1. Structure'
  BY StructureEvictAll DEF Settled
<1>2. Visible \cap Occupied = Occupied
  BY AllVisible DEF Occupied
<1>3. slot' = Cleared(Occupied) /\ heap' = heap \ ArgsOf(Occupied) /\ cap' = cap
  BY <1>2 DEF EvictAll
<1>4. count' = Cardinality(Occupied \ Occupied)
  <2>1. Occupied \ Occupied = {}
    OBVIOUS
  <2>. QED  BY <2>1, FS_EmptySet DEF EvictAll
<1>. QED  BY <1>1, <1>3, <1>4, SettledEvicting

LEMMA SettledFrame ==
    ASSUME Settled, Structure', UNCHANGED <<slot, order, count, cap, heap>>
    PROVE  Settled'
<1>1. Occupied' = Occupied
  BY DEF Occupied
<1>. QED
  BY <1>1 DEF Settled, CountExact, UniqueKeys, NoLeak, ArgsOf

LEMMA SettledInit == CacheInit => Settled
<1>. SUFFICES ASSUME CacheInit PROVE Settled
  OBVIOUS
<1>1. Occupied = {}
  BY DEF CacheInit, Occupied
<1>2. Cardinality(Occupied) = 0
  BY <1>1, FS_EmptySet
<1>. QED
  BY <1>1, <1>2, StructureInit
  DEF CacheInit, Settled, CountExact, UniqueKeys, NoLeak, ArgsOf

LEMMA SettledNext ==
    ASSUME Caps \subseteq {AllocCap}, Settled, [CacheNext]_cacheVars
    PROVE  Settled'
<1>0. Structure'
  BY StructureNext DEF Settled
<1>1. CASE \E k \in Keys : GetHit(k) \/ GetMiss(k)
  BY <1>1, SettledGetHit, SettledGetMiss
<1>2. CASE \E k \in Keys, c \in Cifs, b \in Blocks \ heap : Put(k, c, b)
  <2>1. PICK k \in Keys, c \in Cifs, b \in Blocks \ heap : Put(k, c, b)
    BY <1>2
  <2>2. NewBlock(b)
    BY FreshIsNew DEF Settled
  <2>3. ~PutReject(k, c, b)
    BY RoomForOne DEF PutReject
  <2>. QED
    BY <2>1, <2>2, <2>3, SettledPutReplace, SettledPutInsert DEF Put
<1>3. CASE EvictAll
  BY <1>3, SettledEvictAll
<1>4. CASE \E c \in Caps \cup {0}, t \in Timeouts \cup {0} : Config(c, t)
  <2>1. cap' = cap
    BY <1>4 DEF Config, Settled
  <2>. QED  BY <1>0, <1>4, <2>1, SettledFrame DEF Config
<1>5. CASE Tick
  BY <1>0, <1>5, SettledFrame DEF Tick
<1>6. CASE UNCHANGED cacheVars
  BY <1>0, <1>6, SettledFrame DEF cacheVars
<1>. QED  BY <1>1, <1>2, <1>3, <1>4, <1>5, <1>6 DEF CacheNext

(* As long as cinpy_cache_config keeps the allocated capacity, g_count is  *)
(* the number of entries, a name has one entry, no arg_types block is lost *)
(* and cinpy_cache_put always finds room after one eviction.               *)
THEOREM CacheExact ==
    ASSUME Caps \subseteq {AllocCap}
    PROVE  CacheSpec => [](CountExact /\ UniqueKeys /\ NoLeak /\ AlwaysRoom)
<1>1. CacheInit => Settled
  BY SettledInit
<1>2. Settled /\ [CacheNext]_cacheVars => Settled'
  BY SettledNext
<1>3. Settled => CountExact /\ UniqueKeys /\ NoLeak /\ AlwaysRoom
  BY RoomForOne DEF Settled, AlwaysRoom
<1>. QED  BY <1>1, <1>2, <1>3, PTL DEF CacheSpec

-----------------------------------------------------------------------------
(* The list order and the times of last use.                               *)

(* Nearer to the head means used no earlier, and nothing was used in the   *)
(* future.  Inductive at every capacity while the clock never steps back.  *)
UsedInOrder ==
    /\ \A s, t \in Occupied : <<s, t>> \in order => slot[t].used <= slot[s].used
    /\ \A s \in Occupied : slot[s].used <= now

LEMMA EvictingInOrder ==
    ASSUME UsedInOrder, NEW G, slot' = Cleared(G), order' = Unlink(order, G), now' = now
    PROVE  UsedInOrder'
<1>1. Occupied' \subseteq Occupied /\ \A s \in Occupied' : slot'[s] = slot[s]
  BY DEF Occupied, Cleared
<1>2. order' \subseteq order
  BY DEF Unlink
<1>3. ASSUME NEW s \in Occupied', NEW t \in Occupied', <<s, t>> \in order'
      PROVE  slot'[t].used <= slot'[s].used
  BY <1>1, <1>2, <1>3 DEF UsedInOrder
<1>4. ASSUME NEW s \in Occupied' PROVE slot'[s].used <= now'
  BY <1>1 DEF UsedInOrder
<1>. QED  BY <1>3, <1>4 DEF UsedInOrder

LEMMA FillingInOrder ==
    ASSUME Structure, UsedInOrder, NEW G, G \subseteq Occupied,
           NEW s \in Slots, s \notin Occupied \ G,
           NEW e, e \in Entries, e.used = now,
           slot' = [Cleared(G) EXCEPT ![s] = e],
           order' = PushFront(Unlink(order, G), s), now' = now
    PROVE  UsedInOrder'
<1>1. slot'[s] = e /\ \A t \in Slots \ {s} : slot'[t] = Cleared(G)[t]
  BY DEF Cleared
<1>2. \A t \in Occupied \ G : t # s /\ slot'[t] = slot[t]
  BY <1>1 DEF Cleared, Occupied
<1>3. Occupied' = (Occupied \ G) \cup {s}
  BY <1>1, NoEntryAssumption DEF Cleared, Occupied
<1>4. \A t \in Occupied \ G : slot'[t].used <= now'
  BY <1>2 DEF UsedInOrder
<1>5. now' <= now' /\ slot'[s].used = now'
  BY <1>1 DEF Structure, CacheTypeOK, Times
<1>6. Members(Unlink(order, G)) = Occupied \ G
  BY UnlinkList, MembersOfList DEF Structure, ListThreadsEntries
<1>7. \A a, b : <<a, b>> \in order' => <<a, b>> \in order \/ a = s
  BY DEF PushFront, Unlink
<1>8. ASSUME NEW a \in Occupied', NEW b \in Occupied', <<a, b>> \in order'
      PROVE  slot'[b].used <= slot'[a].used
  <2>1. CASE a = s
    BY <1>3, <1>4, <1>5, <2>1
  <2>2. CASE a # s
    <3>1. <<a, b>> \in order /\ a \in Occupied \ G
      BY <1>3, <1>7, <1>8, <2>2
    <3>2. b # s
      <4>1. IsListOf(Unlink(order, G), Occupied \ G)
        BY UnlinkList DEF Structure, ListThreadsEntries
      <4>2. <<a, b>> \in Unlink(order, G)
        BY <1>8, <2>2 DEF PushFront
      <4>. QED  BY <4>1, <4>2 DEF IsListOf
    <3>. QED  BY <1>2, <1>3, <3>1, <3>2 DEF UsedInOrder
  <2>. QED  BY <2>1, <2>2
<1>9. ASSUME NEW a \in Occupied' PROVE slot'[a].used <= now'
  BY <1>3, <1>4, <1>5
<1>. QED  BY <1>8, <1>9 DEF UsedInOrder

LEMMA UsedInOrderNext ==
    ASSUME ~ClockMayStepBack, Structure, UsedInOrder, [CacheNext]_cacheVars
    PROVE  UsedInOrder'
<1>1. ASSUME NEW k \in Keys, GetHit(k) PROVE UsedInOrder'
  <2>. PICK s, e : s = First(Found(k)) /\ e = [slot[s] EXCEPT !.used = now]
    OBVIOUS
  <2>1. s \in Occupied \ Stale /\ s \in Slots
    BY <1>1, ScanResults, FirstIsMember DEF GetHit, Visible
  <2>2. e \in Entries /\ e.used = now
    BY <2>1 DEF Structure, CacheTypeOK, Occupied, Entries
  <2>3. Stale \cup {s} \subseteq Occupied
    BY <2>1, ScanResults
  <2>4. slot' = [Cleared(Stale) EXCEPT ![s] = e]
    BY <1>1 DEF GetHit
  <2>5. slot' = [Cleared(Stale \cup {s}) EXCEPT ![s] = e]
    BY <2>1, <2>4 DEF Cleared
  <2>6. order' = PushFront(Unlink(order, Stale \cup {s}), s) /\ now' = now
    BY <1>1 DEF GetHit
  <2>. QED  BY <2>1, <2>2, <2>3, <2>5, <2>6, FillingInOrder
<1>2. ASSUME NEW k \in Keys, NEW c \in Cifs, NEW b \in Blocks \ heap, PutReplace(k, c, b)
      PROVE  UsedInOrder'
  <2>. PICK s, e : s = First(Found(k))
                   /\ e = [key |-> k, cif |-> c, args |-> b, used |-> now]
    OBVIOUS
  <2>1. s \in Occupied \ Stale /\ s \in Slots
    BY <1>2, ScanResults, FirstIsMember DEF PutReplace, Visible
  <2>2. e \in Entries /\ e.used = now
    BY DEF Structure, CacheTypeOK, Entries
  <2>3. Stale \cup {s} \subseteq Occupied
    BY <2>1, ScanResults
  <2>4. slot' = [Cleared(Stale) EXCEPT ![s] = e]
    BY <1>2 DEF PutReplace
  <2>5. slot' = [Cleared(Stale \cup {s}) EXCEPT ![s] = e]
    BY <2>1, <2>4 DEF Cleared
  <2>6. order' = PushFront(Unlink(order, Stale \cup {s}), s) /\ now' = now
    BY <1>2 DEF PutReplace
  <2>. QED  BY <2>1, <2>2, <2>3, <2>5, <2>6, FillingInOrder
<1>3. ASSUME NEW k \in Keys, NEW c \in Cifs, NEW b \in Blocks \ heap, PutInsert(k, c, b)
      PROVE  UsedInOrder'
  <2>. PICK s, e : s = First(Empty)
                   /\ e = [key |-> k, cif |-> c, args |-> b, used |-> now]
    OBVIOUS
  <2>1. s \in Slots /\ s \notin Occupied \ (Stale \cup Victims)
    BY <1>3, ScanResults, FirstIsMember DEF PutInsert
  <2>2. e \in Entries /\ e.used = now
    BY DEF Structure, CacheTypeOK, Entries
  <2>3. Stale \cup Victims \subseteq Occupied
    BY ScanResults
  <2>4. /\ slot' = [Cleared(Stale \cup Victims) EXCEPT ![s] = e]
        /\ order' = PushFront(Unlink(order, Stale \cup Victims), s) /\ now' = now
    BY <1>3 DEF PutInsert
  <2>. QED  BY <2>1, <2>2, <2>3, <2>4, FillingInOrder
<1>4. ASSUME NEW k, NEW c, NEW b, PutReject(k, c, b) PROVE UsedInOrder'
  BY <1>4, EvictingInOrder DEF PutReject
<1>5. ASSUME NEW k \in Keys, GetMiss(k) PROVE UsedInOrder'
  BY <1>5, EvictingInOrder DEF GetMiss
<1>6. CASE EvictAll
  BY <1>6, EvictingInOrder DEF EvictAll
<1>7. CASE UNCHANGED <<slot, order>> /\ now <= now'
  <2>1. Occupied' = Occupied
    BY <1>7 DEF Occupied
  <2>2. now \in Nat /\ now' \in Nat /\ \A s \in Occupied : slot[s].used \in Nat
    <3>1. CacheTypeOK /\ CacheTypeOK'
      BY StructureNext DEF Structure
    <3>. QED  BY <3>1 DEF CacheTypeOK, Times, Occupied, Entries
  <2>3. \A s \in Occupied : slot[s].used <= now'
    BY <1>7, <2>2 DEF UsedInOrder
  <2>. QED  BY <1>7, <2>1, <2>3 DEF UsedInOrder
<1>8. now <= now
  BY DEF Structure, CacheTypeOK, Times
<1>9. CASE UNCHANGED cacheVars \/ \E c \in Caps \cup {0}, t \in Timeouts \cup {0} : Config(c, t)
  BY <1>7, <1>8, <1>9 DEF Config, cacheVars
<1>10. CASE Tick
  <2>1. now' = now + 1 /\ now \in Nat
    BY <1>10 DEF Tick, Structure, CacheTypeOK, Times
  <2>. QED  BY <1>7, <1>10, <2>1 DEF Tick
<1>. QED
  BY <1>1, <1>2, <1>3, <1>4, <1>5, <1>6, <1>9, <1>10 DEF CacheNext, Put

(* Only a full table has a victim, and then nothing in it is expired. *)
LEMMA VictimMeansFull ==
    ASSUME Settled, Victims # {}
    PROVE  Stale = {} /\ Victims = Oldest(Unlink(order, {}))
<1>1. Stale \subseteq Occupied /\ Occupied \subseteq Slots
  BY ScanResults DEF Settled, Occupied
<1>2. /\ Count(count - Cardinality(Stale)) = Cardinality(Occupied \ Stale)
      /\ Cardinality(Occupied \ Stale) \in Nat
  BY <1>1, CountAfterEvicting
<1>3. Cardinality(Occupied \ Stale) >= AllocCap /\ Victims = Oldest(Unlink(order, Stale))
  BY <1>2 DEF Victims, Settled
<1>4. Stale = {}
  <2>1. /\ IsFiniteSet(Occupied) /\ IsFiniteSet(Stale)
        /\ Cardinality(Occupied) \in Nat /\ Cardinality(Occupied) <= AllocCap
        /\ Cardinality(Stale) \in Nat
    BY <1>1, FiniteSlots
  <2>2. Cardinality(Occupied \ Stale) = Cardinality(Occupied) - Cardinality(Occupied \cap Stale)
    BY <2>1, FS_Difference
  <2>3. Occupied \cap Stale = Stale
    BY <1>1
  <2>4. Cardinality(Stale) = 0
    BY <1>3, <2>1, <2>2, <2>3, AllocCapAssumption
  <2>. QED  BY <2>1, <2>4, FS_EmptySet
<1>. QED  BY <1>3, <1>4

(* What a step drops that was not expired, it drops as the tail. *)
LEMMA DropsTheOldest ==
    ASSUME Caps \subseteq {AllocCap}, Settled, UsedInOrder, [CacheNext]_cacheVars,
           NEW s \in Occupied \ Stale, NEW t \in Occupied, Dropped(s), ~Dropped(t)
    PROVE  slot[s].used <= slot[t].used
<1>1. s \in Slots /\ t \in Slots
  BY DEF Occupied
<1>2. ASSUME slot'[s] = slot[s] PROVE FALSE
  BY <1>2 DEF Dropped, Occupied
<1>3. ~UNCHANGED slot
  BY <1>2
<1>4. ASSUME NEW G, s \notin G, slot' = Cleared(G) PROVE FALSE
  BY <1>1, <1>2, <1>4 DEF Cleared
<1>5. ASSUME NEW u \in Slots, NEW e, e.key = slot[u].key, e \in Entries,
             slot' = [Cleared(Stale) EXCEPT ![u] = e]
      PROVE  FALSE
  <2>1. CASE s = u
    <3>1. slot'[s] = e
      BY <1>1, <1>5, <2>1 DEF Cleared
    <3>. QED  BY <1>5, <2>1, <3>1, NoEntryAssumption DEF Dropped
  <2>2. CASE s # u
    BY <1>1, <1>2, <1>5, <2>2 DEF Cleared
  <2>. QED  BY <2>1, <2>2
<1>6. ASSUME NEW k \in Keys, GetHit(k) \/ GetMiss(k) PROVE FALSE
  <2>1. CASE GetMiss(k)
    BY <1>4, <2>1 DEF GetMiss
  <2>2. CASE GetHit(k)
    <3>. PICK u, e : u = First(Found(k)) /\ e = [slot[u] EXCEPT !.used = now]
      OBVIOUS
    <3>1. u \in Occupied /\ u \in Slots
      BY <2>2, ScanResults, FirstIsMember DEF GetHit, Visible, Settled
    <3>2. e \in Entries /\ e.key = slot[u].key
      BY <3>1 DEF Settled, Structure, CacheTypeOK, Occupied, Entries
    <3>. QED  BY <1>5, <2>2, <3>1, <3>2 DEF GetHit
  <2>. QED  BY <1>6, <2>1, <2>2
<1>7. ASSUME NEW k \in Keys, NEW c \in Cifs, NEW b \in Blocks \ heap, PutReplace(k, c, b)
      PROVE  FALSE
  <2>. PICK u, e : u = First(Found(k))
                   /\ e = [key |-> k, cif |-> c, args |-> b, used |-> now]
    OBVIOUS
  <2>1. u \in Found(k) /\ u \in Slots
    BY <1>7, ScanResults, FirstIsMember DEF PutReplace, Visible, Settled
  <2>2. e \in Entries /\ e.key = slot[u].key
    BY <2>1 DEF Settled, Structure, CacheTypeOK, Entries, Found
  <2>. QED  BY <1>5, <1>7, <2>1, <2>2 DEF PutReplace
<1>8. ASSUME NEW k \in Keys, NEW c \in Cifs, NEW b \in Blocks \ heap, PutInsert(k, c, b)
      PROVE  slot[s].used <= slot[t].used
  <2>. PICK u, e : u = First(Empty)
                   /\ e = [key |-> k, cif |-> c, args |-> b, used |-> now]
    OBVIOUS
  <2>1. u \in Slots /\ u \notin Occupied \ (Stale \cup Victims)
    BY <1>8, ScanResults, FirstIsMember DEF PutInsert, Settled
  <2>2. slot' = [Cleared(Stale \cup Victims) EXCEPT ![u] = e]
    BY <1>8 DEF PutInsert
  <2>3. s \in Victims
    <3>1. s \notin Victims => s # u
      BY <2>1
    <3>2. s \notin Victims => slot'[s] = slot[s]
      BY <1>1, <2>2, <3>1 DEF Cleared
    <3>. QED  BY <1>2, <3>2
  <2>4. Victims = Oldest(Unlink(order, {}))
    BY <2>3, VictimMeansFull
  <2>5. IsListOf(Unlink(order, {}), Occupied)
    <3>1. Occupied \ {} = Occupied
      OBVIOUS
    <3>. QED  BY <3>1, UnlinkList DEF Settled, Structure, ListThreadsEntries
  <2>6. <<t, s>> \in Unlink(order, {})
    BY <2>3, <2>4, <2>5, MembersOfList DEF Oldest
  <2>. QED  BY <2>6 DEF Unlink, UsedInOrder
<1>9. ASSUME NEW k \in Keys, NEW c \in Cifs, NEW b \in Blocks \ heap, PutReject(k, c, b)
      PROVE  FALSE
  BY <1>9, RoomForOne DEF PutReject
<1>10. CASE EvictAll
  <2>1. Visible \cap Occupied = Occupied
    BY AllVisible DEF Occupied
  <2>2. slot' = Cleared(Occupied)
    BY <1>10, <2>1 DEF EvictAll
  <2>3. slot'[t] = NoEntry
    BY <1>1, <2>2 DEF Cleared
  <2>. QED  BY <2>3 DEF Dropped
<1>. QED
  BY <1>3, <1>6, <1>7, <1>8, <1>9, <1>10 DEF CacheNext, Put, Config, Tick, cacheVars

(* While time does not run backwards, the order of the list is the order   *)
(* of last use at every capacity, though evict_lru_one and the walk of     *)
(* evict_expired never compare times (cache.c:60-79).                      *)
THEOREM ListIsInOrderOfUse ==
    ASSUME ~ClockMayStepBack
    PROVE  CacheSpec => []UsedInOrder
<1>1. CacheInit => Structure /\ UsedInOrder
  BY StructureInit DEF CacheInit, UsedInOrder, Occupied
<1>2. Structure /\ UsedInOrder /\ [CacheNext]_cacheVars => (Structure /\ UsedInOrder)'
  BY StructureNext, UsedInOrderNext
<1>. QED  BY <1>1, <1>2, PTL DEF CacheSpec

(* And while the capacity stays the allocated one, an entry that gives way *)
(* before it expires is the one used longest ago (evict_lru_one).          *)
THEOREM OldestGivesWay ==
    ASSUME ~ClockMayStepBack, Caps \subseteq {AllocCap}
    PROVE  CacheSpec => EvictsTheOldest
<1>1. CacheInit => Settled /\ UsedInOrder
  BY SettledInit DEF CacheInit, UsedInOrder, Occupied
<1>2. Settled /\ UsedInOrder /\ [CacheNext]_cacheVars => (Settled /\ UsedInOrder)'
  BY SettledNext, UsedInOrderNext DEF Settled
<1>3. Settled /\ UsedInOrder /\ [CacheNext]_cacheVars =>
          [\A s \in Occupied \ Stale, t \in Occupied :
               Dropped(s) /\ ~Dropped(t) => slot[s].used <= slot[t].used]_cacheVars
  BY DropsTheOldest
<1>. QED  BY <1>1, <1>2, <1>3, PTL DEF CacheSpec, EvictsTheOldest

-----------------------------------------------------------------------------
(* The table of names that the cache is for its caller.                    *)

Distinct(a, S) == \A s, t \in S : a[s].key = a[t].key => s = t

LEMMA NameOrderAt ==
    ASSUME NEW a, NEW S, Distinct(a, S), NEW r, r \subseteq S \X S, NEW s \in S, NEW t \in S
    PROVE  <<a[s].key, a[t].key>> \in NameOrder(a, r) <=> <<s, t>> \in r
<1>1. ASSUME <<s, t>> \in r PROVE <<a[s].key, a[t].key>> \in NameOrder(a, r)
  BY <1>1 DEF NameOrder
<1>2. ASSUME <<a[s].key, a[t].key>> \in NameOrder(a, r) PROVE <<s, t>> \in r
  <2>1. PICK p \in r : <<a[s].key, a[t].key>> = <<a[p[1]].key, a[p[2]].key>>
    BY <1>2 DEF NameOrder
  <2>2. PICK u \in S, v \in S : p = <<u, v>>
    OBVIOUS
  <2>3. u = s /\ v = t
    BY <2>1, <2>2 DEF Distinct
  <2>. QED  BY <2>2, <2>3
<1>. QED  BY <1>1, <1>2

(* The order of the elements R of S is the order of their names among the  *)
(* names of S.                                                             *)
LEMMA NameOrderAmong ==
    ASSUME NEW a, NEW S, Distinct(a, S), NEW R, R \subseteq S, NEW r, r \subseteq S \X S
    PROVE  NameOrder(a, {p \in r : p[1] \in R /\ p[2] \in R})
               = {q \in NameOrder(a, r) : q[1] \in NamesIn(a, R) /\ q[2] \in NamesIn(a, R)}
<1>. DEFINE name(p) == <<a[p[1]].key, a[p[2]].key>>
            N == NamesIn(a, R)
            t == {p \in r : p[1] \in R /\ p[2] \in R}
<1>1. NameOrder(a, r) = {name(p) : p \in r} /\ NameOrder(a, t) = {name(p) : p \in t}
  BY DEF NameOrder
<1>2. ASSUME NEW s \in S PROVE (a[s].key \in N) <=> (s \in R)
  BY DEF NamesIn, Distinct
<1>3. ASSUME NEW p \in r
      PROVE  (p \in t) <=> (name(p)[1] \in N /\ name(p)[2] \in N)
  <2>1. p[1] \in S /\ p[2] \in S
    OBVIOUS
  <2>2. name(p)[1] = a[p[1]].key /\ name(p)[2] = a[p[2]].key
    OBVIOUS
  <2>. HIDE DEF name, N
  <2>. QED  BY <1>2, <2>1, <2>2
<1>4. t \subseteq r
  OBVIOUS
<1>. HIDE DEF name, N, t
<1>5. {name(p) : p \in t} = {q \in {name(p) : p \in r} : q[1] \in N /\ q[2] \in N}
  BY <1>3, <1>4
<1>. QED  BY <1>1, <1>5 DEF N, t

LEMMA SameOrder ==
    ASSUME NEW a, NEW b, NEW r, \A p \in r : a[p[1]] = b[p[1]] /\ a[p[2]] = b[p[2]]
    PROVE  NameOrder(a, r) = NameOrder(b, r)
BY DEF NameOrder

LEMMA NameTableAt ==
    ASSUME NEW a, NEW S, Distinct(a, S)
    PROVE  /\ DOMAIN NameTable(a, S) = NamesIn(a, S)
           /\ \A s \in S : /\ a[s].key \in NamesIn(a, S)
                           /\ NameTable(a, S)[a[s].key] = [cif |-> a[s].cif, used |-> a[s].used]
<1>1. ASSUME NEW s \in S PROVE (CHOOSE t \in S : a[t].key = a[s].key) = s
  BY DEF Distinct
<1>2. ASSUME NEW s \in S PROVE a[s].key \in NamesIn(a, S)
  BY DEF NamesIn
<1>. QED  BY <1>1, <1>2 DEF NameTable

LEMMA NamesAreAsMany ==
    ASSUME NEW a, NEW S, IsFiniteSet(S), Distinct(a, S)
    PROVE  IsFiniteSet(NamesIn(a, S)) /\ Cardinality(NamesIn(a, S)) = Cardinality(S)
<1>. DEFINE f == [s \in S |-> a[s].key]
<1>1. f \in Bijection(S, NamesIn(a, S))
  BY DEF Bijection, Injection, Surjection, IsInjective, NamesIn, Distinct
<1>2. ExistsBijection(S, NamesIn(a, S))
  BY <1>1 DEF ExistsBijection
<1>. QED  BY <1>2, FS_Bijection

(* Two subsets of S name the same names only if they are the same. *)
LEMMA NamesWithout ==
    ASSUME NEW a, NEW S, Distinct(a, S), NEW T \in SUBSET S, NEW s \in S
    PROVE  /\ a[s].key \in NamesIn(a, T) <=> s \in T
           /\ NamesIn(a, T \ {s}) = NamesIn(a, T) \ {a[s].key}
<1>1. a[s].key \in NamesIn(a, T) <=> s \in T
  BY DEF NamesIn, Distinct
<1>2. NamesIn(a, T \ {s}) = NamesIn(a, T) \ {a[s].key}
  BY DEF NamesIn, Distinct
<1>. QED  BY <1>1, <1>2

LEMMA SettledNames ==
    ASSUME Settled
    PROVE  /\ Distinct(slot, Occupied)
           /\ order \subseteq Occupied \X Occupied
           /\ LRU!Live = NamesIn(slot, Occupied \ Stale)
<1>1. Distinct(slot, Occupied)
  BY DEF Settled, UniqueKeys, Distinct
<1>2. order \subseteq Occupied \X Occupied
  BY DEF Settled, Structure, ListThreadsEntries, IsListOf
<1>3. ASSUME NEW s \in Occupied
      PROVE  NameTable(slot, Occupied)[slot[s].key].used = slot[s].used
  <2>1. NameTable(slot, Occupied)[slot[s].key] = [cif |-> slot[s].cif, used |-> slot[s].used]
    BY <1>1, NameTableAt
  <2>. QED  BY <2>1
<1>4. Members(order) = Occupied
  BY ScanResults DEF Settled
<1>5. \A s \in Occupied : s \notin Stale <=> now - slot[s].used <= timeout
  <2>1. ASSUME NEW s \in Occupied PROVE slot[s].used \in Int
    BY DEF Settled, Structure, CacheTypeOK, Occupied, Entries, Times
  <2>2. now \in Int /\ timeout \in Int
    BY TimeoutsAssumption DEF Settled, Structure, CacheTypeOK, Times
  <2>. QED  BY <1>4, <2>1, <2>2 DEF Stale
<1>6. LRU!Live = {k \in NamesIn(slot, Occupied) :
                     now - NameTable(slot, Occupied)[k].used <= timeout}
  BY <1>1, NameTableAt DEF LRU!Live
<1>7. {k \in NamesIn(slot, Occupied) : now - NameTable(slot, Occupied)[k].used <= timeout}
          = NamesIn(slot, Occupied \ Stale)
  BY <1>3, <1>5 DEF NamesIn
<1>. QED  BY <1>1, <1>2, <1>6, <1>7

(* Evicting G keeps the names of the other entries. *)
LEMMA EvictingNames ==
    ASSUME Settled, NEW G, G \subseteq Occupied,
           slot' = Cleared(G), order' = Unlink(order, G), UNCHANGED <<timeout, now>>
    PROVE  LRU!Keep(NamesIn(slot, Occupied \ G))
<1>. DEFINE R == Occupied \ G
            N == NamesIn(slot, R)
<1>1. Occupied' = R /\ \A s \in R : slot'[s] = slot[s]
  BY DEF Cleared, Occupied
<1>2. Distinct(slot, Occupied) /\ order \subseteq Occupied \X Occupied
  BY SettledNames
<1>3. Distinct(slot', R) /\ NamesIn(slot', R) = N /\ Distinct(slot, R)
  BY <1>1, <1>2 DEF Distinct, NamesIn
<1>4. NameTable(slot', R) = [j \in N |-> NameTable(slot, Occupied)[j]]
  <2>1. ASSUME NEW s \in R
        PROVE  NameTable(slot', R)[slot[s].key] = NameTable(slot, Occupied)[slot[s].key]
    <3>1. NameTable(slot', R)[slot'[s].key] = [cif |-> slot'[s].cif, used |-> slot'[s].used]
      BY <1>3, NameTableAt
    <3>2. NameTable(slot, Occupied)[slot[s].key] = [cif |-> slot[s].cif, used |-> slot[s].used]
      BY <1>2, NameTableAt
    <3>. QED  BY <1>1, <3>1, <3>2
  <2>2. DOMAIN NameTable(slot', R) = N
    BY <1>3, NameTableAt
  <2>3. \A j \in N : NameTable(slot', R)[j] = NameTable(slot, Occupied)[j]
    BY <2>1 DEF NamesIn
  <2>4. NameTable(slot', R) = [j \in DOMAIN NameTable(slot', R) |-> NameTable(slot', R)[j]]
    BY DEF NameTable
  <2>. QED  BY <2>2, <2>3, <2>4
<1>5. NameOrder(slot', order') = {p \in NameOrder(slot, order) : p[1] \in N /\ p[2] \in N}
  <2>1. order' = {p \in order : p[1] \in R /\ p[2] \in R}
    BY <1>2 DEF Unlink
  <2>2. NameOrder(slot', order') = NameOrder(slot, order')
    BY <1>1, <2>1, SameOrder
  <2>3. R \subseteq Occupied
    OBVIOUS
  <2>. HIDE DEF R
  <2>4. NameOrder(slot, {p \in order : p[1] \in R /\ p[2] \in R})
            = {p \in NameOrder(slot, order) : p[1] \in N /\ p[2] \in N}
    BY <1>2, <2>3, NameOrderAmong
  <2>. QED  BY <2>1, <2>2, <2>4
<1>6. NameOrder(slot, order)' = NameOrder(slot', order')
      /\ NameTable(slot, Occupied)' = NameTable(slot', R)
  BY <1>1 DEF NameOrder, NameTable, NamesIn
<1>. QED  BY <1>4, <1>5, <1>6 DEF LRU!Keep, LRU!Among

(* Array b has e in element s, and agrees with a on the elements R, none   *)
(* of which has e's name.                                                  *)
Filled(a, b, R, s, e) ==
    /\ Distinct(a, R) /\ s \notin R
    /\ b[s] = e
    /\ \A t \in R : b[t] = a[t] /\ a[t].key # e.key

LEMMA NamesAfterFilling ==
    ASSUME NEW a, NEW b, NEW R, NEW s, NEW e, Filled(a, b, R, s, e)
    PROVE  /\ Distinct(b, R \cup {s})
           /\ NamesIn(b, R \cup {s}) = NamesIn(a, R) \cup {e.key}
BY DEF Filled, Distinct, NamesIn

LEMMA NewestAfterFilling ==
    ASSUME NEW a, NEW b, NEW R, NEW s, NEW e, Filled(a, b, R, s, e)
    PROVE  NameTable(b, R \cup {s})[e.key] = [cif |-> e.cif, used |-> e.used]
<1>. DEFINE O == R \cup {s}
<1>1. Distinct(b, O)
  BY NamesAfterFilling
<1>2. s \in O /\ b[s] = e
  BY DEF Filled
<1>. HIDE DEF O
<1>3. NameTable(b, O)[b[s].key] = [cif |-> b[s].cif, used |-> b[s].used]
  BY <1>1, <1>2, NameTableAt
<1>. QED  BY <1>2, <1>3 DEF O

LEMMA OthersAfterFilling ==
    ASSUME NEW a, NEW b, NEW R, NEW s, NEW e, Filled(a, b, R, s, e),
           NEW S, Distinct(a, S), R \subseteq S, NEW j \in NamesIn(a, R)
    PROVE  j # e.key /\ NameTable(b, R \cup {s})[j] = NameTable(a, S)[j]
<1>. DEFINE O == R \cup {s}
<1>1. PICK t \in R : j = a[t].key
  BY DEF NamesIn
<1>2. t \in O /\ t \in S /\ b[t] = a[t] /\ a[t].key # e.key
  BY DEF Filled
<1>3. Distinct(b, O)
  BY NamesAfterFilling
<1>. HIDE DEF O
<1>4. NameTable(b, O)[b[t].key] = [cif |-> b[t].cif, used |-> b[t].used]
  BY <1>2, <1>3, NameTableAt
<1>5. NameTable(a, S)[a[t].key] = [cif |-> a[t].cif, used |-> a[t].used]
  BY <1>2, <1>3, NameTableAt
<1>. QED  BY <1>1, <1>2, <1>4, <1>5 DEF O

LEMMA OrderAfterFilling ==
    ASSUME NEW a, NEW b, NEW R, NEW s, NEW e, Filled(a, b, R, s, e),
           NEW S, Distinct(a, S), R \subseteq S, NEW r, r \subseteq S \X S
    PROVE  NameOrder(b, {p \in r : p[1] \in R /\ p[2] \in R} \cup {<<s, t>> : t \in R \cup {s}})
               = {p \in NameOrder(a, r) : p[1] \in NamesIn(a, R) /\ p[2] \in NamesIn(a, R)}
                     \cup {<<e.key, j>> : j \in NamesIn(a, R) \cup {e.key}}
<1>. DEFINE O == R \cup {s}
            N == NamesIn(a, R)
            q == {p \in r : p[1] \in R /\ p[2] \in R}
<1>1. NameOrder(b, q) = NameOrder(a, q)
  <2>1. \A p \in q : b[p[1]] = a[p[1]] /\ b[p[2]] = a[p[2]]
    BY DEF Filled
  <2>. HIDE DEF q
  <2>. QED  BY <2>1, SameOrder
<1>2. NameOrder(a, q) = {p \in NameOrder(a, r) : p[1] \in N /\ p[2] \in N}
  BY NameOrderAmong
<1>3. Distinct(b, O) /\ NamesIn(b, O) = N \cup {e.key}
  BY NamesAfterFilling
<1>. b[s] = e
  BY DEF Filled
<1>. HIDE DEF O, N, q
<1>4. NameOrder(b, q \cup {<<s, t>> : t \in O}) = NameOrder(b, q) \cup {<<b[s].key, b[t].key>> : t \in O}
  <2>. DEFINE name(p) == <<b[p[1]].key, b[p[2]].key>>
  <2>1. {name(p) : p \in q \cup {<<s, t>> : t \in O}}
            = {name(p) : p \in q} \cup {name(<<s, t>>) : t \in O}
    <3>. HIDE DEF name
    <3>. QED  OBVIOUS
  <2>2. \A t \in O : name(<<s, t>>) = <<b[s].key, b[t].key>>
    OBVIOUS
  <2>. QED  BY <2>1, <2>2 DEF NameOrder
<1>5. {<<b[s].key, b[t].key>> : t \in O} = {<<b[s].key, j>> : j \in NamesIn(b, O)}
  BY DEF NamesIn
<1>6. NameOrder(b, q \cup {<<s, t>> : t \in O})
          = {p \in NameOrder(a, r) : p[1] \in N /\ p[2] \in N} \cup {<<e.key, j>> : j \in N \cup {e.key}}
  BY <1>1, <1>2, <1>3, <1>4, <1>5
<1>. QED  BY <1>6 DEF O, N, q

LEMMA FilledIsUsed ==
    ASSUME NEW R, NEW s, NEW e, Filled(slot, slot', R, s, e),
           Distinct(slot, Occupied), R \subseteq Occupied, Occupied' = R \cup {s},
           order \subseteq Occupied \X Occupied,
           order' = {p \in order : p[1] \in R /\ p[2] \in R} \cup {<<s, t>> : t \in R \cup {s}},
           e.used = now, UNCHANGED <<timeout, now>>
    PROVE  LRU!Use(e.key, e.cif, NamesIn(slot, R))
<1>. DEFINE T == NameTable(slot', R \cup {s})
            N == NamesIn(slot, R)
<1>1. T = [j \in N \cup {e.key} |-> IF j = e.key THEN [cif |-> e.cif, used |-> e.used]
                                                 ELSE NameTable(slot, Occupied)[j]]
  <2>1. Distinct(slot', R \cup {s}) /\ NamesIn(slot', R \cup {s}) = N \cup {e.key}
    BY DEF Filled, Distinct, NamesIn
  <2>2. DOMAIN T = N \cup {e.key}
    BY <2>1, NameTableAt
  <2>3. T[e.key] = [cif |-> e.cif, used |-> e.used]
    BY NewestAfterFilling
  <2>4. ASSUME NEW j \in N PROVE j # e.key /\ T[j] = NameTable(slot, Occupied)[j]
    BY OthersAfterFilling
  <2>5. T = [j \in DOMAIN T |-> T[j]]
    BY DEF NameTable
  <2>. HIDE DEF T, N
  <2>. QED  BY <2>2, <2>3, <2>4, <2>5
<1>2. NameOrder(slot', {p \in order : p[1] \in R /\ p[2] \in R} \cup {<<s, t>> : t \in R \cup {s}})
          = {p \in NameOrder(slot, order) : p[1] \in N /\ p[2] \in N}
                \cup {<<e.key, j>> : j \in N \cup {e.key}}
  BY OrderAfterFilling
<1>3. NameOrder(slot, order)' = NameOrder(slot', order')
      /\ NameTable(slot, Occupied)' = T
  BY DEF NameOrder, NameTable, NamesIn
<1>. QED  BY <1>1, <1>2, <1>3 DEF LRU!Use, LRU!Among

(* Filling element s with an entry e used now, after evicting G, makes e's *)
(* name the one used last, and keeps the names of the other entries.       *)
LEMMA FillingNames ==
    ASSUME Settled, NEW G, G \subseteq Occupied,
           NEW s \in Slots, s \notin Occupied \ G,
           NEW e, e \in Entries, e.used = now,
           \A t \in Occupied \ G : slot[t].key # e.key,
           slot' = [Cleared(G) EXCEPT ![s] = e],
           order' = PushFront(Unlink(order, G), s), UNCHANGED <<timeout, now>>
    PROVE  LRU!Use(e.key, e.cif, NamesIn(slot, Occupied \ G))
<1>. PICK R : R = Occupied \ G
  OBVIOUS
<1>1. Occupied' = R \cup {s}
  BY NoEntryAssumption DEF Cleared, Occupied
<1>2. Distinct(slot, Occupied) /\ order \subseteq Occupied \X Occupied
  BY SettledNames
<1>3. R \subseteq Occupied /\ Filled(slot, slot', R, s, e)
  BY <1>2 DEF Filled, Distinct, Cleared, Occupied
<1>4. order' = {p \in order : p[1] \in R /\ p[2] \in R} \cup {<<s, t>> : t \in R \cup {s}}
  <2>1. Members(Unlink(order, G)) = R
    BY UnlinkList, MembersOfList DEF Settled, Structure, ListThreadsEntries
  <2>2. Unlink(order, G) = {p \in order : p[1] \in R /\ p[2] \in R}
    BY <1>2 DEF Unlink
  <2>. QED  BY <2>1, <2>2 DEF PushFront
<1>. QED  BY <1>1, <1>2, <1>3, <1>4, FilledIsUsed

LEMMA GetHitNames ==
    ASSUME Settled, NEW k \in Keys, GetHit(k)
    PROVE  LRU!Hit(k)
<1>. PICK s, e : s = First(Found(k)) /\ e = [slot[s] EXCEPT !.used = now]
  OBVIOUS
<1>1. s \in Occupied \ Stale /\ s \in Slots /\ slot[s].key = k
  <2>1. s \in Found(k)
    BY ScanResults, FirstIsMember DEF GetHit, Visible, Settled
  <2>. QED  BY <2>1 DEF Found, Visible
<1>2. e \in Entries /\ e.used = now /\ e.key = k /\ e.cif = slot[s].cif
  BY <1>1 DEF Settled, Structure, CacheTypeOK, Occupied, Entries
<1>. PICK G : G = Stale \cup {s}
  OBVIOUS
<1>3. G \subseteq Occupied /\ s \notin Occupied \ G
  BY <1>1, ScanResults DEF Settled
<1>4. /\ slot' = [Cleared(G) EXCEPT ![s] = e]
      /\ order' = PushFront(Unlink(order, G), s)
      /\ UNCHANGED <<timeout, now>>
  BY <1>1 DEF GetHit, Cleared
<1>5. Distinct(slot, Occupied) /\ LRU!Live = NamesIn(slot, Occupied \ Stale)
  BY SettledNames
<1>6. \A t \in Occupied \ G : slot[t].key # e.key
  BY <1>1, <1>2, <1>5 DEF Distinct
<1>7. LRU!Use(e.key, e.cif, NamesIn(slot, Occupied \ G))
  BY <1>1, <1>2, <1>3, <1>4, <1>6, FillingNames
<1>8. k \in LRU!Live
  BY <1>1, <1>5 DEF NamesIn
<1>9. NamesIn(slot, Occupied \ G) = LRU!Live \ {k}
  BY <1>1, <1>2, <1>5, <1>6 DEF NamesIn
<1>10. NameTable(slot, Occupied)[slot[s].key] = [cif |-> slot[s].cif, used |-> slot[s].used]
  BY <1>1, <1>5, NameTableAt
<1>11. NameTable(slot, Occupied)[k].cif = e.cif
  BY <1>1, <1>2, <1>10
<1>. QED  BY <1>2, <1>7, <1>8, <1>9, <1>11 DEF LRU!Hit

LEMMA GetMissNames ==
    ASSUME Settled, NEW k \in Keys, GetMiss(k)
    PROVE  LRU!Miss(k)
<1>1. LRU!Live = NamesIn(slot, Occupied \ Stale)
  BY SettledNames
<1>2. k \notin LRU!Live
  BY <1>1, NotFoundIsAbsent DEF GetMiss, NamesIn
<1>3. LRU!Keep(NamesIn(slot, Occupied \ Stale))
  BY ScanResults, EvictingNames DEF GetMiss, Settled
<1>. QED  BY <1>1, <1>2, <1>3 DEF LRU!Miss

(* How many of the names of X were used after that of t, counting itself.  *)
LEMMA NamesAhead ==
    ASSUME Settled, NEW X, X \subseteq Occupied, NEW t \in X
    PROVE  Cardinality({i \in NamesIn(slot, X) : <<i, slot[t].key>> \in NameOrder(slot, order)})
               = Cardinality({u \in X : <<u, t>> \in order})
<1>. PICK A : A = {u \in X : <<u, t>> \in order}
  OBVIOUS
<1>1. Distinct(slot, Occupied) /\ order \subseteq Occupied \X Occupied
  BY SettledNames
<1>2. ASSUME NEW u \in X
      PROVE  (<<slot[u].key, slot[t].key>> \in NameOrder(slot, order)) <=> u \in A
  <2>1. u \in Occupied /\ t \in Occupied
    OBVIOUS
  <2>. QED  BY <1>1, <2>1, NameOrderAt
<1>3. {i \in NamesIn(slot, X) : <<i, slot[t].key>> \in NameOrder(slot, order)} = NamesIn(slot, A)
  BY <1>2 DEF NamesIn
<1>4. IsFiniteSet(A) /\ Distinct(slot, A)
  <2>1. A \subseteq Occupied /\ A \subseteq Slots
    BY DEF Occupied
  <2>. QED  BY <1>1, <2>1, FiniteSlots DEF Distinct
<1>. QED  BY <1>3, <1>4, NamesAreAsMany

(* X are the live elements with another name than k, and V those of them   *)
(* that have the allocated number of elements ahead, counting themselves.  *)
OthersAndLast(k, X, V) ==
    /\ X \subseteq Occupied
    /\ LRU!Live \ {k} = NamesIn(slot, X)
    /\ \A t \in X : Cardinality({u \in X : <<u, t>> \in order}) < AllocCap <=> t \notin V

LEMMA StoreNames ==
    ASSUME Settled, NEW k, NEW c, NEW X, NEW V, OthersAndLast(k, X, V),
           LRU!Use(k, c, NamesIn(slot, X \ V))
    PROVE  LRU!Store(k, c)
<1>. DEFINE N == LRU!Live \ {k}
            Ahead(j) == {i \in N : <<i, j>> \in NameOrder(slot, order)}
            Kept == {j \in N : Cardinality(Ahead(j)) < AllocCap}
<1>1. X \subseteq Occupied /\ N = NamesIn(slot, X) /\ Distinct(slot, X)
  BY SettledNames DEF OthersAndLast, Distinct
<1>2. ASSUME NEW t \in X PROVE Cardinality(Ahead(slot[t].key)) < AllocCap <=> t \notin V
  <2>1. Cardinality({i \in NamesIn(slot, X) : <<i, slot[t].key>> \in NameOrder(slot, order)})
            = Cardinality({u \in X : <<u, t>> \in order})
    BY <1>1, NamesAhead
  <2>2. Cardinality({u \in X : <<u, t>> \in order}) < AllocCap <=> t \notin V
    BY DEF OthersAndLast
  <2>3. Ahead(slot[t].key)
            = {i \in NamesIn(slot, X) : <<i, slot[t].key>> \in NameOrder(slot, order)}
    BY <1>1
  <2>. QED  BY <2>1, <2>2, <2>3
<1>3. LRU!Use(k, c, Kept) => LRU!Store(k, c)
  BY DEF LRU!Store, LRU!Cardinality, Cardinality
<1>. HIDE DEF Ahead, N
<1>4. Kept = NamesIn(slot, X \ V)
  BY <1>1, <1>2 DEF NamesIn, Distinct
<1>. QED  BY <1>3, <1>4

LEMMA PutReplaceNames ==
    ASSUME Settled, NEW k \in Keys, NEW c \in Cifs, NEW b \in Blocks, PutReplace(k, c, b)
    PROVE  LRU!Store(k, c)
<1>. PICK s, e : s = First(Found(k)) /\ e = [key |-> k, cif |-> c, args |-> b, used |-> now]
  OBVIOUS
<1>1. s \in Occupied \ Stale /\ s \in Slots /\ slot[s].key = k
  <2>1. s \in Found(k)
    BY ScanResults, FirstIsMember DEF PutReplace, Visible, Settled
  <2>. QED  BY <2>1 DEF Found, Visible
<1>2. e \in Entries /\ e.used = now /\ e.key = k /\ e.cif = c
  BY DEF Settled, Structure, CacheTypeOK, Entries
<1>. PICK G, X : G = Stale \cup {s} /\ X = Occupied \ G
  OBVIOUS
<1>3. G \subseteq Occupied /\ s \notin Occupied \ G
  BY <1>1, ScanResults DEF Settled
<1>4. /\ slot' = [Cleared(G) EXCEPT ![s] = e]
      /\ order' = PushFront(Unlink(order, G), s)
      /\ UNCHANGED <<timeout, now>>
  BY <1>1 DEF PutReplace, Cleared
<1>5. Distinct(slot, Occupied) /\ LRU!Live = NamesIn(slot, Occupied \ Stale)
  BY SettledNames
<1>6. \A t \in X : slot[t].key # k
  BY <1>1, <1>5 DEF Distinct
<1>7. LRU!Use(k, c, NamesIn(slot, X))
  <2>1. \A t \in Occupied \ G : slot[t].key # e.key
    BY <1>2, <1>6
  <2>2. LRU!Use(e.key, e.cif, NamesIn(slot, Occupied \ G))
    BY <1>1, <1>2, <1>3, <1>4, <2>1, FillingNames
  <2>. QED  BY <1>2, <2>2
<1>8. LRU!Live \ {k} = NamesIn(slot, X)
  BY <1>1, <1>5, <1>6 DEF NamesIn
<1>9. ASSUME NEW t \in X PROVE Cardinality({u \in X : <<u, t>> \in order}) < AllocCap
  <2>. PICK A : A = {u \in X : <<u, t>> \in order}
    OBVIOUS
  <2>1. A \cup {s} \subseteq Slots /\ s \notin A /\ A \subseteq Slots
    BY <1>1 DEF Occupied
  <2>2. IsFiniteSet(A) /\ Cardinality(A \cup {s}) = Cardinality(A) + 1
    BY <2>1, FiniteSlots, FS_AddElement
  <2>3. Cardinality(A \cup {s}) <= AllocCap /\ Cardinality(A) \in Nat
    BY <2>1, FiniteSlots
  <2>. QED  BY <2>2, <2>3, AllocCapAssumption
<1>10. LRU!Use(k, c, NamesIn(slot, X \ {})) /\ X \subseteq Occupied
  <2>1. X \ {} = X
    OBVIOUS
  <2>. QED  BY <1>7, <2>1
<1>11. OthersAndLast(k, X, {})
  BY <1>8, <1>9, <1>10 DEF OthersAndLast
<1>. QED  BY <1>10, <1>11, StoreNames

(* The victim is the entry that has the allocated number of entries ahead. *)
LEMMA VictimIsLast ==
    ASSUME Settled, NEW t \in Occupied \ Stale
    PROVE  Cardinality({u \in Occupied \ Stale : <<u, t>> \in order}) < AllocCap <=> t \notin Victims
<1>. PICK X, A : X = Occupied \ Stale /\ A = {u \in X : <<u, t>> \in order}
  OBVIOUS
<1>1. /\ X \subseteq Slots /\ A \subseteq Slots /\ A \subseteq X
      /\ IsFiniteSet(X) /\ IsFiniteSet(A)
      /\ Cardinality(X) \in Nat /\ Cardinality(X) <= AllocCap
      /\ Cardinality(A) \in Nat /\ Cardinality(A) <= Cardinality(X)
  <2>1. X \subseteq Slots /\ A \subseteq X
    BY DEF Occupied
  <2>. QED  BY <2>1, FiniteSlots, FS_Subset
<1>2. Count(count - Cardinality(Stale)) = Cardinality(X)
  BY ScanResults, CountAfterEvicting DEF Settled
<1>. PICK r : r = Unlink(order, Stale)
  OBVIOUS
<1>3. IsListOf(r, X)
  BY UnlinkList DEF Settled, Structure, ListThreadsEntries
<1>4. \A a, b \in X : <<a, b>> \in r <=> <<a, b>> \in order
  BY DEF Unlink
<1>5. t \in Oldest(r) <=> A = X
  BY <1>3, <1>4, MembersOfList DEF Oldest
<1>6. CASE Cardinality(X) < AllocCap
  <2>1. Victims = {}
    BY <1>1, <1>2, <1>6, AllocCapAssumption DEF Victims, Settled
  <2>. QED  BY <1>1, <1>6, <2>1, AllocCapAssumption
<1>7. CASE ~(Cardinality(X) < AllocCap)
  <2>1. Victims = Oldest(r)
    BY <1>1, <1>2, <1>7, AllocCapAssumption DEF Victims, Settled
  <2>2. A # X => Cardinality(A) # Cardinality(X)
    BY <1>1, FS_Subset
  <2>3. CASE A = X
    BY <1>5, <1>7, <2>1, <2>3
  <2>4. CASE A # X
    <3>1. Cardinality(A) < AllocCap
      BY <1>1, <2>2, <2>4, AllocCapAssumption
    <3>. QED  BY <1>5, <2>1, <2>4, <3>1
  <2>. QED  BY <2>3, <2>4
<1>. QED  BY <1>6, <1>7

LEMMA PutInsertNames ==
    ASSUME Settled, NEW k \in Keys, NEW c \in Cifs, NEW b \in Blocks, PutInsert(k, c, b)
    PROVE  LRU!Store(k, c)
<1>. PICK s, e : s = First(Empty) /\ e = [key |-> k, cif |-> c, args |-> b, used |-> now]
  OBVIOUS
<1>. PICK G, X : G = Stale \cup Victims /\ X = Occupied \ Stale
  OBVIOUS
<1>1. s \in Slots /\ s \notin Occupied \ G
  BY ScanResults, FirstIsMember DEF PutInsert, Settled
<1>2. e \in Entries /\ e.used = now /\ e.key = k /\ e.cif = c
  BY DEF Settled, Structure, CacheTypeOK, Entries
<1>3. G \subseteq Occupied /\ X \subseteq Occupied /\ Occupied \ G = X \ Victims
  BY ScanResults DEF Settled
<1>4. /\ slot' = [Cleared(G) EXCEPT ![s] = e]
      /\ order' = PushFront(Unlink(order, G), s)
      /\ UNCHANGED <<timeout, now>>
  BY DEF PutInsert
<1>5. LRU!Live = NamesIn(slot, X)
  BY SettledNames
<1>6. \A t \in X : slot[t].key # k
  BY NotFoundIsAbsent DEF PutInsert
<1>7. LRU!Use(k, c, NamesIn(slot, X \ Victims))
  <2>1. \A t \in Occupied \ G : slot[t].key # e.key
    BY <1>2, <1>3, <1>6
  <2>2. LRU!Use(e.key, e.cif, NamesIn(slot, Occupied \ G))
    BY <1>1, <1>2, <1>3, <1>4, <2>1, FillingNames
  <2>. QED  BY <1>2, <1>3, <2>2
<1>8. LRU!Live \ {k} = NamesIn(slot, X)
  BY <1>5, <1>6 DEF NamesIn
<1>9. \A t \in X : Cardinality({u \in X : <<u, t>> \in order}) < AllocCap <=> t \notin Victims
  BY VictimIsLast
<1>10. OthersAndLast(k, X, Victims)
  BY <1>3, <1>8, <1>9 DEF OthersAndLast
<1>. QED  BY <1>7, <1>10, StoreNames

LEMMA SameNames ==
    ASSUME UNCHANGED <<slot, order>>
    PROVE  UNCHANGED <<NameOrder(slot, order), NameTable(slot, Occupied)>>
<1>1. Occupied' = Occupied
  BY DEF Occupied
<1>. QED  BY <1>1 DEF NameOrder, NameTable, NamesIn

LEMMA InitNames == CacheInit => LRU!Init
<1>. SUFFICES ASSUME CacheInit PROVE LRU!Init
  OBVIOUS
<1>1. Occupied = {} /\ order = {}
  BY DEF CacheInit, Occupied
<1>2. NameOrder(slot, order) = {}
  BY <1>1 DEF NameOrder
<1>3. NameTable(slot, Occupied) = [k \in {} |-> {}]
  <2>1. NamesIn(slot, Occupied) = {}
    BY <1>1 DEF NamesIn
  <2>. QED  BY <2>1 DEF NameTable
<1>. QED  BY <1>2, <1>3 DEF LRU!Init, CacheInit

(* Every step of the cache is a step of the table of names, or none. *)
LEMMA NextNames ==
    ASSUME Settled, [CacheNext]_cacheVars
    PROVE  [LRU!Next]_(LRU!vars)
<1>1. ASSUME NEW k \in Keys, GetHit(k) \/ GetMiss(k) PROVE LRU!Next
  BY <1>1, GetHitNames, GetMissNames DEF LRU!Next
<1>2. ASSUME NEW k \in Keys, NEW c \in Cifs, NEW b \in Blocks \ heap, Put(k, c, b)
      PROVE  LRU!Next
  <2>1. ~PutReject(k, c, b)
    BY RoomForOne DEF PutReject
  <2>2. LRU!Store(k, c)
    BY <1>2, <2>1, PutReplaceNames, PutInsertNames DEF Put
  <2>. QED  BY <2>2 DEF LRU!Next
<1>3. CASE EvictAll
  <2>. PICK G : G = Occupied
    OBVIOUS
  <2>1. Visible \cap Occupied = G
    BY AllVisible DEF Occupied
  <2>2. LRU!Keep(NamesIn(slot, Occupied \ G))
    BY <1>3, <2>1, EvictingNames DEF EvictAll
  <2>3. NamesIn(slot, Occupied \ G) = {}
    BY DEF NamesIn
  <2>. QED  BY <2>2, <2>3 DEF LRU!Forget, LRU!Next
<1>4. ASSUME NEW c \in Caps \cup {0}, NEW t \in Timeouts \cup {0}, Config(c, t)
      PROVE  [LRU!Next]_(LRU!vars)
  <2>1. UNCHANGED <<NameOrder(slot, order), NameTable(slot, Occupied), now>>
    BY <1>4, SameNames DEF Config
  <2>2. CASE t = 0
    BY <1>4, <2>1, <2>2 DEF Config, LRU!vars
  <2>3. CASE t \in Timeouts
    <3>1. timeout' = t
      BY <1>4, <2>3, TimeoutsAssumption DEF Config
    <3>2. LRU!SetTimeout(t)
      BY <2>1, <3>1 DEF LRU!SetTimeout
    <3>. QED  BY <2>3, <3>2 DEF LRU!Next
  <2>. QED  BY <2>2, <2>3
<1>5. CASE Tick
  BY <1>5, SameNames DEF Tick, Times, LRU!Tick, LRU!Next
<1>6. CASE UNCHANGED cacheVars
  BY <1>6, SameNames DEF cacheVars, LRU!vars
<1>. QED  BY <1>1, <1>2, <1>3, <1>4, <1>5, <1>6 DEF CacheNext

(* The call cache is the table of names of LruSpec: whatever the array,    *)
(* the list and the counter do, a lookup returns what was last stored      *)
(* under the name and only that, and what a full table forgets is the name *)
(* used longest ago (cinpy_cache_get, cinpy_cache_put, evict_lru_one,      *)
(* evict_expired, cinpy_cache_evict_all).                                  *)
THEOREM CacheImplementsLru ==
    ASSUME Caps \subseteq {AllocCap}
    PROVE  CacheSpec => ImplementsLru
<1>1. CacheInit => Settled /\ LRU!Init
  BY SettledInit, InitNames
<1>2. Settled /\ [CacheNext]_cacheVars => Settled'
  BY SettledNext
<1>3. Settled /\ [CacheNext]_cacheVars => [LRU!Next]_(LRU!vars)
  BY NextNames
<1>. QED  BY <1>1, <1>2, <1>3, PTL DEF CacheSpec, ImplementsLru, LRU!Spec
=============================================================================
