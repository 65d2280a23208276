------------------------------- MODULE Cache -------------------------------
(***************************************************************************)
(* The call cache of src/src/cache.c: an array of entries, one per C       *)
(* function name, holding the resolved address, the prepared ffi_cif and   *)
(* the heap vector of argument types the cif points into.  Entries expire  *)
(* g_timeout seconds after their last use; when the cache is full the      *)
(* least recently used entry gives way.                                    *)
(*                                                                         *)
(* Every function of cache.c runs under the GIL and calls no Python code,  *)
(* so each is one atomic action.  The LRU list is the order of module      *)
(* Recency; module LruList has its pointers.                               *)
(***************************************************************************)
EXTENDS Integers, FiniteSets, Recency

CONSTANTS
    Keys,        \* names of C functions
    Cifs,        \* what a call needs: the function pointer and the ffi_cif
    Blocks,      \* addresses malloc may give an arg_types vector
    AllocCap,    \* entries calloc'ed by cinpy_cache_init (DEFAULT_CAP)
    Caps,        \* the capacities cinpy_cache_config is asked for
    Timeouts,    \* the timeouts cinpy_cache_config is asked for
    InitTimeout, \* DEFAULT_TIMEOUT
    SizeMod,     \* size_t arithmetic is modulo SizeMod
    MaxTime,     \* bound on the clock
    ClockMayStepBack, \* time(NULL) is wall-clock time: it may be set back
    NoEntry      \* an array element whose key is NULL

ASSUME AllocCapAssumption == AllocCap \in Nat \ {0}
ASSUME CapsAssumption == Caps \subseteq Nat \ {0}
ASSUME TimeoutsAssumption == Timeouts \subseteq Nat \ {0} /\ InitTimeout \in Nat \ {0}
ASSUME SizeModAssumption == SizeMod \in Nat /\ SizeMod > AllocCap
ASSUME ClockAssumption == MaxTime \in Nat /\ ClockMayStepBack \in BOOLEAN

Slots == 1..AllocCap
Times == 0..MaxTime
Entries == [key : Keys, cif : Cifs, args : Blocks, used : Times]

ASSUME NoEntryAssumption == NoEntry \notin Entries

VARIABLES
    slot,        \* g_entries
    order,       \* the LRU list
    count,       \* g_count
    cap,         \* g_cap
    timeout,     \* g_timeout
    now,         \* time(NULL)
    heap         \* the arg_types blocks that are allocated

cacheVars == <<slot, order, count, cap, timeout, now, heap>>

CacheInit ==
    /\ slot = [s \in Slots |-> NoEntry]
    /\ order = {}
    /\ count = 0
    /\ cap = AllocCap
    /\ timeout = InitTimeout
    /\ now = 0
    /\ heap = {}

-----------------------------------------------------------------------------
(* The scans.  find_slot and find_empty read elements 0 .. g_cap-1 of the  *)
(* array, whatever its allocated size.  When g_cap exceeds the allocation  *)
(* they have no defined outcome and the model stops there.                 *)

InBounds == cap <= AllocCap

Visible == {s \in Slots : s <= cap}

Occupied == {s \in Slots : slot[s] # NoEntry}

First(S) == CHOOSE s \in S : \A t \in S : s <= t

(* Mutant: an entry expires when it is exactly timeout seconds old. *)
StaleEarly == {s \in Members(order) \cap Occupied : now - slot[s].used >= timeout}

(* evict_expired's test on each listed entry. *)
Stale == {s \in Members(order) \cap Occupied : now - slot[s].used > timeout}

(* Mutants: the scan stops at g_count; the scan does not compare names. *)
FoundUpToCount(k) == {s \in (Visible \cap Occupied) \ Stale : s <= count /\ slot[s].key = k}
FoundAnyName(k) == {s \in (Visible \cap Occupied) \ Stale : k \in Keys}

(* find_slot(key) after evict_expired. *)
Found(k) == {s \in (Visible \cap Occupied) \ Stale : slot[s].key = k}

Count(n) == n % SizeMod

(* evict_entry for every element of X: memset, and free(e->arg_types). *)
Cleared(X) == [s \in Slots |-> IF s \in X THEN NoEntry ELSE slot[s]]
ArgsOf(X) == {slot[s].args : s \in X}

(* Mutant: the capacity test is off by one. *)
VictimsLate ==
    IF Count(count - Cardinality(Stale)) > cap
    THEN Oldest(Unlink(order, Stale))
    ELSE {}

(* The entries cinpy_cache_put evicts before it looks for an empty slot.   *)
Victims ==
    IF Count(count - Cardinality(Stale)) >= cap
    THEN Oldest(Unlink(order, Stale))
    ELSE {}

Empty == {s \in Visible : s \notin Occupied \/ s \in Stale \cup Victims}

-----------------------------------------------------------------------------
(* Mutant: a hit does not move the entry to the front. *)
GetHitInPlace(k) ==
    /\ InBounds
    /\ Found(k) # {}
    /\ slot' = [Cleared(Stale) EXCEPT
                  ![First(Found(k))] = [slot[First(Found(k))] EXCEPT !.used = now]]
    /\ order' = Unlink(order, Stale)
    /\ count' = Count(count - Cardinality(Stale))
    /\ heap' = heap \ ArgsOf(Stale)
    /\ UNCHANGED <<cap, timeout, now>>

(* cinpy_cache_get(key) *)
GetHit(k) ==
    /\ InBounds
    /\ Found(k) # {}
    /\ LET s == First(Found(k)) IN
       /\ slot' = [Cleared(Stale) EXCEPT ![s] = [slot[s] EXCEPT !.used = now]]
       /\ order' = PushFront(Unlink(order, Stale \cup {s}), s)
    /\ count' = Count(count - Cardinality(Stale))
    /\ heap' = heap \ ArgsOf(Stale)
    /\ UNCHANGED <<cap, timeout, now>>

GetMiss(k) ==
    /\ InBounds
    /\ Found(k) = {}
    /\ slot' = Cleared(Stale)
    /\ order' = Unlink(order, Stale)
    /\ count' = Count(count - Cardinality(Stale))
    /\ heap' = heap \ ArgsOf(Stale)
    /\ UNCHANGED <<cap, timeout, now>>

(* Mutant: the old vector is freed but the new one is not stored. *)
PutReplaceKeepsArgs(k, c, b) ==
    /\ InBounds
    /\ Found(k) # {}
    /\ LET s == First(Found(k)) IN
       /\ slot' = [Cleared(Stale) EXCEPT
                     ![s] = [key |-> k, cif |-> c, args |-> slot[s].args, used |-> now]]
       /\ order' = PushFront(Unlink(order, Stale \cup {s}), s)
       /\ heap' = (heap \ ArgsOf(Stale \cup {s})) \cup {b}
    /\ count' = Count(count - Cardinality(Stale))
    /\ UNCHANGED <<cap, timeout, now>>

(* cinpy_cache_put(key, fn_ptr, cif, arg_types): the key is known. *)
PutReplace(k, c, b) ==
    /\ InBounds
    /\ Found(k) # {}
    /\ LET s == First(Found(k)) IN
       /\ slot' = [Cleared(Stale) EXCEPT
                     ![s] = [key |-> k, cif |-> c, args |-> b, used |-> now]]
       /\ order' = PushFront(Unlink(order, Stale \cup {s}), s)
       /\ heap' = (heap \ ArgsOf(Stale \cup {s})) \cup {b}
    /\ count' = Count(count - Cardinality(Stale))
    /\ UNCHANGED <<cap, timeout, now>>

(* ... a new key, and find_empty finds a place, *)
PutInsert(k, c, b) ==
    /\ InBounds
    /\ Found(k) = {}
    /\ Empty # {}
    /\ LET s == First(Empty)
           gone == Stale \cup Victims
       IN
       /\ slot' = [Cleared(gone) EXCEPT
                     ![s] = [key |-> k, cif |-> c, args |-> b, used |-> now]]
       /\ order' = PushFront(Unlink(order, gone), s)
       /\ count' = Count(Count(count - Cardinality(gone)) + 1)
       /\ heap' = (heap \ ArgsOf(gone)) \cup {b}
    /\ UNCHANGED <<cap, timeout, now>>

(* Mutant: a vector that finds no place is freed, though the call uses it. *)
PutRejectFrees(k, c, b) ==
    /\ InBounds
    /\ Found(k) = {}
    /\ Empty = {}
    /\ slot' = Cleared(Stale \cup Victims)
    /\ order' = Unlink(order, Stale \cup Victims)
    /\ count' = Count(count - Cardinality(Stale \cup Victims))
    /\ heap' = heap \ ArgsOf(Stale \cup Victims)
    /\ UNCHANGED <<cap, timeout, now>>

(* ... or finds none: -1, which cinpy_call ignores, so b stays allocated.  *)
PutReject(k, c, b) ==
    /\ InBounds
    /\ Found(k) = {}
    /\ Empty = {}
    /\ LET gone == Stale \cup Victims IN
       /\ slot' = Cleared(gone)
       /\ order' = Unlink(order, gone)
       /\ count' = Count(count - Cardinality(gone))
       /\ heap' = (heap \ ArgsOf(gone)) \cup {b}
    /\ UNCHANGED <<cap, timeout, now>>

Put(k, c, b) == PutReplace(k, c, b) \/ PutInsert(k, c, b) \/ PutReject(k, c, b)

(* Mutant: entries are freed and erased, and neither unlinked nor counted. *)
EvictAllErases ==
    /\ InBounds
    /\ slot' = Cleared(Visible \cap Occupied)
    /\ heap' = heap \ ArgsOf(Visible \cap Occupied)
    /\ UNCHANGED <<order, count, cap, timeout, now>>

(* Mutant: the entries are not erased. *)
EvictAllKeeps ==
    /\ InBounds
    /\ order' = Unlink(order, Visible \cap Occupied)
    /\ heap' = heap \ ArgsOf(Visible \cap Occupied)
    /\ count' = 0
    /\ UNCHANGED <<slot, cap, timeout, now>>

(* cinpy_cache_evict_all() *)
EvictAll ==
    /\ InBounds
    /\ LET gone == Visible \cap Occupied IN
       /\ slot' = Cleared(gone)
       /\ order' = Unlink(order, gone)
       /\ heap' = heap \ ArgsOf(gone)
    /\ count' = 0
    /\ UNCHANGED <<cap, timeout, now>>

(* Mutant: a zero is taken for a value. *)
ConfigTakesZero(c, t) ==
    /\ cap' = c
    /\ timeout' = t
    /\ UNCHANGED <<slot, order, count, now, heap>>

(* cinpy_cache_config(cap, timeout_secs): a zero keeps the old value, and  *)
(* so does a negative timeout.  The array is not reallocated.              *)
Config(c, t) ==
    /\ cap' = IF c > 0 THEN c ELSE cap
    /\ timeout' = IF t > 0 THEN t ELSE timeout
    /\ UNCHANGED <<slot, order, count, now, heap>>

(* The clock of the system, external to the program. *)
Tick ==
    /\ \E t \in Times :
         /\ t = now + 1 \/ (ClockMayStepBack /\ t < now)
         /\ now' = t
    /\ UNCHANGED <<slot, order, count, cap, timeout, heap>>

CacheNext ==
    \/ \E k \in Keys : GetHit(k) \/ GetMiss(k)
    \/ \E k \in Keys, c \in Cifs, b \in Blocks \ heap : Put(k, c, b)
    \/ EvictAll
    \/ \E c \in Caps \cup {0}, t \in Timeouts \cup {0} : Config(c, t)
    \/ Tick

CacheSpec == CacheInit /\ [][CacheNext]_cacheVars

-----------------------------------------------------------------------------
(* Types of the variables. *)
CacheTypeOK ==
    /\ slot \in [Slots -> Entries \cup {NoEntry}]
    /\ order \subseteq Slots \X Slots
    /\ count \in 0..SizeMod - 1
    /\ cap \in Caps \cup {AllocCap}
    /\ timeout \in Timeouts \cup {InitTimeout}
    /\ now \in Times
    /\ heap \subseteq Blocks

(* The LRU list threads exactly the entries in use, each once: none is     *)
(* unreachable for expiry and eviction, none is linked after its memset    *)
(* (lru_remove, lru_push_front and every caller of them).                  *)
ListThreadsEntries == IsListOf(order, Occupied)

(* Each entry owns an arg_types block of its own, still allocated: no      *)
(* sequence of replacement, expiry, eviction and resizing frees one twice  *)
(* or leaves a freed one in an entry (every free(e->arg_types)).           *)
OwnedOnce ==
    \A s \in Occupied :
        /\ slot[s].args \in heap
        /\ \A t \in Occupied : slot[s].args = slot[t].args => s = t

(* g_count is the number of entries in use: the capacity test of           *)
(* cinpy_cache_put (g_count >= g_cap) tests what it means to.              *)
CountExact == count = Cardinality(Occupied)

(* A function name has one entry, so find_slot's first match is the match. *)
UniqueKeys == \A s, t \in Occupied : slot[s].key = slot[t].key => s = t

(* No arg_types block outlives its entry: cinpy_cache_put never hands one  *)
(* back (-1) to cinpy_call, which would drop it.                           *)
NoLeak == heap = ArgsOf(Occupied)

(* cinpy_cache_put of a new key always finds an empty element after its    *)
(* single eviction.                                                        *)
AlwaysRoom == \A k \in Keys : Found(k) = {} => Empty # {}

(* s holds an entry whose key leaves the cache in this step. *)
Dropped(s) == s \in Occupied /\ (slot'[s] = NoEntry \/ slot'[s].key # slot[s].key)

(* Of the entries that are not expired, the step that evicts one evicts    *)
(* the one used longest ago: the list order agrees with last_used          *)
(* (evict_lru_one takes the tail and never compares times).                *)
EvictsTheOldest ==
    [][\A s \in Occupied \ Stale, t \in Occupied :
           Dropped(s) /\ ~Dropped(t) => slot[s].used <= slot[t].used]_cacheVars

(* The scans of find_slot, find_empty and cinpy_cache_evict_all stay       *)
(* inside the array cinpy_cache_init allocated.                            *)
ScansInBounds == InBounds
=============================================================================
