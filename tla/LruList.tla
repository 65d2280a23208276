------------------------------- MODULE LruList -------------------------------
(***************************************************************************)
(* src/src/cache.c with the pointers of its LRU list and the walk along    *)
(* them.  Each static function of the file is an operator from the memory  *)
(* it finds to the memory it leaves; a round of a loop is a step.  No      *)
(* other code runs during a function of cache.h (the GIL is held), and     *)
(* the clock of module Cache, which this module implements, does not       *)
(* advance in one.                                                         *)
(***************************************************************************)
EXTENDS Integers, FiniteSets, SequencesExt

CONSTANTS
    Keys, Cifs, Blocks, AllocCap, Caps, Timeouts, InitTimeout, SizeMod,
    MaxTime, ClockMayStepBack, NoEntry,    \* as in module Cache
    LruHead, LruTail,     \* &g_lru_head and &g_lru_tail
    Null,
    StrdupMayFail   \* memory may run out in strdup

ASSUME CapsWithinArray == AllocCap \in Nat \ {0} /\ Caps \subseteq 1..AllocCap
ASSUME StrdupAssumption == StrdupMayFail \in BOOLEAN
ASSUME SizeModAssumption == SizeMod \in Nat /\ SizeMod > AllocCap
ASSUME ClockAssumption == MaxTime \in Nat /\ ClockMayStepBack \in BOOLEAN

Slots == 1..AllocCap
Cells == Slots \cup {LruHead, LruTail}

ASSUME CellsAssumption ==
    LruHead # LruTail /\ Null \notin Cells /\ Slots \cap {LruHead, LruTail} = {}

Entries == [key : Keys \cup {Null}, cif : Cifs, args : Blocks, used : 0..MaxTime]

ASSUME NoEntryAssumption == NoEntry \notin Entries

VARIABLES
    mem,        \* slot: g_entries; prev, next: lru_prev, lru_next of each
                \* cell; count: g_count; heap: allocated arg_types
    cap, timeout, now,
    op,         \* the call in progress: where it is, e or i, its parameters
    seen        \* what the last call left, as module Cache has it: no code
                \* reads this

vars == <<mem, cap, timeout, now, op, seen>>

NoOp == [pc |-> "idle"]

-----------------------------------------------------------------------------
(* The cells from the head to the tail, by lru_next. *)
Listed(m) ==
    LET hops[n \in 0..AllocCap + 1] ==
            IF n = 0 THEN <<LruHead>>
            ELSE LET l == hops[n - 1]
                 IN  IF Last(l) \in {LruTail, Null} THEN l ELSE Append(l, m.next[Last(l)])
    IN  hops[AllocCap + 1]

(* The memory as module Cache has it, the order in place of the links. *)
View(m) ==
    LET l == Listed(m)
    IN  [slot |-> m.slot, count |-> m.count, heap |-> m.heap,
         order |-> UNION {{<<l[i], l[j]>> : j \in i..Len(l) - 1} : i \in 2..Len(l) - 1}]

Init ==
    /\ mem = [slot |-> [s \in Slots |-> NoEntry],
              prev |-> [c \in Cells |-> IF c = LruTail THEN LruHead ELSE Null],
              next |-> [c \in Cells |-> IF c = LruHead THEN LruTail ELSE Null],
              count |-> 0,
              heap |-> {}]
    /\ cap = AllocCap
    /\ timeout = InitTimeout
    /\ now = 0
    /\ op = NoOp
    /\ seen = View(mem)

-----------------------------------------------------------------------------
(* Mutant: the entry behind e keeps its lru_prev. *)
LruRemoveOneWay(m, e) ==
    [m EXCEPT !.next[m.prev[e]] = m.next[e],
              !.prev[e] = Null,
              !.next[e] = Null]

LruRemove(m, e) ==
    [m EXCEPT !.next[m.prev[e]] = m.next[e],
              !.prev[m.next[e]] = m.prev[e],
              !.prev[e] = Null,
              !.next[e] = Null]

(* Mutant: e is linked before the tail. *)
LruPushBack(m, e) ==
    [m EXCEPT !.prev[e] = m.prev[LruTail],
              !.next[e] = LruTail,
              !.next[m.prev[LruTail]] = e,
              !.prev[LruTail] = e]

LruPushFront(m, e) ==
    [m EXCEPT !.next[e] = m.next[LruHead],
              !.prev[e] = LruHead,
              !.prev[m.next[LruHead]] = e,
              !.next[LruHead] = e]

Count(n) == n % SizeMod

(* free(e->arg_types) and the memset of e. *)
Erase(m, e) ==
    [m EXCEPT !.slot[e] = NoEntry,
              !.prev[e] = Null,
              !.next[e] = Null,
              !.heap = @ \ {m.slot[e].args}]

EvictEntry(m, e) == [Erase(LruRemove(m, e), e) EXCEPT !.count = Count(@ - 1)]

(* The key of element e is not NULL. *)
HasKey(e) == mem.slot[e] # NoEntry /\ mem.slot[e].key \in Keys

(* A call of cinpy_cache_get or cinpy_cache_put enters evict_expired, one  *)
(* of cinpy_cache_evict_all its loop.                                      *)
Call(o) ==
    /\ op = NoOp
    /\ op' = o
    /\ UNCHANGED <<mem, cap, timeout, now, seen>>

CallGet(k) == Call([pc |-> "walk", at |-> mem.prev[LruTail], do |-> "get", key |-> k])

CallPut(k, c, b) ==
    Call([pc |-> "walk", at |-> mem.prev[LruTail], do |-> "put", key |-> k, cif |-> c, args |-> b])

CallEvictAll == Call([pc |-> "erase", at |-> 1])

Return(m) ==
    /\ mem' = m
    /\ op' = NoOp
    /\ seen' = View(mem')
    /\ UNCHANGED <<cap, timeout, now>>

(* One round of evict_expired's loop. *)
WalkOn ==
    /\ op.pc = "walk" /\ op.at \notin {Null, LruHead}
    /\ mem' = IF HasKey(op.at) /\ now - mem.slot[op.at].used > timeout
              THEN EvictEntry(mem, op.at)
              ELSE mem
    /\ op' = [op EXCEPT !.at = mem.prev[op.at]]
    /\ UNCHANGED <<cap, timeout, now, seen>>

Walked(do) == op.pc = "walk" /\ op.at \in {Null, LruHead} /\ op.do = do

First(S) == CHOOSE s \in S : \A t \in S : s <= t

(* The elements find_slot and find_empty choose the first of. *)
Found == {s \in 1..cap : HasKey(s) /\ mem.slot[s].key = op.key}
Empty(m) == {s \in 1..cap : m.slot[s] = NoEntry \/ m.slot[s].key \notin Keys}

(* Mutant: e is linked again without being unlinked. *)
TouchedRelinks(m, e) == LruPushFront([m EXCEPT !.slot[e].used = now], e)

Touched(m, e) == LruPushFront(LruRemove([m EXCEPT !.slot[e].used = now], e), e)

GetHit == Walked("get") /\ Found # {} /\ Return(Touched(mem, First(Found)))

GetMiss == Walked("get") /\ Found = {} /\ Return(mem)

(* The key is known. *)
PutReplace ==
    /\ Walked("put") /\ Found # {}
    /\ LET e == First(Found)
       IN  Return(Touched(
               [mem EXCEPT !.slot[e].cif = op.cif,
                           !.slot[e].args = op.args,
                           !.heap = (@ \ {mem.slot[e].args}) \cup {op.args}], e))

(* The memory find_empty scans: after evict_lru_one, if g_count >= g_cap. *)
Roomy ==
    IF mem.count >= cap /\ mem.prev[LruTail] \notin {Null, LruHead}
    THEN EvictEntry(mem, mem.prev[LruTail])
    ELSE mem

(* A new key gets the first empty element; if strdup fails, its key stays  *)
(* NULL and everything else is done.                                       *)
PutNew ==
    /\ Walked("put") /\ Found = {}
    /\ Empty(Roomy) # {}
    /\ \E key \in {op.key} \cup (IF StrdupMayFail THEN {Null} ELSE {}) :
         LET e == First(Empty(Roomy))
         IN  Return(LruPushFront(
                 [Roomy EXCEPT
                     !.slot[e] = [key |-> key, cif |-> op.cif, args |-> op.args, used |-> now],
                     !.heap = @ \cup {op.args},
                     !.count = Count(@ + 1)], e))

(* find_empty finds none, and the caller keeps the argument types. *)
PutReject ==
    /\ Walked("put") /\ Found = {}
    /\ Empty(Roomy) = {}
    /\ Return([Roomy EXCEPT !.heap = @ \cup {op.args}])

(* One round of cinpy_cache_evict_all's loop. *)
EraseOn ==
    /\ op.pc = "erase" /\ op.at <= cap
    /\ mem' = IF HasKey(op.at) THEN Erase(LruRemove(mem, op.at), op.at) ELSE mem
    /\ op' = [op EXCEPT !.at = op.at + 1]
    /\ UNCHANGED <<cap, timeout, now, seen>>

EraseEnd == op.pc = "erase" /\ op.at > cap /\ Return([mem EXCEPT !.count = 0])

(* cinpy_cache_config *)
Config(c, t) ==
    /\ op = NoOp
    /\ cap' = IF c > 0 THEN c ELSE cap
    /\ timeout' = IF t > 0 THEN t ELSE timeout
    /\ UNCHANGED <<mem, now, op, seen>>

(* The clock of the system, external to the program. *)
Tick ==
    /\ op = NoOp
    /\ \E t \in 0..MaxTime : (t = now + 1 \/ (ClockMayStepBack /\ t < now)) /\ now' = t
    /\ UNCHANGED <<mem, cap, timeout, op, seen>>

(* A step of the call in progress. *)
Go ==
    \/ WalkOn \/ GetHit \/ GetMiss
    \/ PutReplace \/ PutNew \/ PutReject
    \/ EraseOn \/ EraseEnd

Next ==
    \/ \E k \in Keys : CallGet(k)
    \/ \E k \in Keys, c \in Cifs, b \in Blocks \ mem.heap : CallPut(k, c, b)
    \/ CallEvictAll
    \/ Go
    \/ \E c \in Caps \cup {0}, t \in Timeouts \cup {0} : Config(c, t)
    \/ Tick

Spec == Init /\ [][Next]_vars

(* A call runs as long as it can. *)
FairSpec == Spec /\ WF_vars(Go)

-----------------------------------------------------------------------------
(* The two directions of the list agree and join the sentinels, so a walk  *)
(* from either end meets the same entries, and no NULL link is followed    *)
(* (lru_remove, lru_push_front and all their callers).                     *)
LinksMirror ==
    LET l == Listed(mem)
    IN  /\ Last(l) = LruTail
        /\ \A i \in 1..Len(l) - 1 : mem.prev[l[i + 1]] = l[i]
        /\ \A s \in Slots : s \in ToSet(l) <=> mem.slot[s] # NoEntry

(* Every operation of the cache ends: evict_expired's walk from the tail,  *)
(* which erases entries as it goes, comes to the head (cache.c:64).        *)
WalksEnd == op # NoOp ~> op = NoOp

CacheOf == INSTANCE Cache WITH
    slot <- seen.slot, order <- seen.order, count <- seen.count, heap <- seen.heap

(* The pointers, walks and scans of cache.c do what module Cache says, at  *)
(* every capacity within the array (all of cache.c).                       *)
ImplementsCache == CacheOf!CacheSpec
=============================================================================
