---------------------------- MODULE LruListProofs ----------------------------
(***************************************************************************)
(* Theorems of module LruList, for every size of the array, when strdup    *)
(* does not fail: the links mirror each other, and the pointers implement  *)
(* module Cache.                                                           *)
(*                                                                         *)
(* LinksInv does not follow links: some list of different cells from the   *)
(* head to the tail has the entries in it, and the links are those of its  *)
(* neighbours.  ViewInv says what the call in progress has done so far to  *)
(* the memory the last one left.                                           *)
(***************************************************************************)
EXTENDS LruList, RecencyProofs, SequenceTheorems, TLAPS

(* A list of different cells from the head to the tail. *)
Chain(l) ==
    /\ l \in Seq(Cells) /\ Len(l) >= 2
    /\ l[1] = LruHead /\ l[Len(l)] = LruTail
    /\ \A i, j \in 1..Len(l) : l[i] = l[j] => i = j

(* The links are those of l. *)
Threads(next, prev, l) ==
    /\ Chain(l)
    /\ \A i \in 1..Len(l) - 1 : next[l[i]] = l[i + 1] /\ prev[l[i + 1]] = l[i]

(* The elements between the sentinels. *)
Between(l) == {l[i] : i \in 2..Len(l) - 1}

-----------------------------------------------------------------------------
(* What the walk along the links finds. *)

LEMMA ThreadLength ==
    ASSUME NEW l, Chain(l)
    PROVE  /\ Len(l) \in Nat /\ Len(l) <= AllocCap + 2
           /\ Between(l) \subseteq Slots
           /\ \A i \in 1..Len(l) : l[i] \in Cells /\ (l[i] = LruTail <=> i = Len(l))
<1>1. Len(l) \in Nat /\ Len(l) >= 2 /\ \A i \in 1..Len(l) : l[i] \in Cells
  BY DEF Chain
<1>2. 1 \in 1..Len(l) /\ Len(l) \in 1..Len(l)
  BY <1>1
<1>3. ASSUME NEW i \in 2..Len(l) - 1 PROVE l[i] \in Slots
  <2>1. i \in 1..Len(l) /\ i # 1 /\ i # Len(l)
    BY <1>1
  <2>. QED  BY <1>1, <1>2, <2>1 DEF Chain, Cells
<1>4. \A i \in 1..Len(l) : l[i] = LruTail <=> i = Len(l)
  BY <1>1, <1>2 DEF Chain
<1>. DEFINE S == 2..Len(l) - 1
            f == [i \in S |-> l[i]]
<1>5. f \in Injection(S, Slots)
  <2>1. f \in [S -> Slots]
    BY <1>3
  <2>2. ASSUME NEW i \in S, NEW j \in S, f[i] = f[j] PROVE i = j
    <3>1. i \in 1..Len(l) /\ j \in 1..Len(l) /\ l[i] = l[j]
      BY <1>1, <2>2
    <3>. QED  BY <3>1 DEF Chain
  <2>. QED  BY <2>1, <2>2 DEF Injection, IsInjective
<1>6. IsFiniteSet(Slots) /\ Cardinality(Slots) = AllocCap
  BY CapsWithinArray, FS_Interval DEF Slots
<1>7. Cardinality(S) = Len(l) - 2
  <2>1. Cardinality(S) = IF 2 > Len(l) - 1 THEN 0 ELSE (Len(l) - 1) - 2 + 1
    BY <1>1, FS_Interval, SMTT(30)
  <2>. QED  BY <1>1, <2>1
<1>8. Cardinality(S) <= AllocCap
  BY <1>5, <1>6, FS_Injection
<1>9. Len(l) <= AllocCap + 2
  BY <1>1, <1>7, <1>8, CapsWithinArray
<1>. QED  BY <1>1, <1>3, <1>4, <1>9 DEF Between

(* The first cells of l. *)
Beginning(l, k) == [i \in 1..(IF k < Len(l) THEN k + 1 ELSE Len(l)) |-> l[i]]

(* One step of the walk. *)
Hop(next, q) == IF Last(q) \in {LruTail, Null} THEN q ELSE Append(q, next[Last(q)])

Hops(next, f) == [n \in 0..AllocCap + 1 |-> IF n = 0 THEN <<LruHead>> ELSE Hop(next, f[n - 1])]

LEMMA BeginningIs ==
    ASSUME NEW l \in Seq(Cells), NEW k \in Nat
    PROVE  /\ Beginning(l, k) \in Seq(Cells)
           /\ Len(Beginning(l, k)) = IF k < Len(l) THEN k + 1 ELSE Len(l)
           /\ \A i \in 1..Len(Beginning(l, k)) : Beginning(l, k)[i] = l[i]
<1>. DEFINE n == IF k < Len(l) THEN k + 1 ELSE Len(l)
<1>1. n \in Nat /\ \A i \in 1..n : l[i] \in Cells
  OBVIOUS
<1>2. Beginning(l, k) = [i \in 1..n |-> l[i]]
  BY DEF Beginning
<1>. HIDE DEF n
<1>3. [i \in 1..n |-> l[i]] \in Seq(Cells) /\ Len([i \in 1..n |-> l[i]]) = n
  BY <1>1
<1>. QED  BY <1>2, <1>3 DEF n

LEMMA HopAlong ==
    ASSUME NEW next, NEW prev, NEW l, Threads(next, prev, l), NEW k \in Nat
    PROVE  Hop(next, Beginning(l, k)) = Beginning(l, k + 1)
<1>. l \in Seq(Cells)
  BY DEF Threads, Chain
<1>. PICK q, r : q = Beginning(l, k) /\ r = Beginning(l, k + 1)
  OBVIOUS
<1>1. /\ q \in Seq(Cells) /\ Len(q) = (IF k < Len(l) THEN k + 1 ELSE Len(l))
      /\ \A i \in 1..Len(q) : q[i] = l[i]
  BY BeginningIs
<1>2. /\ r \in Seq(Cells) /\ Len(r) = (IF k + 1 < Len(l) THEN k + 2 ELSE Len(l))
      /\ \A i \in 1..Len(r) : r[i] = l[i]
  BY BeginningIs
<1>3. Len(l) \in Nat /\ Len(l) >= 2
  BY ThreadLength DEF Threads, Chain
<1>4. Last(q) = l[Len(q)] /\ Len(q) \in 1..Len(l)
  BY <1>1, <1>3 DEF Last
<1>5. CASE k + 1 < Len(l)
  <2>1. Last(q) \notin {LruTail, Null} /\ Last(q) \in Cells
    BY <1>1, <1>3, <1>4, <1>5, ThreadLength, CellsAssumption DEF Threads
  <2>2. next[Last(q)] = l[k + 2] /\ l[k + 2] \in Cells
    <3>1. k + 1 \in 1..Len(l) - 1 /\ Last(q) = l[k + 1]
      BY <1>1, <1>3, <1>4, <1>5
    <3>2. next[l[k + 1]] = l[k + 1 + 1]
      BY <3>1 DEF Threads, Chain
    <3>. QED  BY <1>3, <1>5, <3>1, <3>2, ThreadLength DEF Threads
  <2>3. Append(q, l[k + 2]) = r
    BY <1>1, <1>2, <1>3, <1>5, <2>2, AppendProperties, SeqEqual, SMTT(30)
  <2>. QED  BY <2>1, <2>2, <2>3 DEF Hop
<1>6. CASE ~(k + 1 < Len(l))
  <2>1. Len(q) = Len(l) /\ Last(q) = LruTail
    BY <1>1, <1>3, <1>4, <1>6, ThreadLength DEF Threads
  <2>2. q = r
    BY <1>1, <1>2, <1>3, <1>6, SeqEqual
  <2>. QED  BY <2>1, <2>2 DEF Hop
<1>. QED  BY <1>5, <1>6

(* The cells from the head to the tail, by lru_next, are those of l. *)
LEMMA ListedIs ==
    ASSUME NEW m, NEW l, Threads(m.next, m.prev, l)
    PROVE  Listed(m) = l
<1>. DEFINE next == m.next
            K == AllocCap + 1
            walk == [n \in 0..K |-> Beginning(l, n)]
            h == CHOOSE f : f = Hops(next, f)
<1>1. K \in Nat
  BY CapsWithinArray
<1>. l \in Seq(Cells) /\ Len(l) >= 2 /\ l[1] = LruHead
  BY DEF Threads, Chain
<1>. Len(l) \in Nat /\ Len(l) <= K + 1
  <2>1. Len(l) \in Nat /\ Len(l) <= AllocCap + 2
    BY ThreadLength DEF Threads
  <2>. QED  BY <2>1, CapsWithinArray
<1>2. Beginning(l, 0) = <<LruHead>>
  <2>1. Beginning(l, 0) \in Seq(Cells) /\ Len(Beginning(l, 0)) = 1 /\ Beginning(l, 0)[1] = LruHead
    <3>1. /\ Beginning(l, 0) \in Seq(Cells)
          /\ Len(Beginning(l, 0)) = IF 0 < Len(l) THEN 0 + 1 ELSE Len(l)
          /\ \A i \in 1..Len(Beginning(l, 0)) : Beginning(l, 0)[i] = l[i]
      BY BeginningIs
    <3>. QED  BY <3>1
  <2>2. <<LruHead>> \in Seq(Cells)
    BY DEF Cells
  <2>. QED  BY <2>1, <2>2, SeqEqual
<1>3. ASSUME NEW n \in 0..K, n # 0 PROVE n - 1 \in 0..K /\ Hop(next, Beginning(l, n - 1)) = Beginning(l, n)
  <2>1. n - 1 \in Nat /\ n - 1 + 1 = n /\ n - 1 \in 0..K
    BY <1>1, <1>3
  <2>2. Hop(next, Beginning(l, n - 1)) = Beginning(l, n - 1 + 1)
    BY <2>1, HopAlong
  <2>. QED  BY <2>1, <2>2
<1>4. walk = Hops(next, walk)
  <2>1. \A n \in 0..K : walk[n] = IF n = 0 THEN <<LruHead>> ELSE Hop(next, walk[n - 1])
    BY <1>2, <1>3
  <2>. HIDE DEF walk
  <2>2. Hops(next, walk) = [n \in 0..K |-> IF n = 0 THEN <<LruHead>> ELSE Hop(next, walk[n - 1])]
    BY DEF Hops
  <2>3. walk = [n \in 0..K |-> walk[n]]
    BY DEF walk
  <2>. QED  BY <2>1, <2>2, <2>3
<1>5. h = Hops(next, h)
  BY <1>4
<1>. HIDE DEF h
<1>6. \A n \in 0..K : h[n] = IF n = 0 THEN <<LruHead>> ELSE Hop(next, h[n - 1])
  <2>1. Hops(next, h) = [n \in 0..K |-> IF n = 0 THEN <<LruHead>> ELSE Hop(next, h[n - 1])]
    BY DEF Hops
  <2>. QED  BY <1>5, <2>1
<1>7. ASSUME NEW n \in 0..K PROVE h[n] = Beginning(l, n)
  <2>. DEFINE Wrong == {i \in 0..K : h[i] # Beginning(l, i)}
  <2>1. SUFFICES ASSUME Wrong # {} PROVE FALSE
    OBVIOUS
  <2>2. Wrong \subseteq Nat
    BY <1>1
  <2>3. PICK i \in Wrong : \A j \in Wrong : i <= j
    BY <2>1, <2>2, LeastNatural
  <2>4. i # 0
    BY <1>1, <1>2, <1>6, <2>3
  <2>5. i - 1 \in 0..K /\ i - 1 \notin Wrong
    BY <1>1, <2>2, <2>3, <2>4
  <2>6. h[i] = Beginning(l, i)
    BY <1>3, <1>6, <2>4, <2>5
  <2>. QED  BY <2>3, <2>6
<1>8. Beginning(l, K) = l
  <2>2. Len(Beginning(l, K)) = Len(l)
    BY <1>1, BeginningIs
  <2>3. Beginning(l, K) \in Seq(Cells) /\ \A i \in 1..Len(Beginning(l, K)) : Beginning(l, K)[i] = l[i]
    BY <1>1, BeginningIs
  <2>. QED  BY <2>2, <2>3, SeqEqual
<1>9. Listed(m) = h[K]
  BY DEF Listed, Hops, Hop, h
<1>10. K \in 0..K
  BY <1>1
<1>. QED  BY <1>7, <1>8, <1>9, <1>10

-----------------------------------------------------------------------------
(* Taking an element out of a list and putting one behind the head.        *)

(* The place of element e on l. *)
Place(l, e) == CHOOSE i \in 1..Len(l) : l[i] = e

Without(l, e) == [i \in 1..Len(l) - 1 |-> IF i < Place(l, e) THEN l[i] ELSE l[i + 1]]

Before(l, e) == [i \in 1..Len(l) + 1 |-> IF i = 1 THEN l[1] ELSE IF i = 2 THEN e ELSE l[i - 1]]

LEMMA PlaceIs ==
    ASSUME NEW l, Chain(l), NEW e \in Between(l)
    PROVE  Place(l, e) \in 2..Len(l) - 1 /\ l[Place(l, e)] = e
<1>1. Len(l) \in Nat
  BY DEF Chain
<1>2. PICK i \in 2..Len(l) - 1 : l[i] = e
  BY DEF Between
<1>3. i \in 1..Len(l)
  BY <1>1
<1>4. Place(l, e) \in 1..Len(l) /\ l[Place(l, e)] = e
  BY <1>2, <1>3 DEF Place
<1>5. Place(l, e) = i
  BY <1>2, <1>3, <1>4 DEF Chain
<1>. QED  BY <1>4, <1>5

LEMMA WithoutIs ==
    ASSUME NEW l, Chain(l), NEW e \in Between(l)
    PROVE  /\ Chain(Without(l, e))
           /\ Len(Without(l, e)) = Len(l) - 1
           /\ Between(Without(l, e)) = Between(l) \ {e}
<1>. DEFINE w == Without(l, e)
<1>. PICK k, n : k = Place(l, e) /\ n = Len(l)
  OBVIOUS
<1>1. n \in Nat /\ k \in 2..n - 1 /\ l[k] = e
  BY PlaceIs DEF Chain
<1>2. \A i \in 1..n : l[i] \in Cells
  BY DEF Chain
<1>3. w = [i \in 1..n - 1 |-> IF i < k THEN l[i] ELSE l[i + 1]]
  BY DEF Without
<1>. HIDE DEF w
<1>4. w \in Seq(Cells) /\ Len(w) = n - 1
  BY <1>1, <1>2, <1>3
<1>5. \A i \in 1..n - 1 : w[i] = IF i < k THEN l[i] ELSE l[i + 1]
  BY <1>3
<1>6. \A i, j \in 1..n : l[i] = l[j] => i = j
  BY DEF Chain
<1>7. \A i, j \in 1..n - 1 : w[i] = w[j] => i = j
  BY <1>1, <1>5, <1>6
<1>8. w[1] = l[1] /\ w[n - 1] = l[n]
  BY <1>1, <1>5
<1>9. Chain(w)
  BY <1>1, <1>4, <1>7, <1>8 DEF Chain
<1>10. ASSUME NEW i \in 2..n - 2 PROVE w[i] \in Between(l) \ {e}
  <2>1. CASE i < k
    <3>1. i \in 2..n - 1 /\ i \in 1..n /\ k \in 1..n /\ i # k /\ w[i] = l[i]
      BY <1>1, <1>5, <2>1
    <3>. QED  BY <1>1, <1>6, <3>1 DEF Between
  <2>2. CASE ~(i < k)
    <3>1. i + 1 \in 2..n - 1 /\ i + 1 \in 1..n /\ k \in 1..n /\ i + 1 # k /\ w[i] = l[i + 1]
      BY <1>1, <1>5, <2>2
    <3>. QED  BY <1>1, <1>6, <3>1 DEF Between
  <2>. QED  BY <2>1, <2>2
<1>11. ASSUME NEW x \in Between(l) \ {e} PROVE x \in Between(w)
  <2>1. PICK i \in 2..n - 1 : l[i] = x
    BY DEF Between
  <2>2. CASE i < k
    <3>1. i \in 2..n - 2 /\ w[i] = x
      BY <1>1, <1>5, <2>1, <2>2
    <3>. QED  BY <1>4, <3>1 DEF Between
  <2>3. CASE k < i
    <3>1. i - 1 \in 2..n - 2 /\ w[i - 1] = x
      BY <1>1, <1>5, <2>1, <2>3
    <3>. QED  BY <1>4, <3>1 DEF Between
  <2>. QED  BY <1>1, <2>1, <2>2, <2>3
<1>12. Between(w) = Between(l) \ {e}
  <2>1. Len(w) - 1 = n - 2
    BY <1>1, <1>4
  <2>2. Between(w) = {w[i] : i \in 2..n - 2}
    BY <2>1 DEF Between
  <2>. QED  BY <1>10, <1>11, <2>2
<1>. QED  BY <1>4, <1>9, <1>12 DEF w

LEMMA BeforeIs ==
    ASSUME NEW l, Chain(l), NEW e \in Slots \ Between(l)
    PROVE  /\ Chain(Before(l, e))
           /\ Len(Before(l, e)) = Len(l) + 1
           /\ Between(Before(l, e)) = Between(l) \cup {e}
<1>. DEFINE w == Before(l, e)
<1>. PICK n : n = Len(l)
  OBVIOUS
<1>1. n \in Nat /\ n >= 2 /\ e \in Cells /\ l[1] = LruHead /\ l[n] = LruTail
  BY DEF Chain, Cells
<1>2. \A i \in 1..n : l[i] \in Cells
  BY DEF Chain
<1>3. w = [i \in 1..n + 1 |-> IF i = 1 THEN l[1] ELSE IF i = 2 THEN e ELSE l[i - 1]]
  BY DEF Before
<1>. HIDE DEF w
<1>4. w \in Seq(Cells) /\ Len(w) = n + 1
  BY <1>1, <1>2, <1>3
<1>5. w[1] = l[1] /\ w[2] = e /\ \A i \in 3..n + 1 : w[i] = l[i - 1]
  BY <1>1, <1>3
<1>6. \A i, j \in 1..n : l[i] = l[j] => i = j
  BY DEF Chain
<1>7. \A i \in 1..n : l[i] # e
  <2>1. ASSUME NEW i \in 2..n - 1 PROVE l[i] # e
    BY DEF Between
  <2>2. l[1] # e /\ l[n] # e
    BY <1>1, CellsAssumption
  <2>. QED  BY <1>1, <2>1, <2>2
<1>8. \A i, j \in 1..n + 1 : w[i] = w[j] => i = j
  <2>1. ASSUME NEW i \in 1..n + 1, NEW j \in 1..n + 1, w[i] = w[j] PROVE i = j
    <3>1. CASE i = 2
      BY <1>1, <1>5, <1>7, <2>1, <3>1
    <3>2. CASE j = 2
      BY <1>1, <1>5, <1>7, <2>1, <3>2
    <3>3. CASE i # 2 /\ j # 2
      BY <1>1, <1>5, <1>6, <2>1, <3>3
    <3>. QED  BY <3>1, <3>2, <3>3
  <2>. QED  BY <2>1
<1>9. Chain(w)
  BY <1>1, <1>4, <1>5, <1>8 DEF Chain
<1>10. ASSUME NEW i \in 2..n PROVE w[i] \in Between(l) \cup {e}
  <2>1. CASE i = 2
    BY <1>5, <2>1
  <2>2. CASE i # 2
    <3>1. i - 1 \in 2..n - 1 /\ w[i] = l[i - 1]
      BY <1>1, <1>5, <2>2
    <3>. QED  BY <3>1 DEF Between
  <2>. QED  BY <2>1, <2>2
<1>11. ASSUME NEW x \in Between(l) PROVE x \in Between(w)
  <2>1. PICK i \in 2..n - 1 : l[i] = x
    BY DEF Between
  <2>2. i + 1 \in 2..n /\ i + 1 \in 3..n + 1 /\ w[i + 1] = x
    BY <1>1, <1>5, <2>1
  <2>. QED  BY <1>4, <2>2 DEF Between
<1>12. e \in Between(w)
  <2>1. 2 \in 2..n
    BY <1>1
  <2>. QED  BY <1>1, <1>4, <1>5, <2>1 DEF Between
<1>13. Between(w) = Between(l) \cup {e}
  <2>1. Len(w) - 1 = n
    BY <1>1, <1>4
  <2>2. Between(w) = {w[i] : i \in 2..n}
    BY <2>1 DEF Between
  <2>. QED  BY <1>10, <1>11, <1>12, <2>2
<1>. QED  BY <1>4, <1>9, <1>13 DEF w

-----------------------------------------------------------------------------
(* The functions of the file on a memory whose links are those of a list.  *)

Memory == [slot : [Slots -> Entries \cup {NoEntry}],
           prev : [Cells -> Cells \cup {Null}],
           next : [Cells -> Cells \cup {Null}],
           count : 0..SizeMod - 1,
           heap : SUBSET Blocks]

Holding(m) == {s \in Slots : m.slot[s] # NoEntry}

(* The entries of m are on l, and the links are those of l. *)
Linked(m, l) ==
    /\ m \in Memory
    /\ Threads(m.next, m.prev, l)
    /\ Between(l) = Holding(m)

LEMMA CellsAre ==
    /\ LruHead \in Cells /\ LruTail \in Cells
    /\ \A e \in Slots : e \in Cells /\ e # LruHead /\ e # LruTail
BY CellsAssumption DEF Cells

(* f with x and y mapped to v and w. *)
Set2(f, x, v, y, w) == [c \in DOMAIN f |-> IF c = x THEN v ELSE IF c = y THEN w ELSE f[c]]

LEMMA LruRemoveIs ==
    ASSUME NEW m \in Memory, NEW e \in Cells,
           NEW a \in Cells, NEW b \in Cells, m.prev[e] = a, m.next[e] = b
    PROVE  LruRemove(m, e) =
             [slot |-> m.slot, count |-> m.count, heap |-> m.heap,
              prev |-> Set2(m.prev, e, Null, b, a), next |-> Set2(m.next, e, Null, a, b)]
<1>. PICK r : r = LruRemove(m, e)
  OBVIOUS
<1>1. /\ m = [slot |-> m.slot, prev |-> m.prev, next |-> m.next, count |-> m.count, heap |-> m.heap]
      /\ m.prev \in [Cells -> Cells \cup {Null}] /\ m.next \in [Cells -> Cells \cup {Null}]
  BY DEF Memory
<1>2. r =
          [slot |-> m.slot, count |-> m.count, heap |-> m.heap,
           prev |-> [[m.prev EXCEPT ![b] = a] EXCEPT ![e] = Null],
           next |-> [[m.next EXCEPT ![a] = b] EXCEPT ![e] = Null]]
  BY <1>1 DEF LruRemove
<1>3. [[m.prev EXCEPT ![b] = a] EXCEPT ![e] = Null] = Set2(m.prev, e, Null, b, a)
  BY <1>1 DEF Set2
<1>4. [[m.next EXCEPT ![a] = b] EXCEPT ![e] = Null] = Set2(m.next, e, Null, a, b)
  BY <1>1 DEF Set2
<1>. QED  BY <1>2, <1>3, <1>4

LEMMA LruPushFrontIs ==
    ASSUME NEW m \in Memory, NEW e \in Cells, e # LruHead,
           NEW b \in Cells \ {e, LruHead}, m.next[LruHead] = b
    PROVE  LruPushFront(m, e) =
             [slot |-> m.slot, count |-> m.count, heap |-> m.heap,
              prev |-> Set2(m.prev, b, e, e, LruHead), next |-> Set2(m.next, LruHead, e, e, b)]
<1>. PICK r : r = LruPushFront(m, e)
  OBVIOUS
<1>1. /\ m = [slot |-> m.slot, prev |-> m.prev, next |-> m.next, count |-> m.count, heap |-> m.heap]
      /\ m.prev \in [Cells -> Cells \cup {Null}] /\ m.next \in [Cells -> Cells \cup {Null}]
  BY DEF Memory
<1>2. r =
          [slot |-> m.slot, count |-> m.count, heap |-> m.heap,
           prev |-> [[m.prev EXCEPT ![e] = LruHead] EXCEPT ![b] = e],
           next |-> [[m.next EXCEPT ![e] = b] EXCEPT ![LruHead] = e]]
  BY <1>1 DEF LruPushFront
<1>3. [[m.prev EXCEPT ![e] = LruHead] EXCEPT ![b] = e] = Set2(m.prev, b, e, e, LruHead)
  BY <1>1 DEF Set2
<1>4. [[m.next EXCEPT ![e] = b] EXCEPT ![LruHead] = e] = Set2(m.next, LruHead, e, e, b)
  BY <1>1 DEF Set2
<1>. QED  BY <1>2, <1>3, <1>4

LEMMA EraseIs ==
    ASSUME NEW m \in Memory, NEW e \in Slots
    PROVE  Erase(m, e) =
             [slot |-> Set2(m.slot, e, NoEntry, e, NoEntry), count |-> m.count,
              heap |-> m.heap \ {m.slot[e].args},
              prev |-> Set2(m.prev, e, Null, e, Null), next |-> Set2(m.next, e, Null, e, Null)]
<1>. PICK r, h : r = Erase(m, e) /\ h = m.heap \ {m.slot[e].args}
  OBVIOUS
<1>1. /\ m = [slot |-> m.slot, prev |-> m.prev, next |-> m.next, count |-> m.count, heap |-> m.heap]
      /\ m.prev \in [Cells -> Cells \cup {Null}] /\ m.next \in [Cells -> Cells \cup {Null}]
      /\ m.slot \in [Slots -> Entries \cup {NoEntry}] /\ e \in Cells
  BY CellsAre DEF Memory
<1>2. r = [m EXCEPT !.slot[e] = NoEntry, !.prev[e] = Null, !.next[e] = Null, !.heap = h]
  BY DEF Erase
<1>3. r =
        [slot |-> [m.slot EXCEPT ![e] = NoEntry], count |-> m.count, heap |-> h,
         prev |-> [m.prev EXCEPT ![e] = Null], next |-> [m.next EXCEPT ![e] = Null]]
  BY <1>1, <1>2
<1>4. [m.slot EXCEPT ![e] = NoEntry] = Set2(m.slot, e, NoEntry, e, NoEntry)
  BY <1>1 DEF Set2
<1>5. [m.prev EXCEPT ![e] = Null] = Set2(m.prev, e, Null, e, Null)
  BY <1>1 DEF Set2
<1>6. [m.next EXCEPT ![e] = Null] = Set2(m.next, e, Null, e, Null)
  BY <1>1 DEF Set2
<1>. QED  BY <1>3, <1>4, <1>5, <1>6

(* The neighbours of an element of l. *)
LEMMA Neighbours ==
    ASSUME NEW m \in Memory, NEW l, Threads(m.next, m.prev, l), NEW e \in Between(l)
    PROVE  /\ Place(l, e) \in 2..Len(l) - 1 /\ l[Place(l, e)] = e
           /\ m.prev[e] = l[Place(l, e) - 1] /\ m.prev[e] \in Cells
           /\ m.next[e] = l[Place(l, e) + 1] /\ m.next[e] \in Cells
<1>. PICK k, n : k = Place(l, e) /\ n = Len(l)
  OBVIOUS
<1>1. n \in Nat /\ k \in 2..n - 1 /\ l[k] = e
  BY PlaceIs DEF Threads, Chain
<1>2. \A i \in 1..n - 1 : m.next[l[i]] = l[i + 1] /\ m.prev[l[i + 1]] = l[i]
  BY DEF Threads
<1>3. \A i \in 1..n : l[i] \in Cells
  BY DEF Threads, Chain
<1>4. k - 1 \in 1..n - 1 /\ k \in 1..n - 1 /\ k - 1 + 1 = k /\ k + 1 \in 1..n /\ k - 1 \in 1..n
  BY <1>1
<1>5. m.prev[e] = l[k - 1] /\ m.next[e] = l[k + 1]
  BY <1>1, <1>2, <1>4
<1>. QED  BY <1>1, <1>3, <1>4, <1>5

LEMMA LruRemoveThreads ==
    ASSUME NEW m \in Memory, NEW l, Threads(m.next, m.prev, l), NEW e \in Between(l)
    PROVE  /\ LruRemove(m, e) \in Memory
           /\ LruRemove(m, e).slot = m.slot /\ LruRemove(m, e).heap = m.heap
           /\ LruRemove(m, e).count = m.count
           /\ Threads(LruRemove(m, e).next, LruRemove(m, e).prev, Without(l, e))
<1>. PICK k, n, w : k = Place(l, e) /\ n = Len(l) /\ w = Without(l, e)
  OBVIOUS
<1>. PICK a, b : a = m.prev[e] /\ b = m.next[e]
  OBVIOUS
<1>1. /\ n \in Nat /\ k \in 2..n - 1 /\ l[k] = e
      /\ a = l[k - 1] /\ a \in Cells /\ b = l[k + 1] /\ b \in Cells
  BY Neighbours DEF Threads, Chain
<1>2. e \in Cells
  BY <1>1 DEF Threads, Chain
<1>. PICK r : r = LruRemove(m, e)
  OBVIOUS
<1>3. r = [slot |-> m.slot, count |-> m.count, heap |-> m.heap,
           prev |-> Set2(m.prev, e, Null, b, a), next |-> Set2(m.next, e, Null, a, b)]
  BY <1>1, <1>2, LruRemoveIs
<1>4. /\ m.prev \in [Cells -> Cells \cup {Null}] /\ m.next \in [Cells -> Cells \cup {Null}]
      /\ Set2(m.prev, e, Null, b, a) \in [Cells -> Cells \cup {Null}]
      /\ Set2(m.next, e, Null, a, b) \in [Cells -> Cells \cup {Null}]
  BY <1>1 DEF Memory, Set2
<1>13. r \in Memory
  BY <1>3, <1>4 DEF Memory
<1>5. /\ \A c \in Cells : r.prev[c] = IF c = e THEN Null ELSE IF c = b THEN a ELSE m.prev[c]
      /\ \A c \in Cells : r.next[c] = IF c = e THEN Null ELSE IF c = a THEN b ELSE m.next[c]
  BY <1>3, <1>4 DEF Set2
<1>6. Chain(w) /\ Len(w) = n - 1
  BY WithoutIs DEF Threads
<1>7. \A i \in 1..n - 1 : w[i] = IF i < k THEN l[i] ELSE l[i + 1]
  BY DEF Without
<1>8. \A i \in 1..n - 1 : m.next[l[i]] = l[i + 1] /\ m.prev[l[i + 1]] = l[i]
  BY DEF Threads
<1>9. \A i \in 1..n : l[i] \in Cells
  BY DEF Threads, Chain
<1>10. \A i, j \in 1..n : l[i] = l[j] => i = j
  BY DEF Threads, Chain
<1>11. ASSUME NEW i \in 1..n - 2 PROVE r.next[w[i]] = w[i + 1] /\ r.prev[w[i + 1]] = w[i]
  <2>1. CASE i + 1 < k
    <3>1. w[i] = l[i] /\ w[i + 1] = l[i + 1] /\ i \in 1..n - 1 /\ i \in 1..n /\ i + 1 \in 1..n
      BY <1>1, <1>7, <2>1
    <3>2. l[i] # e /\ l[i] # a /\ l[i + 1] # e /\ l[i + 1] # b
      BY <1>1, <1>10, <2>1, <3>1
    <3>. QED  BY <1>5, <1>8, <1>9, <3>1, <3>2
  <2>2. CASE i + 1 = k
    <3>1. w[i] = a /\ w[i + 1] = b
      BY <1>1, <1>7, <2>2
    <3>2. a # e /\ b # e
      BY <1>1, <1>10
    <3>. QED  BY <1>1, <1>5, <3>1, <3>2
  <2>3. CASE i + 1 > k
    <3>1. w[i] = l[i + 1] /\ w[i + 1] = l[i + 2] /\ i + 1 \in 1..n - 1 /\ i + 1 \in 1..n /\ i + 2 \in 1..n
      BY <1>1, <1>7, <2>3
    <3>2. l[i + 1] # e /\ l[i + 1] # a /\ l[i + 2] # e /\ l[i + 2] # b
      BY <1>1, <1>10, <2>3, <3>1
    <3>3. m.next[l[i + 1]] = l[i + 2] /\ m.prev[l[i + 2]] = l[i + 1]
      <4>1. i + 1 + 1 = i + 2
        OBVIOUS
      <4>. QED  BY <1>8, <3>1, <4>1
    <3>. QED  BY <1>5, <1>9, <3>1, <3>2, <3>3
  <2>. QED  BY <1>1, <2>1, <2>2, <2>3
<1>12. Threads(r.next, r.prev, w)
  <2>1. Len(w) - 1 = n - 2
    BY <1>1, <1>6
  <2>. QED  BY <1>6, <1>11, <2>1 DEF Threads
<1>. QED  BY <1>3, <1>12, <1>13

LEMMA LruPushFrontThreads ==
    ASSUME NEW m \in Memory, NEW l, Threads(m.next, m.prev, l), NEW e \in Slots \ Between(l)
    PROVE  /\ LruPushFront(m, e) \in Memory
           /\ LruPushFront(m, e).slot = m.slot /\ LruPushFront(m, e).heap = m.heap
           /\ LruPushFront(m, e).count = m.count
           /\ Threads(LruPushFront(m, e).next, LruPushFront(m, e).prev, Before(l, e))
<1>. PICK n, w, b : n = Len(l) /\ w = Before(l, e) /\ b = l[2]
  OBVIOUS
<1>1. n \in Nat /\ n >= 2 /\ l[1] = LruHead /\ l[n] = LruTail
  BY DEF Threads, Chain
<1>2. \A i \in 1..n : l[i] \in Cells
  BY DEF Threads, Chain
<1>3. \A i, j \in 1..n : l[i] = l[j] => i = j
  BY DEF Threads, Chain
<1>4. \A i \in 1..n - 1 : m.next[l[i]] = l[i + 1] /\ m.prev[l[i + 1]] = l[i]
  BY DEF Threads
<1>5. \A i \in 1..n : l[i] # e
  <2>1. ASSUME NEW i \in 2..n - 1 PROVE l[i] # e
    BY DEF Between
  <2>2. l[1] # e /\ l[n] # e
    BY <1>1, CellsAre
  <2>. QED  BY <1>1, <2>1, <2>2
<1>6. m.next[LruHead] = b /\ b \in Cells \ {e, LruHead} /\ e \in Cells /\ e # LruHead
  <2>1. 1 \in 1..n - 1 /\ 1 + 1 = 2 /\ 2 \in 1..n /\ 1 \in 1..n
    BY <1>1
  <2>. QED  BY <1>1, <1>2, <1>3, <1>4, <1>5, <2>1, CellsAre
<1>. PICK r : r = LruPushFront(m, e)
  OBVIOUS
<1>7. r = [slot |-> m.slot, count |-> m.count, heap |-> m.heap,
           prev |-> Set2(m.prev, b, e, e, LruHead), next |-> Set2(m.next, LruHead, e, e, b)]
  BY <1>6, LruPushFrontIs
<1>8. /\ m.prev \in [Cells -> Cells \cup {Null}] /\ m.next \in [Cells -> Cells \cup {Null}]
      /\ Set2(m.prev, b, e, e, LruHead) \in [Cells -> Cells \cup {Null}]
      /\ Set2(m.next, LruHead, e, e, b) \in [Cells -> Cells \cup {Null}]
  BY <1>6, CellsAre DEF Memory, Set2
<1>14. r \in Memory
  BY <1>7, <1>8 DEF Memory
<1>9. /\ \A c \in Cells : r.prev[c] = IF c = b THEN e ELSE IF c = e THEN LruHead ELSE m.prev[c]
      /\ \A c \in Cells : r.next[c] = IF c = LruHead THEN e ELSE IF c = e THEN b ELSE m.next[c]
  BY <1>7, <1>8 DEF Set2
<1>10. Chain(w) /\ Len(w) = n + 1
  BY BeforeIs DEF Threads
<1>11. w[1] = LruHead /\ w[2] = e /\ \A i \in 3..n + 1 : w[i] = l[i - 1]
  BY <1>1 DEF Before
<1>12. ASSUME NEW i \in 1..n PROVE r.next[w[i]] = w[i + 1] /\ r.prev[w[i + 1]] = w[i]
  <2>1. CASE i = 1
    BY <1>6, <1>9, <1>11, <2>1, CellsAre
  <2>2. CASE i = 2
    <3>1. i + 1 \in 3..n + 1 /\ i + 1 - 1 = 2
      BY <1>1, <2>2
    <3>2. w[i] = e /\ w[i + 1] = b
      BY <1>11, <2>2, <3>1
    <3>. QED  BY <1>6, <1>9, <3>2
  <2>3. CASE i > 2
    <3>1. /\ i \in 3..n + 1 /\ i + 1 \in 3..n + 1 /\ i + 1 - 1 = i
          /\ i - 1 \in 1..n - 1 /\ i - 1 + 1 = i /\ i - 1 \in 1..n
      BY <1>1, <2>3
    <3>2. w[i] = l[i - 1] /\ w[i + 1] = l[i]
      BY <1>11, <3>1
    <3>3. l[i - 1] # LruHead /\ l[i - 1] # e /\ l[i] # e /\ l[i] # b
      BY <1>1, <1>3, <1>5, <2>3, <3>1
    <3>4. m.next[l[i - 1]] = l[i] /\ m.prev[l[i]] = l[i - 1]
      BY <1>4, <3>1
    <3>. QED  BY <1>2, <1>9, <3>1, <3>2, <3>3, <3>4
  <2>. QED  BY <1>1, <2>1, <2>2, <2>3
<1>13. Threads(r.next, r.prev, w)
  <2>1. Len(w) - 1 = n
    BY <1>1, <1>10
  <2>. QED  BY <1>10, <1>12, <2>1 DEF Threads
<1>. QED  BY <1>7, <1>13, <1>14

LEMMA EraseThreads ==
    ASSUME NEW m \in Memory, NEW l, Threads(m.next, m.prev, l), NEW e \in Slots \ Between(l)
    PROVE  /\ Erase(m, e) \in Memory
           /\ Erase(m, e).slot = Set2(m.slot, e, NoEntry, e, NoEntry)
           /\ Erase(m, e).heap = m.heap \ {m.slot[e].args}
           /\ Erase(m, e).count = m.count
           /\ Threads(Erase(m, e).next, Erase(m, e).prev, l)
<1>. PICK r, n : r = Erase(m, e) /\ n = Len(l)
  OBVIOUS
<1>1. r = [slot |-> Set2(m.slot, e, NoEntry, e, NoEntry), count |-> m.count,
           heap |-> m.heap \ {m.slot[e].args},
           prev |-> Set2(m.prev, e, Null, e, Null), next |-> Set2(m.next, e, Null, e, Null)]
  BY EraseIs
<1>2. /\ m.prev \in [Cells -> Cells \cup {Null}] /\ m.next \in [Cells -> Cells \cup {Null}]
      /\ Set2(m.prev, e, Null, e, Null) \in [Cells -> Cells \cup {Null}]
      /\ Set2(m.next, e, Null, e, Null) \in [Cells -> Cells \cup {Null}]
      /\ Set2(m.slot, e, NoEntry, e, NoEntry) \in [Slots -> Entries \cup {NoEntry}]
  BY DEF Memory, Set2
<1>3. r \in Memory
  BY <1>1, <1>2 DEF Memory
<1>4. /\ \A c \in Cells : r.prev[c] = IF c = e THEN Null ELSE m.prev[c]
      /\ \A c \in Cells : r.next[c] = IF c = e THEN Null ELSE m.next[c]
  BY <1>1, <1>2 DEF Set2
<1>5. n \in Nat /\ n >= 2 /\ l[1] = LruHead /\ l[n] = LruTail /\ \A i \in 1..n : l[i] \in Cells
  BY DEF Threads, Chain
<1>6. \A i \in 1..n : l[i] # e
  <2>1. ASSUME NEW i \in 2..n - 1 PROVE l[i] # e
    BY DEF Between
  <2>2. l[1] # e /\ l[n] # e
    BY <1>5, CellsAre
  <2>. QED  BY <1>5, <2>1, <2>2
<1>7. ASSUME NEW i \in 1..n - 1 PROVE r.next[l[i]] = l[i + 1] /\ r.prev[l[i + 1]] = l[i]
  <2>1. i \in 1..n /\ i + 1 \in 1..n
    BY <1>5
  <2>2. m.next[l[i]] = l[i + 1] /\ m.prev[l[i + 1]] = l[i]
    BY DEF Threads
  <2>. QED  BY <1>4, <1>5, <1>6, <2>1, <2>2
<1>8. Threads(r.next, r.prev, l)
  BY <1>7 DEF Threads
<1>. QED  BY <1>1, <1>3, <1>8

LEMMA HoldingIs ==
    ASSUME NEW m, NEW l, Linked(m, l), NEW e \in Holding(m)
    PROVE  e \in Between(l) /\ e \in Slots /\ m.slot[e] \in Entries
BY DEF Linked, Holding, Memory

(* An entry leaves the list and the array. *)
LEMMA RemoveErase ==
    ASSUME NEW m, NEW l, Linked(m, l), NEW e \in Holding(m)
    PROVE  /\ Linked(Erase(LruRemove(m, e), e), Without(l, e))
           /\ Erase(LruRemove(m, e), e).slot = Set2(m.slot, e, NoEntry, e, NoEntry)
           /\ Erase(LruRemove(m, e), e).heap = m.heap \ {m.slot[e].args}
           /\ Erase(LruRemove(m, e), e).count = m.count
<1>. PICK r, x, w : r = LruRemove(m, e) /\ x = Erase(r, e) /\ w = Without(l, e)
  OBVIOUS
<1>1. m \in Memory /\ Threads(m.next, m.prev, l) /\ e \in Between(l) /\ e \in Slots
  BY HoldingIs DEF Linked
<1>2. /\ r \in Memory /\ r.slot = m.slot /\ r.heap = m.heap /\ r.count = m.count
      /\ Threads(r.next, r.prev, w)
  BY <1>1, LruRemoveThreads
<1>3. Between(w) = Between(l) \ {e}
  BY <1>1, WithoutIs DEF Threads
<1>4. /\ x \in Memory /\ x.slot = Set2(m.slot, e, NoEntry, e, NoEntry)
      /\ x.heap = m.heap \ {m.slot[e].args} /\ x.count = m.count
      /\ Threads(x.next, x.prev, w)
  BY <1>1, <1>2, <1>3, EraseThreads
<1>5. m.slot \in [Slots -> Entries \cup {NoEntry}]
  BY <1>1 DEF Memory
<1>6. Holding(x) = Holding(m) \ {e}
  BY <1>4, <1>5 DEF Holding, Set2
<1>7. Between(l) = Holding(m)
  BY DEF Linked
<1>. QED  BY <1>3, <1>4, <1>6, <1>7 DEF Linked

LEMMA CountIs == ASSUME NEW n \in Int PROVE Count(n) \in 0..SizeMod - 1
BY SizeModAssumption, CapsWithinArray DEF Count

(* A change of the count leaves the links alone. *)
LEMMA Counted ==
    ASSUME NEW m, NEW l, Linked(m, l), NEW c \in 0..SizeMod - 1
    PROVE  /\ Linked([m EXCEPT !.count = c], l)
           /\ [m EXCEPT !.count = c].slot = m.slot
           /\ [m EXCEPT !.count = c].heap = m.heap
           /\ [m EXCEPT !.count = c].count = c
<1>. PICK x : x = [m EXCEPT !.count = c]
  OBVIOUS
<1>1. x \in Memory /\ x.slot = m.slot /\ x.next = m.next /\ x.prev = m.prev /\ x.heap = m.heap /\ x.count = c
  BY DEF Linked, Memory
<1>. QED  BY <1>1 DEF Linked, Holding

LEMMA EvictEntryIs ==
    ASSUME NEW m, NEW l, Linked(m, l), NEW e \in Holding(m)
    PROVE  /\ Linked(EvictEntry(m, e), Without(l, e))
           /\ EvictEntry(m, e).slot = Set2(m.slot, e, NoEntry, e, NoEntry)
           /\ EvictEntry(m, e).heap = m.heap \ {m.slot[e].args}
           /\ EvictEntry(m, e).count = Count(m.count - 1)
<1>. PICK x, w : x = Erase(LruRemove(m, e), e) /\ w = Without(l, e)
  OBVIOUS
<1>1. /\ Linked(x, w) /\ x.slot = Set2(m.slot, e, NoEntry, e, NoEntry)
      /\ x.heap = m.heap \ {m.slot[e].args} /\ x.count = m.count
  BY RemoveErase
<1>2. Count(m.count - 1) \in 0..SizeMod - 1
  <2>1. m.count - 1 \in Int
    BY DEF Linked, Memory
  <2>. QED  BY <2>1, CountIs
<1>3. EvictEntry(m, e) = [x EXCEPT !.count = Count(m.count - 1)]
  BY <1>1 DEF EvictEntry
<1>. QED  BY <1>1, <1>2, <1>3, Counted

(* An entry moves to the front. *)
LEMMA RemovePush ==
    ASSUME NEW m, NEW l, Linked(m, l), NEW e \in Holding(m)
    PROVE  /\ Linked(LruPushFront(LruRemove(m, e), e), Before(Without(l, e), e))
           /\ LruPushFront(LruRemove(m, e), e).slot = m.slot
           /\ LruPushFront(LruRemove(m, e), e).heap = m.heap
           /\ LruPushFront(LruRemove(m, e), e).count = m.count
<1>. PICK r, x, w, v : /\ r = LruRemove(m, e) /\ x = LruPushFront(r, e)
                       /\ w = Without(l, e) /\ v = Before(w, e)
  OBVIOUS
<1>1. m \in Memory /\ Threads(m.next, m.prev, l) /\ e \in Between(l) /\ e \in Slots
  BY HoldingIs DEF Linked
<1>2. /\ r \in Memory /\ r.slot = m.slot /\ r.heap = m.heap /\ r.count = m.count
      /\ Threads(r.next, r.prev, w)
  BY <1>1, LruRemoveThreads
<1>3. Between(w) = Between(l) \ {e}
  BY <1>1, WithoutIs DEF Threads
<1>4. /\ x \in Memory /\ x.slot = m.slot /\ x.heap = m.heap /\ x.count = m.count
      /\ Threads(x.next, x.prev, v)
  BY <1>1, <1>2, <1>3, LruPushFrontThreads
<1>5. Between(v) = Between(w) \cup {e}
  BY <1>1, <1>2, <1>3, BeforeIs DEF Threads
<1>. QED  BY <1>1, <1>3, <1>4, <1>5 DEF Linked, Holding

(* An entry is written into an empty element and linked. *)
LEMMA FillPush ==
    ASSUME NEW m, NEW l, Linked(m, l), NEW e \in Slots \ Holding(m),
           NEW n \in Entries, NEW h \in SUBSET Blocks, NEW c \in 0..SizeMod - 1,
           NEW f, f \in Memory, f.slot = [m.slot EXCEPT ![e] = n], f.heap = h,
           f.count = c, f.prev = m.prev, f.next = m.next
    PROVE  /\ Linked(LruPushFront(f, e), Before(l, e))
           /\ LruPushFront(f, e).slot = [m.slot EXCEPT ![e] = n]
           /\ LruPushFront(f, e).heap = h
           /\ LruPushFront(f, e).count = c
<1>. PICK x, v : x = LruPushFront(f, e) /\ v = Before(l, e)
  OBVIOUS
<1>1. m \in Memory /\ Threads(m.next, m.prev, l) /\ Between(l) = Holding(m) /\ e \in Slots \ Between(l)
  BY DEF Linked
<1>2. m.slot \in [Slots -> Entries \cup {NoEntry}]
  BY <1>1 DEF Memory
<1>3. /\ f.slot = [m.slot EXCEPT ![e] = n] /\ f.heap = h /\ f.count = c
      /\ f \in Memory /\ Threads(f.next, f.prev, l)
  BY <1>1
<1>4. /\ x \in Memory /\ x.slot = f.slot /\ x.heap = f.heap /\ x.count = f.count
      /\ Threads(x.next, x.prev, v)
  BY <1>1, <1>3, LruPushFrontThreads
<1>5. Between(v) = Between(l) \cup {e}
  BY <1>1, BeforeIs DEF Threads
<1>6. Holding(x) = Holding(m) \cup {e}
  BY <1>2, <1>3, <1>4, NoEntryAssumption DEF Holding
<1>. QED  BY <1>1, <1>3, <1>4, <1>5, <1>6 DEF Linked

(* A change of an entry leaves the links alone. *)
LEMMA Rewritten ==
    ASSUME NEW m, NEW l, Linked(m, l), NEW e \in Holding(m),
           NEW n \in Entries, NEW h \in SUBSET Blocks,
           NEW f, f \in Memory, f.slot = [m.slot EXCEPT ![e] = n], f.heap = h,
           f.count = m.count, f.prev = m.prev, f.next = m.next
    PROVE  Linked(f, l) /\ Holding(f) = Holding(m)
<1>1. m.slot \in [Slots -> Entries \cup {NoEntry}] /\ e \in Slots
  BY DEF Linked, Memory, Holding
<1>2. Holding(f) = Holding(m)
  BY <1>1, NoEntryAssumption DEF Holding
<1>. QED  BY <1>2 DEF Linked

LEMMA LinkedIsListed ==
    ASSUME NEW m, NEW l, Linked(m, l)
    PROVE  Listed(m) = l
BY ListedIs DEF Linked

(* The entry next to the tail, and the one before another. *)
LEMMA BeforeTail ==
    ASSUME NEW m, NEW l, Linked(m, l)
    PROVE  /\ m.prev[LruTail] = l[Len(l) - 1]
           /\ m.prev[LruTail] \in Holding(m) \cup {LruHead}
<1>. PICK n : n = Len(l)
  OBVIOUS
<1>1. n \in Nat /\ n >= 2 /\ l[1] = LruHead /\ l[n] = LruTail
  BY DEF Linked, Threads, Chain
<1>2. n - 1 \in 1..n - 1 /\ n - 1 + 1 = n
  BY <1>1
<1>3. m.prev[LruTail] = l[n - 1]
  BY <1>1, <1>2 DEF Linked, Threads
<1>4. CASE n = 2
  BY <1>1, <1>3, <1>4
<1>5. CASE n > 2
  <2>1. n - 1 \in 2..n - 1
    BY <1>1, <1>5
  <2>2. l[n - 1] \in Between(l)
    BY <2>1 DEF Between
  <2>. QED  BY <1>3, <2>2 DEF Linked
<1>. QED  BY <1>1, <1>3, <1>4, <1>5

LEMMA BeforeEntry ==
    ASSUME NEW m, NEW l, Linked(m, l), NEW e \in Holding(m)
    PROVE  m.prev[e] \in (Holding(m) \ {e}) \cup {LruHead}
<1>. PICK n, k : n = Len(l) /\ k = Place(l, e)
  OBVIOUS
<1>1. n \in Nat /\ l[1] = LruHead /\ \A i, j \in 1..n : l[i] = l[j] => i = j
  BY DEF Linked, Threads, Chain
<1>2. k \in 2..n - 1 /\ l[k] = e /\ m.prev[e] = l[k - 1]
  BY HoldingIs, Neighbours DEF Linked
<1>3. k - 1 \in 1..n /\ k \in 1..n /\ k - 1 # k
  BY <1>1, <1>2
<1>4. l[k - 1] # e
  BY <1>1, <1>2, <1>3
<1>5. CASE k = 2
  BY <1>1, <1>2, <1>5
<1>6. CASE k > 2
  <2>1. k - 1 \in 2..n - 1
    BY <1>1, <1>2, <1>6
  <2>2. l[k - 1] \in Between(l)
    BY <2>1 DEF Between
  <2>. QED  BY <1>2, <1>4, <2>2 DEF Linked
<1>. QED  BY <1>2, <1>5, <1>6

LEMMA FirstIs ==
    ASSUME NEW S, S \subseteq Slots, S # {}
    PROVE  First(S) \in S /\ \A t \in S : First(S) <= t
<1>1. S \subseteq Nat
  BY CapsWithinArray DEF Slots
<1>2. \E s \in S : \A t \in S : s <= t
  BY <1>1, LeastNatural
<1>. QED  BY <1>2 DEF First

-----------------------------------------------------------------------------
(* The links are those of a list of the entries whenever a step begins,    *)
(* and a walk stands on that list.                                         *)

GetOps == [pc : {"walk"}, at : Cells, do : {"get"}, key : Keys]
PutOps == [pc : {"walk"}, at : Cells, do : {"put"}, key : Keys, cif : Cifs, args : Blocks]
EraseOps == [pc : {"erase"}, at : Nat \ {0}]

Keyed(m) == \A e \in Holding(m) : m.slot[e].key \in Keys

OpOk(m, o) ==
    \/ o = NoOp
    \/ o \in GetOps \cup PutOps /\ o.at \in Holding(m) \cup {LruHead}
    \/ o \in EraseOps

LinksInv ==
    /\ Linked(mem, Listed(mem)) /\ Keyed(mem)
    /\ OpOk(mem, op)
    /\ cap \in 1..AllocCap /\ now \in 0..MaxTime

LEMMA InitLinks == ASSUME Init PROVE LinksInv
<1>. DEFINE l == <<LruHead, LruTail>>
<1>1. mem \in Memory /\ Holding(mem) = {}
  BY CellsAre, SizeModAssumption, CapsWithinArray DEF Init, Memory, Holding
<1>2. Chain(l)
  BY CellsAre, CellsAssumption DEF Chain
<1>3. mem.next[LruHead] = LruTail /\ mem.prev[LruTail] = LruHead
  BY CellsAre DEF Init
<1>4. Threads(mem.next, mem.prev, l)
  BY <1>2, <1>3 DEF Threads
<1>5. Between(l) = {}
  BY DEF Between
<1>6. Linked(mem, l)
  BY <1>1, <1>4, <1>5 DEF Linked
<1>7. Linked(mem, Listed(mem))
  BY <1>6, LinkedIsListed
<1>. QED  BY <1>1, <1>7, CapsWithinArray, ClockAssumption DEF Init, LinksInv, Keyed, OpOk

(* What a function that returns leaves to show. *)
LEMMA Returned ==
    ASSUME LinksInv, NEW m, NEW l, Linked(m, l), Keyed(m), Return(m)
    PROVE  LinksInv'
BY LinkedIsListed DEF Return, LinksInv, OpOk

LEMMA CallLinks ==
    ASSUME LinksInv, NEW k \in Keys
    PROVE  /\ CallGet(k) => LinksInv'
           /\ CallEvictAll => LinksInv'
           /\ \A c \in Cifs, b \in Blocks : CallPut(k, c, b) => LinksInv'
<1>1. mem.prev[LruTail] \in Holding(mem) \cup {LruHead} /\ mem.prev[LruTail] \in Cells
  BY BeforeTail, CellsAre DEF LinksInv, Holding
<1>2. ASSUME NEW o, Call(o), OpOk(mem, o) PROVE LinksInv'
  BY <1>2 DEF LinksInv, Call
<1>3. OpOk(mem, [pc |-> "walk", at |-> mem.prev[LruTail], do |-> "get", key |-> k])
  BY <1>1 DEF OpOk, GetOps
<1>4. OpOk(mem, [pc |-> "erase", at |-> 1])
  BY DEF OpOk, EraseOps
<1>5. ASSUME NEW c \in Cifs, NEW b \in Blocks
      PROVE  OpOk(mem, [pc |-> "walk", at |-> mem.prev[LruTail], do |-> "put",
                        key |-> k, cif |-> c, args |-> b])
  BY <1>1 DEF OpOk, PutOps
<1>. QED  BY <1>2, <1>3, <1>4, <1>5 DEF CallGet, CallEvictAll, CallPut

LEMMA HasKeyIs ==
    ASSUME LinksInv, NEW e \in Slots
    PROVE  HasKey(e) <=> e \in Holding(mem)
BY DEF LinksInv, Keyed, HasKey, Holding

(* The elements that lose their entry are the only ones that change. *)
LEMMA KeyedAfter ==
    ASSUME NEW m, NEW x, NEW e, m \in Memory, Keyed(m), x.slot = Set2(m.slot, e, NoEntry, e, NoEntry)
    PROVE  Keyed(x) /\ Holding(x) = Holding(m) \ {e}
<1>1. m.slot \in [Slots -> Entries \cup {NoEntry}]
  BY DEF Memory
<1>2. \A s \in Slots : x.slot[s] = IF s = e THEN NoEntry ELSE m.slot[s]
  BY <1>1 DEF Set2
<1>3. Holding(x) = Holding(m) \ {e}
  BY <1>2 DEF Holding
<1>. QED  BY <1>2, <1>3 DEF Keyed, Holding

LEMMA WalkOnLinks ==
    ASSUME LinksInv, WalkOn
    PROVE  LinksInv'
<1>. PICK l : l = Listed(mem)
  OBVIOUS
<1>1. Linked(mem, l) /\ Keyed(mem) /\ mem \in Memory
  BY DEF LinksInv, Linked
<1>2. op \in GetOps \cup PutOps /\ op.at \in Holding(mem)
  BY DEF LinksInv, OpOk, WalkOn, NoOp, EraseOps
<1>. PICK e : e = op.at
  OBVIOUS
<1>3. mem.prev[e] \in (Holding(mem) \ {e}) \cup {LruHead} /\ mem.prev[e] \in Cells
  BY <1>1, <1>2, BeforeEntry, CellsAre DEF Holding
<1>4. op' = [op EXCEPT !.at = mem.prev[e]]
  BY DEF WalkOn
<1>5. op' \in GetOps \cup PutOps /\ op'.at = mem.prev[e]
  BY <1>2, <1>3, <1>4 DEF GetOps, PutOps
<1>6. CASE mem' = mem
  BY <1>3, <1>5, <1>6 DEF LinksInv, OpOk, WalkOn
<1>7. CASE mem' = EvictEntry(mem, e)
  <2>1. /\ Linked(mem', Without(l, e))
        /\ mem'.slot = Set2(mem.slot, e, NoEntry, e, NoEntry)
    BY <1>1, <1>2, <1>7, EvictEntryIs
  <2>2. Keyed(mem') /\ Holding(mem') = Holding(mem) \ {e}
    BY <1>1, <2>1, KeyedAfter
  <2>3. Linked(mem', Listed(mem'))
    BY <2>1, LinkedIsListed
  <2>. QED  BY <1>3, <1>5, <2>2, <2>3 DEF LinksInv, OpOk, WalkOn
<1>. QED  BY <1>6, <1>7 DEF WalkOn

(* The element find_slot finds. *)
LEMMA FoundIs ==
    ASSUME LinksInv, Found # {}
    PROVE  First(Found) \in Holding(mem) /\ mem.slot[First(Found)].key = op.key
<1>1. Found \subseteq Slots
  <2>1. cap \in 1..AllocCap
    BY DEF LinksInv
  <2>. QED  BY <2>1, CapsWithinArray DEF Found, Slots
<1>2. First(Found) \in Found /\ First(Found) \in Slots
  BY <1>1, FirstIs
<1>. QED  BY <1>2, HasKeyIs DEF Found

(* The last use is set, and the entry moves to the front. *)
LEMMA TouchedIs ==
    ASSUME NEW m, NEW l, Linked(m, l), NEW e \in Holding(m), now \in 0..MaxTime
    PROVE  /\ Linked(Touched(m, e), Before(Without(l, e), e))
           /\ Touched(m, e).slot = [m.slot EXCEPT ![e] = [m.slot[e] EXCEPT !.used = now]]
           /\ Touched(m, e).heap = m.heap
           /\ Touched(m, e).count = m.count
           /\ Holding(Touched(m, e)) = Holding(m)
<1>. PICK n : n = [m.slot[e] EXCEPT !.used = now]
  OBVIOUS
<1>9. PICK f : f = [m EXCEPT !.slot[e].used = now]
  OBVIOUS
<1>1. m \in Memory /\ e \in Slots /\ m.slot[e] \in Entries
  BY HoldingIs DEF Linked
<1>2. n \in Entries
  BY <1>1 DEF Entries
<1>3. /\ f.slot = [m.slot EXCEPT ![e] = n] /\ f.heap = m.heap /\ f.count = m.count
      /\ f.prev = m.prev /\ f.next = m.next
      /\ f = [slot |-> f.slot, prev |-> f.prev, next |-> f.next, count |-> f.count, heap |-> f.heap]
  BY <1>1, <1>9 DEF Memory
<1>4. f \in Memory
  BY <1>1, <1>2, <1>3 DEF Memory
<1>5. m.heap \in SUBSET Blocks
  BY <1>1 DEF Memory
<1>6. Linked(f, l) /\ Holding(f) = Holding(m)
  BY <1>2, <1>3, <1>4, <1>5, Rewritten
<1>7. Touched(m, e) = LruPushFront(LruRemove(f, e), e)
  BY <1>9 DEF Touched
<1>8. /\ Linked(Touched(m, e), Before(Without(l, e), e))
      /\ Touched(m, e).slot = f.slot /\ Touched(m, e).heap = f.heap
      /\ Touched(m, e).count = f.count
  <2>1. e \in Holding(f)
    BY <1>6
  <2>. QED  BY <1>6, <1>7, <2>1, RemovePush
<1>. QED  BY <1>3, <1>6, <1>8 DEF Holding

LEMMA GetLinks ==
    ASSUME LinksInv, GetHit \/ GetMiss
    PROVE  LinksInv'
<1>1. Linked(mem, Listed(mem)) /\ Keyed(mem) /\ now \in 0..MaxTime
  BY DEF LinksInv
<1>2. CASE GetMiss
  BY <1>1, <1>2, Returned DEF GetMiss
<1>3. CASE GetHit
  <2>. PICK e, m : e = First(Found) /\ m = Touched(mem, e)
    OBVIOUS
  <2>1. e \in Holding(mem) /\ Return(m)
    BY <1>3, FoundIs DEF GetHit
  <2>2. /\ Linked(m, Before(Without(Listed(mem), e), e)) /\ Holding(m) = Holding(mem)
        /\ m.slot = [mem.slot EXCEPT ![e] = [mem.slot[e] EXCEPT !.used = now]]
    BY <1>1, <2>1, TouchedIs
  <2>3. mem.slot \in [Slots -> Entries \cup {NoEntry}] /\ mem.slot[e] \in Entries
    BY <1>1, <2>1, HoldingIs DEF Linked, Memory
  <2>4. Keyed(m)
    BY <1>1, <2>2, <2>3 DEF Keyed, Holding, Entries
  <2>. QED  BY <2>1, <2>2, <2>4, Returned
<1>. QED  BY <1>2, <1>3

(* The entry of a known key is overwritten, and moves to the front. *)
LEMMA PutReplaceIs ==
    ASSUME LinksInv, PutReplace, NEW e, e = First(Found)
    PROVE  \E m : /\ Return(m) /\ e \in Holding(mem)
                  /\ Linked(m, Before(Without(Listed(mem), e), e))
                  /\ m.slot = [mem.slot EXCEPT ![e] =
                                  [key |-> op.key, cif |-> op.cif, args |-> op.args, used |-> now]]
                  /\ m.heap = (mem.heap \ {mem.slot[e].args}) \cup {op.args}
                  /\ m.count = mem.count
<1>. PICK l, n : /\ l = Listed(mem)
                 /\ n = [mem.slot[e] EXCEPT !.cif = op.cif, !.args = op.args]
  OBVIOUS
<1>15. PICK f :
        /\ f = [mem EXCEPT !.slot[e].cif = op.cif,
                           !.slot[e].args = op.args,
                           !.heap = (@ \ {mem.slot[e].args}) \cup {op.args}]
  OBVIOUS
<1>1. Linked(mem, l) /\ Keyed(mem) /\ now \in 0..MaxTime /\ mem \in Memory
  BY DEF LinksInv, Linked
<1>2. op \in PutOps
  BY DEF LinksInv, OpOk, PutReplace, Walked, NoOp, EraseOps, GetOps
<1>3. e \in Holding(mem) /\ e \in Slots /\ mem.slot[e] \in Entries
  BY <1>1, FoundIs, HoldingIs DEF PutReplace
<1>4. n \in Entries /\ n.key = mem.slot[e].key
  BY <1>2, <1>3 DEF Entries, PutOps
<1>. PICK h : h = (mem.heap \ {mem.slot[e].args}) \cup {op.args}
  OBVIOUS
<1>5. h \in SUBSET Blocks
  BY <1>1, <1>2 DEF Memory, PutOps
<1>6. /\ f.slot = [mem.slot EXCEPT ![e] = n] /\ f.heap = h /\ f.count = mem.count
      /\ f.prev = mem.prev /\ f.next = mem.next
      /\ f = [slot |-> f.slot, prev |-> f.prev, next |-> f.next, count |-> f.count, heap |-> f.heap]
  BY <1>1, <1>3, <1>15 DEF Memory, Entries
<1>7. f \in Memory
  BY <1>1, <1>3, <1>4, <1>5, <1>6 DEF Memory
<1>8. Linked(f, l) /\ Holding(f) = Holding(mem)
  BY <1>1, <1>3, <1>4, <1>5, <1>6, <1>7, Rewritten
<1>9. mem.slot \in [Slots -> Entries \cup {NoEntry}]
  BY <1>1 DEF Memory
<1>10. f.slot[e] = n /\ \A s \in Slots : s # e => f.slot[s] = mem.slot[s]
  BY <1>3, <1>6, <1>9
<1>. PICK m : m = Touched(f, e)
  OBVIOUS
<1>12. /\ Linked(m, Before(Without(l, e), e)) /\ m.heap = f.heap /\ m.count = f.count
       /\ m.slot = [f.slot EXCEPT ![e] = [f.slot[e] EXCEPT !.used = now]]
  <2>1. e \in Holding(f)
    BY <1>3, <1>8
  <2>. QED  BY <1>1, <1>8, <2>1, TouchedIs
<1>. PICK k : k = [key |-> op.key, cif |-> op.cif, args |-> op.args, used |-> now]
  OBVIOUS
<1>13. [f.slot[e] EXCEPT !.used = now] = k
  <2>. PICK g : g = mem.slot[e]
    OBVIOUS
  <2>1. g \in Entries /\ g.key = op.key
    BY <1>3, FoundIs DEF PutReplace
  <2>2. n = [key |-> op.key, cif |-> op.cif, args |-> op.args, used |-> g.used]
    BY <2>1 DEF Entries
  <2>3. PICK x : x = f.slot[e]
    OBVIOUS
  <2>4. x = [key |-> op.key, cif |-> op.cif, args |-> op.args, used |-> g.used]
    BY <1>10, <2>2, <2>3
  <2>5. [x EXCEPT !.used = now] = [key |-> op.key, cif |-> op.cif, args |-> op.args, used |-> now]
    BY <2>4
  <2>. QED  BY <2>3, <2>5
<1>14. m.slot = [mem.slot EXCEPT ![e] = k]
  BY <1>3, <1>6, <1>9, <1>12, <1>13
<1>16. Return(m)
  BY <1>15 DEF PutReplace
<1>. QED  BY <1>3, <1>6, <1>12, <1>14, <1>16

LEMMA PutReplaceLinks ==
    ASSUME LinksInv, PutReplace
    PROVE  LinksInv'
<1>. PICK e, l : e = First(Found) /\ l = Before(Without(Listed(mem), e), e)
  OBVIOUS
<1>1. PICK m : /\ Return(m) /\ e \in Holding(mem) /\ Linked(m, l)
               /\ m.slot = [mem.slot EXCEPT ![e] =
                               [key |-> op.key, cif |-> op.cif, args |-> op.args, used |-> now]]
  BY PutReplaceIs
<1>2. mem.slot \in [Slots -> Entries \cup {NoEntry}] /\ Keyed(mem)
  BY DEF LinksInv, Linked, Memory
<1>3. op.key \in Keys
  BY DEF LinksInv, OpOk, PutReplace, Walked, NoOp, EraseOps, GetOps, PutOps
<1>4. Keyed(m)
  <2>1. \A s \in Slots : s # e => m.slot[s] = mem.slot[s]
    BY <1>1, <1>2
  <2>2. m.slot[e].key \in Keys
    BY <1>1, <1>2, <1>3 DEF Holding
  <2>. QED  BY <1>2, <2>1, <2>2 DEF Keyed, Holding
<1>. QED  BY <1>1, <1>4, Returned

(* The memory after evict_lru_one, if there was need of it. *)
LEMMA RoomyIs ==
    ASSUME LinksInv
    PROVE  \E l : Linked(Roomy, l) /\ Keyed(Roomy)
<1>. PICK e, l : e = mem.prev[LruTail] /\ l = Listed(mem)
  OBVIOUS
<1>1. Linked(mem, l) /\ Keyed(mem) /\ mem \in Memory
  BY DEF LinksInv, Linked
<1>2. e \in Holding(mem) \cup {LruHead}
  BY <1>1, BeforeTail
<1>3. CASE mem.count >= cap /\ e \notin {Null, LruHead}
  <2>1. e \in Holding(mem) /\ Roomy = EvictEntry(mem, e)
    BY <1>2, <1>3 DEF Roomy
  <2>2. /\ Linked(EvictEntry(mem, e), Without(l, e))
        /\ EvictEntry(mem, e).slot = Set2(mem.slot, e, NoEntry, e, NoEntry)
    BY <1>1, <2>1, EvictEntryIs
  <2>3. Keyed(EvictEntry(mem, e))
    BY <1>1, <2>2, KeyedAfter
  <2>. QED  BY <2>1, <2>2, <2>3
<1>4. CASE ~(mem.count >= cap /\ e \notin {Null, LruHead})
  BY <1>1, <1>4 DEF Roomy
<1>. QED  BY <1>3, <1>4

(* The element find_empty finds. *)
LEMMA EmptyIs ==
    ASSUME cap \in 1..AllocCap, NEW m, m \in Memory, Keyed(m), Empty(m) # {}
    PROVE  First(Empty(m)) \in Slots \ Holding(m)
<1>1. Empty(m) \subseteq Slots
  BY CapsWithinArray DEF Empty, Slots
<1>2. First(Empty(m)) \in Empty(m)
  BY <1>1, FirstIs
<1>. QED  BY <1>1, <1>2 DEF Empty, Keyed, Holding

(* The entry of a new key is written and linked. *)
LEMMA PutNewIs ==
    ASSUME LinksInv, ~StrdupMayFail, PutNew, NEW r, r = Roomy, NEW l, Linked(r, l), Keyed(r),
           NEW e, e = First(Empty(r))
    PROVE  \E m : /\ Return(m) /\ e \in Slots \ Holding(r)
                  /\ Linked(m, Before(l, e))
                  /\ m.slot = [r.slot EXCEPT ![e] =
                                  [key |-> op.key, cif |-> op.cif, args |-> op.args, used |-> now]]
                  /\ m.heap = r.heap \cup {op.args}
                  /\ m.count = Count(r.count + 1)
<1>2. cap \in 1..AllocCap /\ now \in 0..MaxTime /\ r \in Memory
  BY DEF LinksInv, Linked
<1>3. op \in PutOps
  BY DEF LinksInv, OpOk, PutNew, Walked, NoOp, EraseOps, GetOps
<1>4. e \in Slots \ Holding(r)
  BY <1>2, EmptyIs DEF PutNew
<1>. PICK n : n = [key |-> op.key, cif |-> op.cif, args |-> op.args, used |-> now]
  OBVIOUS
<1>5. n \in Entries /\ n.key \in Keys
  BY <1>2, <1>3 DEF Entries, PutOps
<1>. PICK h, c : h = r.heap \cup {op.args} /\ c = Count(r.count + 1)
  OBVIOUS
<1>6. h \in SUBSET Blocks
  BY <1>2, <1>3 DEF Memory, PutOps
<1>7. c \in 0..SizeMod - 1
  <2>1. r.count + 1 \in Int
    BY <1>2 DEF Memory
  <2>. QED  BY <2>1, CountIs
<1>8. PICK f : f = [r EXCEPT !.slot[e] = n, !.heap = h, !.count = c]
  OBVIOUS
<1>9. /\ f.slot = [r.slot EXCEPT ![e] = n] /\ f.heap = h /\ f.count = c
      /\ f.prev = r.prev /\ f.next = r.next
      /\ f = [slot |-> f.slot, prev |-> f.prev, next |-> f.next, count |-> f.count, heap |-> f.heap]
  BY <1>2, <1>8 DEF Memory
<1>10. f \in Memory
  BY <1>2, <1>5, <1>6, <1>7, <1>9 DEF Memory
<1>11. Return(LruPushFront(f, e))
  BY <1>8 DEF PutNew
<1>. PICK m : m = LruPushFront(f, e)
  OBVIOUS
<1>12. /\ Linked(m, Before(l, e)) /\ m.slot = [r.slot EXCEPT ![e] = n]
       /\ m.heap = h /\ m.count = c
  <2>1. Linked(r, l) /\ Linked(LruPushFront(f, e), Before(l, e))
    BY <1>4, <1>5, <1>6, <1>7, <1>9, <1>10, FillPush
  <2>2. /\ LruPushFront(f, e).slot = [r.slot EXCEPT ![e] = n]
        /\ LruPushFront(f, e).heap = h /\ LruPushFront(f, e).count = c
    BY <2>1, <1>4, <1>5, <1>6, <1>7, <1>9, <1>10, FillPush, SMTT(30)
  <2>. QED  BY <2>1, <2>2
<1>. QED  BY <1>4, <1>11, <1>12

LEMMA PutNewLinks ==
    ASSUME LinksInv, ~StrdupMayFail, PutNew
    PROVE  LinksInv'
<1>. PICK r, e : r = Roomy /\ e = First(Empty(r))
  OBVIOUS
<1>1. PICK l : Linked(r, l) /\ Keyed(r)
  BY RoomyIs
<1>2. PICK m : /\ Return(m) /\ e \in Slots \ Holding(r) /\ Linked(m, Before(l, e))
               /\ m.slot = [r.slot EXCEPT ![e] =
                               [key |-> op.key, cif |-> op.cif, args |-> op.args, used |-> now]]
  BY <1>1, PutNewIs
<1>3. op.key \in Keys
  BY DEF LinksInv, OpOk, PutNew, Walked, NoOp, EraseOps, GetOps, PutOps
<1>4. r.slot \in [Slots -> Entries \cup {NoEntry}]
  BY <1>1 DEF Linked, Memory
<1>5. Keyed(m)
  <2>1. \A s \in Slots : s # e => m.slot[s] = r.slot[s]
    BY <1>2, <1>4
  <2>2. m.slot[e].key \in Keys
    BY <1>2, <1>3, <1>4
  <2>. QED  BY <1>1, <2>1, <2>2 DEF Keyed, Holding
<1>. QED  BY <1>2, <1>5, Returned

LEMMA PutRejectLinks ==
    ASSUME LinksInv, PutReject
    PROVE  LinksInv'
<1>. PICK r : r = Roomy
  OBVIOUS
<1>1. PICK l : Linked(r, l) /\ Keyed(r)
  BY RoomyIs
<1>2. op \in PutOps
  BY DEF LinksInv, OpOk, PutReject, Walked, NoOp, EraseOps, GetOps
<1>3. PICK m : m = [r EXCEPT !.heap = @ \cup {op.args}]
  OBVIOUS
<1>4. /\ m.slot = r.slot /\ m.prev = r.prev /\ m.next = r.next /\ m \in Memory
  BY <1>1, <1>2, <1>3 DEF Linked, Memory, PutOps
<1>5. Linked(m, l) /\ Keyed(m)
  BY <1>1, <1>4 DEF Linked, Holding, Keyed
<1>6. Return(m)
  BY <1>3 DEF PutReject
<1>. QED  BY <1>5, <1>6, Returned

LEMMA EraseOnLinks ==
    ASSUME LinksInv, EraseOn
    PROVE  LinksInv'
<1>. PICK l, e : l = Listed(mem) /\ e = op.at
  OBVIOUS
<1>1. Linked(mem, l) /\ Keyed(mem) /\ mem \in Memory /\ cap \in 1..AllocCap
  BY DEF LinksInv, Linked
<1>2. op \in EraseOps
  BY DEF LinksInv, OpOk, EraseOn, NoOp, GetOps, PutOps
<1>3. e \in Slots /\ op' \in EraseOps
  BY <1>1, <1>2, CapsWithinArray DEF EraseOn, EraseOps, Slots
<1>4. CASE ~HasKey(e)
  <2>1. mem' = mem
    BY <1>4 DEF EraseOn
  <2>. QED  BY <1>3, <2>1 DEF LinksInv, OpOk, EraseOn
<1>5. CASE HasKey(e)
  <2>1. e \in Holding(mem) /\ mem' = Erase(LruRemove(mem, e), e)
    BY <1>3, <1>5, HasKeyIs DEF EraseOn
  <2>2. /\ Linked(mem', Without(l, e))
        /\ mem'.slot = Set2(mem.slot, e, NoEntry, e, NoEntry)
    BY <1>1, <2>1, RemoveErase
  <2>3. Keyed(mem')
    BY <1>1, <2>2, KeyedAfter
  <2>4. Linked(mem', Listed(mem'))
    BY <2>2, LinkedIsListed
  <2>. QED  BY <1>3, <2>3, <2>4 DEF LinksInv, OpOk, EraseOn
<1>. QED  BY <1>4, <1>5

LEMMA EraseEndLinks ==
    ASSUME LinksInv, EraseEnd
    PROVE  LinksInv'
<1>. PICK m : m = [mem EXCEPT !.count = 0]
  OBVIOUS
<1>1. Linked(mem, Listed(mem)) /\ Keyed(mem) /\ 0 \in 0..SizeMod - 1
  BY SizeModAssumption, CapsWithinArray DEF LinksInv
<1>2. Linked(m, Listed(mem)) /\ m.slot = mem.slot
  BY <1>1, Counted
<1>3. Keyed(m)
  BY <1>1, <1>2 DEF Keyed, Holding
<1>. QED  BY <1>2, <1>3, Returned DEF EraseEnd

LEMMA StepLinks ==
    ASSUME LinksInv, ~StrdupMayFail, [Next]_vars
    PROVE  LinksInv'
<1>1. CASE UNCHANGED vars
  BY <1>1 DEF vars, LinksInv
<1>2. CASE \E k \in Keys : CallGet(k)
  BY <1>2, CallLinks
<1>3. CASE \E k \in Keys, c \in Cifs, b \in Blocks \ mem.heap : CallPut(k, c, b)
  BY <1>3, CallLinks
<1>4. CASE CallEvictAll
  <2>. USE <1>4
  <2>1. OpOk(mem, [pc |-> "erase", at |-> 1])
    BY DEF OpOk, EraseOps
  <2>. QED  BY <2>1 DEF CallEvictAll, Call, LinksInv
<1>5. CASE Go
  BY <1>5, WalkOnLinks, GetLinks, PutReplaceLinks, PutNewLinks, PutRejectLinks, EraseOnLinks,
     EraseEndLinks DEF Go
<1>6. CASE \E c \in Caps \cup {0}, t \in Timeouts \cup {0} : Config(c, t)
  <2>1. cap' \in 1..AllocCap
    BY <1>6, CapsWithinArray DEF Config, LinksInv
  <2>. QED  BY <1>6, <2>1 DEF Config, LinksInv
<1>7. CASE Tick
  <2>1. now' \in 0..MaxTime
    BY <1>7 DEF Tick
  <2>. QED  BY <1>7, <2>1 DEF Tick, LinksInv
<1>. QED  BY <1>1, <1>2, <1>3, <1>4, <1>5, <1>6, <1>7 DEF Next

LEMMA LinksAlways ==
    ASSUME ~StrdupMayFail
    PROVE  Spec => []LinksInv
<1>1. Init => LinksInv
  BY InitLinks
<1>2. LinksInv /\ [Next]_vars => LinksInv'
  BY StepLinks
<1>. QED  BY <1>1, <1>2, PTL DEF Spec

LEMMA LinksMirrorLinked ==
    ASSUME LinksInv
    PROVE  LinksMirror
<1>. PICK l, n : l = Listed(mem) /\ n = Len(l)
  OBVIOUS
<1>1. Threads(mem.next, mem.prev, l) /\ Between(l) = Holding(mem)
  BY DEF LinksInv, Linked
<1>2. n \in Nat /\ n >= 2 /\ l[1] = LruHead /\ l[n] = LruTail
  BY <1>1 DEF Threads, Chain
<1>3. Last(l) = LruTail
  BY <1>2 DEF Last
<1>4. \A i \in 1..n - 1 : mem.prev[l[i + 1]] = l[i]
  BY <1>1 DEF Threads
<1>5. ASSUME NEW s \in Slots PROVE s \in ToSet(l) <=> mem.slot[s] # NoEntry
  <2>1. ASSUME s \in ToSet(l) PROVE s \in Between(l)
    <3>1. PICK i \in 1..n : l[i] = s
      BY <2>1 DEF ToSet
    <3>2. i # 1 /\ i # n
      BY <1>2, <3>1, CellsAre
    <3>3. i \in 2..n - 1
      BY <1>2, <3>1, <3>2
    <3>. QED  BY <3>1, <3>3 DEF Between
  <2>2. ASSUME s \in Between(l) PROVE s \in ToSet(l)
    <3>1. PICK i \in 2..n - 1 : l[i] = s
      BY <2>2 DEF Between
    <3>2. i \in 1..n
      BY <1>2, <3>1
    <3>. QED  BY <3>1, <3>2 DEF ToSet
  <2>. QED  BY <1>1, <2>1, <2>2 DEF Holding
<1>. QED  BY <1>3, <1>4, <1>5 DEF LinksMirror

(* LruList's LinksMirror, for every array, capacity and timeout: while     *)
(* strdup does not fail, the walks along lru_next and lru_prev meet the    *)
(* same entries, all of them and no others, between any two rounds of a    *)
(* loop and across every reconfiguration.                                  *)
THEOREM LinksAgree ==
    ASSUME ~StrdupMayFail
    PROVE  Spec => []LinksMirror
<1>1. LinksInv => LinksMirror
  BY LinksMirrorLinked
<1>. QED  BY <1>1, LinksAlways, PTL

-----------------------------------------------------------------------------
(* The order of a list, as module Recency has it.                          *)

OrderOf(l) == UNION {{<<l[i], l[j]>> : j \in i..Len(l) - 1} : i \in 2..Len(l) - 1}

LEMMA InOrder ==
    ASSUME NEW l, NEW a, NEW b, Len(l) \in Nat
    PROVE  <<a, b>> \in OrderOf(l)
             <=> \E i, j \in 2..Len(l) - 1 : i <= j /\ l[i] = a /\ l[j] = b
<1>1. ASSUME <<a, b>> \in OrderOf(l)
      PROVE  \E i, j \in 2..Len(l) - 1 : i <= j /\ l[i] = a /\ l[j] = b
  <2>1. PICK i \in 2..Len(l) - 1 : <<a, b>> \in {<<l[i], l[j]>> : j \in i..Len(l) - 1}
    BY <1>1 DEF OrderOf
  <2>2. PICK j \in i..Len(l) - 1 : <<a, b>> = <<l[i], l[j]>>
    BY <2>1
  <2>3. j \in 2..Len(l) - 1 /\ i <= j
    OBVIOUS
  <2>. QED  BY <2>2, <2>3
<1>2. ASSUME NEW i \in 2..Len(l) - 1, NEW j \in 2..Len(l) - 1, i <= j, l[i] = a, l[j] = b
      PROVE  <<a, b>> \in OrderOf(l)
  <2>1. j \in i..Len(l) - 1
    BY <1>2
  <2>. QED  BY <1>2, <2>1 DEF OrderOf
<1>. QED  BY <1>1, <1>2

LEMMA OrderPairs ==
    ASSUME NEW l, NEW p \in OrderOf(l)
    PROVE  p = <<p[1], p[2]>>
BY DEF OrderOf

LEMMA OrderMembers ==
    ASSUME NEW l, Len(l) \in Nat
    PROVE  Members(OrderOf(l)) = Between(l)
<1>1. ASSUME NEW a \in Members(OrderOf(l)) PROVE a \in Between(l)
  <2>1. PICK p \in OrderOf(l) : p[1] = p[2] /\ a = p[1]
    BY <1>1 DEF Members
  <2>2. <<a, a>> \in OrderOf(l)
    BY <2>1, OrderPairs
  <2>3. \E i, j \in 2..Len(l) - 1 : i <= j /\ l[i] = a /\ l[j] = a
    BY <2>2, InOrder
  <2>. QED  BY <2>3 DEF Between
<1>2. ASSUME NEW a \in Between(l) PROVE a \in Members(OrderOf(l))
  <2>1. PICK i \in 2..Len(l) - 1 : l[i] = a
    BY DEF Between
  <2>2. i <= i
    OBVIOUS
  <2>3. <<a, a>> \in OrderOf(l)
    BY <2>1, <2>2, InOrder
  <2>. QED  BY <2>3 DEF Members
<1>. QED  BY <1>1, <1>2

(* An element that leaves the list takes its pairs with it. *)
LEMMA OrderWithout ==
    ASSUME NEW l, Chain(l), NEW e \in Between(l)
    PROVE  OrderOf(Without(l, e)) = Unlink(OrderOf(l), {e})
<1>. PICK w, k, n : w = Without(l, e) /\ k = Place(l, e) /\ n = Len(l)
  OBVIOUS
<1>1. n \in Nat /\ k \in 2..n - 1 /\ l[k] = e /\ \A i, j \in 1..n : l[i] = l[j] => i = j
  BY PlaceIs DEF Chain
<1>2. Len(w) = n - 1 /\ n - 1 \in Nat
  BY <1>1, WithoutIs
<1>3. \A i \in 1..n - 1 : w[i] = IF i < k THEN l[i] ELSE l[i + 1]
  BY DEF Without
<1>4. ASSUME NEW p \in OrderOf(w) PROVE p \in Unlink(OrderOf(l), {e})
  <2>. PICK a, b : a = p[1] /\ b = p[2]
    OBVIOUS
  <2>1. p = <<a, b>>
    BY OrderPairs
  <2>2. PICK i, j \in 2..(n - 1) - 1 : i <= j /\ w[i] = a /\ w[j] = b
    BY <1>2, <2>1, InOrder
  <2>. PICK g, h : g = (IF i < k THEN i ELSE i + 1) /\ h = (IF j < k THEN j ELSE j + 1)
    OBVIOUS
  <2>3. g \in 2..n - 1 /\ h \in 2..n - 1 /\ g <= h /\ g # k /\ h # k
    BY <1>1, <2>2
  <2>4. l[g] = a /\ l[h] = b
    BY <1>1, <1>3, <2>2
  <2>5. <<a, b>> \in OrderOf(l)
    BY <1>1, <2>3, <2>4, InOrder
  <2>6. a # e /\ b # e
    BY <1>1, <2>3, <2>4, SMTT(30)
  <2>. QED  BY <2>1, <2>5, <2>6 DEF Unlink
<1>5. ASSUME NEW p \in Unlink(OrderOf(l), {e}) PROVE p \in OrderOf(w)
  <2>. PICK a, b : a = p[1] /\ b = p[2]
    OBVIOUS
  <2>1. p \in OrderOf(l) /\ a # e /\ b # e
    BY DEF Unlink
  <2>2. p = <<a, b>>
    BY <2>1, OrderPairs
  <2>3. PICK i, j \in 2..n - 1 : i <= j /\ l[i] = a /\ l[j] = b
    BY <1>1, <2>1, <2>2, InOrder
  <2>4. i # k /\ j # k
    BY <1>1, <2>1, <2>3
  <2>. PICK g, h : g = (IF i < k THEN i ELSE i - 1) /\ h = (IF j < k THEN j ELSE j - 1)
    OBVIOUS
  <2>5. g \in 2..(n - 1) - 1 /\ h \in 2..(n - 1) - 1 /\ g <= h
    BY <1>1, <2>3, <2>4
  <2>6. w[g] = a /\ w[h] = b
    BY <1>1, <1>3, <2>3, <2>4, SMTT(30)
  <2>7. <<a, b>> \in OrderOf(w)
    BY <1>2, <2>5, <2>6, InOrder, SMTT(30)
  <2>. QED  BY <2>2, <2>7
<1>. QED  BY <1>4, <1>5

LEMMA OrderBefore ==
    ASSUME NEW l, Chain(l), NEW e \in Slots \ Between(l)
    PROVE  OrderOf(Before(l, e)) = PushFront(OrderOf(l), e)
<1>. PICK w, n : w = Before(l, e) /\ n = Len(l)
  OBVIOUS
<1>1. n \in Nat /\ n >= 2
  BY DEF Chain
<1>2. Len(w) = n + 1 /\ n + 1 \in Nat /\ n + 1 - 1 = n
  BY <1>1, BeforeIs
<1>3. w[2] = e /\ \A i \in 3..n : w[i] = l[i - 1]
  BY <1>1 DEF Before
<1>4. Members(OrderOf(l)) = Between(l)
  BY <1>1, OrderMembers
<1>5. ASSUME NEW p \in OrderOf(w) PROVE p \in PushFront(OrderOf(l), e)
  <2>. PICK a, b : a = p[1] /\ b = p[2]
    OBVIOUS
  <2>1. p = <<a, b>>
    BY OrderPairs
  <2>2. PICK i, j \in 2..n : i <= j /\ w[i] = a /\ w[j] = b
    BY <1>2, <2>1, InOrder
  <2>3. CASE i = 2
    <3>1. CASE j = 2
      BY <1>3, <2>1, <2>2, <2>3, <3>1 DEF PushFront
    <3>2. CASE j # 2
      <4>1. j \in 3..n /\ j - 1 \in 2..n - 1
        BY <1>1, <2>2, <3>2
      <4>2. b \in Between(l)
        BY <1>3, <2>2, <4>1 DEF Between
      <4>. QED  BY <1>3, <1>4, <2>1, <2>2, <2>3, <4>2 DEF PushFront
    <3>. QED  BY <3>1, <3>2
  <2>4. CASE i # 2
    <3>1. /\ i \in 3..n /\ j \in 3..n
          /\ i - 1 \in 2..n - 1 /\ j - 1 \in 2..n - 1 /\ i - 1 <= j - 1
      BY <1>1, <2>2, <2>4
    <3>2. l[i - 1] = a /\ l[j - 1] = b
      BY <1>3, <2>2, <3>1
    <3>3. <<a, b>> \in OrderOf(l)
      BY <1>1, <3>1, <3>2, InOrder
    <3>. QED  BY <2>1, <3>3 DEF PushFront
  <2>. QED  BY <2>3, <2>4
<1>6. ASSUME NEW a, NEW b, <<a, b>> \in OrderOf(l) PROVE <<a, b>> \in OrderOf(w)
  <2>1. PICK i, j \in 2..n - 1 : i <= j /\ l[i] = a /\ l[j] = b
    BY <1>1, <1>6, InOrder
  <2>2. /\ i + 1 \in 3..n /\ j + 1 \in 3..n /\ i + 1 - 1 = i /\ j + 1 - 1 = j
        /\ i + 1 \in 2..n /\ j + 1 \in 2..n /\ i + 1 <= j + 1
    BY <1>1, <2>1
  <2>3. w[i + 1] = a /\ w[j + 1] = b
    BY <1>3, <2>1, <2>2
  <2>. QED  BY <1>2, <2>2, <2>3, InOrder
<1>7. ASSUME NEW t \in Between(l) \cup {e} PROVE <<e, t>> \in OrderOf(w)
  <2>1. PICK j \in 2..n : w[j] = t
    <3>1. CASE t = e
      BY <1>1, <1>3, <3>1
    <3>2. CASE t \in Between(l)
      <4>1. PICK i \in 2..n - 1 : l[i] = t
        BY <3>2 DEF Between
      <4>2. i + 1 \in 3..n /\ i + 1 \in 2..n /\ i + 1 - 1 = i
        BY <1>1, <4>1
      <4>. QED  BY <1>3, <4>1, <4>2
    <3>. QED  BY <3>1, <3>2
  <2>2. 2 \in 2..n /\ 2 <= j
    BY <1>1
  <2>. QED  BY <1>2, <1>3, <2>1, <2>2, InOrder
<1>8. ASSUME NEW p \in PushFront(OrderOf(l), e) PROVE p \in OrderOf(w)
  <2>1. CASE p \in OrderOf(l)
    <3>1. p = <<p[1], p[2]>>
      BY <2>1, OrderPairs
    <3>. QED  BY <1>6, <2>1, <3>1
  <2>2. CASE p \in {<<e, t>> : t \in Members(OrderOf(l)) \cup {e}}
    BY <1>4, <1>7, <2>2
  <2>. QED  BY <2>1, <2>2 DEF PushFront
<1>. QED  BY <1>5, <1>8

(* The last element before the tail is the oldest. *)
LEMMA OrderOldest ==
    ASSUME NEW l, Chain(l)
    PROVE  Oldest(OrderOf(l)) = {l[Len(l) - 1]} \cap Between(l)
<1>. PICK n : n = Len(l)
  OBVIOUS
<1>1. n \in Nat /\ n >= 2 /\ \A i, j \in 1..n : l[i] = l[j] => i = j
  BY DEF Chain
<1>2. Members(OrderOf(l)) = Between(l)
  BY <1>1, OrderMembers
<1>3. ASSUME NEW s \in Oldest(OrderOf(l)) PROVE s = l[n - 1] /\ s \in Between(l)
  <2>1. s \in Between(l) /\ \A t \in Between(l) : <<t, s>> \in OrderOf(l)
    BY <1>2 DEF Oldest
  <2>2. PICK k \in 2..n - 1 : l[k] = s
    BY <2>1 DEF Between
  <2>3. n - 1 \in 2..n - 1
    BY <1>1, <2>2
  <2>4. l[n - 1] \in Between(l)
    BY <2>3 DEF Between
  <2>5. <<l[n - 1], s>> \in OrderOf(l)
    BY <2>1, <2>4
  <2>6. PICK i, j \in 2..n - 1 : i <= j /\ l[i] = l[n - 1] /\ l[j] = s
    BY <1>1, <2>5, InOrder
  <2>7. i \in 1..n /\ n - 1 \in 1..n /\ i = n - 1
    BY <1>1, <2>3, <2>6
  <2>8. j = n - 1
    BY <1>1, <2>6, <2>7
  <2>. QED  BY <2>1, <2>6, <2>8
<1>4. ASSUME l[n - 1] \in Between(l) PROVE l[n - 1] \in Oldest(OrderOf(l))
  <2>1. n - 1 \in 2..n - 1
    <3>1. PICK k \in 2..n - 1 : l[k] = l[n - 1]
      BY <1>4 DEF Between
    <3>. QED  BY <1>1, <3>1
  <2>2. ASSUME NEW t \in Between(l) PROVE <<t, l[n - 1]>> \in OrderOf(l)
    <3>1. PICK i \in 2..n - 1 : l[i] = t
      BY DEF Between
    <3>2. i <= n - 1
      BY <1>1
    <3>. QED  BY <1>1, <2>1, <3>1, <3>2, InOrder
  <2>. QED  BY <1>2, <1>4, <2>2 DEF Oldest
<1>. QED  BY <1>3, <1>4

-----------------------------------------------------------------------------
(* What a call has done so far to the memory it found.                     *)

LEMMA RemainderIs ==
    ASSUME NEW M \in Nat \ {0}, NEW q \in Int, NEW r \in 0..M - 1
    PROVE  (M * q + r) % M = r
<1>. PICK n : n = M * q + r
  OBVIOUS
<1>. PICK p, s : p = n \div M /\ s = n % M
  OBVIOUS
<1>4. n \in Int
  OBVIOUS
<1>1. p \in Int /\ s \in 0..M - 1 /\ n = M * p + s
  BY <1>4, SMT
<1>2. M * (p - q) = r - s
  BY <1>1
<1>3. p = q
  <2>1. ASSUME p > q PROVE FALSE
    <3>1. M * (p - q) >= M
      BY <1>1, <2>1
    <3>. QED  BY <1>1, <1>2, <3>1
  <2>2. ASSUME p < q PROVE FALSE
    <3>1. M * (q - p) >= M
      BY <1>1, <2>2
    <3>2. M * (p - q) = 0 - M * (q - p)
      BY <1>1
    <3>. QED  BY <1>1, <1>2, <3>1, <3>2
  <2>. QED  BY <1>1, <2>1, <2>2
<1>. QED  BY <1>1, <1>3

LEMMA CountInRange ==
    ASSUME NEW n \in 0..SizeMod - 1
    PROVE  Count(n) = n
<1>1. SizeMod \in Nat \ {0}
  BY SizeModAssumption, CapsWithinArray
<1>2. SizeMod * 0 + n = n
  BY <1>1
<1>3. (SizeMod * 0 + n) % SizeMod = n
  BY <1>1, RemainderIs
<1>. QED  BY <1>2, <1>3 DEF Count

(* One more entry is counted off. *)
LEMMA CountOff ==
    ASSUME NEW n \in Int
    PROVE  Count(Count(n) - 1) = Count(n - 1)
<1>. PICK M, q, r : M = SizeMod /\ q = n \div SizeMod /\ r = n % SizeMod
  OBVIOUS
<1>1. M \in Nat \ {0}
  BY SizeModAssumption, CapsWithinArray
<1>2. q \in Int /\ r \in 0..M - 1 /\ n = M * q + r
  BY <1>1, SMT
<1>3. Count(n) = r
  BY DEF Count
<1>4. CASE r > 0
  <2>1. r - 1 \in 0..M - 1 /\ n - 1 = M * q + (r - 1) /\ n - 1 \in Int
    BY <1>1, <1>2, <1>4
  <2>2. (M * q + (r - 1)) % M = r - 1
    BY <1>1, <1>2, <2>1, RemainderIs
  <2>3. Count(r - 1) = r - 1
    BY <2>1, CountInRange
  <2>. QED  BY <1>3, <2>1, <2>2, <2>3 DEF Count
<1>5. CASE r = 0
  <2>1. /\ n - 1 = M * (q - 1) + (M - 1) /\ n - 1 \in Int /\ q - 1 \in Int
        /\ M - 1 \in 0..M - 1 /\ r - 1 = M * (-1) + (M - 1)
    BY <1>1, <1>2, <1>5
  <2>2. (M * (q - 1) + (M - 1)) % M = M - 1
    BY <1>1, <2>1, RemainderIs
  <2>3. (M * (-1) + (M - 1)) % M = M - 1
    BY <1>1, <2>1, RemainderIs
  <2>. QED  BY <1>3, <2>1, <2>2, <2>3 DEF Count
<1>. QED  BY <1>2, <1>4, <1>5

(* The order of the entries of m, and m as module Cache has it. *)
Order(m) == OrderOf(Listed(m))

LEMMA ViewIs ==
    ASSUME NEW m
    PROVE  View(m) = [slot |-> m.slot, count |-> m.count, heap |-> m.heap, order |-> Order(m)]
BY DEF View, Order, OrderOf

(* m is what was seen as v, without the entries of G. *)
Lost(m, v, G) ==
    /\ G \subseteq Holding(v)
    /\ m.slot = [s \in Slots |-> IF s \in G THEN NoEntry ELSE v.slot[s]]
    /\ Order(m) = Unlink(v.order, G)
    /\ m.heap = v.heap \ {v.slot[s].args : s \in G}

LEMMA LostMore ==
    ASSUME NEW m, Linked(m, Listed(m)), NEW v, NEW G, Lost(m, v, G), NEW e \in Holding(m),
           NEW x, Linked(x, Without(Listed(m), e)),
           x.slot = Set2(m.slot, e, NoEntry, e, NoEntry),
           x.heap = m.heap \ {m.slot[e].args}
    PROVE  Lost(x, v, G \cup {e})
<1>. PICK H, l : H = G \cup {e} /\ l = Listed(m)
  OBVIOUS
<1>1. m.slot = [s \in Slots |-> IF s \in G THEN NoEntry ELSE v.slot[s]]
  BY DEF Lost
<1>2. e \in Slots /\ e \notin G /\ m.slot[e] = v.slot[e] /\ e \in Holding(v)
  BY <1>1 DEF Holding
<1>3. x.slot = [s \in Slots |-> IF s \in H THEN NoEntry ELSE v.slot[s]]
  BY <1>1 DEF Set2
<1>4. Order(x) = Unlink(v.order, H)
  <2>1. Listed(x) = Without(l, e)
    BY LinkedIsListed
  <2>2. Chain(l) /\ e \in Between(l)
    BY HoldingIs DEF Linked, Threads
  <2>3. Order(x) = Unlink(Order(m), {e})
    BY <2>1, <2>2, OrderWithout DEF Order
  <2>4. Order(m) = Unlink(v.order, G)
    BY DEF Lost
  <2>. QED  BY <2>3, <2>4 DEF Unlink
<1>5. x.heap = v.heap \ {v.slot[s].args : s \in H}
  <2>1. m.heap = v.heap \ {v.slot[s].args : s \in G}
    BY DEF Lost
  <2>2. x.heap = m.heap \ {v.slot[e].args}
    BY <1>2
  <2>. QED  BY <2>1, <2>2
<1>. QED  BY <1>2, <1>3, <1>4, <1>5 DEF Lost

LEMMA LostNothing ==
    ASSUME NEW m, Linked(m, Listed(m))
    PROVE  Lost(m, View(m), {})
<1>. PICK v : v = View(m)
  OBVIOUS
<1>1. v = [slot |-> m.slot, count |-> m.count, heap |-> m.heap, order |-> Order(m)]
  BY ViewIs
<1>2. m.slot \in [Slots -> Entries \cup {NoEntry}]
  BY DEF Linked, Memory
<1>3. m.slot = [s \in Slots |-> IF s \in {} THEN NoEntry ELSE v.slot[s]]
  BY <1>1, <1>2
<1>4. Order(m) = Unlink(v.order, {})
  BY <1>1 DEF Unlink
<1>5. m.heap = v.heap \ {v.slot[s].args : s \in {}}
  BY <1>1
<1>. QED  BY <1>3, <1>4, <1>5 DEF Lost

(* The entries a walk will evict, or has evicted. *)
Expired(v) == {s \in Holding(v) : now - v.slot[s].used > timeout}

(* Those of X are between the head and at. *)
Ahead(m, X, at) == \A e \in X : <<e, at>> \in Order(m)

Erased == {s \in Holding(seen) : s < op.at /\ s <= cap}

(* A walk has evicted, of the entries that expired, those behind it, and   *)
(* the loop of cinpy_cache_evict_all those before its index.               *)
ViewInv ==
    /\ seen.slot \in [Slots -> Entries \cup {NoEntry}]
    /\ seen.count \in 0..SizeMod - 1
    /\ Members(seen.order) = Holding(seen)
    /\ op.pc = "idle" => seen = View(mem)
    /\ op.pc = "walk" =>
         \E G \in SUBSET Expired(seen) :
             /\ Lost(mem, seen, G)
             /\ mem.count = Count(seen.count - Cardinality(G))
             /\ Ahead(mem, Expired(seen) \ G, op.at)
    /\ op.pc = "walk" /\ op.do = "put" => op.args \notin seen.heap
    /\ op.pc = "erase" => Lost(mem, seen, Erased)

LEMMA ViewTypes ==
    ASSUME NEW m, Linked(m, Listed(m))
    PROVE  /\ View(m).slot \in [Slots -> Entries \cup {NoEntry}]
           /\ View(m).count \in 0..SizeMod - 1
           /\ Members(View(m).order) = Holding(View(m))
<1>1. View(m) = [slot |-> m.slot, count |-> m.count, heap |-> m.heap, order |-> Order(m)]
  BY ViewIs
<1>2. m \in Memory /\ Between(Listed(m)) = Holding(m) /\ Len(Listed(m)) \in Nat
  BY DEF Linked, Threads, Chain
<1>3. Members(Order(m)) = Holding(m)
  BY <1>2, OrderMembers DEF Order
<1>. QED  BY <1>1, <1>2, <1>3 DEF Memory, Holding

LEMMA InitView == ASSUME Init PROVE ViewInv
<1>1. Linked(mem, Listed(mem))
  BY InitLinks DEF LinksInv
<1>2. seen = View(mem) /\ op.pc = "idle"
  BY DEF Init, NoOp
<1>. QED  BY <1>1, <1>2, ViewTypes DEF ViewInv

LEMMA ReturnView ==
    ASSUME LinksInv', NEW m, Return(m)
    PROVE  ViewInv'
<1>1. Linked(mem', Listed(mem'))
  BY DEF LinksInv
<1>2. seen' = View(mem') /\ op'.pc = "idle"
  BY DEF Return, NoOp
<1>. QED  BY <1>1, <1>2, ViewTypes DEF ViewInv

LEMMA AheadOfTail ==
    ASSUME NEW m, Linked(m, Listed(m)), NEW e \in Holding(m)
    PROVE  <<e, m.prev[LruTail]>> \in Order(m)
<1>. PICK l, n : l = Listed(m) /\ n = Len(l)
  OBVIOUS
<1>1. n \in Nat /\ e \in Between(l)
  BY HoldingIs DEF Linked, Threads, Chain
<1>2. m.prev[LruTail] = l[n - 1]
  BY BeforeTail
<1>3. PICK i \in 2..n - 1 : l[i] = e
  BY <1>1 DEF Between
<1>4. n - 1 \in 2..n - 1 /\ i <= n - 1
  BY <1>1
<1>5. <<e, l[n - 1]>> \in OrderOf(l)
  BY <1>1, <1>3, <1>4, InOrder
<1>. QED  BY <1>2, <1>5 DEF Order

LEMMA AheadOfNext ==
    ASSUME NEW m, Linked(m, Listed(m)), NEW a \in Holding(m),
           NEW e, e # a, <<e, a>> \in Order(m)
    PROVE  <<e, m.prev[a]>> \in Order(m)
<1>. PICK l, n, k : l = Listed(m) /\ n = Len(l) /\ k = Place(l, a)
  OBVIOUS
<1>1. n \in Nat /\ \A i, j \in 1..n : l[i] = l[j] => i = j
  BY DEF Linked, Threads, Chain
<1>2. k \in 2..n - 1 /\ l[k] = a /\ m.prev[a] = l[k - 1]
  BY HoldingIs, Neighbours DEF Linked
<1>3. PICK i, j \in 2..n - 1 : i <= j /\ l[i] = e /\ l[j] = a
  BY <1>1, InOrder DEF Order
<1>4. j \in 1..n /\ k \in 1..n
  BY <1>1, <1>2
<1>5. j = k /\ i # k
  BY <1>1, <1>2, <1>3, <1>4
<1>6. k - 1 \in 2..n - 1 /\ i <= k - 1
  BY <1>1, <1>2, <1>3, <1>5
<1>7. <<e, l[k - 1]>> \in OrderOf(l)
  BY <1>1, <1>3, <1>6, InOrder
<1>. QED  BY <1>2, <1>7 DEF Order

LEMMA SlotsFinite ==
    ASSUME NEW S, S \subseteq Slots
    PROVE  IsFiniteSet(S) /\ Cardinality(S) \in Nat
<1>1. IsFiniteSet(Slots)
  BY CapsWithinArray, FS_Interval DEF Slots
<1>2. IsFiniteSet(S)
  BY <1>1, FS_Subset
<1>. QED  BY <1>2, FS_CardinalityType

(* A call that walks begins at the tail. *)
LEMMA WalkBegins ==
    ASSUME LinksInv, ViewInv, op = NoOp, NEW o, Call(o), o.pc = "walk", o.at = mem.prev[LruTail],
           o.do = "put" => o.args \notin mem.heap
    PROVE  ViewInv'
<1>1. op' = o /\ UNCHANGED <<mem, cap, timeout, now, seen>>
  BY DEF Call
<1>2. Linked(mem, Listed(mem)) /\ seen = View(mem)
  BY DEF LinksInv, ViewInv, NoOp
<1>3. seen = [slot |-> mem.slot, count |-> mem.count, heap |-> mem.heap, order |-> Order(mem)]
  BY <1>2, ViewIs
<1>4. Lost(mem, seen, {})
  BY <1>2, LostNothing
<1>5. mem.count = Count(seen.count - Cardinality({}))
  <2>1. mem.count = seen.count /\ mem.count \in 0..SizeMod - 1
    BY <1>2, <1>3 DEF Linked, Memory
  <2>2. Cardinality({}) = 0 /\ seen.count - 0 = seen.count
    BY <2>1, FS_EmptySet
  <2>. QED  BY <2>1, <2>2, CountInRange
<1>6. Ahead(mem, Expired(seen) \ {}, o.at)
  <2>1. Expired(seen) \subseteq Holding(mem)
    BY <1>3 DEF Expired, Holding
  <2>. QED  BY <1>2, <2>1, AheadOfTail DEF Ahead
<1>7. \E G \in SUBSET Expired(seen) :
             /\ Lost(mem, seen, G)
             /\ mem.count = Count(seen.count - Cardinality(G))
             /\ Ahead(mem, Expired(seen) \ G, o.at)
  BY <1>4, <1>5, <1>6
<1>8. o.do = "put" => o.args \notin seen.heap
  BY <1>3
<1>. QED  BY <1>1, <1>7, <1>8 DEF ViewInv, Expired, Ahead

LEMMA EraseBegins ==
    ASSUME LinksInv, ViewInv, CallEvictAll
    PROVE  ViewInv'
<1>1. op = NoOp /\ op' = [pc |-> "erase", at |-> 1] /\ UNCHANGED <<mem, cap, timeout, now, seen>>
  BY DEF CallEvictAll, Call
<1>2. Linked(mem, Listed(mem)) /\ seen = View(mem)
  BY <1>1 DEF LinksInv, ViewInv, NoOp
<1>3. Lost(mem, seen, {})
  BY <1>2, LostNothing
<1>4. Erased' = {}
  <2>1. \A s \in Slots : ~(s < 1)
    BY CapsWithinArray DEF Slots
  <2>. QED  BY <1>1, <2>1 DEF Erased, Holding
<1>. QED  BY <1>1, <1>3, <1>4 DEF ViewInv

(* What a walk's op is. *)
LEMMA WalkIs ==
    ASSUME LinksInv, op.pc = "walk"
    PROVE  op \in GetOps \cup PutOps /\ op.at \in Holding(mem) \cup {LruHead}
BY DEF LinksInv, OpOk, NoOp, EraseOps

LEMMA WalkOnView ==
    ASSUME LinksInv, ViewInv, WalkOn
    PROVE  ViewInv'
<1>. PICK a, l, b : a = op.at /\ l = Listed(mem) /\ b = mem.prev[a]
  OBVIOUS
<1>1. /\ op.pc = "walk" /\ op' = [op EXCEPT !.at = b]
      /\ UNCHANGED <<cap, timeout, now, seen>>
  BY DEF WalkOn
<1>2. op \in GetOps \cup PutOps /\ a \in Holding(mem)
  BY WalkIs DEF WalkOn
<1>3. op'.pc = "walk" /\ op'.at = b /\ op'.do = op.do /\ (op.do = "put" => op'.args = op.args)
  BY <1>1, <1>2 DEF GetOps, PutOps
<1>4. Linked(mem, l) /\ Linked(mem, Listed(mem)) /\ Keyed(mem) /\ mem \in Memory /\ mem.slot \in [Slots -> Entries \cup {NoEntry}]
  BY DEF LinksInv, Linked, Memory
<1>5. PICK G \in SUBSET Expired(seen) :
          /\ Lost(mem, seen, G)
          /\ mem.count = Count(seen.count - Cardinality(G))
          /\ Ahead(mem, Expired(seen) \ G, a)
  BY <1>1 DEF ViewInv
<1>6. a \in Slots /\ a \notin G /\ mem.slot[a] = seen.slot[a] /\ a \in Holding(seen)
  BY <1>2, <1>5 DEF Holding, Lost
<1>7. HasKey(a)
  BY <1>2, <1>6, HasKeyIs
<1>8. b \in (Holding(mem) \ {a}) \cup {LruHead}
  BY <1>2, <1>4, BeforeEntry
<1>9. Expired(seen)' = Expired(seen)
  BY <1>1 DEF Expired, Holding
<1>10. CASE a \notin Expired(seen)
  <2>1. mem' = mem
    BY <1>6, <1>10 DEF WalkOn, Expired
  <2>2. Ahead(mem, Expired(seen) \ G, b)
    BY <1>2, <1>4, <1>5, <1>10, AheadOfNext DEF Ahead
  <2>3. \E H \in SUBSET Expired(seen) :
             /\ Lost(mem, seen, H)
             /\ mem.count = Count(seen.count - Cardinality(H))
             /\ Ahead(mem, Expired(seen) \ H, b)
    BY <1>5, <2>2
  <2>. QED  BY <1>1, <1>3, <2>1, <2>3 DEF ViewInv, Expired, Ahead
<1>11. CASE a \in Expired(seen)
  <2>. PICK H, x : H = G \cup {a} /\ x = EvictEntry(mem, a)
    OBVIOUS
  <2>1. mem' = x
    BY <1>6, <1>7, <1>11 DEF WalkOn, Expired
  <2>2. /\ Linked(x, Without(l, a)) /\ x.slot = Set2(mem.slot, a, NoEntry, a, NoEntry)
        /\ x.heap = mem.heap \ {mem.slot[a].args} /\ x.count = Count(mem.count - 1)
    BY <1>2, <1>4, EvictEntryIs
  <2>3. Lost(x, seen, H)
    BY <1>2, <1>4, <1>5, <2>2, LostMore
  <2>4. x.count = Count(seen.count - Cardinality(H))
    <3>1. G \subseteq Slots
      BY DEF Expired, Holding
    <3>. PICK g : g = Cardinality(G)
      OBVIOUS
    <3>2. IsFiniteSet(G) /\ g \in Nat
      BY <3>1, SlotsFinite
    <3>3. Cardinality(H) = g + 1
      BY <1>6, <3>2, FS_AddElement
    <3>4. seen.count - g \in Int /\ seen.count - g - 1 = seen.count - (g + 1)
      BY <3>2 DEF ViewInv
    <3>5. Count(Count(seen.count - g) - 1) = Count(seen.count - g - 1)
      BY <3>4, CountOff
    <3>. QED  BY <1>5, <2>2, <3>3, <3>4, <3>5
  <2>5. ASSUME NEW e \in Expired(seen) \ H PROVE <<e, b>> \in Order(x)
    <3>1. e \in Expired(seen) \ G /\ e # a
      OBVIOUS
    <3>2. <<e, a>> \in Order(mem)
      BY <1>5, <3>1 DEF Ahead
    <3>3. <<e, b>> \in Order(mem)
      BY <1>2, <1>4, <3>1, <3>2, AheadOfNext
    <3>4. b # a
      BY <1>6, <1>8, CellsAre
    <3>5. Order(mem) = Unlink(seen.order, G)
      BY <1>5 DEF Lost
    <3>6. Order(x) = Unlink(seen.order, H)
      BY <2>3 DEF Lost
    <3>. QED  BY <3>1, <3>3, <3>4, <3>5, <3>6 DEF Unlink
  <2>6. \E S \in SUBSET Expired(seen) :
             /\ Lost(x, seen, S)
             /\ x.count = Count(seen.count - Cardinality(S))
             /\ Ahead(x, Expired(seen) \ S, b)
    BY <1>11, <2>3, <2>4, <2>5 DEF Ahead
  <2>. QED  BY <1>1, <1>3, <2>1, <2>6 DEF ViewInv, Expired, Ahead
<1>. QED  BY <1>10, <1>11

LEMMA EraseOnView ==
    ASSUME LinksInv, ViewInv, EraseOn
    PROVE  ViewInv'
<1>. PICK a, l, G : a = op.at /\ l = Listed(mem) /\ G = Erased
  OBVIOUS
<1>1. /\ op.pc = "erase" /\ a <= cap /\ op' = [op EXCEPT !.at = a + 1]
      /\ UNCHANGED <<cap, timeout, now, seen>>
  BY DEF EraseOn
<1>2. op \in EraseOps
  BY <1>1 DEF LinksInv, OpOk, NoOp, GetOps, PutOps
<1>3. op'.pc = "erase" /\ op'.at = a + 1 /\ a \in Nat \ {0}
  BY <1>1, <1>2 DEF EraseOps
<1>4. /\ Linked(mem, l) /\ Linked(mem, Listed(mem))
      /\ mem.slot \in [Slots -> Entries \cup {NoEntry}] /\ cap \in 1..AllocCap
  BY DEF LinksInv, Linked, Memory
<1>5. a \in Slots
  BY <1>1, <1>3, <1>4, CapsWithinArray DEF Slots
<1>6. Lost(mem, seen, G) /\ a \notin G
  BY <1>1, <1>3 DEF ViewInv, Erased
<1>7. a \in Holding(mem) <=> a \in Holding(seen)
  BY <1>5, <1>6 DEF Lost, Holding
<1>8. Erased' = IF a \in Holding(seen) THEN G \cup {a} ELSE G
  <2>1. Erased' = {s \in Holding(seen) : s < a + 1 /\ s <= cap}
    BY <1>1, <1>3 DEF Erased, Holding
  <2>2. \A s \in Holding(seen) : s \in Nat
    BY CapsWithinArray DEF Holding, Slots
  <2>3. \A s \in Holding(seen) : s < a + 1 <=> s < a \/ s = a
    BY <1>3, <2>2
  <2>4. Erased' = {s \in Holding(seen) : (s < a \/ s = a) /\ s <= cap}
    BY <2>1, <2>3
  <2>. QED  BY <1>1, <2>4 DEF Erased
<1>9. Lost(mem', seen, Erased')
  <2>1. CASE a \notin Holding(mem)
    <3>1. mem' = mem
      BY <1>5, <2>1, HasKeyIs DEF EraseOn
    <3>. QED  BY <1>6, <1>7, <1>8, <2>1, <3>1
  <2>2. CASE a \in Holding(mem)
    <3>. PICK x : x = Erase(LruRemove(mem, a), a)
      OBVIOUS
    <3>1. mem' = x
      BY <1>5, <2>2, HasKeyIs DEF EraseOn
    <3>2. /\ Linked(x, Without(l, a)) /\ x.slot = Set2(mem.slot, a, NoEntry, a, NoEntry)
          /\ x.heap = mem.heap \ {mem.slot[a].args}
      BY <1>4, <2>2, RemoveErase
    <3>3. Lost(x, seen, G \cup {a})
      BY <1>4, <1>6, <2>2, <3>2, LostMore
    <3>. QED  BY <1>7, <1>8, <2>2, <3>1, <3>3
  <2>. QED  BY <2>1, <2>2
<1>. QED  BY <1>1, <1>3, <1>9 DEF ViewInv

LEMMA StepView ==
    ASSUME LinksInv, LinksInv', ViewInv, ~StrdupMayFail, [Next]_vars
    PROVE  ViewInv'
<1>1. CASE UNCHANGED vars
  BY <1>1 DEF vars, ViewInv, Expired, Ahead, Erased
<1>2. CASE \E k \in Keys : CallGet(k)
  <2>1. PICK k \in Keys : CallGet(k)
    BY <1>2
  <2>. PICK o : o = [pc |-> "walk", at |-> mem.prev[LruTail], do |-> "get", key |-> k]
    OBVIOUS
  <2>2. Call(o) /\ op = NoOp
    BY <2>1 DEF CallGet, Call
  <2>. QED  BY <2>2, WalkBegins
<1>3. CASE \E k \in Keys, c \in Cifs, b \in Blocks \ mem.heap : CallPut(k, c, b)
  <2>1. PICK k \in Keys, c \in Cifs, b \in Blocks \ mem.heap : CallPut(k, c, b)
    BY <1>3
  <2>. PICK o : o = [pc |-> "walk", at |-> mem.prev[LruTail], do |-> "put",
                     key |-> k, cif |-> c, args |-> b]
    OBVIOUS
  <2>2. Call(o) /\ op = NoOp
    BY <2>1 DEF CallPut, Call
  <2>. QED  BY <2>2, WalkBegins
<1>4. CASE CallEvictAll
  BY <1>4, EraseBegins
<1>5. CASE WalkOn
  BY <1>5, WalkOnView
<1>6. CASE EraseOn
  BY <1>6, EraseOnView
<1>7. CASE GetHit \/ GetMiss \/ PutReplace \/ PutNew \/ PutReject \/ EraseEnd
  BY <1>7, ReturnView DEF GetHit, GetMiss, PutReplace, PutNew, PutReject, EraseEnd
<1>8. CASE \E c \in Caps \cup {0}, t \in Timeouts \cup {0} : Config(c, t)
  BY <1>8 DEF Config, ViewInv, NoOp
<1>9. CASE Tick
  BY <1>9 DEF Tick, ViewInv, NoOp
<1>. QED  BY <1>1, <1>2, <1>3, <1>4, <1>5, <1>6, <1>7, <1>8, <1>9 DEF Next, Go

-----------------------------------------------------------------------------
(* Module Cache's definitions, of what a call has seen.                    *)

LEMMA CacheIs ==
    ASSUME ViewInv
    PROVE  /\ CacheOf!Slots = Slots
           /\ CacheOf!Occupied = Holding(seen)
           /\ CacheOf!Stale = Expired(seen)
           /\ CacheOf!Visible = {s \in Slots : s <= cap}
<1>1. CacheOf!Slots = Slots
  BY DEF CacheOf!Slots, Slots
<1>2. CacheOf!Occupied = Holding(seen)
  BY <1>1 DEF CacheOf!Occupied, Holding
<1>3. CacheOf!Members(seen.order) = Holding(seen)
  BY DEF ViewInv, CacheOf!Members, Members
<1>4. CacheOf!Stale = Expired(seen)
  BY <1>2, <1>3 DEF CacheOf!Stale, Expired
<1>. QED  BY <1>1, <1>2, <1>4 DEF CacheOf!Visible

LEMMA RecencyIs ==
    ASSUME NEW r, NEW X, NEW s
    PROVE  /\ CacheOf!Unlink(r, X) = Unlink(r, X)
           /\ CacheOf!PushFront(r, s) = PushFront(r, s)
           /\ CacheOf!Oldest(r) = Oldest(r)
BY DEF CacheOf!Unlink, Unlink, CacheOf!PushFront, PushFront, CacheOf!Oldest, Oldest,
       CacheOf!Members, Members

LEMMA FirstIsCaches ==
    ASSUME NEW S
    PROVE  CacheOf!First(S) = First(S)
BY DEF CacheOf!First, First

LEMMA CountIsCaches ==
    ASSUME NEW n
    PROVE  CacheOf!Count(n) = Count(n)
BY DEF CacheOf!Count, Count

(* m is what was seen, without the entries of G, in Cache's words. *)
LEMMA LostIs ==
    ASSUME NEW m, NEW G, Lost(m, seen, G)
    PROVE  /\ m.slot = CacheOf!Cleared(G)
           /\ Order(m) = CacheOf!Unlink(seen.order, G)
           /\ m.heap = seen.heap \ CacheOf!ArgsOf(G)
<1>1. m.slot = CacheOf!Cleared(G)
  BY DEF Lost, CacheOf!Cleared, CacheOf!Slots, Slots
<1>2. Order(m) = CacheOf!Unlink(seen.order, G)
  BY RecencyIs DEF Lost
<1>3. m.heap = seen.heap \ CacheOf!ArgsOf(G)
  BY DEF Lost, CacheOf!ArgsOf
<1>. QED  BY <1>1, <1>2, <1>3

(* A walk that has reached the head has evicted all that expired. *)
LEMMA WalkEnds ==
    ASSUME LinksInv, ViewInv, op.pc = "walk", op.at \in {Null, LruHead}
    PROVE  /\ Lost(mem, seen, Expired(seen))
           /\ mem.count = Count(seen.count - Cardinality(Expired(seen)))
<1>1. op.at = LruHead
  BY WalkIs, CellsAre, CellsAssumption DEF Holding
<1>2. PICK G \in SUBSET Expired(seen) :
          /\ Lost(mem, seen, G)
          /\ mem.count = Count(seen.count - Cardinality(G))
          /\ Ahead(mem, Expired(seen) \ G, LruHead)
  BY <1>1 DEF ViewInv
<1>3. ASSUME NEW e \in Expired(seen) \ G PROVE FALSE
  <2>. PICK l : l = Listed(mem)
    OBVIOUS
  <2>1. <<e, LruHead>> \in OrderOf(l)
    BY <1>2 DEF Ahead, Order
  <2>2. Linked(mem, l) /\ Len(l) \in Nat
    BY DEF LinksInv, Linked, Threads, Chain
  <2>3. \E i, j \in 2..Len(l) - 1 : i <= j /\ l[i] = e /\ l[j] = LruHead
    BY <2>1, <2>2, InOrder
  <2>4. LruHead \in Between(l)
    BY <2>3 DEF Between
  <2>. QED  BY <2>2, <2>4, CellsAre DEF Linked, Holding
<1>4. G = Expired(seen)
  BY <1>3
<1>. QED  BY <1>2, <1>4

(* Both find the same element, if any. *)
LEMMA FoundIsCaches ==
    ASSUME LinksInv, ViewInv, op.pc = "walk", op.at \in {Null, LruHead}
    PROVE  Found = CacheOf!Found(op.key)
<1>1. mem.slot = [s \in Slots |-> IF s \in Expired(seen) THEN NoEntry ELSE seen.slot[s]]
  BY WalkEnds DEF Lost
<1>2. cap \in 1..AllocCap
  BY DEF LinksInv
<1>3. \A s \in 1..cap : s \in Slots /\ s <= cap
  BY <1>2, CapsWithinArray DEF Slots
<1>4. Found = {s \in Slots : s <= cap /\ s \in Holding(mem) /\ mem.slot[s].key = op.key}
  <2>1. \A s \in Slots : s <= cap => s \in 1..cap
    BY <1>2, CapsWithinArray DEF Slots
  <2>. QED  BY <1>3, <2>1, HasKeyIs DEF Found
<1>5. CacheOf!Found(op.key) = {s \in Slots : s <= cap /\ s \in Holding(seen) \ Expired(seen)
                                             /\ seen.slot[s].key = op.key}
  BY CacheIs DEF CacheOf!Found, Holding
<1>6. \A s \in Slots : s \in Holding(mem) <=> s \in Holding(seen) \ Expired(seen)
  BY <1>1 DEF Holding
<1>7. \A s \in Slots \ Expired(seen) : mem.slot[s] = seen.slot[s]
  BY <1>1
<1>. QED  BY <1>4, <1>5, <1>6, <1>7

LEMMA InBoundsIs == ASSUME LinksInv PROVE CacheOf!InBounds
BY CapsWithinArray DEF LinksInv, CacheOf!InBounds

(* What a function that returns shows. *)
LEMMA ReturnShows ==
    ASSUME NEW m, Return(m)
    PROVE  /\ seen'.slot = m.slot /\ seen'.count = m.count /\ seen'.heap = m.heap
           /\ seen'.order = Order(m)
           /\ UNCHANGED <<cap, timeout, now>>
<1>1. seen' = View(m)
  BY DEF Return, View, Listed
<1>. QED  BY <1>1, ViewIs DEF Return

LEMMA OrderTouched ==
    ASSUME NEW m, NEW l, Linked(m, l), NEW e \in Holding(m),
           NEW x, Linked(x, Before(Without(l, e), e))
    PROVE  Order(x) = PushFront(Unlink(OrderOf(l), {e}), e)
<1>. PICK w : w = Without(l, e)
  OBVIOUS
<1>1. Chain(l) /\ e \in Between(l) /\ e \in Slots
  BY HoldingIs DEF Linked, Threads
<1>2. Chain(w) /\ Between(w) = Between(l) \ {e} /\ OrderOf(w) = Unlink(OrderOf(l), {e})
  BY <1>1, WithoutIs, OrderWithout
<1>3. OrderOf(Before(w, e)) = PushFront(OrderOf(w), e)
  BY <1>1, <1>2, OrderBefore
<1>4. Listed(x) = Before(w, e)
  BY LinkedIsListed
<1>. QED  BY <1>2, <1>3, <1>4 DEF Order

LEMMA GetHitIsCaches ==
    ASSUME LinksInv, ViewInv, GetHit
    PROVE  CacheOf!GetHit(op.key) /\ op.key \in Keys
<1>. PICK e, m, X : e = First(Found) /\ m = Touched(mem, e) /\ X = Expired(seen)
  OBVIOUS
<1>1. /\ op.pc = "walk" /\ op.at \in {Null, LruHead} /\ Found # {} /\ Return(m)
      /\ op.key \in Keys
  BY WalkIs DEF GetHit, Walked, GetOps, PutOps
<1>2. Linked(mem, Listed(mem)) /\ now \in 0..MaxTime /\ e \in Holding(mem)
  BY <1>1, FoundIs DEF LinksInv
<1>3. /\ Linked(m, Before(Without(Listed(mem), e), e))
      /\ m.slot = [mem.slot EXCEPT ![e] = [mem.slot[e] EXCEPT !.used = now]]
      /\ m.heap = mem.heap /\ m.count = mem.count
  BY <1>2, TouchedIs
<1>4. Lost(mem, seen, X) /\ mem.count = Count(seen.count - Cardinality(X))
  BY <1>1, WalkEnds
<1>5. mem.slot = CacheOf!Cleared(X) /\ mem.heap = seen.heap \ CacheOf!ArgsOf(X)
  BY <1>4, LostIs
<1>6. /\ CacheOf!Found(op.key) = Found /\ CacheOf!First(Found) = e /\ CacheOf!Stale = X
      /\ CacheOf!InBounds
  BY <1>1, FoundIsCaches, FirstIsCaches, CacheIs, InBoundsIs
<1>7. mem.slot[e] = seen.slot[e] /\ e \in Slots
  BY <1>2, <1>4 DEF Lost, Holding
<1>8. Order(m) = CacheOf!PushFront(CacheOf!Unlink(seen.order, X \cup {e}), e)
  <2>1. Order(m) = PushFront(Unlink(Order(mem), {e}), e)
    BY <1>2, <1>3, OrderTouched DEF Order
  <2>2. Order(mem) = Unlink(seen.order, X)
    BY <1>4 DEF Lost
  <2>3. Unlink(Order(mem), {e}) = Unlink(seen.order, X \cup {e})
    BY <2>2 DEF Unlink
  <2>. QED  BY <2>1, <2>3, RecencyIs
<1>9. /\ seen'.slot = m.slot /\ seen'.count = m.count /\ seen'.heap = m.heap
      /\ seen'.order = Order(m) /\ UNCHANGED <<cap, timeout, now>>
  BY <1>1, ReturnShows
<1>10. m.slot = [CacheOf!Cleared(X) EXCEPT ![e] = [seen.slot[e] EXCEPT !.used = now]]
  BY <1>3, <1>5, <1>7
<1>11. m.count = CacheOf!Count(seen.count - CacheOf!Cardinality(X))
  BY <1>3, <1>4, CountIsCaches DEF CacheOf!Cardinality, Cardinality
<1>. QED  BY <1>1, <1>3, <1>5, <1>6, <1>8, <1>9, <1>10, <1>11 DEF CacheOf!GetHit

LEMMA GetMissIsCaches ==
    ASSUME LinksInv, ViewInv, GetMiss
    PROVE  CacheOf!GetMiss(op.key) /\ op.key \in Keys
<1>. PICK X : X = Expired(seen)
  OBVIOUS
<1>1. /\ op.pc = "walk" /\ op.at \in {Null, LruHead} /\ Found = {} /\ Return(mem)
      /\ op.key \in Keys
  BY WalkIs DEF GetMiss, Walked, GetOps, PutOps
<1>2. Lost(mem, seen, X) /\ mem.count = Count(seen.count - Cardinality(X))
  BY <1>1, WalkEnds
<1>3. /\ mem.slot = CacheOf!Cleared(X) /\ mem.heap = seen.heap \ CacheOf!ArgsOf(X)
      /\ Order(mem) = CacheOf!Unlink(seen.order, X)
  BY <1>2, LostIs
<1>4. CacheOf!Found(op.key) = {} /\ CacheOf!Stale = X /\ CacheOf!InBounds
  BY <1>1, FoundIsCaches, CacheIs, InBoundsIs
<1>5. /\ seen'.slot = mem.slot /\ seen'.count = mem.count /\ seen'.heap = mem.heap
      /\ seen'.order = Order(mem) /\ UNCHANGED <<cap, timeout, now>>
  BY <1>1, ReturnShows
<1>6. mem.count = CacheOf!Count(seen.count - CacheOf!Cardinality(X))
  BY <1>2, CountIsCaches DEF CacheOf!Cardinality, Cardinality
<1>. QED  BY <1>1, <1>3, <1>4, <1>5, <1>6 DEF CacheOf!GetMiss

(* The block handed to cinpy_cache_put is new. *)
LEMMA PutIs ==
    ASSUME LinksInv, ViewInv, Walked("put")
    PROVE  /\ op.pc = "walk" /\ op.at \in {Null, LruHead}
           /\ op.key \in Keys /\ op.cif \in Cifs /\ op.args \in Blocks \ seen.heap
<1>1. op.pc = "walk" /\ op.at \in {Null, LruHead} /\ op.do = "put"
  BY DEF Walked
<1>2. op \in PutOps
  BY <1>1, WalkIs DEF GetOps
<1>3. op.args \notin seen.heap
  BY <1>1 DEF ViewInv
<1>. QED  BY <1>1, <1>2, <1>3 DEF PutOps

LEMMA PutReplaceIsCaches ==
    ASSUME LinksInv, ViewInv, PutReplace
    PROVE  CacheOf!PutReplace(op.key, op.cif, op.args)
<1>. PICK e, X, n : /\ e = First(Found) /\ X = Expired(seen)
                    /\ n = [key |-> op.key, cif |-> op.cif, args |-> op.args, used |-> now]
  OBVIOUS
<1>1. op.pc = "walk" /\ op.at \in {Null, LruHead} /\ Found # {}
  BY PutIs DEF PutReplace
<1>2. PICK m : /\ Return(m) /\ e \in Holding(mem)
               /\ Linked(m, Before(Without(Listed(mem), e), e))
               /\ m.slot = [mem.slot EXCEPT ![e] = n]
               /\ m.heap = (mem.heap \ {mem.slot[e].args}) \cup {op.args}
               /\ m.count = mem.count
  BY PutReplaceIs
<1>3. Linked(mem, Listed(mem))
  BY DEF LinksInv
<1>4. Lost(mem, seen, X) /\ mem.count = Count(seen.count - Cardinality(X))
  BY <1>1, WalkEnds
<1>5. mem.slot = CacheOf!Cleared(X) /\ mem.heap = seen.heap \ CacheOf!ArgsOf(X)
  BY <1>4, LostIs
<1>6. /\ CacheOf!Found(op.key) = Found /\ CacheOf!First(Found) = e /\ CacheOf!Stale = X
      /\ CacheOf!InBounds
  BY <1>1, FoundIsCaches, FirstIsCaches, CacheIs, InBoundsIs
<1>7. mem.slot[e] = seen.slot[e] /\ e \in Slots
  BY <1>2, <1>4 DEF Lost, Holding
<1>8. Order(m) = CacheOf!PushFront(CacheOf!Unlink(seen.order, X \cup {e}), e)
  <2>1. Order(m) = PushFront(Unlink(Order(mem), {e}), e)
    BY <1>2, <1>3, OrderTouched DEF Order
  <2>2. Order(mem) = Unlink(seen.order, X)
    BY <1>4 DEF Lost
  <2>3. Unlink(Order(mem), {e}) = Unlink(seen.order, X \cup {e})
    BY <2>2 DEF Unlink
  <2>. QED  BY <2>1, <2>3, RecencyIs
<1>9. /\ seen'.slot = m.slot /\ seen'.count = m.count /\ seen'.heap = m.heap
      /\ seen'.order = Order(m) /\ UNCHANGED <<cap, timeout, now>>
  BY <1>2, ReturnShows
<1>10. m.heap = (seen.heap \ CacheOf!ArgsOf(X \cup {e})) \cup {op.args}
  <2>1. CacheOf!ArgsOf(X \cup {e}) = CacheOf!ArgsOf(X) \cup {seen.slot[e].args}
    BY DEF CacheOf!ArgsOf
  <2>. QED  BY <1>2, <1>5, <1>7, <2>1
<1>11. m.count = CacheOf!Count(seen.count - CacheOf!Cardinality(X))
  BY <1>2, <1>4, CountIsCaches DEF CacheOf!Cardinality, Cardinality
<1>. QED  BY <1>1, <1>2, <1>5, <1>6, <1>8, <1>9, <1>10, <1>11 DEF CacheOf!PutReplace

(* evict_lru_one evicts Cache's victims. *)
LEMMA RoomyGone ==
    ASSUME LinksInv, ViewInv, op.pc = "walk", op.at \in {Null, LruHead},
           NEW X, X = Expired(seen) \cup CacheOf!Victims
    PROVE  /\ Linked(Roomy, Listed(Roomy)) /\ Keyed(Roomy)
           /\ Lost(Roomy, seen, X)
           /\ Roomy.count = Count(seen.count - Cardinality(X))
<1>. PICK l, S, e : l = Listed(mem) /\ S = Expired(seen) /\ e = mem.prev[LruTail]
  OBVIOUS
<1>1. Linked(mem, l) /\ Linked(mem, Listed(mem)) /\ Keyed(mem) /\ Chain(l) /\ Between(l) = Holding(mem)
  BY DEF LinksInv, Linked, Threads
<1>2. Lost(mem, seen, S) /\ mem.count = Count(seen.count - Cardinality(S))
  BY WalkEnds
<1>3. CacheOf!Stale = S /\ CacheOf!Unlink(seen.order, S) = Order(mem)
  BY <1>2, CacheIs, LostIs
<1>4. CacheOf!Victims = IF mem.count >= cap THEN Oldest(Order(mem)) ELSE {}
  BY <1>2, <1>3, CountIsCaches, RecencyIs DEF CacheOf!Victims, CacheOf!Cardinality, Cardinality
<1>5. Oldest(Order(mem)) = {e} \cap Holding(mem)
  BY <1>1, OrderOldest, BeforeTail DEF Order
<1>6. e \in Holding(mem) <=> e \notin {Null, LruHead}
  BY <1>1, BeforeTail, CellsAre, CellsAssumption DEF Holding
<1>7. CASE mem.count >= cap /\ e \in Holding(mem)
  <2>. PICK x : x = EvictEntry(mem, e)
    OBVIOUS
  <2>1. Roomy = x /\ X = S \cup {e}
    BY <1>4, <1>5, <1>6, <1>7 DEF Roomy
  <2>2. /\ Linked(x, Without(l, e)) /\ x.slot = Set2(mem.slot, e, NoEntry, e, NoEntry)
        /\ x.heap = mem.heap \ {mem.slot[e].args} /\ x.count = Count(mem.count - 1)
    BY <1>1, <1>7, EvictEntryIs
  <2>3. Lost(x, seen, S \cup {e})
    BY <1>1, <1>2, <1>7, <2>2, LostMore
  <2>4. Keyed(x)
    BY <1>1, <2>2, KeyedAfter DEF Linked
  <2>5. Linked(x, Listed(x))
    BY <2>2, LinkedIsListed
  <2>6. x.count = Count(seen.count - Cardinality(S \cup {e}))
    <3>1. S \subseteq Slots
      BY DEF Expired, Holding
    <3>. PICK g : g = Cardinality(S)
      OBVIOUS
    <3>2. IsFiniteSet(S) /\ g \in Nat
      BY <3>1, SlotsFinite
    <3>3. e \notin S
      BY <1>2, <1>7 DEF Lost, Holding
    <3>4. Cardinality(S \cup {e}) = g + 1
      BY <3>2, <3>3, FS_AddElement
    <3>5. seen.count - g \in Int /\ seen.count - g - 1 = seen.count - (g + 1)
      BY <3>2 DEF ViewInv
    <3>6. Count(Count(seen.count - g) - 1) = Count(seen.count - g - 1)
      BY <3>5, CountOff
    <3>. QED  BY <1>2, <2>2, <3>4, <3>5, <3>6
  <2>. QED  BY <2>1, <2>3, <2>4, <2>5, <2>6
<1>8. CASE ~(mem.count >= cap /\ e \in Holding(mem))
  <2>1. Roomy = mem /\ CacheOf!Victims = {}
    BY <1>4, <1>5, <1>6, <1>8 DEF Roomy
  <2>2. X = S
    BY <2>1
  <2>. QED  BY <1>1, <1>2, <2>1, <2>2
<1>. QED  BY <1>7, <1>8

LEMMA EmptyIsCaches ==
    ASSUME LinksInv, ViewInv, op.pc = "walk", op.at \in {Null, LruHead}
    PROVE  Empty(Roomy) = CacheOf!Empty
<1>. PICK X, r : X = Expired(seen) \cup CacheOf!Victims /\ r = Roomy
  OBVIOUS
<1>1. Linked(r, Listed(r)) /\ Keyed(r) /\ Lost(r, seen, X)
  BY RoomyGone
<1>2. cap \in 1..AllocCap
  BY DEF LinksInv
<1>3. \A s : s \in 1..cap <=> s \in Slots /\ s <= cap
  BY <1>2, CapsWithinArray DEF Slots
<1>4. Empty(r) = {s \in Slots : s <= cap /\ s \notin Holding(r)}
  BY <1>1, <1>3 DEF Empty, Keyed, Holding
<1>5. \A s \in Slots : s \in Holding(r) <=> s \in Holding(seen) \ X
  BY <1>1 DEF Lost, Holding
<1>6. CacheOf!Empty = {s \in Slots : s <= cap /\ (s \notin Holding(seen) \/ s \in X)}
  BY CacheIs DEF CacheOf!Empty
<1>. QED  BY <1>4, <1>5, <1>6

LEMMA PutNewIsCaches ==
    ASSUME LinksInv, ViewInv, ~StrdupMayFail, PutNew
    PROVE  CacheOf!PutInsert(op.key, op.cif, op.args)
<1>. PICK X, r, e, n : /\ X = Expired(seen) \cup CacheOf!Victims
                       /\ r = Roomy /\ e = First(Empty(r))
                       /\ n = [key |-> op.key, cif |-> op.cif, args |-> op.args, used |-> now]
  OBVIOUS
<1>1. op.pc = "walk" /\ op.at \in {Null, LruHead} /\ Found = {} /\ Empty(r) # {}
  BY PutIs DEF PutNew
<1>2. /\ Linked(r, Listed(r)) /\ Keyed(r) /\ Lost(r, seen, X)
      /\ r.count = Count(seen.count - Cardinality(X))
  BY <1>1, RoomyGone
<1>. PICK l : l = Listed(r)
  OBVIOUS
<1>3. PICK m : /\ Return(m) /\ e \in Slots \ Holding(r) /\ Linked(m, Before(l, e))
               /\ m.slot = [r.slot EXCEPT ![e] = n]
               /\ m.heap = r.heap \cup {op.args}
               /\ m.count = Count(r.count + 1)
  BY <1>2, PutNewIs
<1>4. /\ r.slot = CacheOf!Cleared(X) /\ r.heap = seen.heap \ CacheOf!ArgsOf(X)
      /\ Order(r) = CacheOf!Unlink(seen.order, X)
  BY <1>2, LostIs
<1>5. /\ CacheOf!Found(op.key) = {} /\ CacheOf!Empty = Empty(r) /\ CacheOf!First(Empty(r)) = e
      /\ CacheOf!Stale = Expired(seen) /\ CacheOf!InBounds
  BY <1>1, FoundIsCaches, EmptyIsCaches, FirstIsCaches, CacheIs, InBoundsIs
<1>6. Order(m) = CacheOf!PushFront(CacheOf!Unlink(seen.order, X), e)
  <2>1. Chain(l) /\ e \in Slots \ Between(l)
    BY <1>2, <1>3 DEF Linked, Threads
  <2>2. Listed(m) = Before(l, e)
    BY <1>3, LinkedIsListed
  <2>3. Order(m) = PushFront(Order(r), e)
    BY <2>1, <2>2, OrderBefore DEF Order
  <2>. QED  BY <1>4, <2>3, RecencyIs
<1>7. /\ seen'.slot = m.slot /\ seen'.count = m.count /\ seen'.heap = m.heap
      /\ seen'.order = Order(m) /\ UNCHANGED <<cap, timeout, now>>
  BY <1>3, ReturnShows
<1>8. m.count = CacheOf!Count(CacheOf!Count(seen.count - CacheOf!Cardinality(X)) + 1)
  BY <1>2, <1>3, CountIsCaches DEF CacheOf!Cardinality, Cardinality
<1>. QED  BY <1>1, <1>3, <1>4, <1>5, <1>6, <1>7, <1>8 DEF CacheOf!PutInsert

LEMMA PutRejectIsCaches ==
    ASSUME LinksInv, ViewInv, PutReject
    PROVE  CacheOf!PutReject(op.key, op.cif, op.args)
<1>. PICK X, r : X = Expired(seen) \cup CacheOf!Victims /\ r = Roomy
  OBVIOUS
<1>1. op.pc = "walk" /\ op.at \in {Null, LruHead} /\ Found = {} /\ Empty(r) = {}
  BY PutIs DEF PutReject
<1>2. /\ Linked(r, Listed(r)) /\ Lost(r, seen, X)
      /\ r.count = Count(seen.count - Cardinality(X))
  BY <1>1, RoomyGone
<1>3. PICK m : m = [r EXCEPT !.heap = @ \cup {op.args}]
  OBVIOUS
<1>4. /\ m.slot = r.slot /\ m.prev = r.prev /\ m.next = r.next /\ m.count = r.count
      /\ m.heap = r.heap \cup {op.args} /\ m \in Memory
  BY <1>1, <1>2, <1>3, PutIs DEF Linked, Memory, PutReject
<1>5. Linked(m, Listed(r))
  BY <1>2, <1>4 DEF Linked, Holding
<1>6. Order(m) = Order(r)
  BY <1>5, LinkedIsListed DEF Order
<1>7. Return(m)
  BY <1>3 DEF PutReject
<1>8. /\ r.slot = CacheOf!Cleared(X) /\ r.heap = seen.heap \ CacheOf!ArgsOf(X)
      /\ Order(r) = CacheOf!Unlink(seen.order, X)
  BY <1>2, LostIs
<1>9. /\ CacheOf!Found(op.key) = {} /\ CacheOf!Empty = {} /\ CacheOf!Stale = Expired(seen)
      /\ CacheOf!InBounds
  BY <1>1, FoundIsCaches, EmptyIsCaches, CacheIs, InBoundsIs
<1>10. /\ seen'.slot = m.slot /\ seen'.count = m.count /\ seen'.heap = m.heap
       /\ seen'.order = Order(m) /\ UNCHANGED <<cap, timeout, now>>
  BY <1>7, ReturnShows
<1>11. r.count = CacheOf!Count(seen.count - CacheOf!Cardinality(X))
  BY <1>2, CountIsCaches DEF CacheOf!Cardinality, Cardinality
<1>. QED  BY <1>4, <1>6, <1>8, <1>9, <1>10, <1>11 DEF CacheOf!PutReject

LEMMA EraseEndIsCaches ==
    ASSUME LinksInv, ViewInv, EraseEnd
    PROVE  CacheOf!EvictAll
<1>. PICK m, X : m = [mem EXCEPT !.count = 0] /\ X = Erased
  OBVIOUS
<1>1. op.pc = "erase" /\ op.at > cap /\ Return(m)
  BY DEF EraseEnd
<1>2. Linked(mem, Listed(mem)) /\ cap \in 1..AllocCap /\ 0 \in 0..SizeMod - 1
  BY SizeModAssumption, CapsWithinArray DEF LinksInv
<1>3. Linked(m, Listed(mem)) /\ m.slot = mem.slot /\ m.heap = mem.heap /\ m.count = 0
  BY <1>2, Counted
<1>4. Order(m) = Order(mem)
  BY <1>3, LinkedIsListed DEF Order
<1>5. Lost(mem, seen, X)
  BY <1>1 DEF ViewInv
<1>6. X = CacheOf!Visible \cap CacheOf!Occupied
  <2>1. op \in EraseOps
    BY <1>1 DEF LinksInv, OpOk, NoOp, GetOps, PutOps
  <2>2. \A s \in Holding(seen) : s <= cap => s < op.at
    BY <1>1, <1>2, <2>1, CapsWithinArray DEF EraseOps, Holding, Slots
  <2>. QED  BY <2>2, CacheIs DEF Erased, Holding
<1>7. /\ mem.slot = CacheOf!Cleared(X) /\ mem.heap = seen.heap \ CacheOf!ArgsOf(X)
      /\ Order(mem) = CacheOf!Unlink(seen.order, X)
  BY <1>5, LostIs
<1>8. /\ seen'.slot = m.slot /\ seen'.count = m.count /\ seen'.heap = m.heap
      /\ seen'.order = Order(m) /\ UNCHANGED <<cap, timeout, now>>
  BY <1>1, ReturnShows
<1>. QED  BY <1>3, <1>4, <1>6, <1>7, <1>8, InBoundsIs DEF CacheOf!EvictAll

LEMMA StepIsCaches ==
    ASSUME LinksInv, ViewInv, ~StrdupMayFail, [Next]_vars
    PROVE  [CacheOf!CacheNext]_(CacheOf!cacheVars)
<1>1. CASE UNCHANGED vars
  BY <1>1 DEF vars, CacheOf!cacheVars
<1>2. CASE \/ \E k \in Keys : CallGet(k)
           \/ \E k \in Keys, c \in Cifs, b \in Blocks \ mem.heap : CallPut(k, c, b)
           \/ CallEvictAll \/ WalkOn \/ EraseOn
  BY <1>2 DEF CallGet, CallPut, CallEvictAll, Call, WalkOn, EraseOn, CacheOf!cacheVars
<1>3. CASE GetHit
  BY <1>3, GetHitIsCaches DEF CacheOf!CacheNext
<1>4. CASE GetMiss
  BY <1>4, GetMissIsCaches DEF CacheOf!CacheNext
<1>5. CASE PutReplace \/ PutNew \/ PutReject
  <2>1. op.key \in Keys /\ op.cif \in Cifs /\ op.args \in Blocks \ seen.heap
    BY <1>5, PutIs DEF PutReplace, PutNew, PutReject
  <2>2. CacheOf!Put(op.key, op.cif, op.args)
    BY <1>5, PutReplaceIsCaches, PutNewIsCaches, PutRejectIsCaches DEF CacheOf!Put
  <2>. QED  BY <2>1, <2>2 DEF CacheOf!CacheNext
<1>6. CASE EraseEnd
  BY <1>6, EraseEndIsCaches DEF CacheOf!CacheNext
<1>7. CASE \E c \in Caps \cup {0}, t \in Timeouts \cup {0} : Config(c, t)
  <2>1. PICK c \in Caps \cup {0}, t \in Timeouts \cup {0} : Config(c, t)
    BY <1>7
  <2>2. CacheOf!Config(c, t)
    BY <2>1 DEF Config, CacheOf!Config
  <2>. QED  BY <2>2 DEF CacheOf!CacheNext
<1>8. CASE Tick
  <2>1. CacheOf!Tick
    BY <1>8 DEF Tick, CacheOf!Tick, CacheOf!Times
  <2>. QED  BY <2>1 DEF CacheOf!CacheNext
<1>. QED  BY <1>1, <1>2, <1>3, <1>4, <1>5, <1>6, <1>7, <1>8 DEF Next, Go

LEMMA InitIsCaches == ASSUME Init PROVE CacheOf!CacheInit
<1>1. Linked(mem, Listed(mem)) /\ Holding(mem) = {} /\ mem.slot = [s \in Slots |-> NoEntry]
  BY InitLinks DEF LinksInv, Init, Holding
<1>2. Order(mem) = {}
  <2>. PICK l : l = Listed(mem)
    OBVIOUS
  <2>1. Len(l) \in Nat /\ Between(l) = {}
    BY <1>1 DEF Linked, Threads, Chain
  <2>2. ASSUME NEW p \in OrderOf(l) PROVE FALSE
    <3>1. <<p[1], p[2]>> \in OrderOf(l)
      BY OrderPairs
    <3>2. \E i, j \in 2..Len(l) - 1 : i <= j /\ l[i] = p[1] /\ l[j] = p[2]
      BY <2>1, <3>1, InOrder
    <3>. QED  BY <2>1, <3>2 DEF Between
  <2>. QED  BY <2>2 DEF Order
<1>3. seen = [slot |-> mem.slot, count |-> mem.count, heap |-> mem.heap, order |-> Order(mem)]
  BY ViewIs DEF Init
<1>4. mem.count = 0 /\ mem.heap = {}
  BY DEF Init
<1>5. seen.slot = [s \in CacheOf!Slots |-> NoEntry]
  BY <1>1, <1>3 DEF CacheOf!Slots, Slots
<1>6. seen.order = {} /\ seen.count = 0 /\ seen.heap = {}
  BY <1>2, <1>3, <1>4
<1>7. cap = AllocCap /\ timeout = InitTimeout /\ now = 0
  BY DEF Init
<1>. QED  BY <1>5, <1>6, <1>7 DEF CacheOf!CacheInit

(* LruList's ImplementsCache, for every array, capacity and timeout: while *)
(* strdup does not fail, what the pointers, the walks that erase as they   *)
(* go and the scans of cache.c leave behind when a function returns is     *)
(* what one atomic action of module Cache leaves.                          *)
THEOREM ListImplementsCache ==
    ASSUME ~StrdupMayFail
    PROVE  Spec => ImplementsCache
<1>1. Init => LinksInv /\ ViewInv
  BY InitLinks, InitView
<1>2. LinksInv /\ ViewInv /\ [Next]_vars => (LinksInv /\ ViewInv)'
  BY StepLinks, StepView
<1>3. LinksInv /\ ViewInv /\ [Next]_vars => [CacheOf!CacheNext]_(CacheOf!cacheVars)
  BY StepIsCaches
<1>4. Init => CacheOf!CacheInit
  BY InitIsCaches
<1>. QED  BY <1>1, <1>2, <1>3, <1>4, PTL DEF Spec, ImplementsCache, CacheOf!CacheSpec
=============================================================================
