------------------------------ MODULE CacheLru ------------------------------
(***************************************************************************)
(* The array, list and counter of Cache as the table of LruSpec, which     *)
(* they implement as long as the capacity is the one the array was         *)
(* allocated for.                                                          *)
(***************************************************************************)
EXTENDS Cache

(* The names in the elements S of array a. *)
NamesIn(a, S) == {a[s].key : s \in S}

(* The order r of elements of a, as an order of names. *)
NameOrder(a, r) == {<<a[p[1]].key, a[p[2]].key>> : p \in r}

(* What the elements S of a say about the names in them. *)
NameTable(a, S) ==
    [k \in NamesIn(a, S) |->
        LET s == CHOOSE s \in S : a[s].key = k
        IN  [cif |-> a[s].cif, used |-> a[s].used]]

LRU == INSTANCE LruSpec WITH
    Capacity <- AllocCap,
    recency <- NameOrder(slot, order),
    table <- NameTable(slot, Occupied)

(* Every step of the cache is the step its promise allows: a hit returns   *)
(* what was last stored, the name evicted is the one used longest ago, and *)
(* only a full table evicts (cinpy_cache_get, cinpy_cache_put).            *)
ImplementsLru == LRU!Spec
=============================================================================
