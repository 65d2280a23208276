------------------------------ MODULE LruSpec ------------------------------
(***************************************************************************)
(* What the call cache of src/src/cache.c promises its caller, with no     *)
(* array, list, counter or heap: a table from function names to prepared   *)
(* calls that forgets a name unused for longer than the timeout and, when  *)
(* it is full, the name used longest ago.                                  *)
(***************************************************************************)
EXTENDS Integers, FiniteSets

CONSTANTS Keys, Cifs, Capacity, Timeouts, InitTimeout, MaxTime

VARIABLES
    recency,     \* the pairs <<j, k>> of names such that j is k or was used after k
    table,       \* name -> prepared call and time of its last use
    timeout,
    now

vars == <<recency, table, timeout, now>>

Init ==
    /\ recency = {}
    /\ table = [k \in {} |-> {}]
    /\ timeout = InitTimeout
    /\ now = 0

Live == {k \in DOMAIN table : now - table[k].used <= timeout}

(* The order of the names in S. *)
Among(S) == {p \in recency : p[1] \in S /\ p[2] \in S}

(* k is now the name used last, and maps to c; of the others S are kept. *)
Use(k, c, S) ==
    /\ recency' = Among(S) \cup {<<k, j>> : j \in S \cup {k}}
    /\ table' = [j \in S \cup {k} |->
                    IF j = k THEN [cif |-> c, used |-> now] ELSE table[j]]
    /\ UNCHANGED <<timeout, now>>

(* No name is used; S are kept. *)
Keep(S) ==
    /\ recency' = Among(S)
    /\ table' = [j \in S |-> table[j]]
    /\ UNCHANGED <<timeout, now>>

(* A lookup finds a live name, and makes it the last used ... *)
Hit(k) == k \in Live /\ Use(k, table[k].cif, Live \ {k})

(* ... or finds nothing; either way expired names are forgotten. *)
Miss(k) == k \notin Live /\ Keep(Live)

(* Storing k keeps the Capacity - 1 other live names used last: those that *)
(* have fewer than Capacity of them ahead, counting themselves.            *)
Store(k, c) ==
    LET others == Live \ {k}
    IN  Use(k, c, {j \in others :
                      Cardinality({i \in others : <<i, j>> \in recency}) < Capacity})

Forget == Keep({})

SetTimeout(t) == timeout' = t /\ UNCHANGED <<recency, table, now>>

Tick == now' \in 0..MaxTime /\ UNCHANGED <<recency, table, timeout>>

Next ==
    \/ \E k \in Keys : Hit(k) \/ Miss(k)
    \/ \E k \in Keys, c \in Cifs : Store(k, c)
    \/ Forget
    \/ \E t \in Timeouts : SetTimeout(t)
    \/ Tick

Spec == Init /\ [][Next]_vars
=============================================================================
