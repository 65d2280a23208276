------------------------------ MODULE Recency ------------------------------
(***************************************************************************)
(* The order kept by the LRU list of src/src/cache.c, without its          *)
(* pointers.  A list between g_lru_head and g_lru_tail is the set of pairs *)
(* <<a, b>> such that a is b or a stands nearer to the head than b.  The   *)
(* pair <<a, a>> says that a is on the list at all.                        *)
(***************************************************************************)

(* The entries on list r. *)
Members(r) == {p[1] : p \in {q \in r : q[1] = q[2]}}

(* lru_remove of every entry of X: the neighbours close the gap. *)
Unlink(r, X) == {p \in r : p[1] \notin X /\ p[2] \notin X}

(* lru_push_front of an entry s that is not on the list. *)
PushFront(r, s) == r \cup {<<s, t>> : t \in Members(r) \cup {s}}

(* g_lru_tail.lru_prev: the entry next to the tail, as a set, because the *)
(* list may be empty.                                                     *)
Oldest(r) == {s \in Members(r) : \A t \in Members(r) : <<t, s>> \in r}

(* r is one list that threads exactly the entries of S, each once. *)
IsListOf(r, S) ==
    /\ r \subseteq S \X S
    /\ \A a \in S : <<a, a>> \in r
    /\ \A a, b \in S : <<a, b>> \in r \/ <<b, a>> \in r
    /\ \A a, b \in S : <<a, b>> \in r /\ <<b, a>> \in r => a = b
    /\ \A a, b, c \in S : <<a, b>> \in r /\ <<b, c>> \in r => <<a, c>> \in r
=============================================================================
