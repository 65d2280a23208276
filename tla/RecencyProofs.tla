--------------------------- MODULE RecencyProofs ---------------------------
(***************************************************************************)
(* What the list operations of Recency preserve, for every list.           *)
(***************************************************************************)
EXTENDS Recency, Integers, FiniteSets, FiniteSetTheorems, WellFoundedInduction, TLAPS

(* The members of a list of S are the elements of S. *)
LEMMA MembersOfList ==
    ASSUME NEW S, NEW r, IsListOf(r, S)
    PROVE  Members(r) = S
<1>1. ASSUME NEW a \in Members(r) PROVE a \in S
  <2>1. PICK q \in r : q[1] = q[2] /\ q[1] = a
    BY <1>1 DEF Members
  <2>2. q \in S \X S
    BY <2>1 DEF IsListOf
  <2>. QED  BY <2>1, <2>2
<1>2. ASSUME NEW a \in S PROVE a \in Members(r)
  <2>1. <<a, a>> \in r
    BY DEF IsListOf
  <2>2. <<a, a>> \in {q \in r : q[1] = q[2]}
    BY <2>1
  <2>. QED  BY <2>2 DEF Members
<1>. QED  BY <1>1, <1>2

(* Unlinking X from a list of S leaves a list of S \ X. *)
LEMMA UnlinkList ==
    ASSUME NEW S, NEW r, IsListOf(r, S), NEW X
    PROVE  IsListOf(Unlink(r, X), S \ X)
<1>1. \A a, b : <<a, b>> \in Unlink(r, X) <=> <<a, b>> \in r /\ a \notin X /\ b \notin X
  BY DEF Unlink
<1>2. Unlink(r, X) \subseteq (S \ X) \X (S \ X)
  <2>1. ASSUME NEW p \in Unlink(r, X) PROVE p \in (S \ X) \X (S \ X)
    <3>1. p \in r /\ p[1] \notin X /\ p[2] \notin X
      BY DEF Unlink
    <3>2. p \in S \X S
      BY <3>1 DEF IsListOf
    <3>. QED  BY <3>1, <3>2
  <2>. QED  BY <2>1
<1>. QED  BY <1>1, <1>2 DEF IsListOf

(* Pushing a new s onto a list of S gives a list of S with s. *)
LEMMA PushFrontList ==
    ASSUME NEW S, NEW r, IsListOf(r, S), NEW s, s \notin S
    PROVE  IsListOf(PushFront(r, s), S \cup {s})
<1>. DEFINE q == PushFront(r, s)
<1>1. q = r \cup {<<s, t>> : t \in S \cup {s}}
  BY MembersOfList DEF PushFront
<1>2. \A a, b : <<a, b>> \in q <=> <<a, b>> \in r \/ (a = s /\ b \in S \cup {s})
  BY <1>1
<1>3. \A a, b : <<a, b>> \in r => a \in S /\ b \in S
  BY DEF IsListOf
<1>4. q \subseteq (S \cup {s}) \X (S \cup {s})
  <2>1. ASSUME NEW p \in q PROVE p \in (S \cup {s}) \X (S \cup {s})
    <3>1. CASE p \in r
      BY <3>1 DEF IsListOf
    <3>2. CASE p \in {<<s, t>> : t \in S \cup {s}}
      BY <3>2
    <3>. QED  BY <1>1, <3>1, <3>2
  <2>. QED  BY <2>1
<1>. HIDE DEF q
<1>5. \A a \in S \cup {s} : <<a, a>> \in q
  BY <1>2 DEF IsListOf
<1>6. \A a, b \in S \cup {s} : <<a, b>> \in q \/ <<b, a>> \in q
  BY <1>2 DEF IsListOf
<1>7. \A a, b \in S \cup {s} : <<a, b>> \in q /\ <<b, a>> \in q => a = b
  BY <1>2, <1>3 DEF IsListOf
<1>8. \A a, b, c \in S \cup {s} : <<a, b>> \in q /\ <<b, c>> \in q => <<a, c>> \in q
  BY <1>2, <1>3 DEF IsListOf
<1>9. IsListOf(q, S \cup {s})
  BY <1>4, <1>5, <1>6, <1>7, <1>8 DEF IsListOf
<1>. QED  BY <1>9 DEF q

(* The tail of a list of S is an element of S. *)
LEMMA OldestOfList ==
    ASSUME NEW S, NEW r, IsListOf(r, S)
    PROVE  Oldest(r) \subseteq S
BY MembersOfList DEF Oldest

(* A non-empty set of naturals has a least element. *)
LEMMA LeastNatural ==
    ASSUME NEW T, T \subseteq Nat, T # {}
    PROVE  \E m \in T : \A n \in T : m <= n
<1>1. PICK m \in T : \A n \in T : ~(<<n, m>> \in OpToRel(<, Nat))
  BY NatLessThanWellFounded, WFMin, Zenon
<1>2. ASSUME NEW n \in T PROVE m <= n
  <2>1. n \in Nat /\ m \in Nat
    OBVIOUS
  <2>2. ~(n < m)
    BY <1>1, <2>1 DEF OpToRel
  <2>. QED  BY <2>1, <2>2
<1>. QED  BY <1>2

(* A finite list that is not empty has a tail: the entry with the fewest   *)
(* entries behind it.                                                      *)
LEMMA OldestExists ==
    ASSUME NEW S, NEW r, IsListOf(r, S), IsFiniteSet(S), S # {}
    PROVE  Oldest(r) # {}
<1>. DEFINE Behind(s) == {t \in S : <<s, t>> \in r}
            Sizes == {Cardinality(Behind(s)) : s \in S}
<1>1. ASSUME NEW s \in S PROVE IsFiniteSet(Behind(s)) /\ Cardinality(Behind(s)) \in Nat
  <2>1. IsFiniteSet(Behind(s))
    BY FS_Subset
  <2>. QED  BY <2>1, FS_CardinalityType
<1>2. Sizes \subseteq Nat /\ Sizes # {}
  BY <1>1
<1>3. PICK m \in Sizes : \A n \in Sizes : m <= n
  <2>. HIDE DEF Sizes
  <2>. QED  BY <1>2, LeastNatural
<1>4. PICK s \in S : m = Cardinality(Behind(s))
  OBVIOUS
<1>5. ASSUME NEW t \in S, <<t, s>> \notin r PROVE FALSE
  <2>1. <<s, t>> \in r /\ <<s, s>> \in r
    BY <1>5 DEF IsListOf
  <2>2. Behind(t) \subseteq Behind(s)
    BY <2>1 DEF IsListOf
  <2>3. Behind(t) # Behind(s)
    BY <1>5, <2>1
  <2>4. Cardinality(Behind(t)) < Cardinality(Behind(s))
    <3>1. /\ Cardinality(Behind(t)) <= Cardinality(Behind(s))
          /\ Cardinality(Behind(t)) # Cardinality(Behind(s))
      <4>. HIDE DEF Behind
      <4>. QED  BY <1>1, <2>2, <2>3, FS_Subset
    <3>2. Cardinality(Behind(t)) \in Nat /\ Cardinality(Behind(s)) \in Nat
      BY <1>1
    <3>. HIDE DEF Behind
    <3>. QED  BY <3>1, <3>2
  <2>5. Cardinality(Behind(s)) <= Cardinality(Behind(t))
    BY <1>3, <1>4
  <2>6. Cardinality(Behind(t)) \in Nat /\ Cardinality(Behind(s)) \in Nat
    BY <1>1
  <2>. HIDE DEF Behind
  <2>. QED  BY <2>4, <2>5, <2>6
<1>6. s \in Oldest(r)
  BY <1>5, MembersOfList DEF Oldest
<1>. QED  BY <1>6
=============================================================================
