-------------------------- MODULE CpycFormatProofs --------------------------
(***************************************************************************)
(* Lemmas about the operators of module CpycFormat: what a loop writes     *)
(* (Concat), piece by piece, and what read_str finds where a string was    *)
(* written.                                                                *)
(***************************************************************************)
EXTENDS CpycFormat, SequenceTheorems, WellFoundedInduction, TLAPS

LEMMA SmallestExists ==
    ASSUME NEW T, T \subseteq Nat, T # {}
    PROVE  \E m \in T : \A n \in T : m <= n
<1>1. PICK m \in T : \A n \in T : ~(<<n, m>> \in OpToRel(<, Nat))
  BY NatLessThanWellFounded, WFMin, Zenon
<1>2. ASSUME NEW n \in T PROVE m <= n
  <2>1. n \in Nat /\ m \in Nat
    OBVIOUS
  <2>2. ~(n < m)
    BY <1>1, <2>1 DEF OpToRel
  <2>. QED  BY <2>1, <2>2
<1>. QED  BY <1>2

-----------------------------------------------------------------------------
(* c holds what the loop has written after each of its first k rounds.     *)
Written(c, s, k) == c = [n \in 0..k |-> IF n = 0 THEN << >> ELSE c[n - 1] \o s[n]]

LEMMA WrittenAt ==
    ASSUME NEW s, NEW k \in Nat, NEW c, Written(c, s, k)
    PROVE  /\ c[0] = << >>
           /\ \A n \in 1..k : c[n] = c[n - 1] \o s[n]
<1>1. PICK d : d = [n \in 0..k |-> IF n = 0 THEN << >> ELSE c[n - 1] \o s[n]]
  OBVIOUS
<1>2. d[0] = << >> /\ \A n \in 1..k : d[n] = c[n - 1] \o s[n]
  BY <1>1
<1>3. c = d
  BY <1>1 DEF Written
<1>. QED  BY <1>2, <1>3

LEMMA SomethingWritten ==
    ASSUME NEW s, NEW k \in Nat
    PROVE  \E c : Written(c, s, k)
<1>. DEFINE Never == {n \in Nat : ~\E c : Written(c, s, n)}
<1>1. SUFFICES ASSUME Never # {} PROVE FALSE
  OBVIOUS
<1>2. PICK m \in Never : \A n \in Never : m <= n
  BY <1>1, SmallestExists
<1>3. CASE m = 0
  <2>1. PICK c : c = [n \in {0} |-> << >>]
    OBVIOUS
  <2>2. c = [n \in 0..0 |-> IF n = 0 THEN << >> ELSE c[n - 1] \o s[n]]
    BY <2>1
  <2>. QED  BY <1>2, <1>3, <2>2 DEF Written
<1>4. CASE m > 0
  <2>1. PICK b : Written(b, s, m - 1)
    BY <1>2, <1>4
  <2>2. PICK c : c = [n \in 0..m |-> IF n = 0 THEN << >> ELSE b[n - 1] \o s[n]]
    OBVIOUS
  <2>3. c[0] = << >> /\ \A n \in 1..m : c[n] = b[n - 1] \o s[n]
    BY <2>2
  <2>4. m \in Nat /\ m - 1 \in Nat
    BY <1>4
  <2>5. b[0] = << >> /\ \A n \in 1..m - 1 : b[n] = b[n - 1] \o s[n]
    BY <2>1, <2>4, WrittenAt
  <2>6. ASSUME NEW n \in 0..m - 1 PROVE b[n] = c[n]
    <3>1. CASE n = 0
      BY <2>3, <2>5, <3>1
    <3>2. CASE n # 0
      <4>1. n \in 1..m - 1 /\ n \in 1..m
        BY <2>4, <3>2
      <4>. QED  BY <2>3, <2>5, <4>1
    <3>. QED  BY <3>1, <3>2
  <2>7. ASSUME NEW n \in 1..m PROVE c[n] = c[n - 1] \o s[n]
    <3>1. n - 1 \in 0..m - 1
      BY <2>4
    <3>2. b[n - 1] = c[n - 1]
      BY <2>6, <3>1
    <3>. QED  BY <2>3, <3>2
  <2>8. DOMAIN c = 0..m
    BY <2>2
  <2>9. c = [n \in 0..m |-> IF n = 0 THEN << >> ELSE c[n - 1] \o s[n]]
    <3>1. c = [n \in 0..m |-> c[n]]
      BY <2>2
    <3>2. ASSUME NEW n \in 0..m
          PROVE  c[n] = IF n = 0 THEN << >> ELSE c[n - 1] \o s[n]
      <4>1. CASE n = 0
        BY <2>3, <4>1
      <4>2. CASE n # 0
        <5>1. n \in 1..m
          BY <2>4, <4>2
        <5>. QED  BY <2>7, <4>2, <5>1
      <4>. QED  BY <4>1, <4>2
    <3>. QED  BY <3>1, <3>2
  <2>. QED  BY <1>2, <2>9 DEF Written
<1>. QED  BY <1>2, <1>3, <1>4

SameRounds(s, t, m) == \A n \in 1..m : s[n] = t[n]

LEMMA WrittenOnce ==
    ASSUME NEW s, NEW t, NEW k \in Nat, NEW l \in Nat, NEW m \in Nat, m <= k, m <= l,
           NEW b, NEW c
    PROVE  Written(b, s, k) /\ Written(c, t, l) /\ SameRounds(s, t, m) => b[m] = c[m]
<1>. SUFFICES ASSUME Written(b, s, k), Written(c, t, l), \A n \in 1..m : s[n] = t[n]
              PROVE  b[m] = c[m]
  BY DEF SameRounds
<1>. DEFINE Differ == {n \in Nat : n <= m /\ b[n] # c[n]}
<1>1. SUFFICES ASSUME Differ # {} PROVE FALSE
  OBVIOUS
<1>2. PICK n \in Differ : \A i \in Differ : n <= i
  BY <1>1, SmallestExists
<1>3. /\ b[0] = << >> /\ c[0] = << >>
      /\ \A i \in 1..k : b[i] = b[i - 1] \o s[i]
      /\ \A i \in 1..l : c[i] = c[i - 1] \o t[i]
  <2>1. b[0] = << >> /\ \A i \in 1..k : b[i] = b[i - 1] \o s[i]
    BY WrittenAt
  <2>2. c[0] = << >> /\ \A i \in 1..l : c[i] = c[i - 1] \o t[i]
    BY WrittenAt
  <2>. QED  BY <2>1, <2>2
<1>4. n # 0
  BY <1>2, <1>3
<1>5. n - 1 \in Nat /\ n - 1 <= m /\ n - 1 \notin Differ
      /\ n \in 1..m /\ n \in 1..k /\ n \in 1..l
  BY <1>2, <1>4
<1>6. b[n - 1] = c[n - 1]
  BY <1>5
<1>. QED  BY <1>2, <1>3, <1>5, <1>6

LEMMA ConcatIs ==
    ASSUME NEW s, Len(s) \in Nat
    PROVE  \E c : Written(c, s, Len(s)) /\ Concat(s) = c[Len(s)]
<1>1. PICK c : Written(c, s, Len(s))
  BY SomethingWritten
<1>2. PICK u : u = CHOOSE d : d = [n \in 0..Len(s) |-> IF n = 0 THEN << >> ELSE d[n - 1] \o s[n]]
  OBVIOUS
<1>3. u = [n \in 0..Len(s) |-> IF n = 0 THEN << >> ELSE u[n - 1] \o s[n]]
  BY <1>1, <1>2 DEF Written
<1>4. Concat(s) = u[Len(s)]
  BY <1>2 DEF Concat
<1>. QED  BY <1>3, <1>4 DEF Written

LEMMA ConcatEmpty == Concat(<< >>) = << >>
<1>1. PICK c : Written(c, << >>, Len(<< >>)) /\ Concat(<< >>) = c[Len(<< >>)]
  BY ConcatIs
<1>2. Len(<< >>) = 0 /\ c[0] = << >>
  BY <1>1, WrittenAt
<1>. QED  BY <1>1, <1>2

LEMMA Beginnings ==
    ASSUME NEW S, NEW s \in Seq(S), NEW k \in 0..Len(s)
    PROVE  /\ SubSeq(s, 1, k) \in Seq(S) /\ Len(SubSeq(s, 1, k)) = k
           /\ \A i \in 1..k : SubSeq(s, 1, k)[i] = s[i]
OBVIOUS

LEMMA ConcatUpTo ==
    ASSUME NEW S, NEW s \in Seq(S), NEW k \in 0..Len(s),
           NEW c, Written(c, s, Len(s))
    PROVE  Concat(SubSeq(s, 1, k)) = c[k]
<1>1. PICK t : t = SubSeq(s, 1, k)
  OBVIOUS
<1>2. Len(t) = k /\ \A i \in 1..k : t[i] = s[i]
  BY <1>1, Beginnings
<1>3. k \in Nat /\ Len(s) \in Nat /\ k <= Len(s)
  OBVIOUS
<1>4. PICK b : Written(b, t, k) /\ Concat(t) = b[k]
  BY <1>2, <1>3, ConcatIs
<1>5. SameRounds(t, s, k)
  BY <1>2 DEF SameRounds
<1>6. b[k] = c[k]
  BY <1>3, <1>4, <1>5, WrittenOnce
<1>. QED  BY <1>1, <1>4, <1>6

(* A round of the loop. *)
LEMMA ConcatRound ==
    ASSUME NEW S, NEW s \in Seq(S), NEW k \in 1..Len(s)
    PROVE  Concat(SubSeq(s, 1, k)) = Concat(SubSeq(s, 1, k - 1)) \o s[k]
<1>2. k \in 0..Len(s) /\ k - 1 \in 0..Len(s) /\ Len(s) \in Nat
  OBVIOUS
<1>1. PICK c : Written(c, s, Len(s))
  BY <1>2, SomethingWritten
<1>3. Concat(SubSeq(s, 1, k)) = c[k] /\ Concat(SubSeq(s, 1, k - 1)) = c[k - 1]
  BY <1>1, <1>2, ConcatUpTo
<1>4. c[k] = c[k - 1] \o s[k]
  BY <1>1, <1>2, WrittenAt
<1>. QED  BY <1>3, <1>4

LEMMA ConcatNone ==
    ASSUME NEW s
    PROVE  Concat(SubSeq(s, 1, 0)) = << >>
<1>1. SubSeq(s, 1, 0) = << >>
  BY SubSeqEmpty
<1>. QED  BY <1>1, ConcatEmpty

LEMMA JoinType ==
    ASSUME NEW T, NEW a \in Seq(T), NEW b \in Seq(T)
    PROVE  a \o b \in Seq(T)
OBVIOUS

LEMMA ConcatOfBeginning ==
    ASSUME NEW T, NEW s \in Seq(Seq(T)), NEW k \in 0..Len(s)
    PROVE  Concat(SubSeq(s, 1, k)) \in Seq(T)
<1>. DEFINE Wrong == {n \in Nat : n <= Len(s) /\ Concat(SubSeq(s, 1, n)) \notin Seq(T)}
<1>1. SUFFICES ASSUME Wrong # {} PROVE FALSE
  OBVIOUS
<1>2. PICK m \in Wrong : \A n \in Wrong : m <= n
  BY <1>1, SmallestExists
<1>3. m # 0
  BY <1>2, ConcatNone, EmptySeq
<1>4. m \in 1..Len(s) /\ m - 1 \in Nat /\ m - 1 <= Len(s) /\ m - 1 \notin Wrong
  BY <1>2, <1>3
<1>5. Concat(SubSeq(s, 1, m - 1)) \in Seq(T)
  BY <1>4
<1>6. Concat(SubSeq(s, 1, m)) = Concat(SubSeq(s, 1, m - 1)) \o s[m]
  BY <1>4, ConcatRound
<1>7. s[m] \in Seq(T)
  BY <1>4
<1>8. Concat(SubSeq(s, 1, m)) \in Seq(T)
  BY <1>5, <1>6, <1>7, JoinType
<1>. QED  BY <1>2, <1>8

LEMMA ConcatType ==
    ASSUME NEW T, NEW s \in Seq(Seq(T))
    PROVE  Concat(s) \in Seq(T)
<1>1. Len(s) \in 0..Len(s) /\ SubSeq(s, 1, Len(s)) = s
  OBVIOUS
<1>. QED  BY <1>1, ConcatOfBeginning

(* a is what b begins with. *)
Begins(a, b) == Len(a) <= Len(b) /\ \A i \in 1..Len(a) : b[i] = a[i]

LEMMA BeginsMore ==
    ASSUME NEW T, NEW a \in Seq(T), NEW b \in Seq(T), NEW x \in Seq(T), Begins(a, b)
    PROVE  Begins(a, b \o x)
BY DEF Begins

(* What a loop has written after k rounds stays as it is.                  *)
LEMMA ConcatKeeps ==
    ASSUME NEW T, NEW s \in Seq(Seq(T)), NEW k \in 0..Len(s), NEW l \in k..Len(s)
    PROVE  Begins(Concat(SubSeq(s, 1, k)), Concat(SubSeq(s, 1, l)))
<1>. DEFINE C(n) == Concat(SubSeq(s, 1, n))
            Wrong == {n \in Nat : n \in k..Len(s) /\ ~Begins(C(k), C(n))}
<1>1. SUFFICES ASSUME Wrong # {} PROVE FALSE
  OBVIOUS
<1>2. PICK m \in Wrong : \A n \in Wrong : m <= n
  BY <1>1, SmallestExists
<1>3. C(k) \in Seq(T)
  BY ConcatOfBeginning
<1>4. m # k
  BY <1>2, <1>3 DEF Begins
<1>5. m \in 1..Len(s) /\ m - 1 \in k..Len(s) /\ m - 1 \in 0..Len(s) /\ m - 1 \notin Wrong
  BY <1>2, <1>4
<1>6. Begins(C(k), C(m - 1))
  BY <1>5
<1>7. C(m) = C(m - 1) \o s[m]
  BY <1>5, ConcatRound
<1>8. C(m - 1) \in Seq(T) /\ s[m] \in Seq(T)
  BY <1>5, ConcatOfBeginning
<1>9. Begins(C(k), C(m))
  BY <1>3, <1>6, <1>7, <1>8, BeginsMore
<1>. QED  BY <1>2, <1>9

(* What a round writes stands behind what the rounds before it wrote.      *)
LEMMA ConcatHas ==
    ASSUME NEW T, NEW s \in Seq(Seq(T)), NEW k \in 1..Len(s)
    PROVE  LET start == Len(Concat(SubSeq(s, 1, k - 1)))
           IN  /\ start + Len(s[k]) <= Len(Concat(s))
               /\ \A i \in 1..Len(s[k]) : Concat(s)[start + i] = s[k][i]
<1>. DEFINE b == Concat(SubSeq(s, 1, k - 1))
            c == Concat(SubSeq(s, 1, k))
<1>1. k \in 0..Len(s) /\ k - 1 \in 0..Len(s) /\ Len(s) \in k..Len(s)
  OBVIOUS
<1>2. b \in Seq(T) /\ c \in Seq(T) /\ s[k] \in Seq(T) /\ c = b \o s[k]
  <2>1. b \in Seq(T) /\ c \in Seq(T) /\ s[k] \in Seq(T)
    BY <1>1, ConcatOfBeginning
  <2>2. c = b \o s[k]
    BY ConcatRound
  <2>. QED  BY <2>1, <2>2
<1>3. SubSeq(s, 1, Len(s)) = s
  OBVIOUS
<1>4. Len(c) <= Len(Concat(s)) /\ \A i \in 1..Len(c) : Concat(s)[i] = c[i]
  <2>1. Begins(c, Concat(SubSeq(s, 1, Len(s))))
    BY <1>1, ConcatKeeps
  <2>. QED  BY <1>3, <2>1 DEF Begins
<1>5. Len(c) = Len(b) + Len(s[k]) /\ \A i \in 1..Len(s[k]) : c[Len(b) + i] = s[k][i]
  <2>. HIDE DEF b, c
  <2>. QED  BY <1>2
<1>6. Len(b) \in Nat /\ Len(s[k]) \in Nat
  BY <1>2
<1>. HIDE DEF b, c
<1>7. ASSUME NEW i \in 1..Len(s[k]) PROVE Concat(s)[Len(b) + i] = s[k][i]
  <2>1. Len(b) + i \in 1..Len(c)
    BY <1>5, <1>6
  <2>. QED  BY <1>4, <1>5, <2>1
<1>8. Len(b) + Len(s[k]) <= Len(Concat(s))
  BY <1>4, <1>5
<1>. QED  BY <1>7, <1>8 DEF b

LEMMA ConcatAppend ==
    ASSUME NEW T, NEW s \in Seq(Seq(T)), NEW x \in Seq(T)
    PROVE  Concat(Append(s, x)) = Concat(s) \o x
<1>1. PICK t : t = Append(s, x)
  OBVIOUS
<1>2. t \in Seq(Seq(T)) /\ Len(t) = Len(s) + 1 /\ t[Len(s) + 1] = x /\ Len(s) \in Nat
  BY <1>1
<1>3. SubSeq(t, 1, Len(s) + 1) = t
  BY <1>2, SubSeqFull
<1>4. SubSeq(t, 1, Len(s)) = s
  BY <1>1
<1>5. Len(s) + 1 \in 1..Len(t) /\ (Len(s) + 1) - 1 = Len(s)
  BY <1>2
<1>6. Concat(SubSeq(t, 1, Len(s) + 1)) = Concat(SubSeq(t, 1, (Len(s) + 1) - 1)) \o t[Len(s) + 1]
  BY <1>2, <1>5, ConcatRound
<1>. QED  BY <1>1, <1>2, <1>3, <1>4, <1>5, <1>6

-----------------------------------------------------------------------------
(* read_str takes the bytes to the first NUL, or those its buffer holds.   *)
LEMMA StrLenIs ==
    ASSUME NEW B, bytes \in Seq(B), pos \in 0..Len(bytes)
    PROVE  /\ StrLen \in 0..Left /\ StrLen <= BufSize - 1
           /\ StrLen # 0 => /\ bytes[pos + StrLen] = Nul \/ StrLen = BufSize - 1
                            /\ \A m \in 1..StrLen - 1 : bytes[pos + m] # Nul
           /\ \A m \in 1..Left : m <= BufSize - 1 /\ bytes[pos + m] = Nul =>
                 StrLen # 0 /\ StrLen <= m
<1>. DEFINE most == IF Left < BufSize - 1 THEN Left ELSE BufSize - 1
            ends == {n \in 1..most : bytes[pos + n] = Nul \/ n = BufSize - 1}
<1>1. BufSize \in Nat /\ BufSize > 1 /\ Left \in Nat /\ most \in Nat /\ pos \in Nat
      /\ most <= Left /\ most <= BufSize - 1
  BY BufSizeAssumption DEF Left
<1>2. StrLen = IF ends = {} THEN 0 ELSE CHOOSE n \in ends : \A m \in ends : n <= m
  BY DEF StrLen
<1>. HIDE DEF most
<1>3. CASE ends = {}
  <2>1. StrLen = 0
    BY <1>2, <1>3
  <2>2. ASSUME NEW m \in 1..Left, m <= BufSize - 1, bytes[pos + m] = Nul PROVE FALSE
    <3>1. m \in 1..most
      BY <1>1, <2>2 DEF most
    <3>. QED  BY <1>3, <2>2, <3>1
  <2>. QED  BY <1>1, <2>1, <2>2
<1>4. CASE ends # {}
  <2>1. \E n \in ends : \A m \in ends : n <= m
    <3>1. ends \subseteq Nat
      BY <1>1
    <3>. HIDE DEF ends
    <3>. QED  BY <1>4, <3>1, SmallestExists
  <2>2. StrLen \in ends /\ \A m \in ends : StrLen <= m
    <3>. HIDE DEF ends
    <3>. QED  BY <1>2, <1>4, <2>1
  <2>3. PICK n : n = StrLen
    OBVIOUS
  <2>4. /\ n \in 1..most /\ (bytes[pos + n] = Nul \/ n = BufSize - 1)
        /\ \A m \in 1..most : bytes[pos + m] = Nul => n <= m
    BY <2>2, <2>3
  <2>5. ASSUME NEW m \in 1..n - 1 PROVE bytes[pos + m] # Nul
    <3>1. m \in 1..most /\ ~(n <= m)
      BY <1>1, <2>4
    <3>. QED  BY <2>4, <3>1
  <2>6. ASSUME NEW m \in 1..Left, m <= BufSize - 1, bytes[pos + m] = Nul PROVE n <= m
    <3>1. m \in 1..most
      BY <1>1, <2>6 DEF most
    <3>. QED  BY <2>4, <2>6, <3>1
  <2>7. n \in 0..Left /\ n <= BufSize - 1 /\ n # 0
    BY <1>1, <2>4
  <2>. QED  BY <2>3, <2>4, <2>5, <2>6, <2>7
<1>. QED  BY <1>3, <1>4

(* What it makes of them is a string. *)
LEMMA CharsType ==
    ASSUME NEW B, bytes \in Seq(B), pos \in 0..Len(bytes), StrLen # 0
    PROVE  Chars(StrLen) \in Seq(B \ {Nul})
<1>. PICK n : n = StrLen
  OBVIOUS
<1>1. /\ n \in 1..Left /\ pos \in Nat /\ pos + n <= Len(bytes) /\ Len(bytes) \in Nat
      /\ \A m \in 1..n - 1 : bytes[pos + m] # Nul
  BY StrLenIs DEF Left
<1>. DEFINE last == IF bytes[pos + n] = Nul THEN n - 1 ELSE n
<1>2. last \in 0..n /\ \A m \in 1..last : bytes[pos + m] \in B \ {Nul}
  BY <1>1
<1>3. Chars(n) = SubSeq(bytes, pos + 1, pos + last)
  <2>1. pos + last = IF bytes[pos + n] = Nul THEN pos + n - 1 ELSE pos + n
    BY <1>1
  <2>. QED  BY <2>1 DEF Chars
<1>. HIDE DEF last
<1>4. ASSUME NEW i \in (pos + 1)..(pos + last) PROVE bytes[i] \in B \ {Nul}
  <2>1. i - pos \in 1..last /\ i = pos + (i - pos)
    BY <1>1, <1>2
  <2>. QED  BY <1>2, <2>1
<1>5. SubSeq(bytes, pos + 1, pos + last) \in Seq(B \ {Nul})
  BY <1>1, <1>2, <1>4, SubSeqProperties
<1>. QED  BY <1>3, <1>5

(* Bytes from the read position on are those of w, as far as the file goes. *)
Follows(w) == \A i \in 1..Len(w) : pos + i <= Len(bytes) => bytes[pos + i] = w[i]

(* A string that fits the buffer is read as it was written. *)
LEMMA StringReadsBack ==
    ASSUME NEW B, bytes \in Seq(B), pos \in 0..Len(bytes), StrLen # 0,
           NEW s \in Seq(B \ {Nul}), Readable(s), Follows(Str(s))
    PROVE  StrLen = Len(s) + 1 /\ Chars(StrLen) = s
<1>. PICK n, l : n = StrLen /\ l = Len(s)
  OBVIOUS
<1>1. /\ n \in 1..Left /\ pos \in Nat /\ pos + n <= Len(bytes) /\ Len(bytes) \in Nat
      /\ n <= BufSize - 1 /\ (bytes[pos + n] = Nul \/ n = BufSize - 1)
      /\ \A m \in 1..Left : m <= BufSize - 1 /\ bytes[pos + m] = Nul => n <= m
  BY StrLenIs DEF Left
<1>2. BufSize \in Nat /\ l \in Nat /\ l <= BufSize - 2 /\ Left = Len(bytes) - pos
  BY BufSizeAssumption DEF Readable, Left
<1>3. /\ Len(Str(s)) = l + 1 /\ Str(s)[l + 1] = Nul
      /\ \A i \in 1..l : Str(s)[i] = s[i] /\ s[i] # Nul
  BY DEF Str
<1>4. ASSUME NEW i \in 1..l, i <= n PROVE bytes[pos + i] = s[i] /\ bytes[pos + i] # Nul
  <2>1. i \in 1..Len(Str(s)) /\ pos + i <= Len(bytes)
    BY <1>1, <1>2, <1>3, <1>4
  <2>. QED  BY <1>3, <2>1 DEF Follows
<1>5. n > l
  <2>1. ASSUME n <= l PROVE FALSE
    <3>1. n \in 1..l /\ n <= n
      BY <1>1, <1>2, <2>1
    <3>2. bytes[pos + n] # Nul
      BY <1>4, <3>1
    <3>. QED  BY <1>1, <1>2, <2>1, <3>2
  <2>. QED  BY <1>1, <1>2, <2>1
<1>6. bytes[pos + (l + 1)] = Nul
  <2>1. l + 1 \in 1..Len(Str(s)) /\ pos + (l + 1) <= Len(bytes)
    BY <1>1, <1>2, <1>3, <1>5
  <2>. QED  BY <1>3, <2>1 DEF Follows
<1>7. n = l + 1
  <2>1. l + 1 \in 1..Left /\ l + 1 <= BufSize - 1
    BY <1>1, <1>2, <1>5
  <2>2. n <= l + 1
    BY <1>1, <1>6, <2>1
  <2>. QED  BY <1>1, <1>2, <1>5, <2>2
<1>8. Chars(n) = SubSeq(bytes, pos + 1, pos + l)
  <2>1. pos + n - 1 = pos + l
    BY <1>1, <1>2, <1>7
  <2>. QED  BY <1>6, <1>7, <2>1 DEF Chars
<1>9. SubSeq(bytes, pos + 1, pos + l) = s
  <2>1. PICK t : t = SubSeq(bytes, pos + 1, pos + l)
    OBVIOUS
  <2>2. t \in Seq(B) /\ Len(t) = l /\ \A i \in 1..l : t[i] = bytes[pos + i]
    BY <1>1, <1>2, <1>5, <2>1
  <2>3. \A i \in 1..l : t[i] = s[i]
    BY <1>1, <1>2, <1>4, <1>5, <2>2
  <2>4. s \in Seq(B)
    BY SeqMonotonic
  <2>. QED  BY <2>1, <2>2, <2>3, <2>4, SeqEqual
<1>. QED  BY <1>7, <1>8, <1>9
=============================================================================
