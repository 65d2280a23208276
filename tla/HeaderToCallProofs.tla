------------------------- MODULE HeaderToCallProofs -------------------------
(***************************************************************************)
(* Theorems of module HeaderToCall, for every set of translation units,    *)
(* capacity of a buffer, an array or a record, range of the C types and    *)
(* set of argument tuples: what is loaded is what was written and what the *)
(* header declares, a load that fails frees all, C functions read the      *)
(* numbers they are given, and conversions of formats find what is theirs. *)
(***************************************************************************)
EXTENDS HeaderToCall, CpycFormatProofs, FiniteSetTheorems

(* What the parser makes of the units it may be given. *)
Emittable(x) ==
    /\ x \in Irs
    /\ \A i \in DOMAIN x.fns :
         /\ Len(x.fns[i].params) \in Bytes
         /\ x.fns[i].name # << >> => x.fns[i].name[1] # Sentinel

Declared(u) == [i \in DOMAIN Own(u) |-> Record(Own(u)[i])]

ParserInv ==
    /\ unit \in Units /\ visited \in 0..Len(unit) /\ skipped \in BOOLEAN
    /\ ppc \in {"parse", "visit", "parsed", "unparsed"}
    /\ Emittable(parsed)
    /\ ppc = "parse" => visited = 0 /\ parsed = NoIr
    /\ ppc = "parsed" => visited = Len(unit)
    /\ ~skipped => parsed.fns = Declared(SubSeq(unit, 1, visited))

-----------------------------------------------------------------------------
(* The parser. *)

LEMMA UnitType ==
    ASSUME unit \in Units
    PROVE  /\ unit \in Seq(Cursors)
           /\ \A i \in 1..Len(unit) : unit[i].name # << >> => unit[i].name[1] # Sentinel
<1>1. unit \in Seq(Cursors)
  BY UnitsAssumption
<1>2. DOMAIN unit = 1..Len(unit)
  BY <1>1
<1>. QED  BY <1>1, <1>2, UnitsAssumption

LEMMA MappedIsByte ==
    ASSUME NEW k
    PROVE  MapTypeKind(k) \in Bytes
<1>1. MapTypeKind(k) \in {0, 1, 2, 3, 4, 5, 6, 7, 9, 11, 255}
  BY DEF MapTypeKind, CINPY_VOID, CINPY_INT, CINPY_UINT, CINPY_LONG, CINPY_ULONG,
         CINPY_LONGLONG, CINPY_FLOAT, CINPY_DOUBLE, CINPY_PTR, CINPY_BOOL, CINPY_UNKNOWN
<1>. QED  BY <1>1 DEF Bytes

LEMMA TypedParamsType ==
    ASSUME NEW c \in Cursors, NEW n \in 0..Len(c.params)
    PROVE  /\ TypedParams(c, n) \in Seq(Params) /\ Len(TypedParams(c, n)) = n
           /\ \A j \in 1..n : /\ TypedParams(c, n)[j].name = c.params[j].name
                             /\ TypedParams(c, n)[j].type = MapTypeKind(c.params[j].kind)
<1>1. c.params \in Seq(Kinds) /\ n \in Nat
  BY DEF Cursors
<1>. DEFINE p(j) == [name |-> c.params[j].name, type |-> MapTypeKind(c.params[j].kind)]
<1>2. ASSUME NEW j \in 1..n PROVE p(j) \in Params
  <2>1. c.params[j] \in Kinds
    BY <1>1
  <2>2. c.params[j].name \in Strings
    BY <2>1 DEF Kinds
  <2>. QED  BY <2>2, MappedIsByte DEF Params
<1>3. PICK s : s = TypedParams(c, n)
  OBVIOUS
<1>4. s = [j \in 1..n |-> p(j)]
  BY <1>3 DEF TypedParams
<1>5. \A j \in 1..n : /\ p(j).name = c.params[j].name
                      /\ p(j).type = MapTypeKind(c.params[j].kind)
  OBVIOUS
<1>. HIDE DEF p
<1>6. s \in [1..n -> Params] /\ \A j \in 1..n : s[j] = p(j)
  BY <1>2, <1>4
<1>7. s \in Seq(Params) /\ Len(s) = n
  BY <1>1, <1>6
<1>. QED  BY <1>3, <1>5, <1>6, <1>7

LEMMA RecordType ==
    ASSUME NEW c \in Cursors
    PROVE  /\ Record(c) \in FnRecords /\ Record(c).name = c.name
           /\ Record(c).ret = MapTypeKind(c.ret)
           /\ Len(Record(c).params) \in Bytes
           /\ Len(Record(c).params) \in {Len(c.params), ParamCap}
           /\ Len(Record(c).params) <= Len(c.params)
           /\ \A j \in DOMAIN Record(c).params :
                /\ Record(c).params[j].name = c.params[j].name
                /\ Record(c).params[j].type = MapTypeKind(c.params[j].kind)
<1>. DEFINE n == IF Len(c.params) > ParamCap THEN ParamCap ELSE Len(c.params)
            ps == TypedParams(c, n)
<1>1. c.params \in Seq(Kinds) /\ c.name \in Strings /\ ParamCap \in Bytes
  BY BytesAssumption DEF Cursors
<1>2. n \in 0..Len(c.params) /\ n \in 0..ParamCap /\ n \in {Len(c.params), ParamCap}
  BY <1>1 DEF Bytes
<1>3. PICK r : r = Record(c)
  OBVIOUS
<1>4. r = [name |-> c.name, ret |-> MapTypeKind(c.ret), params |-> ps]
  BY <1>3 DEF Record
<1>. HIDE DEF n
<1>5. n \in Bytes /\ n <= Len(c.params)
  BY <1>1, <1>2 DEF Bytes
<1>6. /\ ps \in Seq(Params) /\ Len(ps) = n
      /\ \A j \in 1..n : /\ ps[j].name = c.params[j].name
                        /\ ps[j].type = MapTypeKind(c.params[j].kind)
  BY <1>2, TypedParamsType
<1>. HIDE DEF ps
<1>7. DOMAIN ps = 1..n
  BY <1>6
<1>8. MapTypeKind(c.ret) \in Bytes
  BY MappedIsByte
<1>9. /\ r \in FnRecords /\ r.name = c.name /\ r.ret = MapTypeKind(c.ret)
      /\ r.params = ps
  BY <1>1, <1>4, <1>6, <1>8 DEF FnRecords
<1>. QED  BY <1>2, <1>3, <1>5, <1>6, <1>7, <1>9

LEMMA NamelessType ==
    ASSUME NEW f \in FnRecords
    PROVE  /\ Nameless(f) \in FnRecords /\ Nameless(f).name = f.name
           /\ Len(Nameless(f).params) = Len(f.params)
<1>. DEFINE ps == [j \in DOMAIN f.params |-> [f.params[j] EXCEPT !.name = << >>]]
<1>1. f.params \in Seq(Params)
  BY DEF FnRecords
<1>2. DOMAIN f.params = 1..Len(f.params) /\ Len(f.params) \in Nat
  BY <1>1
<1>3. << >> \in Strings
  BY DEF Strings
<1>4. ASSUME NEW j \in 1..Len(f.params) PROVE [f.params[j] EXCEPT !.name = << >>] \in Params
  <2>1. f.params[j] \in Params
    BY <1>1, <1>4
  <2>. QED  BY <1>3, <2>1 DEF Params
<1>5. ps \in [1..Len(f.params) -> Params]
  BY <1>2, <1>4
<1>6. ps \in Seq(Params) /\ Len(ps) = Len(f.params)
  <2>. HIDE DEF ps
  <2>. QED  BY <1>2, <1>5
<1>7. PICK r : r = Nameless(f)
  OBVIOUS
<1>8. r = [f EXCEPT !.params = ps]
  BY <1>7 DEF Nameless
<1>. HIDE DEF ps
<1>9. r \in FnRecords /\ r.name = f.name /\ r.params = ps
  BY <1>6, <1>8 DEF FnRecords
<1>. QED  BY <1>6, <1>7, <1>9

(* A record more. *)
LEMMA RecordAdded ==
    ASSUME Emittable(parsed), NEW f \in FnRecords, Len(f.params) \in Bytes,
           f.name # << >> => f.name[1] # Sentinel,
           parsed' = [parsed EXCEPT !.fns = Append(@, f)]
    PROVE  Emittable(parsed') /\ parsed'.fns = Append(parsed.fns, f)
<1>1. parsed.fns \in Seq(FnRecords) /\ parsed.header \in Strings
  BY DEF Emittable, Irs
<1>2. PICK x : x = parsed'
  OBVIOUS
<1>3. PICK s : s = Append(parsed.fns, f)
  OBVIOUS
<1>4. /\ s \in Seq(FnRecords) /\ Len(s) = Len(parsed.fns) + 1
      /\ s[Len(parsed.fns) + 1] = f
      /\ \A i \in 1..Len(parsed.fns) : s[i] = parsed.fns[i]
  BY <1>1, <1>3
<1>5. x = [parsed EXCEPT !.fns = s] /\ parsed \in Irs
  BY <1>2, <1>3 DEF Emittable
<1>6. x \in Irs /\ x.fns = s
  BY <1>4, <1>5 DEF Irs
<1>7. ASSUME NEW i \in DOMAIN s
      PROVE  Len(s[i].params) \in Bytes /\ (s[i].name # << >> => s[i].name[1] # Sentinel)
  <2>1. i \in 1..Len(s) /\ Len(parsed.fns) \in Nat /\ DOMAIN parsed.fns = 1..Len(parsed.fns)
    BY <1>1, <1>4
  <2>2. CASE i = Len(parsed.fns) + 1
    BY <1>4, <2>2
  <2>3. CASE i \in 1..Len(parsed.fns)
    BY <1>4, <2>1, <2>3 DEF Emittable
  <2>. QED  BY <1>4, <2>1, <2>2, <2>3
<1>8. Emittable(x)
  BY <1>6, <1>7 DEF Emittable
<1>. QED  BY <1>2, <1>3, <1>6, <1>8

(* The declared functions among the cursors visited so far. *)
OwnPiece(c) == IF Recorded(c) THEN <<c>> ELSE << >>

Pieces(u) == [i \in DOMAIN u |-> OwnPiece(u[i])]

LEMMA OwnIs ==
    ASSUME NEW u
    PROVE  Own(u) = Concat(Pieces(u))
BY DEF Own, Pieces, OwnPiece

LEMMA PiecesType ==
    ASSUME NEW u \in Seq(Cursors)
    PROVE  /\ Pieces(u) \in Seq(Seq(Cursors)) /\ Len(Pieces(u)) = Len(u)
           /\ \A i \in 1..Len(u) : Pieces(u)[i] = OwnPiece(u[i])
<1>1. DOMAIN u = 1..Len(u) /\ Len(u) \in Nat
  OBVIOUS
<1>2. ASSUME NEW i \in 1..Len(u) PROVE OwnPiece(u[i]) \in Seq(Cursors)
  <2>1. u[i] \in Cursors
    BY <1>2
  <2>. QED  BY <2>1, EmptySeq DEF OwnPiece
<1>3. Pieces(u) \in [1..Len(u) -> Seq(Cursors)]
  BY <1>1, <1>2 DEF Pieces
<1>4. \A i \in 1..Len(u) : Pieces(u)[i] = OwnPiece(u[i])
  BY <1>1 DEF Pieces
<1>. QED  BY <1>1, <1>3, <1>4

LEMMA PiecesOfBeginning ==
    ASSUME NEW u \in Seq(Cursors), NEW n \in 0..Len(u)
    PROVE  Pieces(SubSeq(u, 1, n)) = SubSeq(Pieces(u), 1, n)
<1>1. PICK v : v = SubSeq(u, 1, n)
  OBVIOUS
<1>2. v \in Seq(Cursors) /\ Len(v) = n /\ \A i \in 1..n : v[i] = u[i]
  BY <1>1
<1>3. PICK w : w = SubSeq(Pieces(u), 1, n)
  OBVIOUS
<1>4. /\ w \in Seq(Seq(Cursors)) /\ Len(w) = n
      /\ \A i \in 1..n : w[i] = Pieces(u)[i]
  BY <1>3, PiecesType
<1>5. /\ Pieces(v) \in Seq(Seq(Cursors)) /\ Len(Pieces(v)) = n
      /\ \A i \in 1..n : Pieces(v)[i] = OwnPiece(v[i])
  BY <1>2, PiecesType
<1>6. ASSUME NEW i \in 1..n PROVE Pieces(v)[i] = w[i]
  <2>1. i \in 1..Len(u)
    OBVIOUS
  <2>2. Pieces(u)[i] = OwnPiece(u[i])
    BY <2>1, PiecesType
  <2>. QED  BY <1>2, <1>4, <1>5, <2>2
<1>7. Pieces(v) = w
  BY <1>4, <1>5, <1>6, SeqEqual
<1>. QED  BY <1>1, <1>3, <1>7

LEMMA OwnOfBeginning ==
    ASSUME NEW u \in Seq(Cursors), NEW n \in 0..Len(u)
    PROVE  /\ Own(SubSeq(u, 1, n)) \in Seq(Cursors)
           /\ n > 0 => Own(SubSeq(u, 1, n)) = Own(SubSeq(u, 1, n - 1)) \o OwnPiece(u[n])
<1>1. Own(SubSeq(u, 1, n)) = Concat(SubSeq(Pieces(u), 1, n))
  BY OwnIs, PiecesOfBeginning
<1>2. Pieces(u) \in Seq(Seq(Cursors)) /\ Len(Pieces(u)) = Len(u)
  BY PiecesType
<1>3. Concat(SubSeq(Pieces(u), 1, n)) \in Seq(Cursors)
  BY <1>2, ConcatOfBeginning
<1>4. ASSUME n > 0
      PROVE  Own(SubSeq(u, 1, n)) = Own(SubSeq(u, 1, n - 1)) \o OwnPiece(u[n])
  <2>1. n \in 1..Len(u) /\ n \in 1..Len(Pieces(u)) /\ n - 1 \in 0..Len(u)
    BY <1>2, <1>4
  <2>2. Own(SubSeq(u, 1, n - 1)) = Concat(SubSeq(Pieces(u), 1, n - 1))
    BY <2>1, OwnIs, PiecesOfBeginning
  <2>3. Concat(SubSeq(Pieces(u), 1, n)) = Concat(SubSeq(Pieces(u), 1, n - 1)) \o Pieces(u)[n]
    BY <1>2, <2>1, ConcatRound
  <2>4. Pieces(u)[n] = OwnPiece(u[n])
    BY <2>1, PiecesType
  <2>. QED  BY <1>1, <2>2, <2>3, <2>4
<1>. QED  BY <1>1, <1>3, <1>4

LEMMA DeclaredType ==
    ASSUME NEW u, Own(u) \in Seq(Cursors)
    PROVE  /\ Declared(u) \in Seq(FnRecords) /\ Len(Declared(u)) = Len(Own(u))
           /\ \A i \in 1..Len(Own(u)) : Declared(u)[i] = Record(Own(u)[i])
<1>1. PICK o : o = Own(u)
  OBVIOUS
<1>2. o \in Seq(Cursors) /\ DOMAIN o = 1..Len(o) /\ Len(o) \in Nat
  BY <1>1
<1>3. Declared(u) = [i \in DOMAIN o |-> Record(o[i])]
  BY <1>1 DEF Declared
<1>4. ASSUME NEW i \in 1..Len(o) PROVE Record(o[i]) \in FnRecords
  <2>1. o[i] \in Cursors
    BY <1>2
  <2>. QED  BY <2>1, RecordType
<1>5. Declared(u) \in [1..Len(o) -> FnRecords]
  BY <1>2, <1>3, <1>4
<1>6. \A i \in 1..Len(o) : Declared(u)[i] = Record(o[i])
  BY <1>2, <1>3
<1>. QED  BY <1>1, <1>2, <1>5, <1>6

LEMMA DeclaredNone ==
    ASSUME NEW u \in Seq(Cursors)
    PROVE  Declared(SubSeq(u, 1, 0)) = << >>
<1>1. SubSeq(u, 1, 0) = << >>
  BY SubSeqEmpty
<1>2. Pieces(<< >>) = << >>
  BY DEF Pieces
<1>3. Own(SubSeq(u, 1, 0)) = << >>
  BY <1>1, <1>2, OwnIs, ConcatEmpty
<1>. QED  BY <1>3 DEF Declared

(* visit_fn leaves out a cursor, or adds its record, and so does Declared.  *)
LEMMA DeclaredNext ==
    ASSUME NEW u \in Seq(Cursors), NEW n \in 1..Len(u)
    PROVE  Declared(SubSeq(u, 1, n)) =
              IF Recorded(u[n]) THEN Append(Declared(SubSeq(u, 1, n - 1)), Record(u[n]))
              ELSE Declared(SubSeq(u, 1, n - 1))
<1>1. PICK a, b, c : a = SubSeq(u, 1, n - 1) /\ b = SubSeq(u, 1, n) /\ c = u[n]
  OBVIOUS
<1>2. n \in 0..Len(u) /\ n - 1 \in 0..Len(u) /\ n > 0 /\ c \in Cursors
  BY <1>1
<1>3. /\ Own(a) \in Seq(Cursors) /\ Own(b) \in Seq(Cursors)
      /\ Own(b) = Own(a) \o OwnPiece(c)
  BY <1>1, <1>2, OwnOfBeginning
<1>4. CASE ~Recorded(c)
  <2>1. Own(b) = Own(a)
    BY <1>3, <1>4 DEF OwnPiece
  <2>2. Declared(b) = Declared(a)
    BY <2>1 DEF Declared
  <2>. QED  BY <1>1, <1>4, <2>2
<1>5. CASE Recorded(c)
  <2>1. Own(b) = Append(Own(a), c)
    BY <1>2, <1>3, <1>5, AppendIsConcat DEF OwnPiece
  <2>2. /\ Len(Own(b)) = Len(Own(a)) + 1 /\ Len(Own(a)) \in Nat
        /\ Own(b)[Len(Own(a)) + 1] = c
        /\ \A i \in 1..Len(Own(a)) : Own(b)[i] = Own(a)[i]
    BY <1>2, <1>3, <2>1
  <2>3. PICK s : s = Append(Declared(a), Record(c))
    OBVIOUS
  <2>4. /\ Declared(a) \in Seq(FnRecords) /\ Len(Declared(a)) = Len(Own(a))
        /\ Declared(b) \in Seq(FnRecords) /\ Len(Declared(b)) = Len(Own(b))
        /\ \A i \in 1..Len(Own(a)) : Declared(a)[i] = Record(Own(a)[i])
        /\ \A i \in 1..Len(Own(b)) : Declared(b)[i] = Record(Own(b)[i])
        /\ Record(c) \in FnRecords
    BY <1>2, <1>3, DeclaredType, RecordType
  <2>5. /\ s \in Seq(FnRecords) /\ Len(s) = Len(Own(b))
        /\ s[Len(Own(a)) + 1] = Record(c)
        /\ \A i \in 1..Len(Own(a)) : s[i] = Declared(a)[i]
    BY <2>2, <2>3, <2>4
  <2>6. ASSUME NEW i \in 1..Len(Own(b)) PROVE Declared(b)[i] = s[i]
    <3>1. CASE i = Len(Own(a)) + 1
      BY <2>2, <2>4, <2>5, <3>1
    <3>2. CASE i \in 1..Len(Own(a))
      BY <2>2, <2>4, <2>5, <3>2
    <3>. QED  BY <2>2, <3>1, <3>2
  <2>7. Declared(b) = s
    BY <2>4, <2>5, <2>6, SeqEqual
  <2>. QED  BY <1>1, <1>5, <2>3, <2>7
<1>. QED  BY <1>4, <1>5

LEMMA ParserInvInit == ParserInit => ParserInv
<1>. SUFFICES ASSUME ParserInit PROVE ParserInv
  OBVIOUS
<1>1. unit \in Seq(Cursors) /\ visited = 0 /\ Len(unit) \in Nat
  BY UnitType DEF ParserInit
<1>2. NoIr \in Irs /\ NoIr.fns = << >>
  BY EmptySeq DEF NoIr, Irs, Strings
<1>3. Emittable(NoIr)
  BY <1>2 DEF Emittable
<1>4. Declared(SubSeq(unit, 1, 0)) = << >>
  BY <1>1, DeclaredNone
<1>5. /\ unit \in Units /\ visited = 0 /\ parsed = NoIr /\ skipped = FALSE
      /\ ppc = "parse"
  BY DEF ParserInit
<1>6. Emittable(parsed) /\ parsed.fns = Declared(SubSeq(unit, 1, visited))
  BY <1>2, <1>3, <1>4, <1>5
<1>7. visited \in 0..Len(unit)
  BY <1>1
<1>8. ppc \in {"parse", "visit", "parsed", "unparsed"} /\ ppc # "parsed"
  BY <1>5
<1>9. skipped \in BOOLEAN
  BY <1>5
<1>. QED  BY <1>5, <1>6, <1>7, <1>8, <1>9, Zenon DEF ParserInv

LEMMA ParserInvNext ==
    ASSUME ParserInv, [ParserNext]_parserVars
    PROVE  ParserInv'
<1>. USE DEF ParserInv
<1>1. unit \in Seq(Cursors) /\ Len(unit) \in Nat
  BY UnitType
<1>2. CASE ParseFails
  BY <1>2 DEF ParseFails
<1>3. CASE ParseUnit
  <2>1. parsed' = [header |-> HeaderName, fns |-> << >>] /\ visited = 0
    BY <1>3 DEF ParseUnit
  <2>2. parsed' \in Irs /\ parsed'.fns = << >>
    BY <2>1, EmptySeq, UnitsAssumption DEF Irs
  <2>3. Emittable(parsed')
    BY <2>2 DEF Emittable
  <2>4. Declared(SubSeq(unit, 1, 0)) = << >>
    BY <1>1, DeclaredNone
  <2>. QED  BY <1>3, <2>1, <2>2, <2>3, <2>4 DEF ParseUnit
<1>. DEFINE n == visited + 1
            c == unit[n]
<1>4. ASSUME More
      PROVE  /\ n \in 1..Len(unit) /\ n - 1 = visited /\ Cursor = c /\ c \in Cursors
             /\ c.name # << >> => c.name[1] # Sentinel
  <2>1. n \in 1..Len(unit) /\ n - 1 = visited /\ Cursor = c
    BY <1>1, <1>4 DEF More, Cursor
  <2>. QED  BY <1>1, <2>1, UnitType
<1>5. CASE VisitOther
  <2>1. Declared(SubSeq(unit, 1, n)) = Declared(SubSeq(unit, 1, visited))
    BY <1>1, <1>4, <1>5, DeclaredNext DEF VisitOther, Recorded
  <2>. QED  BY <1>4, <1>5, <2>1 DEF VisitOther, More
<1>10. CASE VisitUnknown
  <2>1. Declared(SubSeq(unit, 1, n)) = Declared(SubSeq(unit, 1, visited))
    BY <1>1, <1>4, <1>10, DeclaredNext DEF VisitUnknown, Recorded
  <2>. QED  BY <1>4, <1>10, <2>1 DEF VisitUnknown, More
<1>6. CASE VisitFunction
  <2>1. Declared(SubSeq(unit, 1, n)) = Append(Declared(SubSeq(unit, 1, visited)), Record(c))
    BY <1>1, <1>4, <1>6, DeclaredNext DEF VisitFunction
  <2>2. Emittable(parsed') /\ parsed'.fns = Append(parsed.fns, Record(c))
    BY <1>4, <1>6, RecordType, RecordAdded DEF VisitFunction
  <2>. QED  BY <1>4, <1>6, <2>1, <2>2 DEF VisitFunction, More
<1>7. CASE VisitFails
  <2>1. Emittable(parsed')
    <3>1. CASE UNCHANGED parsed
      BY <3>1
    <3>2. CASE parsed' = [parsed EXCEPT !.fns = Append(@, Nameless(Record(c)))]
      <4>1. /\ Nameless(Record(c)) \in FnRecords /\ Len(Nameless(Record(c)).params) \in Bytes
            /\ Nameless(Record(c)).name = c.name
        BY <1>4, <1>7, RecordType, NamelessType DEF VisitFails
      <4>. QED  BY <1>4, <1>7, <3>2, <4>1, RecordAdded DEF VisitFails
    <3>. QED  BY <1>4, <1>7, <3>1, <3>2 DEF VisitFails
  <2>. QED  BY <1>4, <1>7, <2>1 DEF VisitFails, More
<1>8. CASE ParseEnds
  BY <1>1, <1>8 DEF ParseEnds
<1>9. CASE UNCHANGED parserVars
  BY <1>9 DEF parserVars
<1>. QED
  BY <1>2, <1>3, <1>5, <1>6, <1>7, <1>8, <1>9, <1>10 DEF ParserNext

-----------------------------------------------------------------------------
(* The blocks of an IR. *)

ParamsOf(fns) == [i \in DOMAIN fns |-> fns[i].params]

LEMMA ParamsOfType ==
    ASSUME NEW fns \in Seq(FnRecords)
    PROVE  /\ ParamsOf(fns) \in Seq(Seq(Params)) /\ Len(ParamsOf(fns)) = Len(fns)
           /\ \A i \in 1..Len(fns) : ParamsOf(fns)[i] = fns[i].params
<1>1. DOMAIN fns = 1..Len(fns) /\ Len(fns) \in Nat
  OBVIOUS
<1>2. ASSUME NEW i \in 1..Len(fns) PROVE fns[i].params \in Seq(Params)
  <2>1. fns[i] \in FnRecords
    BY <1>2
  <2>. QED  BY <2>1 DEF FnRecords
<1>3. ParamsOf(fns) \in [1..Len(fns) -> Seq(Params)]
  BY <1>1, <1>2 DEF ParamsOf
<1>4. \A i \in 1..Len(fns) : ParamsOf(fns)[i] = fns[i].params
  BY <1>1 DEF ParamsOf
<1>. QED  BY <1>1, <1>3, <1>4

LEMMA ParamsOfAppend ==
    ASSUME NEW fns \in Seq(FnRecords), NEW f \in FnRecords
    PROVE  ParamsOf(Append(fns, f)) = Append(ParamsOf(fns), f.params)
<1>1. PICK g, p : g = Append(fns, f) /\ p = Append(ParamsOf(fns), f.params)
  OBVIOUS
<1>2. f.params \in Seq(Params)
  BY DEF FnRecords
<1>3. /\ g \in Seq(FnRecords) /\ Len(g) = Len(fns) + 1 /\ g[Len(fns) + 1] = f
      /\ \A i \in 1..Len(fns) : g[i] = fns[i]
      /\ Len(fns) \in Nat
  BY <1>1
<1>4. /\ ParamsOf(fns) \in Seq(Seq(Params)) /\ Len(ParamsOf(fns)) = Len(fns)
      /\ \A i \in 1..Len(fns) : ParamsOf(fns)[i] = fns[i].params
  BY ParamsOfType
<1>5. /\ p \in Seq(Seq(Params)) /\ Len(p) = Len(fns) + 1 /\ p[Len(fns) + 1] = f.params
      /\ \A i \in 1..Len(fns) : p[i] = fns[i].params
  <2>1. PICK q, e : q = ParamsOf(fns) /\ e = f.params
    OBVIOUS
  <2>2. q \in Seq(Seq(Params)) /\ e \in Seq(Params) /\ p = Append(q, e) /\ Len(q) = Len(fns)
    BY <1>1, <1>2, <1>4, <2>1
  <2>3. /\ p \in Seq(Seq(Params)) /\ Len(p) = Len(q) + 1 /\ p[Len(q) + 1] = e
        /\ \A i \in 1..Len(q) : p[i] = q[i]
    BY <2>2
  <2>. QED  BY <1>4, <2>1, <2>2, <2>3
<1>6. /\ ParamsOf(g) \in Seq(Seq(Params)) /\ Len(ParamsOf(g)) = Len(g)
      /\ \A i \in 1..Len(g) : ParamsOf(g)[i] = g[i].params
  BY <1>3, ParamsOfType
<1>7. ASSUME NEW i \in 1..Len(g) PROVE ParamsOf(g)[i] = p[i]
  <2>1. CASE i = Len(fns) + 1
    BY <1>3, <1>5, <1>6, <2>1
  <2>2. CASE i \in 1..Len(fns)
    BY <1>3, <1>5, <1>6, <2>2
  <2>. QED  BY <1>3, <2>1, <2>2
<1>8. ParamsOf(g) = p
  BY <1>3, <1>5, <1>6, <1>7, SeqEqual
<1>. QED  BY <1>1, <1>8

LEMMA IrBlocksIs ==
    ASSUME NEW x
    PROVE  IrBlocks(x) = 3 + 2 * Len(x.fns) + Len(Concat(ParamsOf(x.fns)))
BY DEF IrBlocks, ParamsOf

LEMMA IrBlocksNat ==
    ASSUME NEW x, x.fns \in Seq(FnRecords)
    PROVE  IrBlocks(x) \in Nat
<1>1. Concat(ParamsOf(x.fns)) \in Seq(Params)
  BY ParamsOfType, ConcatType
<1>4. PICK m, n : m = Len(x.fns) /\ n = Len(Concat(ParamsOf(x.fns)))
  OBVIOUS
<1>2. m \in Nat /\ n \in Nat
  BY <1>1, <1>4
<1>3. IrBlocks(x) = 3 + 2 * m + n
  BY <1>4, IrBlocksIs
<1>5. 3 + 2 * m + n \in Nat
  BY <1>2
<1>. QED  BY <1>3, <1>5

LEMMA IrBlocksNew ==
    ASSUME NEW x, x.fns = << >>
    PROVE  IrBlocks(x) = 3
<1>1. ParamsOf(<< >>) = << >>
  BY DEF ParamsOf
<1>. PICK m, n : m = Len(x.fns) /\ n = Len(Concat(ParamsOf(x.fns)))
  OBVIOUS
<1>2. m = 0 /\ n = 0
  BY <1>1, ConcatEmpty
<1>3. IrBlocks(x) = 3 + 2 * m + n
  BY IrBlocksIs
<1>. QED  BY <1>2, <1>3

(* What cinpy_ir_push hands over to the IR: the name, the array of the     *)
(* parameters and a name for each of them.                                 *)
LEMMA IrBlocksPush ==
    ASSUME NEW x, NEW y, x.fns \in Seq(FnRecords), NEW f \in FnRecords,
           y.fns = Append(x.fns, f)
    PROVE  IrBlocks(y) = IrBlocks(x) + 2 + Len(f.params)
<1>1. PICK s : s = ParamsOf(x.fns)
  OBVIOUS
<1>2. s \in Seq(Seq(Params)) /\ f.params \in Seq(Params)
  BY <1>1, ParamsOfType DEF FnRecords
<1>3. ParamsOf(y.fns) = Append(s, f.params)
  BY <1>1, ParamsOfAppend
<1>4. Concat(ParamsOf(y.fns)) = Concat(s) \o f.params /\ Concat(s) \in Seq(Params)
  BY <1>2, <1>3, ConcatAppend, ConcatType
<1>5. Len(Concat(ParamsOf(y.fns))) = Len(Concat(s)) + Len(f.params)
  BY <1>2, <1>4
<1>6. Len(y.fns) = Len(x.fns) + 1
  OBVIOUS
<1>11. PICK k, m, n : k = Len(f.params) /\ m = Len(x.fns) /\ n = Len(Concat(s))
  OBVIOUS
<1>7. k \in Nat /\ m \in Nat /\ n \in Nat
  BY <1>2, <1>4, <1>11
<1>8. IrBlocks(x) = 3 + 2 * m + n
  BY <1>1, <1>11, IrBlocksIs
<1>9. IrBlocks(y) = 3 + 2 * Len(y.fns) + Len(Concat(ParamsOf(y.fns)))
  BY IrBlocksIs
<1>10. IrBlocks(y) = 3 + 2 * (m + 1) + (n + k)
  BY <1>5, <1>6, <1>9, <1>11
<1>12. 3 + 2 * (m + 1) + (n + k) = (3 + 2 * m + n) + 2 + k
  BY <1>7
<1>. QED  BY <1>8, <1>10, <1>11, <1>12

-----------------------------------------------------------------------------
(* The types of the loader's variables. *)

RecordsRead == [name : Strings, ret : Bytes, count : Bytes, params : Seq(Params)]

LoaderTypeOK ==
    /\ bytes \in Seq(Bytes) /\ pos \in 0..Len(bytes)
    /\ made \in Irs /\ cur \in RecordsRead
    /\ dropped \in BOOLEAN
    /\ lpc = "params" => Len(cur.params) <= cur.count

LEMMA LoaderTypeInit == LoaderIdle => LoaderTypeOK
<1>. SUFFICES ASSUME LoaderIdle PROVE LoaderTypeOK
  OBVIOUS
<1>1. made \in Irs
  BY EmptySeq DEF LoaderIdle, Irs, Strings
<1>2. cur \in RecordsRead
  BY EmptySeq DEF LoaderIdle, NoRecord, RecordsRead, Strings, Bytes
<1>3. bytes \in Seq(Bytes) /\ Len(bytes) = 0 /\ pos = 0 /\ dropped \in BOOLEAN /\ lpc = "idle"
  BY EmptySeq DEF LoaderIdle
<1>4. pos \in 0..Len(bytes)
  BY <1>3
<1>. QED  BY <1>1, <1>2, <1>3, <1>4 DEF LoaderTypeOK

LEMMA EmptyRecordType == NoRecord \in RecordsRead
BY EmptySeq DEF NoRecord, RecordsRead, Strings, Bytes

(* The bytes behind the n that read_str takes. *)
LEMMA BehindString ==
    ASSUME LoaderTypeOK, StrLen # 0
    PROVE  /\ StrLen \in Nat /\ pos + StrLen \in 0..Len(bytes)
           /\ Chars(StrLen) \in Strings
           /\ \A i \in Nat \ {0} : Left >= StrLen + i =>
                 bytes[pos + StrLen + i] \in Bytes /\ pos + StrLen + i \in 0..Len(bytes)
<1>1. bytes \in Seq(Bytes) /\ pos \in 0..Len(bytes) /\ Len(bytes) \in Nat
  BY DEF LoaderTypeOK
<1>2. StrLen \in 0..Left /\ Left = Len(bytes) - pos
  BY <1>1, StrLenIs DEF Left
<1>3. Chars(StrLen) \in Strings
  BY <1>1, CharsType DEF Strings
<1>4. ASSUME NEW i \in Nat \ {0}, Left >= StrLen + i
      PROVE  bytes[pos + StrLen + i] \in Bytes /\ pos + StrLen + i \in 0..Len(bytes)
  <2>1. pos + StrLen + i \in 1..Len(bytes)
    BY <1>1, <1>2, <1>4
  <2>. QED  BY <1>1, <2>1
<1>. QED  BY <1>1, <1>2, <1>3, <1>4

LEMMA FailsType ==
    ASSUME LoaderTypeOK, UNCHANGED <<bytes, pos, made, cur, dropped>>, lpc' # "params"
    PROVE  LoaderTypeOK'
BY DEF LoaderTypeOK

LEMMA FailsNames ==
    ASSUME NEW st, NEW n, LoadFails(st, n), st # "params"
    PROVE  UNCHANGED <<bytes, pos, made, cur, dropped>> /\ lpc' # "params"
BY DEF LoadFails

LEMMA LoaderTypeNext ==
    ASSUME LoaderTypeOK, LoaderNext
    PROVE  LoaderTypeOK'
<1>1. CASE ReadHead
  <2>1. CASE lpc' = "header"
    <3>1. /\ UNCHANGED <<bytes, made, cur, owned, dropped>> /\ pos' = 4
          /\ ~(Left < 4)
      BY <1>1, <2>1 DEF ReadHead, LoadFails
    <3>2. 4 \in 0..Len(bytes)
      BY <3>1 DEF LoaderTypeOK, Left
    <3>. QED  BY <2>1, <3>1, <3>2 DEF LoaderTypeOK
  <2>2. CASE lpc' # "header"
    BY <1>1, <2>2, FailsType, FailsNames DEF ReadHead
  <2>. QED  BY <2>1, <2>2
<1>2. CASE ReadHeader
  <2>1. CASE /\ StrLen # 0
             /\ made' = [header |-> Chars(StrLen), fns |-> << >>]
             /\ pos' = pos + StrLen
             /\ owned' = 3
             /\ lpc' = "peek"
             /\ UNCHANGED <<bytes, cur, dropped>>
    <3>1. made' \in Irs /\ pos' \in 0..Len(bytes')
      BY <2>1, BehindString, EmptySeq DEF Irs
    <3>. QED  BY <2>1, <3>1 DEF LoaderTypeOK
  <2>. QED  BY <1>2, <2>1, FailsType, FailsNames DEF ReadHeader
<1>3. CASE Peek
  <2>1. CASE Left = 0
    BY <1>3, <2>1, FailsType, FailsNames DEF Peek
  <2>2. CASE Left # 0
    <3>1. /\ pos' \in {pos, pos + 1} /\ lpc' # "params"
          /\ UNCHANGED <<bytes, made, cur, owned, dropped>>
      BY <1>3, <2>2 DEF Peek
    <3>2. pos' \in 0..Len(bytes)
      BY <2>2, <3>1 DEF LoaderTypeOK, Left
    <3>. QED  BY <3>1, <3>2 DEF LoaderTypeOK
  <2>. QED  BY <2>1, <2>2
<1>4. CASE ReadFn
  <2>1. CASE lpc' = "params"
    <3>1. /\ StrLen # 0 /\ Left >= StrLen + 2
          /\ cur' = [name |-> Chars(StrLen), ret |-> bytes[pos + StrLen + 1],
                     count |-> bytes[pos + StrLen + 2], params |-> << >>]
          /\ pos' = pos + StrLen + 2
          /\ UNCHANGED <<bytes, made, dropped>>
      BY <1>4, <2>1 DEF ReadFn, LoadFails
    <3>2. Left \in Int /\ StrLen \in Nat
      BY <3>1, BehindString DEF LoaderTypeOK, Left
    <3>3. /\ Chars(StrLen) \in Strings /\ bytes[pos + StrLen + 1] \in Bytes
          /\ bytes[pos + StrLen + 2] \in Bytes /\ pos' \in 0..Len(bytes)
      BY <3>1, <3>2, BehindString
    <3>4. cur' \in RecordsRead /\ cur'.params = << >> /\ cur'.count \in Bytes
      BY <3>1, <3>3, EmptySeq DEF RecordsRead
    <3>5. Len(cur'.params) <= cur'.count
      <4>1. PICK n : n = cur'.count
        OBVIOUS
      <4>2. n \in 0..255
        BY <3>4, <4>1 DEF Bytes
      <4>3. 0 <= n
        BY <4>2
      <4>4. Len(cur'.params) = 0
        BY <3>4
      <4>. QED  BY <4>1, <4>3, <4>4
    <3>. QED  BY <2>1, <3>1, <3>3, <3>4, <3>5 DEF LoaderTypeOK
  <2>2. CASE lpc' # "params"
    BY <1>4, <2>2, FailsType, FailsNames DEF ReadFn
  <2>. QED  BY <2>1, <2>2
<1>5. CASE ReadParam
  <2>1. CASE lpc' = "params"
    <3>1. /\ StrLen # 0 /\ Left >= StrLen + 1 /\ Len(cur.params) < cur.count
          /\ cur' = [cur EXCEPT !.params =
                        Append(@, [name |-> Chars(StrLen), type |-> bytes[pos + StrLen + 1]])]
          /\ pos' = pos + StrLen + 1
          /\ UNCHANGED <<bytes, made, dropped>>
      BY <1>5, <2>1 DEF ReadParam, ParamFails, LoadFails
    <3>2. Left \in Int /\ StrLen \in Nat
      BY <3>1, BehindString DEF LoaderTypeOK, Left
    <3>3. /\ Chars(StrLen) \in Strings /\ bytes[pos + StrLen + 1] \in Bytes
          /\ pos' \in 0..Len(bytes)
      BY <3>1, <3>2, BehindString
    <3>4. PICK p : p = [name |-> Chars(StrLen), type |-> bytes[pos + StrLen + 1]]
      OBVIOUS
    <3>5. p \in Params
      BY <3>3, <3>4 DEF Params
    <3>6. PICK c, ps : c = cur' /\ ps = Append(cur.params, p)
      OBVIOUS
    <3>7. c = [cur EXCEPT !.params = ps] /\ cur \in RecordsRead
      BY <3>1, <3>4, <3>6 DEF LoaderTypeOK
    <3>8. cur.params \in Seq(Params) /\ cur.count \in Bytes
      BY <3>7 DEF RecordsRead
    <3>9. ps \in Seq(Params) /\ Len(ps) = Len(cur.params) + 1 /\ Len(cur.params) \in Nat
      BY <3>5, <3>6, <3>8
    <3>10. c \in RecordsRead /\ c.params = ps /\ c.count = cur.count
      BY <3>7, <3>9 DEF RecordsRead
    <3>11. Len(c.params) <= c.count
      <4>1. PICK m, n : m = Len(cur.params) /\ n = cur.count
        OBVIOUS
      <4>2. n \in 0..255 /\ m \in Nat /\ m < n
        BY <3>1, <3>8, <3>9, <4>1 DEF Bytes
      <4>3. m + 1 <= n
        BY <4>2
      <4>4. Len(c.params) = m + 1 /\ c.count = n
        BY <3>9, <3>10, <4>1
      <4>. QED  BY <4>3, <4>4
    <3>. QED  BY <2>1, <3>1, <3>3, <3>6, <3>10, <3>11 DEF LoaderTypeOK
  <2>2. CASE lpc' # "params"
    <3>1. UNCHANGED <<bytes, pos, made, cur, dropped>>
      BY <1>5, <2>2 DEF ReadParam, ParamFails
    <3>. QED  BY <2>2, <3>1, FailsType
  <2>. QED  BY <2>1, <2>2
<1>6. CASE Push
  <2>1. PICK f : f = [name |-> cur.name, ret |-> cur.ret, params |-> cur.params]
    OBVIOUS
  <2>2. cur \in RecordsRead /\ made \in Irs
    BY DEF LoaderTypeOK
  <2>3. f \in FnRecords
    BY <2>1, <2>2 DEF RecordsRead, FnRecords
  <2>4. PICK s, x : s = Append(made.fns, f) /\ x = made'
    OBVIOUS
  <2>5. s \in Seq(FnRecords)
    BY <2>2, <2>3, <2>4 DEF Irs
  <2>6. x = [made EXCEPT !.fns = s]
    BY <1>6, <2>1, <2>4 DEF Push
  <2>7. x \in Irs
    BY <2>2, <2>5, <2>6 DEF Irs
  <2>. QED  BY <1>6, <2>4, <2>7, EmptyRecordType DEF Push, LoaderTypeOK
<1>7. CASE PushFails
  BY <1>7, EmptyRecordType DEF PushFails, LoaderTypeOK
<1>. QED  BY <1>1, <1>2, <1>3, <1>4, <1>5, <1>6, <1>7 DEF LoaderNext

-----------------------------------------------------------------------------
(* The loader has allocated n blocks that it can reach, and others only if *)
(* a push failed.                                                          *)
Accounted(n) == owned \in Nat /\ owned >= n /\ (~dropped => owned = n)

(* How many blocks the loader can reach from where it is. *)
BlocksInv ==
    /\ Failed \/ lpc \in {"idle", "head", "header", "peek", "fn", "params", "ok"}
    /\ lpc \in {"idle", "head", "header"} \/ Failed => Accounted(0)
    /\ lpc \in {"peek", "fn", "ok"} => Accounted(IrBlocks(made))
    /\ lpc = "params" => Accounted(IrBlocks(made) + 2 + Len(cur.params))

LEMMA BlocksInvInit == LoaderIdle => BlocksInv
BY DEF LoaderIdle, BlocksInv, Accounted, Failed

(* Each early return frees what can be reached. *)
LEMMA FreesAll ==
    ASSUME NEW n \in Nat, Accounted(n), owned' = owned - n, UNCHANGED dropped,
           lpc' \in {"magic", "corrupt", "py_version", "cinpy_version", "oom"}
    PROVE  BlocksInv'
<1>1. Accounted(0)'
  BY DEF Accounted
<1>. QED  BY <1>1 DEF BlocksInv, Failed

LEMMA LoadFailsFrees ==
    ASSUME NEW n \in Nat, Accounted(n), NEW st, LoadFails(st, n),
           st \in {"magic", "corrupt", "py_version", "cinpy_version", "oom"}
    PROVE  BlocksInv'
BY FreesAll DEF LoadFails

LEMMA BlocksInvNext ==
    ASSUME LoaderTypeOK, BlocksInv, LoaderNext
    PROVE  BlocksInv'
<1>. DEFINE blocks == IrBlocks(made)
<1>1. made.fns \in Seq(FnRecords) /\ blocks \in Nat
  BY IrBlocksNat DEF LoaderTypeOK, Irs
<1>2. PICK p : p = Len(cur.params)
  OBVIOUS
<1>3. p \in Nat
  BY <1>2 DEF LoaderTypeOK, RecordsRead
<1>. HIDE DEF blocks
<1>4. CASE ReadHead
  <2>1. Accounted(0)
    BY <1>4 DEF ReadHead, BlocksInv
  <2>2. CASE /\ lpc' = "header"
             /\ UNCHANGED <<bytes, made, cur, owned, dropped>>
    BY <2>1, <2>2 DEF BlocksInv, Accounted, Failed
  <2>. QED  BY <1>4, <2>1, <2>2, LoadFailsFrees DEF ReadHead
<1>5. CASE ReadHeader
  <2>1. Accounted(0)
    BY <1>5 DEF ReadHeader, BlocksInv
  <2>2. CASE /\ made' = [header |-> Chars(StrLen), fns |-> << >>]
             /\ owned' = 3
             /\ lpc' = "peek"
             /\ UNCHANGED <<bytes, cur, dropped>>
    <3>1. IrBlocks(made') = 3
      BY <2>2, IrBlocksNew
    <3>2. IrBlocks(made)' = 3
      BY <3>1 DEF IrBlocks
    <3>. QED  BY <2>2, <3>2 DEF BlocksInv, Accounted, Failed
  <2>. QED  BY <1>5, <2>1, <2>2, LoadFailsFrees DEF ReadHeader
<1>6. CASE Peek
  <2>1. Accounted(blocks)
    BY <1>6 DEF Peek, BlocksInv, blocks
  <2>2. CASE lpc' \in {"ok", "fn"} /\ UNCHANGED <<bytes, made, cur, owned, dropped>>
    <3>1. Accounted(IrBlocks(made))'
      BY <2>1, <2>2 DEF Accounted, blocks, IrBlocks
    <3>. QED  BY <2>2, <3>1 DEF BlocksInv, Failed
  <2>. QED  BY <1>1, <1>6, <2>1, <2>2, LoadFailsFrees DEF Peek, blocks
<1>7. CASE ReadFn
  <2>1. Accounted(blocks)
    BY <1>7 DEF ReadFn, BlocksInv, blocks
  <2>2. ASSUME lpc' \in {"corrupt", "oom"}, owned' = owned + 1 - (1 + IrBlocks(made)),
               UNCHANGED <<bytes, pos, made, cur, dropped>>
        PROVE  BlocksInv'
    <3>1. owned' = owned - blocks
      BY <1>1, <2>1, <2>2 DEF Accounted, blocks
    <3>. QED  BY <1>1, <2>1, <2>2, <3>1, FreesAll
  <2>3. ASSUME lpc' = "params", owned' = owned + 2, cur'.params = << >>,
               UNCHANGED <<bytes, made, dropped>>
        PROVE  BlocksInv'
    <3>1. IrBlocks(made)' = blocks /\ Len(cur.params)' = 0
      BY <2>3 DEF blocks, IrBlocks
    <3>2. Accounted(IrBlocks(made) + 2 + Len(cur.params))'
      BY <1>1, <2>1, <2>3, <3>1 DEF Accounted
    <3>. QED  BY <2>3, <3>2 DEF BlocksInv, Failed
  <2>. QED  BY <1>1, <1>7, <2>1, <2>2, <2>3, LoadFailsFrees DEF ReadFn, blocks
<1>8. CASE ReadParam
  <2>1. Accounted(blocks + 2 + p)
    BY <1>2, <1>8 DEF ReadParam, BlocksInv, blocks
  <2>2. ASSUME NEW got \in {0, 1}, ParamFails(got)
        PROVE  BlocksInv'
    <3>2. owned' = owned + got - (p + got + 2 + blocks)
      BY <1>2, <2>2 DEF ParamFails, blocks
    <3>3. owned \in Nat
      BY <2>1 DEF Accounted
    <3>1. owned' = owned - (blocks + 2 + p)
      BY <1>1, <1>3, <2>2, <3>2, <3>3
    <3>. QED  BY <1>1, <1>3, <2>1, <2>2, <3>1, FreesAll DEF ParamFails
  <2>3. ASSUME NEW x,
               cur' = [cur EXCEPT !.params = Append(@, x)], owned' = owned + 1,
               UNCHANGED <<bytes, made, dropped, lpc>>
        PROVE  BlocksInv'
    <3>1. cur'.params = Append(cur.params, x) /\ lpc = "params"
      BY <1>8, <2>3 DEF ReadParam, LoaderTypeOK, RecordsRead
    <3>2. Len(cur'.params) = p + 1
      BY <1>2, <3>1 DEF LoaderTypeOK, RecordsRead
    <3>3. IrBlocks(made)' = blocks /\ Len(cur.params)' = p + 1
      BY <2>3, <3>2 DEF blocks, IrBlocks
    <3>5. (IrBlocks(made) + 2 + Len(cur.params))' = blocks + 2 + p + 1
      BY <1>1, <1>3, <3>3
    <3>6. /\ owned \in Nat /\ owned >= blocks + 2 + p
          /\ ~dropped => owned = blocks + 2 + p
      BY <2>1 DEF Accounted
    <3>7. /\ owned' \in Nat /\ owned' >= blocks + 2 + p + 1
          /\ ~dropped' => owned' = blocks + 2 + p + 1
      BY <1>1, <1>3, <2>3, <3>6
    <3>4. Accounted(IrBlocks(made) + 2 + Len(cur.params))'
      BY <3>5, <3>7 DEF Accounted
    <3>. QED  BY <2>3, <3>1, <3>4 DEF BlocksInv, Failed
  <2>. QED  BY <1>8, <2>2, <2>3 DEF ReadParam
<1>9. CASE Push
  <2>1. Accounted(blocks + 2 + p)
    BY <1>2, <1>9 DEF Push, FnRead, BlocksInv, blocks
  <2>2. PICK f : f = [name |-> cur.name, ret |-> cur.ret, params |-> cur.params]
    OBVIOUS
  <2>3. f \in FnRecords /\ f.params = cur.params
    BY <2>2 DEF LoaderTypeOK, RecordsRead, FnRecords
  <2>4. made'.fns = Append(made.fns, f)
    BY <1>9, <2>2 DEF Push, LoaderTypeOK, Irs
  <2>5. IrBlocks(made') = blocks + 2 + p
    BY <1>1, <1>2, <2>3, <2>4, IrBlocksPush DEF blocks
  <2>6. IrBlocks(made)' = blocks + 2 + p
    BY <2>5 DEF IrBlocks
  <2>7. Accounted(IrBlocks(made))'
    BY <1>9, <2>1, <2>6 DEF Push, Accounted
  <2>. QED  BY <1>9, <2>7 DEF Push, BlocksInv, Failed
<1>10. CASE PushFails
  <2>1. Accounted(blocks + 2 + p)
    BY <1>2, <1>10 DEF PushFails, FnRead, BlocksInv, blocks
  <2>2. IrBlocks(made)' = blocks
    BY <1>10 DEF PushFails, blocks, IrBlocks
  <2>3. Accounted(IrBlocks(made))'
    BY <1>1, <1>3, <1>10, <2>1, <2>2 DEF PushFails, Accounted
  <2>. QED  BY <1>10, <2>3 DEF PushFails, BlocksInv, Failed
<1>. QED  BY <1>4, <1>5, <1>6, <1>7, <1>8, <1>9, <1>10 DEF LoaderNext

-----------------------------------------------------------------------------
(* What is where in a file. *)

(* e is b behind a. *)
IsBehind(e, a, b) ==
    /\ Len(e) = Len(a) + Len(b)
    /\ \A i \in 1..Len(a) : e[i] = a[i]
    /\ \A i \in 1..Len(b) : e[Len(a) + i] = b[i]

LEMMA ConcatIsBehind ==
    ASSUME NEW T, NEW a \in Seq(T), NEW b \in Seq(T)
    PROVE  IsBehind(a \o b, a, b) /\ a \o b \in Seq(T)
<1>1. PICK e : e = a \o b
  OBVIOUS
<1>2. IsBehind(e, a, b) /\ e \in Seq(T)
  BY <1>1 DEF IsBehind
<1>. QED  BY <1>1, <1>2

(* The bytes e are those of a, of b and of c. *)
IsJoined(e, a, b, c) ==
    /\ e \in Seq(Bytes)
    /\ Len(e) = Len(a) + Len(b) + Len(c)
    /\ \A i \in 1..Len(a) : e[i] = a[i]
    /\ \A i \in 1..Len(b) : e[Len(a) + i] = b[i]
    /\ \A i \in 1..Len(c) : e[Len(a) + Len(b) + i] = c[i]

LEMMA Joined ==
    ASSUME NEW a \in Seq(Bytes), NEW b \in Seq(Bytes), NEW c \in Seq(Bytes)
    PROVE  IsJoined(a \o b \o c, a, b, c)
<1>1. PICK e : e = a \o b \o c
  OBVIOUS
<1>2. e \in Seq(Bytes) /\ Len(e) = Len(a) + Len(b) + Len(c)
  BY <1>1
<1>3. \A i \in 1..Len(a) : e[i] = a[i]
  BY <1>1
<1>4. \A i \in 1..Len(b) : e[Len(a) + i] = b[i]
  BY <1>1
<1>5. \A i \in 1..Len(c) : e[Len(a) + Len(b) + i] = c[i]
  BY <1>1
<1>6. IsJoined(e, a, b, c)
  BY <1>2, <1>3, <1>4, <1>5 DEF IsJoined
<1>. QED  BY <1>1, <1>6

LEMMA StrType ==
    ASSUME NEW s \in Strings
    PROVE  /\ Str(s) \in Seq(Bytes) /\ Len(Str(s)) = Len(s) + 1 /\ Len(s) \in Nat
           /\ \A i \in 1..Len(s) : Str(s)[i] = s[i]
           /\ Str(s)[Len(s) + 1] = Nul
<1>1. s \in Seq(Bytes \ {Nul}) /\ Nul \in Bytes
  BY DEF Strings, Bytes, Nul
<1>2. s \in Seq(Bytes)
  BY <1>1, SeqMonotonic
<1>. QED  BY <1>1, <1>2 DEF Str

LEMMA ParamBytesType ==
    ASSUME NEW p \in Params
    PROVE  /\ ParamBytes(p) \in Seq(Bytes) /\ Len(ParamBytes(p)) = Len(p.name) + 2
           /\ \A i \in 1..Len(p.name) + 1 : ParamBytes(p)[i] = Str(p.name)[i]
           /\ ParamBytes(p)[Len(p.name) + 2] = p.type
<1>1. p.name \in Strings /\ p.type \in Bytes
  BY DEF Params
<1>2. PICK s, t, n : s = Str(p.name) /\ t = p.type /\ n = Len(p.name)
  OBVIOUS
<1>3. s \in Seq(Bytes) /\ Len(s) = n + 1 /\ n \in Nat /\ t \in Bytes
  BY <1>1, <1>2, StrType
<1>4. ParamBytes(p) = Append(s, t)
  BY <1>2 DEF ParamBytes
<1>5. /\ Append(s, t) \in Seq(Bytes) /\ Len(Append(s, t)) = n + 2
      /\ \A i \in 1..n + 1 : Append(s, t)[i] = s[i]
      /\ Append(s, t)[n + 2] = t
  BY <1>3
<1>. QED  BY <1>2, <1>4, <1>5

ParamsBytes(f) == [j \in DOMAIN f.params |-> ParamBytes(f.params[j])]

LEMMA ParamsBytesType ==
    ASSUME NEW f \in FnRecords
    PROVE  /\ ParamsBytes(f) \in Seq(Seq(Bytes)) /\ Len(ParamsBytes(f)) = Len(f.params)
           /\ \A j \in 1..Len(f.params) :
                 f.params[j] \in Params /\ ParamsBytes(f)[j] = ParamBytes(f.params[j])
<1>1. f.params \in Seq(Params)
  BY DEF FnRecords
<1>2. DOMAIN f.params = 1..Len(f.params) /\ Len(f.params) \in Nat
  BY <1>1
<1>3. \A j \in 1..Len(f.params) : f.params[j] \in Params
  BY <1>1
<1>4. ParamsBytes(f) \in [1..Len(f.params) -> Seq(Bytes)]
  BY <1>2, <1>3, ParamBytesType DEF ParamsBytes
<1>5. \A j \in 1..Len(f.params) : ParamsBytes(f)[j] = ParamBytes(f.params[j])
  BY <1>2 DEF ParamsBytes
<1>. QED  BY <1>2, <1>3, <1>4, <1>5

LEMMA FnBytesIs ==
    ASSUME NEW f \in FnRecords, Len(f.params) \in Bytes
    PROVE  /\ FnBytes(f) \in Seq(Bytes)
           /\ Len(FnBytes(f)) = Len(f.name) + 3 + Len(Concat(ParamsBytes(f)))
           /\ \A i \in 1..Len(f.name) + 1 : FnBytes(f)[i] = Str(f.name)[i]
           /\ FnBytes(f)[Len(f.name) + 2] = f.ret
           /\ FnBytes(f)[Len(f.name) + 3] = Len(f.params)
           /\ \A i \in 1..Len(Concat(ParamsBytes(f))) :
                 FnBytes(f)[Len(f.name) + 3 + i] = Concat(ParamsBytes(f))[i]
<1>1. PICK s, t, c : s = Str(f.name) /\ t = <<f.ret, Len(f.params)>> /\ c = Concat(ParamsBytes(f))
  OBVIOUS
<1>2. PICK n : n = Len(f.name)
  OBVIOUS
<1>3. f.name \in Strings /\ f.ret \in Bytes
  BY DEF FnRecords
<1>4. s \in Seq(Bytes) /\ Len(s) = n + 1 /\ n \in Nat
  BY <1>1, <1>2, <1>3, StrType
<1>5. t \in Seq(Bytes) /\ Len(t) = 2 /\ t[1] = f.ret /\ t[2] = Len(f.params)
  BY <1>1, <1>3
<1>6. c \in Seq(Bytes) /\ Len(c) \in Nat
  <2>1. c \in Seq(Bytes)
    BY <1>1, ParamsBytesType, ConcatType
  <2>. QED  BY <2>1
<1>7. PICK b : b = s \o t \o c
  OBVIOUS
<1>8. FnBytes(f) = b
  BY <1>1, <1>7 DEF FnBytes, ParamsBytes
<1>9. /\ b \in Seq(Bytes) /\ Len(b) = Len(s) + Len(t) + Len(c)
      /\ \A i \in 1..Len(s) : b[i] = s[i]
      /\ \A i \in 1..Len(t) : b[Len(s) + i] = t[i]
      /\ \A i \in 1..Len(c) : b[Len(s) + Len(t) + i] = c[i]
  <2>1. IsJoined(b, s, t, c)
    BY <1>4, <1>5, <1>6, <1>7, Joined
  <2>. QED  BY <2>1 DEF IsJoined
<1>10. Len(b) = n + 3 + Len(c) /\ \A i \in 1..n + 1 : b[i] = s[i]
  BY <1>4, <1>5, <1>6, <1>9
<1>11. b[n + 2] = t[1] /\ b[n + 3] = t[2]
  <2>1. /\ 1 \in 1..Len(t) /\ 2 \in 1..Len(t)
        /\ Len(s) + 1 = n + 2 /\ Len(s) + 2 = n + 3
    BY <1>4, <1>5
  <2>. QED  BY <1>9, <2>1
<1>12. \A i \in 1..Len(c) : b[n + 3 + i] = c[i]
  <2>1. Len(s) + Len(t) = n + 3
    BY <1>4, <1>5
  <2>. QED  BY <1>9, <2>1
<1>. QED  BY <1>1, <1>2, <1>5, <1>8, <1>9, <1>10, <1>11, <1>12

LEMMA HeadBytesIs ==
    ASSUME NEW x \in Irs
    PROVE  /\ HeadBytes(x) \in Seq(Bytes) /\ Len(HeadBytes(x)) = Len(x.header) + 5
           /\ HeadBytes(x)[1] = Magic /\ HeadBytes(x)[2] = PyVersion
           /\ HeadBytes(x)[3] = CinpyMajor
           /\ \A i \in 1..Len(x.header) + 1 : HeadBytes(x)[4 + i] = Str(x.header)[i]
<1>1. PICK s, h, n : s = Str(x.header) /\ h = <<Magic, PyVersion, CinpyMajor, CinpyMinor>>
                     /\ n = Len(x.header)
  OBVIOUS
<1>2. s \in Seq(Bytes) /\ Len(s) = n + 1 /\ n \in Nat
  BY <1>1, StrType DEF Irs
<1>3. h \in Seq(Bytes) /\ Len(h) = 4 /\ h[1] = Magic /\ h[2] = PyVersion /\ h[3] = CinpyMajor
  BY <1>1, BytesAssumption
<1>4. HeadBytes(x) = h \o s
  BY <1>1 DEF HeadBytes
<1>5. /\ h \o s \in Seq(Bytes) /\ Len(h \o s) = n + 5
      /\ (h \o s)[1] = h[1] /\ (h \o s)[2] = h[2] /\ (h \o s)[3] = h[3]
      /\ \A i \in 1..n + 1 : (h \o s)[4 + i] = s[i]
  <2>1. PICK e : e = h \o s
    OBVIOUS
  <2>2. IsBehind(e, h, s) /\ e \in Seq(Bytes)
    BY <1>2, <1>3, <2>1, ConcatIsBehind
  <2>3. /\ e \in Seq(Bytes) /\ Len(e) = 4 + (n + 1)
        /\ \A i \in 1..4 : e[i] = h[i]
        /\ \A i \in 1..n + 1 : e[4 + i] = s[i]
    BY <1>2, <1>3, <2>2 DEF IsBehind
  <2>. QED  BY <1>2, <2>1, <2>3
<1>. QED  BY <1>1, <1>3, <1>4, <1>5

FnsBytes(x) == [i \in DOMAIN x.fns |-> FnBytes(x.fns[i])]

LEMMA FnsBytesType ==
    ASSUME NEW x, Emittable(x)
    PROVE  /\ FnsBytes(x) \in Seq(Seq(Bytes)) /\ Len(FnsBytes(x)) = Len(x.fns)
           /\ \A i \in 1..Len(x.fns) : FnsBytes(x)[i] = FnBytes(x.fns[i])
<1>1. x.fns \in Seq(FnRecords)
  BY DEF Emittable, Irs
<1>2. DOMAIN x.fns = 1..Len(x.fns) /\ Len(x.fns) \in Nat
  BY <1>1
<1>3. ASSUME NEW i \in 1..Len(x.fns) PROVE FnBytes(x.fns[i]) \in Seq(Bytes)
  <2>1. x.fns[i] \in FnRecords /\ Len(x.fns[i].params) \in Bytes
    BY <1>1, <1>2, <1>3 DEF Emittable
  <2>. QED  BY <2>1, FnBytesIs
<1>4. FnsBytes(x) \in [1..Len(x.fns) -> Seq(Bytes)]
  BY <1>2, <1>3 DEF FnsBytes
<1>5. \A i \in 1..Len(x.fns) : FnsBytes(x)[i] = FnBytes(x.fns[i])
  BY <1>2 DEF FnsBytes
<1>. QED  BY <1>2, <1>4, <1>5

LEMMA EncodingIs ==
    ASSUME NEW x, Emittable(x)
    PROVE  /\ Encoding(x) \in Seq(Bytes)
           /\ Len(Encoding(x)) = Len(HeadBytes(x)) + Len(Concat(FnsBytes(x))) + 1
           /\ \A i \in 1..Len(HeadBytes(x)) : Encoding(x)[i] = HeadBytes(x)[i]
           /\ \A i \in 1..Len(Concat(FnsBytes(x))) :
                 Encoding(x)[Len(HeadBytes(x)) + i] = Concat(FnsBytes(x))[i]
           /\ Encoding(x)[Len(HeadBytes(x)) + Len(Concat(FnsBytes(x))) + 1] = Sentinel
<1>1. PICK a, b, c : a = HeadBytes(x) /\ b = Concat(FnsBytes(x)) /\ c = <<Sentinel>>
  OBVIOUS
<1>2. a \in Seq(Bytes)
  BY <1>1, HeadBytesIs DEF Emittable
<1>3. b \in Seq(Bytes)
  BY <1>1, FnsBytesType, ConcatType
<1>4. c \in Seq(Bytes) /\ Len(c) = 1 /\ c[1] = Sentinel
  BY <1>1, BytesAssumption
<1>5. PICK e : e = a \o b \o c
  OBVIOUS
<1>6. Encoding(x) = e
  BY <1>1, <1>5 DEF Encoding, FnsBytes
<1>7. /\ e \in Seq(Bytes) /\ Len(e) = Len(a) + Len(b) + Len(c)
      /\ \A i \in 1..Len(a) : e[i] = a[i]
      /\ \A i \in 1..Len(b) : e[Len(a) + i] = b[i]
      /\ \A i \in 1..Len(c) : e[Len(a) + Len(b) + i] = c[i]
  <2>1. IsJoined(e, a, b, c)
    BY <1>2, <1>3, <1>4, <1>5, Joined
  <2>. QED  BY <2>1 DEF IsJoined
<1>8. e[Len(a) + Len(b) + 1] = Sentinel
  BY <1>4, <1>7
<1>. QED  BY <1>1, <1>4, <1>6, <1>7, <1>8

(* w holds the bytes v, the first of them behind p others. *)
Holds(w, p, v) ==
    /\ p \in Nat /\ v \in Seq(Bytes) /\ p + Len(v) <= Len(w)
    /\ \A i \in 1..Len(v) : w[p + i] = v[i]

LEMMA HoldsWithin ==
    ASSUME NEW e, NEW o, NEW w, NEW p, NEW v,
           Len(e) \in Nat, Holds(e, o, w), Holds(w, p, v)
    PROVE  Holds(e, o + p, v)
<1>1. PICK n, l : n = Len(w) /\ l = Len(v)
  OBVIOUS
<1>2. n \in Nat /\ l \in Nat /\ o \in Nat /\ p \in Nat /\ o + n <= Len(e) /\ p + l <= n
  BY <1>1 DEF Holds
<1>3. o + p \in Nat /\ o + p + l <= Len(e)
  BY <1>2
<1>4. ASSUME NEW i \in 1..l PROVE e[(o + p) + i] = v[i]
  <2>1. p + i \in 1..n /\ o + (p + i) = (o + p) + i
    BY <1>2
  <2>2. e[o + (p + i)] = w[p + i] /\ w[p + i] = v[i]
    BY <1>1, <2>1 DEF Holds
  <2>. QED  BY <2>1, <2>2
<1>5. v \in Seq(Bytes)
  BY DEF Holds
<1>. QED  BY <1>1, <1>3, <1>4, <1>5 DEF Holds

(* Where the k-th function's bytes end. *)
Start(x, k) == Len(HeadBytes(x)) + Len(Concat(SubSeq(FnsBytes(x), 1, k)))

(* Where the j-th parameter's end, in its function's. *)
ParamStart(f, j) == Len(f.name) + 3 + Len(Concat(SubSeq(ParamsBytes(f), 1, j)))

(* What a loop writes, and where each round's part is in it. *)
LEMMA RoundStands ==
    ASSUME NEW s \in Seq(Seq(Bytes)), NEW k \in 1..Len(s)
    PROVE  /\ Holds(Concat(s), Len(Concat(SubSeq(s, 1, k - 1))), s[k])
           /\ Len(Concat(SubSeq(s, 1, k))) = Len(Concat(SubSeq(s, 1, k - 1))) + Len(s[k])
<1>1. k - 1 \in 0..Len(s) /\ s[k] \in Seq(Bytes)
  OBVIOUS
<1>2. PICK b, c : b = Concat(SubSeq(s, 1, k - 1)) /\ c = Concat(SubSeq(s, 1, k))
  OBVIOUS
<1>3. b \in Seq(Bytes)
  BY <1>1, <1>2, ConcatOfBeginning
<1>4. c = b \o s[k]
  BY <1>2, ConcatRound
<1>5. Len(c) = Len(b) + Len(s[k])
  BY <1>1, <1>3, <1>4
<1>6. Len(b) + Len(s[k]) <= Len(Concat(s)) /\ \A i \in 1..Len(s[k]) : Concat(s)[Len(b) + i] = s[k][i]
  BY <1>2, ConcatHas
<1>7. Holds(Concat(s), Len(b), s[k])
  BY <1>1, <1>3, <1>6 DEF Holds
<1>. QED  BY <1>2, <1>5, <1>7

LEMMA HeaderStands ==
    ASSUME NEW x, Emittable(x)
    PROVE  /\ Holds(Encoding(x), 4, Str(x.header))
           /\ Start(x, 0) = Len(x.header) + 5 /\ Len(Encoding(x)) >= 5
<1>1. x \in Irs /\ x.header \in Strings
  BY DEF Emittable, Irs
<1>2. PICK e, h, s, n : e = Encoding(x) /\ h = HeadBytes(x) /\ s = Str(x.header) /\ n = Len(x.header)
  OBVIOUS
<1>3. PICK c : c = Concat(FnsBytes(x))
  OBVIOUS
<1>4. c \in Seq(Bytes) /\ Len(c) \in Nat
  <2>1. c \in Seq(Bytes)
    BY <1>3, FnsBytesType, ConcatType
  <2>. QED  BY <2>1
<1>5. /\ e \in Seq(Bytes) /\ Len(e) = Len(h) + Len(c) + 1
      /\ \A i \in 1..Len(h) : e[i] = h[i]
  BY <1>2, <1>3, EncodingIs
<1>6. Len(h) = n + 5 /\ \A i \in 1..n + 1 : h[4 + i] = s[i]
  BY <1>1, <1>2, HeadBytesIs
<1>7. s \in Seq(Bytes) /\ Len(s) = n + 1 /\ n \in Nat
  BY <1>1, <1>2, StrType
<1>8. Len(e) >= n + 5
  BY <1>4, <1>5, <1>6, <1>7
<1>9. ASSUME NEW i \in 1..n + 1 PROVE e[4 + i] = s[i]
  <2>1. 4 + i \in 1..Len(h)
    BY <1>6, <1>7
  <2>. QED  BY <1>5, <1>6, <2>1
<1>10. Holds(e, 4, s)
  <2>1. 4 + Len(s) <= Len(e)
    BY <1>5, <1>7, <1>8
  <2>. QED  BY <1>7, <1>9, <2>1 DEF Holds
<1>11. Start(x, 0) = n + 5
  <2>1. SubSeq(FnsBytes(x), 1, 0) = << >>
    BY FnsBytesType
  <2>2. Concat(SubSeq(FnsBytes(x), 1, 0)) = << >>
    BY <2>1, ConcatEmpty
  <2>3. Start(x, 0) = Len(h) + Len(<< >>)
    BY <1>2, <2>2 DEF Start
  <2>4. Len(h) = n + 5 /\ Len(<< >>) = 0
    BY <1>6
  <2>. QED  BY <1>7, <2>3, <2>4
<1>. QED  BY <1>2, <1>7, <1>8, <1>10, <1>11

LEMMA FnStands ==
    ASSUME NEW x, Emittable(x), NEW k \in Nat, k < Len(x.fns)
    PROVE  /\ Holds(Encoding(x), Start(x, k), FnBytes(x.fns[k + 1]))
           /\ Start(x, k + 1) = Start(x, k) + Len(FnBytes(x.fns[k + 1]))
<1>1. PICK e, h, s, c : e = Encoding(x) /\ h = HeadBytes(x) /\ s = FnsBytes(x) /\ c = Concat(s)
  OBVIOUS
<1>2. /\ s \in Seq(Seq(Bytes)) /\ Len(s) = Len(x.fns)
      /\ \A i \in 1..Len(s) : s[i] = FnBytes(x.fns[i])
  BY <1>1, FnsBytesType
<1>3. k + 1 \in 1..Len(s) /\ (k + 1) - 1 = k
  BY <1>2
<1>4. s[k + 1] = FnBytes(x.fns[k + 1])
  BY <1>2, <1>3
<1>5. /\ Holds(c, Len(Concat(SubSeq(s, 1, k))), s[k + 1])
      /\ Len(Concat(SubSeq(s, 1, k + 1))) = Len(Concat(SubSeq(s, 1, k))) + Len(s[k + 1])
  BY <1>1, <1>2, <1>3, RoundStands
<1>6. c \in Seq(Bytes)
  BY <1>1, <1>2, ConcatType
<1>7. h \in Seq(Bytes)
  BY <1>1, HeadBytesIs DEF Emittable
<1>8. /\ e \in Seq(Bytes) /\ Len(e) = Len(h) + Len(c) + 1
      /\ \A i \in 1..Len(c) : e[Len(h) + i] = c[i]
  BY <1>1, EncodingIs
<1>9. Holds(e, Len(h), c)
  <2>1. Len(h) \in Nat /\ Len(c) \in Nat /\ Len(h) + Len(c) <= Len(e)
    BY <1>6, <1>7, <1>8
  <2>. QED  BY <1>6, <1>8, <2>1 DEF Holds
<1>10. Holds(e, Len(h) + Len(Concat(SubSeq(s, 1, k))), s[k + 1])
  <2>1. Len(e) \in Nat
    BY <1>8
  <2>2. Holds(c, Len(Concat(SubSeq(s, 1, k))), s[k + 1])
    BY <1>5
  <2>. QED  BY <1>9, <2>1, <2>2, HoldsWithin
<1>11. Start(x, k + 1) = Start(x, k) + Len(s[k + 1])
  <2>1. /\ Len(Concat(SubSeq(s, 1, k))) \in Nat /\ Len(s[k + 1]) \in Nat /\ Len(h) \in Nat
    BY <1>5, <1>7 DEF Holds
  <2>2. PICK o, l, m : o = Len(Concat(SubSeq(s, 1, k))) /\ l = Len(s[k + 1]) /\ m = Len(h)
    OBVIOUS
  <2>3. Start(x, k + 1) = m + (o + l) /\ Start(x, k) = m + o
    BY <1>1, <1>5, <2>2 DEF Start
  <2>4. o \in Nat /\ l \in Nat /\ m \in Nat
    BY <2>1, <2>2
  <2>5. m + (o + l) = m + o + l
    BY <2>4
  <2>. QED  BY <2>2, <2>3, <2>5
<1>. QED  BY <1>1, <1>4, <1>10, <1>11 DEF Start

LEMMA SentinelStands ==
    ASSUME NEW x, Emittable(x)
    PROVE  /\ Len(Encoding(x)) = Start(x, Len(x.fns)) + 1
           /\ Encoding(x)[Start(x, Len(x.fns)) + 1] = Sentinel
           /\ Start(x, Len(x.fns)) \in Nat
<1>1. PICK h, s, c : h = HeadBytes(x) /\ s = FnsBytes(x) /\ c = Concat(s)
  OBVIOUS
<1>2. s \in Seq(Seq(Bytes)) /\ Len(s) = Len(x.fns)
  BY <1>1, FnsBytesType
<1>3. SubSeq(s, 1, Len(s)) = s
  BY <1>2
<1>4. Start(x, Len(x.fns)) = Len(h) + Len(c)
  BY <1>1, <1>2, <1>3 DEF Start
<1>5. h \in Seq(Bytes)
  BY <1>1, HeadBytesIs DEF Emittable
<1>6. c \in Seq(Bytes)
  BY <1>1, <1>2, ConcatType
<1>7. Len(h) + Len(c) \in Nat
  BY <1>5, <1>6
<1>. QED  BY <1>1, <1>4, <1>7, EncodingIs

(* A function's bytes begin with its name's, its result type and count. *)
LEMMA FnBegins ==
    ASSUME NEW f \in FnRecords, Len(f.params) \in Bytes
    PROVE  /\ Holds(FnBytes(f), 0, Str(f.name))
           /\ Len(FnBytes(f)) >= Len(f.name) + 3
           /\ ParamStart(f, 0) = Len(f.name) + 3
           /\ Len(FnBytes(f)) = ParamStart(f, Len(f.params))
<1>1. PICK b, s, n : b = FnBytes(f) /\ s = Str(f.name) /\ n = Len(f.name)
  OBVIOUS
<1>2. PICK c : c = Concat(ParamsBytes(f))
  OBVIOUS
<1>3. /\ b \in Seq(Bytes) /\ Len(b) = n + 3 + Len(c)
      /\ \A i \in 1..n + 1 : b[i] = s[i]
  BY <1>1, <1>2, FnBytesIs
<1>4. s \in Seq(Bytes) /\ Len(s) = n + 1 /\ n \in Nat
  BY <1>1, StrType DEF FnRecords
<1>5. c \in Seq(Bytes) /\ Len(c) \in Nat
  <2>1. c \in Seq(Bytes)
    BY <1>2, ParamsBytesType, ConcatType
  <2>. QED  BY <2>1
<1>6. Holds(b, 0, s)
  <2>1. 0 + Len(s) <= Len(b) /\ \A i \in 1..Len(s) : b[0 + i] = s[i]
    BY <1>3, <1>4, <1>5
  <2>. QED  BY <1>4, <2>1 DEF Holds
<1>7. ParamsBytes(f) \in Seq(Seq(Bytes)) /\ Len(ParamsBytes(f)) = Len(f.params)
  BY ParamsBytesType
<1>8. ParamStart(f, 0) = n + 3
  <2>1. SubSeq(ParamsBytes(f), 1, 0) = << >>
    BY <1>7
  <2>2. Concat(SubSeq(ParamsBytes(f), 1, 0)) = << >>
    BY <2>1, ConcatEmpty
  <2>3. ParamStart(f, 0) = n + 3 + Len(<< >>)
    BY <1>1, <2>2 DEF ParamStart
  <2>4. Len(<< >>) = 0
    OBVIOUS
  <2>. QED  BY <1>4, <2>3, <2>4
<1>9. ParamStart(f, Len(f.params)) = n + 3 + Len(c)
  <2>1. SubSeq(ParamsBytes(f), 1, Len(f.params)) = ParamsBytes(f)
    BY <1>7
  <2>. QED  BY <1>1, <1>2, <2>1 DEF ParamStart
<1>10. Len(b) >= n + 3
  BY <1>3, <1>4, <1>5
<1>. QED  BY <1>1, <1>3, <1>6, <1>8, <1>9, <1>10

LEMMA ParamStands ==
    ASSUME NEW f \in FnRecords, Len(f.params) \in Bytes, NEW j \in Nat, j < Len(f.params)
    PROVE  /\ Holds(FnBytes(f), ParamStart(f, j), ParamBytes(f.params[j + 1]))
           /\ ParamStart(f, j + 1) = ParamStart(f, j) + (Len(f.params[j + 1].name) + 2)
           /\ f.params[j + 1] \in Params
<1>1. PICK b, s, n, c : b = FnBytes(f) /\ s = ParamsBytes(f) /\ n = Len(f.name) /\ c = Concat(s)
  OBVIOUS
<1>2. /\ s \in Seq(Seq(Bytes)) /\ Len(s) = Len(f.params)
      /\ \A i \in 1..Len(f.params) : f.params[i] \in Params /\ s[i] = ParamBytes(f.params[i])
  BY <1>1, ParamsBytesType
<1>3. j + 1 \in 1..Len(s) /\ (j + 1) - 1 = j
  BY <1>2
<1>4. f.params[j + 1] \in Params /\ s[j + 1] = ParamBytes(f.params[j + 1])
  BY <1>2, <1>3
<1>5. /\ Holds(c, Len(Concat(SubSeq(s, 1, j))), s[j + 1])
      /\ Len(Concat(SubSeq(s, 1, j + 1))) = Len(Concat(SubSeq(s, 1, j))) + Len(s[j + 1])
  BY <1>1, <1>2, <1>3, RoundStands
<1>6. c \in Seq(Bytes) /\ Len(c) \in Nat
  <2>1. c \in Seq(Bytes)
    BY <1>1, <1>2, ConcatType
  <2>. QED  BY <2>1
<1>7. n \in Nat
  BY <1>1, StrType DEF FnRecords
<1>8. /\ b \in Seq(Bytes) /\ Len(b) = n + 3 + Len(c)
      /\ \A i \in 1..Len(c) : b[n + 3 + i] = c[i]
  BY <1>1, FnBytesIs
<1>9. Holds(b, n + 3, c)
  <2>1. n + 3 \in Nat /\ n + 3 + Len(c) <= Len(b)
    BY <1>6, <1>7, <1>8
  <2>. QED  BY <1>6, <1>8, <2>1 DEF Holds
<1>10. Holds(b, n + 3 + Len(Concat(SubSeq(s, 1, j))), s[j + 1])
  BY <1>5, <1>8, <1>9, HoldsWithin
<1>11. Len(s[j + 1]) = Len(f.params[j + 1].name) + 2
  BY <1>4, ParamBytesType
<1>12. ParamStart(f, j + 1) = ParamStart(f, j) + Len(s[j + 1])
  <2>1. Len(Concat(SubSeq(s, 1, j))) \in Nat /\ Len(s[j + 1]) \in Nat
    BY <1>5 DEF Holds
  <2>2. PICK o, l : o = Len(Concat(SubSeq(s, 1, j))) /\ l = Len(s[j + 1])
    OBVIOUS
  <2>3. ParamStart(f, j + 1) = n + 3 + (o + l) /\ ParamStart(f, j) = n + 3 + o
    BY <1>1, <1>5, <2>2 DEF ParamStart
  <2>4. o \in Nat /\ l \in Nat
    BY <2>1, <2>2
  <2>5. n + 3 + (o + l) = n + 3 + o + l
    BY <1>7, <2>4
  <2>. QED  BY <2>2, <2>3, <2>5
<1>. QED  BY <1>1, <1>4, <1>10, <1>11, <1>12 DEF ParamStart

-----------------------------------------------------------------------------
(* The file while it is read. *)

(* It is a beginning of what was written. *)
Beginning ==
    /\ Len(bytes) <= Len(Encoding(parsed))
    /\ \A i \in 1..Len(bytes) : bytes[i] = Encoding(parsed)[i]
    /\ whole <=> Len(bytes) = Len(Encoding(parsed))

Stale == \E h \in StaleHeads : \A i \in 1..3 : bytes[i] = h[i]

(* k of the functions were read. *)
ReadFns(k) ==
    /\ made.header = parsed.header
    /\ ~dropped => made.fns = SubSeq(parsed.fns, 1, k)

(* Of function f, some parameters were. *)
ReadSome(f) ==
    /\ cur.name = f.name /\ cur.ret = f.ret /\ cur.count = Len(f.params)
    /\ cur.params = SubSeq(f.params, 1, Len(cur.params))

Reading(k) ==
    /\ ReadFns(k)
    /\ lpc = "peek" => pos = Start(parsed, k)
    /\ lpc = "fn" => pos = Start(parsed, k) /\ k < Len(parsed.fns)
    /\ lpc = "params" =>
         /\ k < Len(parsed.fns)
         /\ ReadSome(parsed.fns[k + 1])
         /\ pos = Start(parsed, k) + ParamStart(parsed.fns[k + 1], Len(cur.params))

FileInv ==
    /\ lpc # "idle" => ppc = "parsed"
    /\ lpc \in {"idle", "head"} => pos = 0
    /\ lpc = "idle" => ~whole
    /\ lpc = "head" => Beginning \/ Stale
    /\ lpc \in {"header", "peek", "fn", "params"} => Beginning
    /\ lpc = "header" => pos = 4
    /\ lpc \in {"peek", "fn", "params"} /\ Storable(parsed) =>
         \E k \in 0..Len(parsed.fns) : Reading(k)
    /\ lpc = "ok" /\ Storable(parsed) => whole /\ (~dropped => made = parsed)

Refusals == {"magic", "corrupt", "py_version", "cinpy_version", "oom"}

LEMMA Refused ==
    ASSUME FileInv, lpc # "idle", lpc' \in Refusals, UNCHANGED ppc
    PROVE  FileInv'
<1>1. /\ lpc' # "idle" /\ lpc' # "head" /\ lpc' # "header" /\ lpc' # "peek"
      /\ lpc' # "fn" /\ lpc' # "params" /\ lpc' # "ok"
  BY DEF Refusals
<1>2. ppc' = "parsed"
  BY DEF FileInv
<1>. QED  BY <1>1, <1>2 DEF FileInv

LEMMA BeginningKept ==
    ASSUME Beginning, UNCHANGED <<parsed, bytes, whole>>
    PROVE  Beginning'
BY DEF Beginning

(* What the encoding holds here follows in the file. *)
LEMMA HeldFollows ==
    ASSUME NEW w, Beginning, pos \in 0..Len(bytes), Len(bytes) \in Nat,
           Holds(Encoding(parsed), pos, w)
    PROVE  Follows(w)
<1>1. ASSUME NEW i \in 1..Len(w), pos + i <= Len(bytes) PROVE bytes[pos + i] = w[i]
  <2>1. pos + i \in 1..Len(bytes)
    <3>1. Len(w) \in Nat
      BY DEF Holds
    <3>. QED  BY <1>1, <3>1
  <2>. QED  BY <2>1 DEF Beginning, Holds
<1>. QED  BY <1>1 DEF Follows

LEMMA FirstThree ==
    ASSUME NEW T, NEW h \in Seq(T), Len(h) = 4
    PROVE  SubSeq(h, 1, 3) = <<h[1], h[2], h[3]>>
<1>1. PICK g : g = SubSeq(h, 1, 3)
  OBVIOUS
<1>2. 3 \in 0..Len(h)
  OBVIOUS
<1>3. g \in Seq(T) /\ Len(g) = 3 /\ \A i \in 1..3 : g[i] = h[i]
  BY <1>1, <1>2
<1>4. g = <<g[1], g[2], g[3]>>
  BY <1>3
<1>. QED  BY <1>1, <1>3, <1>4

LEMMA FileReadHead ==
    ASSUME LoaderTypeOK, FileInv, ReadHead, UNCHANGED <<parserVars, whole>>
    PROVE  FileInv'
<1>1. lpc = "head" /\ pos = 0 /\ (Beginning \/ Stale) /\ ppc' = "parsed"
  BY DEF ReadHead, FileInv, parserVars
<1>2. CASE lpc' \in Refusals
  BY <1>1, <1>2, Refused DEF parserVars
<1>3. CASE /\ bytes[1] = Magic /\ bytes[2] = PyVersion /\ bytes[3] = CinpyMajor
           /\ pos' = 4 /\ lpc' = "header" /\ UNCHANGED bytes
  <2>1. ASSUME Stale PROVE FALSE
    <3>1. PICK h \in StaleHeads : \A i \in 1..3 : bytes[i] = h[i]
      BY <2>1 DEF Stale
    <3>2. /\ h \in Seq(Bytes) /\ Len(h) = 4
          /\ SubSeq(h, 1, 3) # <<Magic, PyVersion, CinpyMajor>>
      BY StaleAssumption
    <3>3. h[1] = Magic /\ h[2] = PyVersion /\ h[3] = CinpyMajor
      BY <1>3, <3>1
    <3>4. SubSeq(h, 1, 3) = <<h[1], h[2], h[3]>>
      BY <3>2, FirstThree
    <3>. QED  BY <3>2, <3>3, <3>4
  <2>2. Beginning'
    BY <1>1, <1>3, <2>1, BeginningKept DEF parserVars
  <2>. QED  BY <1>1, <1>3, <2>2 DEF FileInv
<1>. QED  BY <1>2, <1>3 DEF ReadHead, LoadFails, Refusals

LEMMA FileReadHeader ==
    ASSUME Emittable(parsed), LoaderTypeOK, FileInv, ReadHeader, UNCHANGED <<parserVars, whole>>
    PROVE  FileInv'
<1>1. lpc = "header" /\ pos = 4 /\ Beginning /\ ppc' = "parsed" /\ parsed' = parsed
  BY DEF ReadHeader, FileInv, parserVars
<1>2. CASE lpc' \in Refusals
  BY <1>1, <1>2, Refused DEF parserVars
<1>3. CASE /\ StrLen # 0
           /\ made' = [header |-> Chars(StrLen), fns |-> << >>]
           /\ pos' = pos + StrLen
           /\ lpc' = "peek"
           /\ UNCHANGED <<bytes, dropped>>
  <2>1. Beginning'
    BY <1>1, <1>3, BeginningKept DEF parserVars
  <2>2. ASSUME Storable(parsed) PROVE Reading(0)'
    <3>1. PICK h : h = parsed.header
      OBVIOUS
    <3>2. h \in Seq(Bytes \ {Nul}) /\ Readable(h) /\ parsed.fns \in Seq(FnRecords)
      BY <2>2, <3>1 DEF Emittable, Irs, Strings, Storable
    <3>3. bytes \in Seq(Bytes) /\ pos \in 0..Len(bytes) /\ Len(bytes) \in Nat
      BY DEF LoaderTypeOK
    <3>4. Follows(Str(h))
      BY <1>1, <3>1, <3>3, HeaderStands, HeldFollows
    <3>5. StrLen = Len(h) + 1 /\ Chars(StrLen) = h
      BY <1>3, <3>2, <3>3, <3>4, StringReadsBack
    <3>6. made'.header = h /\ made'.fns = << >> /\ pos' = 4 + (Len(h) + 1)
      BY <1>1, <1>3, <3>5
    <3>7. Start(parsed, 0) = Len(h) + 5
      BY <3>1, HeaderStands
    <3>8. pos' = Start(parsed, 0)
      <4>1. Len(h) \in Nat
        BY <3>2
      <4>2. 4 + (Len(h) + 1) = Len(h) + 5
        BY <4>1
      <4>. QED  BY <3>6, <3>7, <4>2
    <3>9. SubSeq(parsed.fns, 1, 0) = << >>
      BY <3>2
    <3>10. ReadFns(0)'
      BY <1>1, <3>1, <3>6, <3>9 DEF ReadFns
    <3>. QED  BY <1>1, <1>3, <3>8, <3>10 DEF Reading
  <2>3. Storable(parsed)' => \E k \in 0..Len(parsed'.fns) : Reading(k)'
    <3>1. 0 \in 0..Len(parsed'.fns)
      BY <1>1 DEF Emittable, Irs
    <3>. QED  BY <1>1, <2>2, <3>1
  <2>. QED  BY <1>1, <1>3, <2>1, <2>3 DEF FileInv
<1>. QED  BY <1>2, <1>3 DEF ReadHeader, LoadFails, Refusals

(* No function's bytes begin with the sentinel. *)
LEMMA FirstByte ==
    ASSUME NEW x, Emittable(x), NEW k \in Nat, k < Len(x.fns)
    PROVE  FnBytes(x.fns[k + 1])[1] # Sentinel
<1>1. x.fns \in Seq(FnRecords) /\ k + 1 \in DOMAIN x.fns
  BY DEF Emittable, Irs
<1>2. PICK f : f = x.fns[k + 1]
  OBVIOUS
<1>3. /\ f \in FnRecords /\ Len(f.params) \in Bytes
      /\ f.name # << >> => f.name[1] # Sentinel
  BY <1>1, <1>2 DEF Emittable
<1>4. f.name \in Seq(Bytes \ {Nul}) /\ f.name \in Strings
  BY <1>3 DEF FnRecords, Strings
<1>5. FnBytes(f)[1] = Str(f.name)[1]
  <2>1. 1 \in 1..Len(f.name) + 1
    BY <1>4
  <2>. QED  BY <1>3, <2>1, FnBytesIs
<1>6. CASE f.name = << >>
  <2>1. Len(f.name) + 1 = 1
    BY <1>6
  <2>2. Str(f.name)[Len(f.name) + 1] = Nul
    BY <1>4, StrType
  <2>3. Sentinel # Nul
    BY BytesAssumption
  <2>. QED  BY <1>2, <1>5, <2>1, <2>2, <2>3
<1>7. CASE f.name # << >>
  <2>1. 1 \in 1..Len(f.name)
    BY <1>4, <1>7
  <2>2. Str(f.name)[1] = f.name[1]
    BY <1>4, <2>1, StrType
  <2>. QED  BY <1>2, <1>3, <1>5, <1>7, <2>2
<1>. QED  BY <1>6, <1>7

LEMMA FilePeek ==
    ASSUME Emittable(parsed), LoaderTypeOK, FileInv, Peek, UNCHANGED <<parserVars, whole>>
    PROVE  FileInv'
<1>1. /\ lpc = "peek" /\ Beginning /\ ppc' = "parsed" /\ parsed' = parsed
      /\ Storable(parsed) => \E k \in 0..Len(parsed.fns) : Reading(k)
  BY DEF Peek, FileInv, parserVars
<1>2. /\ bytes \in Seq(Bytes) /\ pos \in 0..Len(bytes) /\ Len(bytes) \in Nat
      /\ made \in Irs
  BY DEF LoaderTypeOK
<1>3. parsed \in Irs /\ parsed.fns \in Seq(FnRecords) /\ Len(parsed.fns) \in Nat
  BY DEF Emittable, Irs
<1>4. CASE lpc' \in Refusals
  BY <1>1, <1>4, Refused DEF parserVars
<1>5. CASE /\ Left # 0 /\ bytes[pos + 1] = Sentinel
           /\ lpc' = "ok" /\ UNCHANGED <<bytes, made, dropped>>
  <2>1. ASSUME Storable(parsed) PROVE whole /\ (~dropped => made = parsed)
    <3>1. PICK k \in 0..Len(parsed.fns) : Reading(k)
      BY <1>1, <2>1
    <3>2. pos = Start(parsed, k) /\ ReadFns(k)
      BY <1>1, <3>1 DEF Reading
    <3>3. pos + 1 \in 1..Len(bytes)
      BY <1>2, <1>5 DEF Left
    <3>4. k = Len(parsed.fns)
      <4>1. ASSUME k < Len(parsed.fns) PROVE FALSE
        <5>1. PICK w : w = FnBytes(parsed.fns[k + 1])
          OBVIOUS
        <5>2. Holds(Encoding(parsed), pos, w)
          BY <1>3, <3>1, <3>2, <4>1, <5>1, FnStands
        <5>3. Follows(w)
          BY <1>1, <1>2, <5>2, HeldFollows
        <5>4. w[1] # Sentinel
          BY <1>3, <3>1, <4>1, <5>1, FirstByte
        <5>5. 1 \in 1..Len(w)
          <6>1. PICK f : f = parsed.fns[k + 1]
            OBVIOUS
          <6>2. f \in FnRecords /\ Len(f.params) \in Bytes
            <7>1. k + 1 \in DOMAIN parsed.fns
              BY <1>3, <3>1, <4>1
            <7>. QED  BY <1>3, <6>1, <7>1 DEF Emittable
          <6>3. Len(f.name) \in Nat
            BY <6>2 DEF FnRecords, Strings
          <6>4. Len(FnBytes(f)) >= Len(f.name) + 3
            BY <6>2, FnBegins
          <6>5. Len(w) \in Nat
            BY <5>2 DEF Holds
          <6>. QED  BY <5>1, <6>1, <6>3, <6>4, <6>5
        <5>6. bytes[pos + 1] = w[1]
          BY <3>3, <5>3, <5>5 DEF Follows
        <5>. QED  BY <1>5, <5>4, <5>6
      <4>. QED  BY <1>3, <3>1, <4>1
    <3>5. whole
      <4>1. Len(Encoding(parsed)) = pos + 1
        BY <3>2, <3>4, SentinelStands
      <4>2. Len(bytes) = Len(Encoding(parsed))
        BY <1>1, <1>2, <3>3, <4>1 DEF Beginning
      <4>. QED  BY <1>1, <4>2 DEF Beginning
    <3>6. ASSUME ~dropped PROVE made = parsed
      <4>1. made.fns = parsed.fns /\ made.header = parsed.header
        BY <1>3, <3>2, <3>4, <3>6, SubSeqFull DEF ReadFns
      <4>. QED  BY <1>2, <1>3, <4>1 DEF Irs
    <3>. QED  BY <3>5, <3>6
  <2>. QED  BY <1>1, <1>5, <2>1 DEF FileInv, parserVars
<1>6. CASE /\ Left # 0 /\ bytes[pos + 1] # Sentinel
           /\ lpc' = "fn" /\ UNCHANGED <<bytes, pos, made, dropped>>
  <2>1. Beginning'
    BY <1>1, <1>6, BeginningKept DEF parserVars
  <2>2. ASSUME Storable(parsed), NEW k \in 0..Len(parsed.fns), Reading(k) PROVE Reading(k)'
    <3>1. pos = Start(parsed, k) /\ ReadFns(k)
      BY <1>1, <2>2 DEF Reading
    <3>2. k # Len(parsed.fns)
      <4>1. ASSUME k = Len(parsed.fns) PROVE FALSE
        <5>1. Len(Encoding(parsed)) = pos + 1 /\ Encoding(parsed)[pos + 1] = Sentinel
          BY <3>1, <4>1, SentinelStands
        <5>2. pos + 1 \in 1..Len(bytes)
          BY <1>2, <1>6 DEF Left
        <5>3. bytes[pos + 1] = Encoding(parsed)[pos + 1]
          BY <1>1, <5>2 DEF Beginning
        <5>. QED  BY <1>6, <5>1, <5>3
      <4>. QED  BY <4>1
    <3>3. k < Len(parsed.fns)
      BY <1>3, <2>2, <3>2
    <3>4. ReadFns(k)'
      BY <1>1, <1>6, <3>1 DEF ReadFns
    <3>. QED  BY <1>1, <1>6, <3>1, <3>3, <3>4 DEF Reading
  <2>3. Storable(parsed)' => \E k \in 0..Len(parsed'.fns) : Reading(k)'
    BY <1>1, <2>2
  <2>. QED  BY <1>1, <1>6, <2>1, <2>3 DEF FileInv
<1>. QED  BY <1>4, <1>5, <1>6 DEF Peek, LoadFails, Refusals

(* The record of a function of the IR. *)
LEMMA FnOf ==
    ASSUME NEW x, Emittable(x), NEW k \in Nat, k < Len(x.fns)
    PROVE  /\ x.fns[k + 1] \in FnRecords /\ Len(x.fns[k + 1].params) \in Bytes
           /\ x.fns[k + 1].name \in Seq(Bytes \ {Nul}) /\ x.fns[k + 1].name \in Strings
           /\ x.fns[k + 1].params \in Seq(Params)
           /\ Storable(x) =>
                /\ Readable(x.fns[k + 1].name)
                /\ \A j \in 1..Len(x.fns[k + 1].params) : Readable(x.fns[k + 1].params[j].name)
<1>1. x.fns \in Seq(FnRecords) /\ k + 1 \in DOMAIN x.fns
  BY DEF Emittable, Irs
<1>2. PICK f : f = x.fns[k + 1]
  OBVIOUS
<1>3. /\ f \in FnRecords /\ Len(f.params) \in Bytes
      /\ Storable(x) => /\ Readable(f.name)
                        /\ \A j \in DOMAIN f.params : Readable(f.params[j].name)
  BY <1>1, <1>2 DEF Emittable, Storable
<1>4. f.name \in Seq(Bytes \ {Nul}) /\ f.name \in Strings /\ f.params \in Seq(Params)
  BY <1>3 DEF FnRecords, Strings
<1>5. DOMAIN f.params = 1..Len(f.params)
  BY <1>4
<1>. QED  BY <1>2, <1>3, <1>4, <1>5

LEMMA FileReadFn ==
    ASSUME Emittable(parsed), LoaderTypeOK, FileInv, ReadFn, UNCHANGED <<parserVars, whole>>
    PROVE  FileInv'
<1>1. /\ lpc = "fn" /\ Beginning /\ ppc' = "parsed" /\ parsed' = parsed
      /\ Storable(parsed) => \E k \in 0..Len(parsed.fns) : Reading(k)
  BY DEF ReadFn, FileInv, parserVars
<1>2. /\ bytes \in Seq(Bytes) /\ pos \in 0..Len(bytes) /\ Len(bytes) \in Nat
  BY DEF LoaderTypeOK
<1>3. Len(parsed.fns) \in Nat
  BY DEF Emittable, Irs
<1>4. CASE lpc' \in Refusals
  BY <1>1, <1>4, Refused DEF parserVars
<1>5. CASE /\ StrLen # 0 /\ Left >= StrLen + 2
           /\ cur' = [name |-> Chars(StrLen), ret |-> bytes[pos + StrLen + 1],
                      count |-> bytes[pos + StrLen + 2], params |-> << >>]
           /\ pos' = pos + StrLen + 2
           /\ lpc' = "params"
           /\ UNCHANGED <<bytes, made, dropped>>
  <2>1. Beginning'
    BY <1>1, <1>5, BeginningKept DEF parserVars
  <2>2. ASSUME Storable(parsed), NEW k \in 0..Len(parsed.fns), Reading(k) PROVE Reading(k)'
    <3>1. pos = Start(parsed, k) /\ ReadFns(k) /\ k < Len(parsed.fns) /\ k \in Nat
      BY <1>1, <2>2 DEF Reading
    <3>2. PICK f, w, n : f = parsed.fns[k + 1] /\ w = FnBytes(f) /\ n = Len(f.name)
      OBVIOUS
    <3>3. /\ f \in FnRecords /\ Len(f.params) \in Bytes
          /\ f.name \in Seq(Bytes \ {Nul}) /\ f.name \in Strings /\ Readable(f.name)
          /\ f.params \in Seq(Params)
      BY <2>2, <3>1, <3>2, FnOf
    <3>4. Holds(Encoding(parsed), pos, w)
      BY <3>1, <3>2, FnStands
    <3>5. Follows(w)
      BY <1>1, <1>2, <3>4, HeldFollows
    <3>6. Len(w) >= n + 3 /\ Holds(w, 0, Str(f.name)) /\ ParamStart(f, 0) = n + 3
      BY <3>2, <3>3, FnBegins
    <3>7. n \in Nat /\ Len(w) \in Nat
      BY <3>2, <3>3, <3>4 DEF Holds
    <3>8. Follows(Str(f.name))
      <4>1. Len(Encoding(parsed)) \in Nat
        <5>1. Encoding(parsed) \in Seq(Bytes)
          BY EncodingIs
        <5>. QED  BY <5>1
      <4>2. Holds(Encoding(parsed), pos + 0, Str(f.name))
        BY <3>4, <3>6, <4>1, HoldsWithin
      <4>3. pos + 0 = pos
        BY <1>2
      <4>. QED  BY <1>1, <1>2, <4>2, <4>3, HeldFollows
    <3>9. StrLen = n + 1 /\ Chars(StrLen) = f.name
      BY <1>2, <1>5, <3>2, <3>3, <3>8, StringReadsBack
    <3>10. w[n + 2] = f.ret /\ w[n + 3] = Len(f.params)
      BY <3>2, <3>3, FnBytesIs
    <3>11. /\ pos + (n + 2) <= Len(bytes) /\ pos + (n + 3) <= Len(bytes)
           /\ n + 2 \in 1..Len(w) /\ n + 3 \in 1..Len(w)
      BY <1>2, <1>5, <3>6, <3>7, <3>9 DEF Left
    <3>12. bytes[pos + (n + 2)] = f.ret /\ bytes[pos + (n + 3)] = Len(f.params)
      BY <3>5, <3>10, <3>11 DEF Follows
    <3>13. /\ pos + StrLen + 1 = pos + (n + 2) /\ pos + StrLen + 2 = pos + (n + 3)
      BY <1>2, <3>7, <3>9
    <3>14. /\ cur'.name = f.name /\ cur'.ret = f.ret /\ cur'.count = Len(f.params)
           /\ cur'.params = << >> /\ pos' = pos + ParamStart(f, 0)
      BY <1>5, <3>6, <3>9, <3>12, <3>13
    <3>15. Len(cur'.params) = 0 /\ SubSeq(f.params, 1, 0) = << >>
      BY <3>3, <3>14
    <3>16. ReadSome(f)'
      BY <3>14, <3>15 DEF ReadSome
    <3>17. ReadFns(k)'
      BY <1>1, <1>5, <3>1 DEF ReadFns
    <3>. QED  BY <1>1, <1>5, <3>1, <3>2, <3>14, <3>15, <3>16, <3>17 DEF Reading
  <2>3. Storable(parsed)' => \E k \in 0..Len(parsed'.fns) : Reading(k)'
    BY <1>1, <2>2
  <2>. QED  BY <1>1, <1>5, <2>1, <2>3 DEF FileInv
<1>. QED  BY <1>4, <1>5 DEF ReadFn, LoadFails, Refusals

LEMMA OneLonger ==
    ASSUME NEW S, NEW s \in Seq(S), NEW x \in S
    PROVE  Len(Append(s, x)) = Len(s) + 1
OBVIOUS

LEMMA FileReadParam ==
    ASSUME Emittable(parsed), LoaderTypeOK, FileInv, ReadParam, UNCHANGED <<parserVars, whole>>
    PROVE  FileInv'
<1>1. /\ lpc = "params" /\ Beginning /\ ppc' = "parsed" /\ parsed' = parsed
      /\ Storable(parsed) => \E k \in 0..Len(parsed.fns) : Reading(k)
  BY DEF ReadParam, FileInv, parserVars
<1>2. /\ bytes \in Seq(Bytes) /\ pos \in 0..Len(bytes) /\ Len(bytes) \in Nat
      /\ cur \in RecordsRead
  BY DEF LoaderTypeOK
<1>3. Len(parsed.fns) \in Nat
  BY DEF Emittable, Irs
<1>4. CASE lpc' \in Refusals
  BY <1>1, <1>4, Refused DEF parserVars
<1>5. CASE /\ StrLen # 0 /\ Left >= StrLen + 1
           /\ cur' = [cur EXCEPT !.params =
                         Append(@, [name |-> Chars(StrLen), type |-> bytes[pos + StrLen + 1]])]
           /\ pos' = pos + StrLen + 1
           /\ UNCHANGED <<bytes, made, dropped, lpc>>
  <2>1. Beginning'
    BY <1>1, <1>5, BeginningKept DEF parserVars
  <2>2. ASSUME Storable(parsed), NEW k \in 0..Len(parsed.fns), Reading(k) PROVE Reading(k)'
    <3>1. /\ ReadFns(k) /\ k < Len(parsed.fns) /\ k \in Nat
          /\ ReadSome(parsed.fns[k + 1])
          /\ pos = Start(parsed, k) + ParamStart(parsed.fns[k + 1], Len(cur.params))
      BY <1>1, <2>2 DEF Reading
    <3>2. PICK f, j : f = parsed.fns[k + 1] /\ j = Len(cur.params)
      OBVIOUS
    <3>3. /\ f \in FnRecords /\ Len(f.params) \in Bytes /\ f.params \in Seq(Params)
          /\ \A i \in 1..Len(f.params) : Readable(f.params[i].name)
      BY <2>2, <3>1, <3>2, FnOf
    <3>4. /\ cur.name = f.name /\ cur.ret = f.ret /\ cur.count = Len(f.params)
          /\ cur.params = SubSeq(f.params, 1, j)
          /\ pos = Start(parsed, k) + ParamStart(f, j)
      BY <3>1, <3>2 DEF ReadSome
    <3>5. j \in Nat /\ j < Len(f.params) /\ Len(f.params) \in Nat /\ cur.params \in Seq(Params)
      <4>1. cur.params \in Seq(Params)
        BY <1>2 DEF RecordsRead
      <4>2. Len(cur.params) < cur.count
        BY DEF ReadParam
      <4>3. j \in Nat /\ Len(f.params) \in Nat
        BY <3>2, <3>3, <4>1
      <4>. QED  BY <3>2, <3>4, <4>1, <4>2, <4>3
    <3>6. PICK p, n : p = f.params[j + 1] /\ n = Len(p.name)
      OBVIOUS
    <3>7. /\ Holds(FnBytes(f), ParamStart(f, j), ParamBytes(p)) /\ p \in Params
          /\ ParamStart(f, j + 1) = ParamStart(f, j) + (n + 2)
      BY <3>3, <3>5, <3>6, ParamStands
    <3>8. p.name \in Seq(Bytes \ {Nul}) /\ p.name \in Strings /\ Readable(p.name) /\ n \in Nat
      <4>1. j + 1 \in 1..Len(f.params)
        BY <3>5
      <4>. QED  BY <3>3, <3>6, <3>7, <4>1 DEF Params, Strings
    <3>9. Holds(Encoding(parsed), pos, ParamBytes(p))
      <4>1. Len(Encoding(parsed)) \in Nat
        <5>1. Encoding(parsed) \in Seq(Bytes)
          BY EncodingIs
        <5>. QED  BY <5>1
      <4>2. Holds(Encoding(parsed), Start(parsed, k), FnBytes(f))
        BY <3>1, <3>2, FnStands
      <4>. QED  BY <3>4, <3>7, <4>1, <4>2, HoldsWithin
    <3>10. Follows(ParamBytes(p))
      BY <1>1, <1>2, <3>9, HeldFollows
    <3>11. /\ Len(ParamBytes(p)) = n + 2 /\ ParamBytes(p)[n + 2] = p.type
           /\ \A i \in 1..n + 1 : ParamBytes(p)[i] = Str(p.name)[i]
      BY <3>6, <3>7, ParamBytesType
    <3>12. Follows(Str(p.name))
      <4>1. Len(Str(p.name)) = n + 1
        BY <3>6, <3>8, StrType
      <4>2. ASSUME NEW i \in 1..n + 1, pos + i <= Len(bytes) PROVE bytes[pos + i] = Str(p.name)[i]
        <5>1. i \in 1..n + 2
          BY <3>8
        <5>. QED  BY <3>10, <3>11, <4>2, <5>1 DEF Follows
      <4>. QED  BY <4>1, <4>2 DEF Follows
    <3>13. StrLen = n + 1 /\ Chars(StrLen) = p.name
      BY <1>2, <1>5, <3>6, <3>8, <3>12, StringReadsBack
    <3>14. pos + StrLen + 1 = pos + (n + 2) /\ pos + (n + 2) <= Len(bytes) /\ n + 2 \in 1..n + 2
      <4>1. pos \in Nat /\ Len(bytes) \in Nat
        BY <1>2
      <4>2. StrLen = n + 1 /\ Len(bytes) - pos >= StrLen + 1
        BY <1>5, <3>13 DEF Left
      <4>3. n \in Nat
        BY <3>8
      <4>. QED  BY <4>1, <4>2, <4>3
    <3>15. bytes[pos + StrLen + 1] = p.type
      BY <3>10, <3>11, <3>14 DEF Follows
    <3>16. [name |-> Chars(StrLen), type |-> bytes[pos + StrLen + 1]] = p
      BY <3>7, <3>13, <3>15 DEF Params
    <3>17. /\ cur'.name = cur.name /\ cur'.ret = cur.ret /\ cur'.count = cur.count
           /\ cur'.params = Append(cur.params, p)
      BY <1>2, <1>5, <3>16 DEF RecordsRead
    <3>18. Append(SubSeq(f.params, 1, j), f.params[j + 1]) = SubSeq(f.params, 1, j + 1)
      BY <3>3, <3>5
    <3>19. cur'.params = SubSeq(f.params, 1, j + 1) /\ Len(cur'.params) = j + 1
      <4>1. cur'.params = SubSeq(f.params, 1, j + 1)
        BY <3>4, <3>6, <3>17, <3>18
      <4>2. Len(Append(cur.params, p)) = j + 1
        BY <3>2, <3>5, <3>7, OneLonger
      <4>. QED  BY <3>17, <4>1, <4>2
    <3>20. ReadSome(f)'
      BY <3>4, <3>17, <3>19 DEF ReadSome
    <3>21. ReadFns(k)'
      BY <1>1, <1>5, <3>1 DEF ReadFns
    <3>22. pos' = Start(parsed, k) + ParamStart(f, j + 1)
      <4>1. PICK a, b : a = Start(parsed, k) /\ b = ParamStart(f, j)
        OBVIOUS
      <4>2. a \in Nat /\ b \in Nat
        BY <3>1, <3>2, <3>7, <4>1, FnStands DEF Holds
      <4>3. a + b + (n + 2) = a + (b + (n + 2))
        BY <3>8, <4>2
      <4>. QED  BY <1>5, <3>4, <3>7, <3>14, <4>1, <4>3
    <3>. QED  BY <1>1, <1>5, <3>1, <3>2, <3>19, <3>20, <3>21, <3>22 DEF Reading
  <2>3. Storable(parsed)' => \E k \in 0..Len(parsed'.fns) : Reading(k)'
    BY <1>1, <2>2
  <2>. QED  BY <1>1, <1>5, <2>1, <2>3 DEF FileInv
<1>. QED  BY <1>4, <1>5 DEF ReadParam, ParamFails, Refusals

(* A record that was read whole is the function's. *)
LEMMA FileFnRead ==
    ASSUME Emittable(parsed), LoaderTypeOK, FnRead, NEW k \in 0..Len(parsed.fns), Reading(k),
           Storable(parsed)
    PROVE  /\ k + 1 \in 0..Len(parsed.fns) /\ ReadFns(k) /\ k \in Nat
           /\ pos = Start(parsed, k + 1)
           /\ [name |-> cur.name, ret |-> cur.ret, params |-> cur.params] = parsed.fns[k + 1]
<1>1. Len(parsed.fns) \in Nat
  BY DEF Emittable, Irs
<1>2. /\ ReadFns(k) /\ k < Len(parsed.fns) /\ k \in Nat
      /\ ReadSome(parsed.fns[k + 1])
      /\ pos = Start(parsed, k) + ParamStart(parsed.fns[k + 1], Len(cur.params))
  BY DEF Reading, FnRead
<1>3. PICK f : f = parsed.fns[k + 1]
  OBVIOUS
<1>4. f \in FnRecords /\ Len(f.params) \in Bytes /\ f.params \in Seq(Params)
  BY <1>2, <1>3, FnOf
<1>5. /\ cur.name = f.name /\ cur.ret = f.ret /\ Len(cur.params) = Len(f.params)
      /\ cur.params = SubSeq(f.params, 1, Len(f.params))
  BY <1>2, <1>3 DEF ReadSome, FnRead
<1>6. cur.params = f.params
  BY <1>4, <1>5, SubSeqFull
<1>7. [name |-> cur.name, ret |-> cur.ret, params |-> cur.params] = f
  BY <1>4, <1>5, <1>6 DEF FnRecords
<1>8. pos = Start(parsed, k) + Len(FnBytes(f))
  BY <1>2, <1>3, <1>4, <1>5, FnBegins
<1>9. Start(parsed, k + 1) = Start(parsed, k) + Len(FnBytes(f))
  BY <1>2, <1>3, FnStands
<1>. QED  BY <1>1, <1>2, <1>3, <1>7, <1>8, <1>9

LEMMA BeginningGrows ==
    ASSUME NEW S, NEW s \in Seq(S), NEW k \in Nat, k + 1 \in 1..Len(s)
    PROVE  Append(SubSeq(s, 1, k), s[k + 1]) = SubSeq(s, 1, k + 1)
<1>1. PICK n : n = Len(s)
  OBVIOUS
<1>2. n \in Nat /\ k + 1 <= n /\ 1 \in 1..n + 1 /\ \A i \in 1..n : s[i] \in S
  BY <1>1
<1>3. PICK b, g : b = SubSeq(s, 1, k) /\ g = SubSeq(s, 1, k + 1)
  OBVIOUS
<1>4. b \in Seq(S) /\ Len(b) = k /\ \A i \in 1..k : b[i] = s[i]
  BY <1>1, <1>2, <1>3
<1>5. g \in Seq(S) /\ Len(g) = k + 1 /\ \A i \in 1..k + 1 : g[i] = s[i]
  BY <1>1, <1>2, <1>3
<1>6. s[k + 1] \in S
  BY <1>1, <1>2
<1>7. PICK a : a = Append(b, s[k + 1])
  OBVIOUS
<1>8. a \in Seq(S) /\ Len(a) = k + 1 /\ \A i \in 1..k : a[i] = b[i]
  BY <1>4, <1>6, <1>7
<1>9. a[k + 1] = s[k + 1]
  BY <1>4, <1>6, <1>7
<1>10. \A i \in 1..k + 1 : a[i] = g[i]
  <2>1. ASSUME NEW i \in 1..k + 1 PROVE a[i] = g[i]
    <3>1. CASE i \in 1..k
      BY <1>4, <1>5, <1>8, <3>1
    <3>2. CASE i = k + 1
      BY <1>5, <1>9, <3>2
    <3>. QED  BY <3>1, <3>2
  <2>. QED  BY <2>1
<1>11. a = g
  BY <1>5, <1>8, <1>10, SeqEqual
<1>. QED  BY <1>3, <1>7, <1>11

LEMMA FilePush ==
    ASSUME Emittable(parsed), LoaderTypeOK, FileInv, Push \/ PushFails,
           UNCHANGED <<parserVars, whole>>
    PROVE  FileInv'
<1>1. /\ lpc = "params" /\ lpc' = "peek" /\ Beginning /\ ppc' = "parsed" /\ parsed' = parsed
      /\ UNCHANGED <<bytes, pos>> /\ FnRead
      /\ Storable(parsed) => \E k \in 0..Len(parsed.fns) : Reading(k)
  BY DEF Push, PushFails, FnRead, FileInv, parserVars
<1>2. made \in Irs /\ made.fns \in Seq(FnRecords)
  BY DEF LoaderTypeOK, Irs
<1>3. parsed.fns \in Seq(FnRecords)
  BY DEF Emittable, Irs
<1>4. Beginning'
  BY <1>1, BeginningKept DEF parserVars
<1>5. ASSUME Storable(parsed), NEW k \in 0..Len(parsed.fns), Reading(k) PROVE Reading(k + 1)'
  <2>1. PICK g : g = [name |-> cur.name, ret |-> cur.ret, params |-> cur.params]
    OBVIOUS
  <2>2. /\ k + 1 \in 0..Len(parsed.fns) /\ ReadFns(k) /\ k \in Nat
        /\ pos = Start(parsed, k + 1) /\ g = parsed.fns[k + 1]
    BY <1>1, <1>5, <2>1, FileFnRead
  <2>3. ReadFns(k + 1)'
    <3>1. CASE Push
      <4>1. made'.fns = Append(made.fns, g) /\ made'.header = made.header /\ dropped' = dropped
        BY <1>2, <2>1, <3>1 DEF Push, Irs
      <4>2. ASSUME ~dropped PROVE made'.fns = SubSeq(parsed.fns, 1, k + 1)
        <5>1. made'.fns = Append(SubSeq(parsed.fns, 1, k), parsed.fns[k + 1])
          BY <2>2, <4>1, <4>2 DEF ReadFns
        <5>2. k + 1 \in 1..Len(parsed.fns) /\ Len(parsed.fns) \in Nat
          BY <1>3, <2>2
        <5>3. k \in Nat
          BY <2>2
        <5>. QED  BY <1>3, <5>1, <5>2, <5>3, BeginningGrows
      <4>. QED  BY <1>1, <2>2, <4>1, <4>2 DEF ReadFns
    <3>2. CASE PushFails
      BY <1>1, <2>2, <3>2 DEF PushFails, ReadFns
    <3>. QED  BY <3>1, <3>2
  <2>. QED  BY <1>1, <2>2, <2>3 DEF Reading
<1>6. Storable(parsed)' => \E k \in 0..Len(parsed'.fns) : Reading(k)'
  <2>1. ASSUME Storable(parsed) PROVE \E k \in 0..Len(parsed.fns) : Reading(k)'
    <3>1. PICK k \in 0..Len(parsed.fns) : Reading(k)
      BY <1>1, <2>1
    <3>2. k + 1 \in 0..Len(parsed.fns)
      BY <1>1, <2>1, <3>1, FileFnRead
    <3>3. Reading(k + 1)'
      BY <1>5, <2>1, <3>1
    <3>. QED  BY <3>2, <3>3
  <2>. QED  BY <1>1, <2>1
<1>. QED  BY <1>1, <1>4, <1>6 DEF FileInv

LEMMA FileInvInit == HeaderToCallInit => FileInv
BY DEF HeaderToCallInit, LoaderIdle, FileInv

(* Once the IR is complete, the parser is at its end.                      *)
LEMMA FileInvParse ==
    ASSUME FileInv, Parse
    PROVE  FileInv'
<1>1. UNCHANGED <<loaderVars, whole>> /\ ppc # "parsed"
  BY DEF Parse, ParserNext, ParseFails, ParseUnit, VisitOther, VisitUnknown, VisitFunction,
         VisitFails, ParseEnds, More
<1>2. lpc = "idle"
  BY <1>1 DEF FileInv
<1>. QED  BY <1>1, <1>2 DEF FileInv, loaderVars

LEMMA FileInvStore ==
    ASSUME Emittable(parsed), FileInv, Store
    PROVE  FileInv'
<1>1. PICK n \in 0..Len(Encoding(parsed)) :
          Open(SubSeq(Encoding(parsed), 1, n)) /\ whole' = (n = Len(Encoding(parsed)))
  BY DEF Store
<1>2. UNCHANGED parserVars /\ ppc = "parsed"
  BY DEF Store
<1>3. PICK e : e = Encoding(parsed)
  OBVIOUS
<1>4. e \in Seq(Bytes) /\ Len(e) \in Nat
  <2>1. e \in Seq(Bytes)
    BY <1>3, EncodingIs
  <2>. QED  BY <2>1
<1>5. bytes' = SubSeq(e, 1, n) /\ lpc = "idle" /\ lpc' = "head" /\ pos' = pos
  BY <1>1, <1>3 DEF Open
<1>6. n \in 0..Len(e) /\ (whole' <=> n = Len(e))
  BY <1>1, <1>3
<1>7. Len(bytes') = n /\ \A i \in 1..n : bytes'[i] = e[i]
  BY <1>4, <1>5, <1>6
<1>8. Encoding(parsed)' = e
  BY <1>2, <1>3 DEF parserVars
<1>9. Len(bytes') <= Len(e) /\ (whole' <=> Len(bytes') = Len(e))
  BY <1>4, <1>6, <1>7
<1>10. Beginning'
  BY <1>7, <1>8, <1>9 DEF Beginning
<1>. QED  BY <1>2, <1>5, <1>10 DEF FileInv, parserVars

LEMMA FileInvStoreStale ==
    ASSUME Emittable(parsed), FileInv, StoreStale
    PROVE  FileInv'
<1>1. PICK h \in StaleHeads : Open(h \o SubSeq(Encoding(parsed), 5, Len(Encoding(parsed))))
  BY DEF StoreStale
<1>2. UNCHANGED <<parserVars, whole>> /\ ppc = "parsed"
  BY DEF StoreStale
<1>3. PICK t : t = SubSeq(Encoding(parsed), 5, Len(Encoding(parsed)))
  OBVIOUS
<1>4. t \in Seq(Bytes)
  <2>1. PICK e : e = Encoding(parsed)
    OBVIOUS
  <2>2. e \in Seq(Bytes)
    BY <2>1, EncodingIs
  <2>3. t = SubSeq(e, 5, Len(e))
    BY <1>3, <2>1
  <2>. QED  BY <2>2, <2>3
<1>5. h \in Seq(Bytes) /\ Len(h) = 4
  BY StaleAssumption
<1>6. bytes' = h \o t /\ lpc = "idle" /\ lpc' = "head" /\ pos' = pos
  BY <1>1, <1>3 DEF Open
<1>7. IsBehind(bytes', h, t)
  BY <1>4, <1>5, <1>6, ConcatIsBehind
<1>8. \A i \in 1..3 : bytes'[i] = h[i]
  BY <1>5, <1>7 DEF IsBehind
<1>9. Stale'
  BY <1>8 DEF Stale
<1>. QED  BY <1>2, <1>6, <1>9 DEF FileInv, parserVars

(* A call leaves the IR and the file alone. *)
LEMMA FileInvKept ==
    ASSUME FileInv, UNCHANGED <<parserVars, loaderVars, whole>>
    PROVE  FileInv'
BY DEF FileInv, Beginning, Stale, Reading, ReadFns, ReadSome, parserVars, loaderVars

LEMMA FileInvNext ==
    ASSUME ParserInv, LoaderTypeOK, FileInv, [HeaderToCallNext]_vars
    PROVE  FileInv'
<1>1. Emittable(parsed)
  BY DEF ParserInv
<1>2. CASE Parse
  BY <1>2, FileInvParse
<1>3. CASE Store
  BY <1>1, <1>3, FileInvStore
<1>4. CASE StoreStale
  BY <1>1, <1>4, FileInvStoreStale
<1>5. CASE Load
  <2>1. LoaderNext /\ UNCHANGED <<parserVars, whole>>
    BY <1>5 DEF Load
  <2>. QED  BY <1>1, <2>1, FileReadHead, FileReadHeader, FilePeek, FileReadFn, FileReadParam,
                FilePush DEF LoaderNext
<1>6. CASE Call \/ InCall \/ UNCHANGED vars
  BY <1>6, FileInvKept DEF Call, InCall, vars
<1>. QED  BY <1>2, <1>3, <1>4, <1>5, <1>6 DEF HeaderToCallNext

-----------------------------------------------------------------------------
(* Division with remainder. *)
LEMMA RemainderIs ==
    ASSUME NEW M \in Nat \ {0}, NEW q \in Int, NEW r \in 0..M - 1
    PROVE  (M * q + r) % M = r
<1>1. PICK n, p, s : n = M * q + r /\ p = n \div M /\ s = n % M
  OBVIOUS
<1>2. n \in Int
  BY <1>1
<1>3. p \in Int /\ s \in 0..M - 1 /\ n = M * p + s
  BY <1>1, <1>2, SMT
<1>4. M * (p - q) = r - s
  BY <1>1, <1>3
<1>5. ASSUME p > q PROVE FALSE
  <2>1. M * (p - q) >= M
    BY <1>3, <1>5
  <2>. QED  BY <1>3, <1>4, <2>1
<1>6. ASSUME p < q PROVE FALSE
  <2>1. M * (q - p) >= M
    BY <1>3, <1>6
  <2>2. M * (p - q) = 0 - M * (q - p)
    BY <1>3
  <2>. QED  BY <1>3, <1>4, <2>1, <2>2
<1>7. p = q
  BY <1>3, <1>5, <1>6
<1>. QED  BY <1>1, <1>3, <1>7

LEMMA Divided ==
    ASSUME NEW M \in Nat \ {0}, NEW v \in Int
    PROVE  \E q \in Int, r \in 0..M - 1 : q = v \div M /\ r = v % M /\ v = M * q + r
<1>1. PICK q, r : q = v \div M /\ r = v % M
  OBVIOUS
<1>2. q \in Int /\ r \in 0..M - 1 /\ v = M * q + r
  BY <1>1, SMT
<1>. QED  BY <1>1, <1>2

LEMMA MultipleOf ==
    ASSUME NEW M \in Nat \ {0}, NEW q \in Int
    PROVE  (M * q) % M = 0
<1>1. 0 \in 0..M - 1 /\ M * q + 0 = M * q
  OBVIOUS
<1>2. (M * q + 0) % M = 0
  BY <1>1, RemainderIs
<1>. QED  BY <1>1, <1>2

LEMMA UnsignedIs ==
    ASSUME NEW M \in Nat \ {0}, NEW v \in Int
    PROVE  /\ Unsigned(v, M) \in UnsignedRange(M)
           /\ v \in UnsignedRange(M) => Unsigned(v, M) = v
           /\ (Unsigned(v, M) - v) % M = 0
<1>1. PICK q \in Int, u \in 0..M - 1 : q = v \div M /\ u = v % M /\ v = M * q + u
  BY Divided
<1>2. u \in 0..M - 1 /\ q \in Int /\ v = M * q + u
  BY <1>1
<1>3. ASSUME v \in 0..M - 1 PROVE u = v
  <2>1. M * 0 + v = v
    OBVIOUS
  <2>2. (M * 0 + v) % M = v
    BY <1>3, RemainderIs
  <2>. QED  BY <1>1, <2>1, <2>2
<1>4. (u - v) % M = 0
  <2>1. u - v = M * (-q) /\ -q \in Int
    BY <1>2
  <2>2. (M * (-q)) % M = 0
    BY <2>1, MultipleOf
  <2>. QED  BY <2>1, <2>2
<1>. QED  BY <1>1, <1>2, <1>3, <1>4 DEF Unsigned, UnsignedRange

LEMMA SignedIs ==
    ASSUME NEW M \in Nat \ {0}, M % 2 = 0, NEW v \in Int
    PROVE  /\ Signed(v, M) \in SignedRange(M)
           /\ v \in SignedRange(M) => Signed(v, M) = v
           /\ (Signed(v, M) - v) % M = 0
<1>1. PICK q \in Int, u \in 0..M - 1 : q = v \div M /\ u = v % M /\ v = M * q + u
  BY Divided
<1>10. PICK h : h = M \div 2
  OBVIOUS
<1>2. u \in 0..M - 1 /\ q \in Int /\ v = M * q + u
  BY <1>1
<1>3. M = 2 * h /\ h \in Nat \ {0}
  <2>1. 2 \in Nat \ {0} /\ M \in Int
    OBVIOUS
  <2>2. PICK a \in Int, b \in 0..1 : a = M \div 2 /\ b = M % 2 /\ M = 2 * a + b
    BY <2>1, Divided
  <2>3. M = 2 * a /\ h = a
    BY <1>10, <2>2
  <2>. QED  BY <2>2, <2>3
<1>4. PICK s : s = IF u >= h THEN u - M ELSE u
  OBVIOUS
<1>5. Signed(v, M) = s
  BY <1>1, <1>4, <1>10 DEF Signed
<1>6. SignedRange(M) = -h..h - 1
  BY <1>10 DEF SignedRange
<1>7. s \in -h..h - 1
  BY <1>2, <1>3, <1>4
<1>8. ASSUME v \in -h..h - 1 PROVE s = v
  <2>1. CASE v >= 0
    <3>1. v \in 0..M - 1 /\ M * 0 + v = v
      BY <1>3, <1>8, <2>1
    <3>2. (M * 0 + v) % M = v
      BY <3>1, RemainderIs
    <3>3. u = v
      BY <1>1, <3>1, <3>2
    <3>. QED  BY <1>3, <1>4, <1>8, <3>3
  <2>2. CASE v < 0
    <3>1. v + M \in 0..M - 1 /\ M * (-1) + (v + M) = v
      BY <1>3, <1>8, <2>2
    <3>2. (M * (-1) + (v + M)) % M = v + M
      BY <3>1, RemainderIs
    <3>3. u = v + M
      BY <1>1, <3>1, <3>2
    <3>. QED  BY <1>3, <1>4, <1>8, <3>3
  <2>. QED  BY <1>8, <2>1, <2>2
<1>9. (s - v) % M = 0
  <2>1. CASE u >= h
    <3>1. s - v = M * (-q - 1) /\ -q - 1 \in Int
      BY <1>2, <1>4, <2>1
    <3>2. (M * (-q - 1)) % M = 0
      BY <3>1, MultipleOf
    <3>. QED  BY <3>1, <3>2
  <2>2. CASE ~(u >= h)
    <3>1. s - v = M * (-q) /\ -q \in Int
      BY <1>2, <1>4, <2>2
    <3>2. (M * (-q)) % M = 0
      BY <3>1, MultipleOf
    <3>. QED  BY <3>1, <3>2
  <2>. QED  BY <2>1, <2>2
<1>. QED  BY <1>5, <1>6, <1>7, <1>8, <1>9

(* What is congruent modulo a multiple of W is so modulo W. *)
LEMMA MultipleDivides ==
    ASSUME NEW M \in Nat \ {0}, NEW W \in Nat \ {0}, M % W = 0, NEW d \in Int, d % M = 0
    PROVE  d % W = 0
<1>1. PICK a \in Int, r \in 0..W - 1 : a = M \div W /\ r = M % W /\ M = W * a + r
  BY Divided
<1>2. PICK b \in Int, s \in 0..M - 1 : b = d \div M /\ s = d % M /\ d = M * b + s
  BY Divided
<1>3. M = W * a /\ d = M * b
  BY <1>1, <1>2
<1>4. PICK p \in Int : p = a * b
  OBVIOUS
<1>5. d = W * p
  BY <1>3, <1>4
<1>6. (W * p) % W = 0
  BY MultipleOf
<1>. QED  BY <1>5, <1>6

LEMMA Congruent ==
    ASSUME NEW M \in Nat \ {0}, NEW v \in Int, NEW w \in Int, (w - v) % M = 0
    PROVE  w % M = v % M
<1>1. PICK q \in Int, r \in 0..M - 1 : q = v \div M /\ r = v % M /\ v = M * q + r
  BY Divided
<1>2. w - v \in Int
  OBVIOUS
<1>3. PICK p \in Int, s \in 0..M - 1 :
        p = (w - v) \div M /\ s = (w - v) % M /\ w - v = M * p + s
  BY <1>2, Divided
<1>4. w - v = M * p
  BY <1>3
<1>5. w = M * (q + p) + r /\ q + p \in Int
  BY <1>1, <1>4
<1>6. (M * (q + p) + r) % M = r
  BY <1>1, <1>5, RemainderIs
<1>. QED  BY <1>1, <1>5, <1>6

LEMMA CongruentBack ==
    ASSUME NEW M \in Nat \ {0}, NEW v \in Int, NEW w \in Int, w % M = v % M
    PROVE  (w - v) % M = 0
<1>1. PICK q \in Int, r \in 0..M - 1 : q = v \div M /\ r = v % M /\ v = M * q + r
  BY Divided
<1>2. PICK p \in Int, s \in 0..M - 1 : p = w \div M /\ s = w % M /\ w = M * p + s
  BY Divided
<1>3. w - v = M * (p - q) /\ p - q \in Int
  BY <1>1, <1>2
<1>4. (M * (p - q)) % M = 0
  BY <1>3, MultipleOf
<1>. QED  BY <1>3, <1>4

(* The widths are multiples of each other. *)
LEMMA WidthsAre ==
    /\ {ByteValues, ShortValues, IntValues, LongValues} \subseteq Nat \ {0}
    /\ \A n \in {ByteValues, ShortValues, IntValues, LongValues} :
         n \in Nat \ {0} /\ n % 2 = 0 /\ LongValues % n = 0
    /\ \A n \in {ByteValues, ShortValues, IntValues} : IntValues % n = 0
    /\ ByteValues < ShortValues /\ ShortValues < IntValues /\ IntValues < LongValues
<1>1. /\ {ByteValues, ShortValues, IntValues, LongValues} \subseteq Nat \ {0}
      /\ \A n \in {ByteValues, ShortValues, IntValues, LongValues} : n % 2 = 0
      /\ ByteValues < ShortValues /\ ShortValues < IntValues /\ IntValues < LongValues
      /\ ShortValues % ByteValues = 0 /\ IntValues % ShortValues = 0 /\ LongValues % IntValues = 0
  BY WidthsAssumption
<1>2. PICK b, s, i, l : b = ByteValues /\ s = ShortValues /\ i = IntValues /\ l = LongValues
  OBVIOUS
<1>3. /\ b \in Nat \ {0} /\ s \in Nat \ {0} /\ i \in Nat \ {0} /\ l \in Nat \ {0}
      /\ b \in Int /\ s \in Int /\ i \in Int /\ l \in Int
      /\ s % b = 0 /\ i % s = 0 /\ l % i = 0
  BY <1>1, <1>2
<1>4. i % b = 0
  BY <1>3, MultipleDivides
<1>5. l % b = 0
  BY <1>3, <1>4, MultipleDivides
<1>6. l % s = 0
  BY <1>3, MultipleDivides
<1>7. i % i = 0 /\ l % l = 0
  <2>1. (i * 1) % i = 0 /\ (l * 1) % l = 0
    <3>1. 1 \in Int
      OBVIOUS
    <3>. QED  BY <1>3, <3>1, MultipleOf
  <2>2. i * 1 = i /\ l * 1 = l
    BY <1>3
  <2>. QED  BY <2>1, <2>2
<1>. QED  BY <1>1, <1>2, <1>3, <1>4, <1>5, <1>6, <1>7

-----------------------------------------------------------------------------
(* The arguments of a call. *)

(* An argument is a value that was given, or a string made of one. *)
ArgIs(v) == IsValue(v) \/ (v.kind = "str" /\ \E t : v = Text(t))

LEMMA TextIs ==
    ASSUME NEW x
    PROVE  ArgIs(Text(x)) /\ Text(x).kind = "str" /\ Text(x).text = x
BY DEF ArgIs, Text

LEMMA NumberIs ==
    ASSUME NEW v, ArgIs(v), v.kind = "int"
    PROVE  v.val \in Int /\ v = Num(v.val)
BY DEF ArgIs, IsValue, PyNone, Holder, Floating, Num

LEMMA StrIsArg ==
    ASSUME NEW v
    PROVE  /\ PyStr(v).kind = "str"
           /\ ArgIs(v) => ArgIs(PyStr(v))
BY DEF PyStr, ArgIs, Text

LEMMA FieldValueIs ==
    ASSUME NEW a \in GivenTuples, NEW j \in Nat \ {0}
    PROVE  ArgIs(FieldValue(a, j)) /\ FieldValue(a, j).kind = "str"
<1>1. a \in Seq(Range(a)) /\ \A i \in DOMAIN a : IsValue(a[i])
  BY GivenAssumption
<1>2. CASE j < Len(a)
  <2>1. j + 1 \in DOMAIN a
    BY <1>1, <1>2
  <2>2. ArgIs(a[j + 1])
    BY <1>1, <2>1 DEF ArgIs
  <2>3. FieldValue(a, j) = PyStr(a[j + 1])
    BY <1>2 DEF FieldValue
  <2>. QED  BY <2>2, <2>3, StrIsArg
<1>3. CASE ~(j < Len(a))
  BY <1>3 DEF FieldValue, Text, ArgIs
<1>. QED  BY <1>2, <1>3

LEMMA BehindFields ==
    ASSUME NEW k \in Nat, NEW l \in Nat, NEW n \in k + 2..1 + k + l
    PROVE  \E i \in 1..l : n = k + 1 + i
<1>1. n - (k + 1) \in 1..l /\ n = k + 1 + (n - (k + 1))
  OBVIOUS
<1>. QED  BY <1>1

LEMMA RestType ==
    ASSUME NEW V, NEW a \in Seq(V), NEW k \in Nat
    PROVE  /\ SubSeq(a, k + 2, Len(a)) \in Seq(V) /\ Len(SubSeq(a, k + 2, Len(a))) \in Nat
           /\ Len(SubSeq(a, k + 2, Len(a))) = 0 \/ k + 1 + Len(SubSeq(a, k + 2, Len(a))) = Len(a)
           /\ \A i \in 1..Len(SubSeq(a, k + 2, Len(a))) :
                SubSeq(a, k + 2, Len(a))[i] = a[k + 1 + i]
<1>1. PICK n, r : n = Len(a) /\ r = SubSeq(a, k + 2, Len(a))
  OBVIOUS
<1>2. n \in Nat /\ k + 2 \in Nat /\ \A i \in 1..n : a[i] \in V
  BY <1>1
<1>3. r \in Seq(V) /\ Len(r) = IF k + 2 <= n THEN n - (k + 2) + 1 ELSE 0
  BY <1>1, <1>2
<1>4. Len(r) \in Nat /\ (Len(r) = 0 \/ k + 1 + Len(r) = n)
  BY <1>2, <1>3
<1>5. ASSUME NEW i \in 1..Len(r) PROVE r[i] = a[k + 1 + i]
  <2>1. r[i] = a[(k + 2) + i - 1]
    BY <1>1, <1>2, <1>5
  <2>2. (k + 2) + i - 1 = k + 1 + i
    BY <1>4
  <2>. QED  BY <2>1, <2>2
<1>. QED  BY <1>1, <1>3, <1>4, <1>5

(* A text has finitely many fields and conversions. *)
LEMMA PositionsFinite ==
    ASSUME NEW T, NEW t \in Seq(T), NEW P \in SUBSET DOMAIN t
    PROVE  IsFiniteSet(P) /\ Cardinality(P) \in Nat /\ Cardinality(P) <= Len(t)
<1>1. Len(t) \in Nat /\ DOMAIN t = 1..Len(t) /\ 1 \in Int /\ Len(t) \in Int
  OBVIOUS
<1>2. IsFiniteSet(1..Len(t)) /\ Cardinality(1..Len(t)) = IF 1 > Len(t) THEN 0 ELSE Len(t) - 1 + 1
  BY <1>1, FS_Interval
<1>3. Cardinality(1..Len(t)) = Len(t)
  BY <1>1, <1>2
<1>4. P \in SUBSET (1..Len(t))
  BY <1>1
<1>5. IsFiniteSet(P) /\ Cardinality(P) <= Cardinality(1..Len(t))
  BY <1>2, <1>4, FS_Subset
<1>. QED  BY <1>3, <1>5, FS_CardinalityType

LEMMA FormatIs ==
    ASSUME NEW a \in GivenTuples, IsFormat(a)
    PROVE  a[1].text \in Seq(Tokens) /\ Cardinality(Fields(a[1].text)) \in Nat
<1>1. a \in Seq(Range(a)) /\ \A i \in DOMAIN a : IsValue(a[i])
  BY GivenAssumption
<1>2. 1 \in DOMAIN a /\ a[1].kind = "str"
  BY <1>1 DEF IsFormat
<1>3. a[1].text \in Seq(Tokens)
  BY <1>1, <1>2 DEF IsValue, PyNone, Holder, Floating
<1>4. Fields(a[1].text) \in SUBSET DOMAIN a[1].text
  BY DEF Fields
<1>. QED  BY <1>3, <1>4, PositionsFinite

(* The format comes first, then each field's value, then what is left.     *)
LEMMA FormatRewritten ==
    ASSUME NEW a \in GivenTuples, IsFormat(a),
           NEW k \in Nat, k = Cardinality(Fields(a[1].text)),
           NEW t, t = Rewritten(a)
    PROVE  /\ t \in Seq(Range(t)) /\ Len(t) \in Nat /\ Len(t) >= k + 1
           /\ t[1] = Text(FormatText(a[1].text))
           /\ \A j \in 1..k : t[j + 1] = FieldValue(a, j)
           /\ \A n \in k + 2..Len(t) : n \in DOMAIN a /\ t[n] = a[n]
<1>1. a \in Seq(Range(a)) /\ Len(a) \in Nat
  BY GivenAssumption
<1>2. PICK x : x = Text(FormatText(a[1].text))
  OBVIOUS
<1>3. PICK h, f, r : h = <<x>> /\ f = [j \in 1..k |-> FieldValue(a, j)]
                     /\ r = SubSeq(a, k + 2, Len(a))
  OBVIOUS
<1>4. t = h \o f \o r
  BY <1>2, <1>3 DEF Rewritten
<1>5. PICK V : V = Range(a) \cup {x} \cup {FieldValue(a, j) : j \in 1..k}
  OBVIOUS
<1>6. h \in Seq(V) /\ Len(h) = 1 /\ h[1] = x
  BY <1>3, <1>5
<1>7. f \in Seq(V) /\ Len(f) = k /\ \A j \in 1..k : f[j] = FieldValue(a, j)
  <2>1. f \in [1..k -> V] /\ \A j \in 1..k : f[j] = FieldValue(a, j)
    BY <1>3, <1>5
  <2>. QED  BY <2>1
<1>8. /\ r \in Seq(V) /\ Len(r) \in Nat /\ \A i \in 1..Len(r) : r[i] = a[k + 1 + i]
      /\ Len(r) = 0 \/ k + 1 + Len(r) = Len(a)
  <2>1. /\ r \in Seq(Range(a)) /\ Len(r) \in Nat /\ \A i \in 1..Len(r) : r[i] = a[k + 1 + i]
        /\ Len(r) = 0 \/ k + 1 + Len(r) = Len(a)
    BY <1>1, <1>3, RestType
  <2>2. Range(a) \subseteq V
    BY <1>5
  <2>. QED  BY <2>1, <2>2, SeqMonotonic
<1>9. PICK s : s = h \o f
  OBVIOUS
<1>10. IsBehind(s, h, f) /\ s \in Seq(V)
  BY <1>6, <1>7, <1>9, ConcatIsBehind
<1>11. IsBehind(t, s, r) /\ t \in Seq(V)
  <2>1. t = s \o r
    BY <1>4, <1>9
  <2>. QED  BY <1>8, <1>10, <2>1, ConcatIsBehind
<1>12. Len(s) = 1 + k /\ s[1] = x /\ \A j \in 1..k : s[1 + j] = FieldValue(a, j)
  BY <1>6, <1>7, <1>10 DEF IsBehind
<1>13. Len(t) = 1 + k + Len(r) /\ Len(t) \in Nat
  BY <1>8, <1>11, <1>12 DEF IsBehind
<1>14. t[1] = x
  <2>1. 1 \in 1..Len(s)
    BY <1>12
  <2>. QED  BY <1>11, <1>12, <2>1 DEF IsBehind
<1>15. ASSUME NEW j \in 1..k PROVE t[j + 1] = FieldValue(a, j)
  <2>1. j + 1 \in 1..Len(s) /\ 1 + j = j + 1
    BY <1>12
  <2>2. t[j + 1] = s[j + 1]
    BY <1>11, <2>1 DEF IsBehind
  <2>. QED  BY <1>12, <1>15, <2>1, <2>2
<1>16. ASSUME NEW n \in k + 2..Len(t) PROVE n \in DOMAIN a /\ t[n] = a[n]
  <2>1. /\ Len(s) = 1 + k /\ Len(r) \in Nat /\ n \in k + 2..1 + k + Len(r)
    BY <1>8, <1>12, <1>13
  <2>2. PICK i \in 1..Len(r) : n = k + 1 + i /\ n = Len(s) + i
    <3>1. PICK i \in 1..Len(r) : n = k + 1 + i
      BY <2>1, BehindFields
    <3>. QED  BY <2>1, <3>1
  <2>3. t[n] = r[i]
    BY <1>11, <2>2 DEF IsBehind
  <2>4. Len(a) >= n
    <3>1. k + 1 + Len(r) = Len(a) /\ Len(r) \in Nat
      BY <1>8, <2>2
    <3>. QED  BY <2>2, <3>1
  <2>5. n \in DOMAIN a
    BY <1>1, <2>2, <2>4
  <2>. QED  BY <1>8, <2>2, <2>3, <2>5
<1>17. t \in Seq(Range(t))
  BY <1>11, SeqOfRange
<1>. QED  BY <1>2, <1>13, <1>14, <1>15, <1>16, <1>17

(* Rewritten or not, they are arguments. *)
LEMMA RewrittenIs ==
    ASSUME NEW a \in GivenTuples
    PROVE  /\ Rewritten(a) \in Seq(Range(Rewritten(a))) /\ Len(Rewritten(a)) \in Nat
           /\ \A j \in 1..Len(Rewritten(a)) : ArgIs(Rewritten(a)[j])
<1>1. a \in Seq(Range(a)) /\ Len(a) \in Nat /\ DOMAIN a = 1..Len(a)
      /\ \A j \in DOMAIN a : IsValue(a[j])
  BY GivenAssumption
<1>2. CASE ~IsFormat(a)
  <2>1. Rewritten(a) = a
    BY <1>2 DEF Rewritten
  <2>. QED  BY <1>1, <2>1 DEF ArgIs
<1>3. CASE IsFormat(a)
  <2>1. PICK k \in Nat : k = Cardinality(Fields(a[1].text))
    BY <1>3, FormatIs
  <2>2. PICK t : t = Rewritten(a)
    OBVIOUS
  <2>3. /\ t \in Seq(Range(t)) /\ Len(t) \in Nat /\ Len(t) >= k + 1
        /\ t[1] = Text(FormatText(a[1].text))
        /\ \A j \in 1..k : t[j + 1] = FieldValue(a, j)
        /\ \A n \in k + 2..Len(t) : n \in DOMAIN a /\ t[n] = a[n]
    BY <1>3, <2>1, <2>2, FormatRewritten
  <2>4. ASSUME NEW n \in 1..Len(t) PROVE ArgIs(t[n])
    <3>1. CASE n = 1
      BY <2>3, <3>1, TextIs
    <3>2. CASE n \in 2..k + 1
      <4>1. PICK j \in 1..k : n = j + 1
        BY <2>1, <3>2
      <4>2. j \in Nat \ {0}
        OBVIOUS
      <4>. QED  BY <2>3, <4>1, <4>2, FieldValueIs
    <3>3. CASE n \in k + 2..Len(t)
      BY <1>1, <2>3, <3>3 DEF ArgIs
    <3>. QED  BY <2>1, <2>3, <2>4, <3>1, <3>2, <3>3
  <2>. QED  BY <2>2, <2>3, <2>4
<1>. QED  BY <1>2, <1>3

-----------------------------------------------------------------------------
(* The arguments that C functions get, and what they return. *)

CallInv ==
    /\ cpc \in {"idle", "arity", "convert", "called", "returned", "raised"}
    /\ cpc = "idle" => CallIdle
    /\ cpc # "idle" =>
         /\ sig.params \in Seq(Range(sig.params))
         /\ given \in GivenTuples /\ args = Rewritten(given)
    /\ cpc = "arity" => cvals = << >>
    /\ cpc \in {"convert", "called", "returned"} => Len(args) = Len(sig.params)
    /\ cvals \in Seq(Range(cvals)) /\ Len(cvals) <= Len(args)
    /\ \A j \in 1..Len(cvals) :
         /\ Accepts(sig.params[j].type, args[j])
         /\ cvals[j] \in CValues(sig.params[j].type, args[j])
    /\ cpc \in {"called", "returned"} => Len(cvals) = Len(args)
    /\ cpc = "returned" => word \in UnsignedRange(LongValues) /\ result = FromC(sig.ret, word)

(* One more value was converted. *)
LEMMA AppendOne ==
    ASSUME NEW s, s \in Seq(Range(s)), NEW c
    PROVE  /\ Append(s, c) \in Seq(Range(Append(s, c)))
           /\ Len(Append(s, c)) = Len(s) + 1 /\ Len(s) \in Nat
           /\ Append(s, c)[Len(s) + 1] = c
           /\ \A j \in 1..Len(s) : Append(s, c)[j] = s[j]
<1>1. PICK T : T = Range(s) \cup {c}
  OBVIOUS
<1>2. s \in Seq(T)
  <2>1. Range(s) \subseteq T
    BY <1>1
  <2>. QED  BY <2>1, SeqMonotonic
<1>3. c \in T
  BY <1>1
<1>4. PICK t : t = Append(s, c)
  OBVIOUS
<1>5. /\ t \in Seq(T) /\ Len(t) = Len(s) + 1 /\ Len(s) \in Nat /\ t[Len(s) + 1] = c
      /\ \A j \in 1..Len(s) : t[j] = s[j]
  BY <1>2, <1>3, <1>4
<1>6. t \in Seq(Range(t))
  BY <1>5, SeqOfRange
<1>. QED  BY <1>4, <1>5, <1>6

LEMMA CallInvInit == CallIdle => CallInv
<1>. SUFFICES ASSUME CallIdle PROVE CallInv
  OBVIOUS
<1>1. cpc = "idle" /\ cvals = << >> /\ args = << >>
  BY DEF CallIdle
<1>2. << >> \in Seq(Range(<< >>)) /\ Len(<< >>) = 0
  BY EmptySeq
<1>3. cvals \in Seq(Range(cvals)) /\ Len(cvals) = 0 /\ Len(args) = 0
  BY <1>1, <1>2
<1>4. \A j \in 1..Len(cvals) : FALSE
  BY <1>3
<1>. QED  BY <1>1, <1>3, <1>4 DEF CallInv

LEMMA CallInvEnter ==
    ASSUME CallInv, NEW f, f.params \in Seq(Range(f.params)), NEW c, NEW a \in GivenTuples,
           Enter(f, c, a)
    PROVE  CallInv'
<1>1. cpc' = "arity" /\ sig' = f /\ given' = a /\ args' = Rewritten(a) /\ cvals' = << >>
  BY DEF Enter, CallInv, CallIdle
<1>2. << >> \in Seq(Range(<< >>)) /\ Len(<< >>) = 0
  BY EmptySeq
<1>3. cvals' \in Seq(Range(cvals')) /\ Len(cvals') = 0
  BY <1>1, <1>2
<1>4. Len(args') \in Nat
  BY <1>1, RewrittenIs
<1>5. Len(cvals') <= Len(args') /\ \A j \in 1..Len(cvals') : FALSE
  BY <1>3, <1>4
<1>. QED  BY <1>1, <1>3, <1>5 DEF CallInv

LEMMA CallInvNext ==
    ASSUME CallInv, CallNext
    PROVE  CallInv'
<1>1. cpc # "idle"
  BY DEF CallNext, CheckArity, Convert, CallC, Return
<1>2. /\ sig.params \in Seq(Range(sig.params))
      /\ given \in GivenTuples /\ args = Rewritten(given)
      /\ cvals \in Seq(Range(cvals)) /\ Len(cvals) <= Len(args)
  BY <1>1 DEF CallInv
<1>3. Len(args) \in Nat /\ Len(cvals) \in Nat
  BY <1>2, RewrittenIs
<1>4. CASE CheckArity
  BY <1>2, <1>4 DEF CallInv, CheckArity
<1>5. CASE Convert
  <2>1. /\ cpc = "convert" /\ Len(cvals) < Len(sig.params) /\ Len(args) = Len(sig.params)
        /\ UNCHANGED <<sig, given, args, result>>
    BY <1>5 DEF Convert, CallInv
  <2>2. PICK t, v : t = sig.params[Len(cvals) + 1].type /\ v = args[Len(cvals) + 1]
    OBVIOUS
  <2>3. CASE Accepts(t, v)
    <3>1. PICK c \in CValues(t, v) : cvals' = Append(cvals, c) /\ cpc' = cpc
      BY <1>5, <2>2, <2>3 DEF Convert
    <3>2. /\ cvals' \in Seq(Range(cvals')) /\ Len(cvals') = Len(cvals) + 1
          /\ cvals'[Len(cvals) + 1] = c
          /\ \A j \in 1..Len(cvals) : cvals'[j] = cvals[j]
      BY <1>2, <3>1, AppendOne
    <3>3. ASSUME NEW j \in 1..Len(cvals')
          PROVE  /\ Accepts(sig.params[j].type, args[j])
                 /\ cvals'[j] \in CValues(sig.params[j].type, args[j])
      <4>1. CASE j = Len(cvals) + 1
        BY <2>2, <2>3, <3>1, <3>2, <4>1
      <4>2. CASE j \in 1..Len(cvals)
        BY <3>2, <4>2 DEF CallInv
      <4>. QED  BY <1>3, <3>2, <4>1, <4>2
    <3>4. Len(cvals') <= Len(args)
      BY <1>3, <2>1, <3>2
    <3>. QED  BY <1>2, <2>1, <3>1, <3>2, <3>3, <3>4 DEF CallInv
  <2>4. CASE ~Accepts(t, v)
    <3>1. cpc' = "raised" /\ cvals' = cvals
      BY <1>5, <2>2, <2>4 DEF Convert
    <3>. QED  BY <1>2, <2>1, <3>1 DEF CallInv
  <2>. QED  BY <2>3, <2>4
<1>6. CASE CallC
  BY <1>2, <1>6 DEF CallInv, CallC
<1>7. CASE Return
  <2>1. word' \in UnsignedRange(LongValues) /\ result' = FromC(sig'.ret, word')
    BY <1>7 DEF Return
  <2>2. /\ cpc = "called" /\ cpc' \in {"returned", "raised"}
        /\ UNCHANGED <<sig, given, args, cvals>>
    BY <1>7 DEF Return
  <2>. QED  BY <1>2, <2>1, <2>2 DEF CallInv
<1>. QED  BY <1>4, <1>5, <1>6, <1>7 DEF CallNext

-----------------------------------------------------------------------------
(* The types have these numbers. *)
USE DEF CINPY_VOID, CINPY_INT, CINPY_UINT, CINPY_LONG, CINPY_ULONG, CINPY_LONGLONG, CINPY_FLOAT,
        CINPY_DOUBLE, CINPY_CHARPTR, CINPY_PTR, CINPY_SIZE_T, CINPY_BOOL, CINPY_UNKNOWN

(* A number that a type accepts. *)
LEMMA AcceptedNumber ==
    ASSUME NEW t \in Numeric, NEW v, v.kind = "int", Accepts(t, v)
    PROVE  /\ t \in {CINPY_LONG, CINPY_LONGLONG} => v.val \in SignedRange(LongValues)
           /\ t = CINPY_ULONG => v.val \in UnsignedRange(LongValues)
BY DEF Accepts, Numeric, Types, Floats, Words, Pointers

(* The numbers that a type's size allows. *)
Reduced(t, n) ==
    CASE t = CINPY_INT -> Signed(n, IntValues)
      [] t = CINPY_UINT -> Unsigned(n, IntValues)
      [] t \in {CINPY_LONG, CINPY_LONGLONG} -> Signed(n, LongValues)
      [] OTHER -> Unsigned(n, LongValues)

LEMMA NumberPassed ==
    ASSUME NEW t \in Numeric, NEW v, v.kind = "int"
    PROVE  CValues(t, v) = {Num(Reduced(t, v.val))}
BY DEF CValues, Reduced, Numeric, Types, Floats, Words, Pointers

LEMMA ReducedIs ==
    ASSUME NEW t \in Numeric, NEW n \in Int
    PROVE  /\ Reduced(t, n) \in RangeOf(t) /\ Reduced(t, n) \in Int
           /\ n \in RangeOf(t) => Reduced(t, n) = n
           /\ (Reduced(t, n) - n) % Modulus(t) = 0
<1>. PICK r : r = Reduced(t, n)
  OBVIOUS
<1>1. /\ IntValues \in Nat \ {0} /\ LongValues \in Nat \ {0}
      /\ IntValues % 2 = 0 /\ LongValues % 2 = 0
  BY WidthsAssumption
<1>2. CASE t = CINPY_INT
  <2>1. Reduced(t, n) = Signed(n, IntValues) /\ RangeOf(t) = SignedRange(IntValues) /\ Modulus(t) = IntValues
    BY <1>2 DEF Reduced, RangeOf, Modulus
  <2>2. /\ Signed(n, IntValues) \in SignedRange(IntValues)
        /\ n \in SignedRange(IntValues) => Signed(n, IntValues) = n
        /\ (Signed(n, IntValues) - n) % IntValues = 0
    BY <1>1, SignedIs
  <2>3. Signed(n, IntValues) \in Int
    BY <1>1, <2>2 DEF SignedRange
  <2>. QED  BY <2>1, <2>2, <2>3
<1>3. CASE t = CINPY_UINT
  <2>1. Reduced(t, n) = Unsigned(n, IntValues) /\ RangeOf(t) = UnsignedRange(IntValues) /\ Modulus(t) = IntValues
    BY <1>3 DEF Reduced, RangeOf, Modulus
  <2>2. /\ Unsigned(n, IntValues) \in UnsignedRange(IntValues)
        /\ n \in UnsignedRange(IntValues) => Unsigned(n, IntValues) = n
        /\ (Unsigned(n, IntValues) - n) % IntValues = 0
    BY <1>1, UnsignedIs
  <2>3. Unsigned(n, IntValues) \in Int
    BY <1>1, <2>2 DEF UnsignedRange
  <2>. QED  BY <2>1, <2>2, <2>3
<1>4. CASE t \in {CINPY_LONG, CINPY_LONGLONG}
  <2>1. Reduced(t, n) = Signed(n, LongValues) /\ RangeOf(t) = SignedRange(LongValues) /\ Modulus(t) = LongValues
    BY <1>4 DEF Reduced, RangeOf, Modulus
  <2>2. /\ Signed(n, LongValues) \in SignedRange(LongValues)
        /\ n \in SignedRange(LongValues) => Signed(n, LongValues) = n
        /\ (Signed(n, LongValues) - n) % LongValues = 0
    BY <1>1, SignedIs
  <2>3. Signed(n, LongValues) \in Int
    BY <1>1, <2>2 DEF SignedRange
  <2>. QED  BY <2>1, <2>2, <2>3
<1>5. CASE t \in Words
  <2>1. Reduced(t, n) = Unsigned(n, LongValues) /\ RangeOf(t) = UnsignedRange(LongValues) /\ Modulus(t) = LongValues
    BY <1>5 DEF Reduced, RangeOf, Modulus, Words
  <2>2. /\ Unsigned(n, LongValues) \in UnsignedRange(LongValues)
        /\ n \in UnsignedRange(LongValues) => Unsigned(n, LongValues) = n
        /\ (Unsigned(n, LongValues) - n) % LongValues = 0
    BY <1>1, UnsignedIs
  <2>3. Unsigned(n, LongValues) \in Int
    BY <1>1, <2>2 DEF UnsignedRange
  <2>. QED  BY <2>1, <2>2, <2>3
<1>. QED  BY <1>2, <1>3, <1>4, <1>5 DEF Numeric, Types, Words, Floats

LEMMA NumbersArriveHolds == CallInv => NumbersArrive
<1>. SUFFICES ASSUME CallInv, cpc = "called", NEW j \in DOMAIN cvals
              PROVE  LET t == sig.params[j].type
                         v == args[j]
                         c == cvals[j]
                     IN  t \in Numeric /\ v.kind = "int" =>
                            /\ c.val \in RangeOf(t)
                            /\ v.val \in RangeOf(t) \/ t \in {CINPY_LONG, CINPY_ULONG, CINPY_LONGLONG} => c = v
                            /\ (c.val - v.val) % Modulus(t) = 0
  BY DEF NumbersArrive
<1>1. /\ given \in GivenTuples /\ args = Rewritten(given)
      /\ cvals \in Seq(Range(cvals)) /\ Len(cvals) = Len(args)
  BY DEF CallInv
<1>2. j \in 1..Len(cvals)
  BY <1>1
<1>3. PICK t, v, c : t = sig.params[j].type /\ v = args[j] /\ c = cvals[j]
  OBVIOUS
<1>4. Accepts(t, v) /\ c \in CValues(t, v)
  BY <1>2, <1>3 DEF CallInv
<1>5. ArgIs(v)
  BY <1>1, <1>2, <1>3, RewrittenIs
<1>6. ASSUME t \in Numeric, v.kind = "int"
      PROVE  /\ c.val \in RangeOf(t)
             /\ v.val \in RangeOf(t) \/ t \in {CINPY_LONG, CINPY_ULONG, CINPY_LONGLONG} => c = v
             /\ (c.val - v.val) % Modulus(t) = 0
  <2>2. /\ v.val \in Int /\ v = Num(v.val)
        /\ t \in {CINPY_LONG, CINPY_LONGLONG} => v.val \in SignedRange(LongValues)
        /\ t = CINPY_ULONG => v.val \in UnsignedRange(LongValues)
    BY <1>4, <1>5, <1>6, NumberIs, AcceptedNumber
  <2>3. c = Num(Reduced(t, v.val)) /\ c.val = Reduced(t, v.val)
    BY <1>4, <1>6, NumberPassed DEF Num
  <2>4. /\ Reduced(t, v.val) \in RangeOf(t)
        /\ v.val \in RangeOf(t) => Reduced(t, v.val) = v.val
        /\ (Reduced(t, v.val) - v.val) % Modulus(t) = 0
    BY <1>6, <2>2, ReducedIs
  <2>5. t \in {CINPY_LONG, CINPY_ULONG, CINPY_LONGLONG} => v.val \in RangeOf(t)
    BY <2>2 DEF RangeOf
  <2>. QED  BY <2>2, <2>3, <2>4, <2>5
<1>. QED  BY <1>3, <1>6

-----------------------------------------------------------------------------
(* The C function's own types. *)

(* What a kind is taken for, if it takes any argument.                     *)
LEMMA KindIs ==
    ASSUME NEW k \in IntegerKinds, NEW t, t = MapTypeKind(k), NEW v, Accepts(t, v)
    PROVE  /\ k = BoolKind => t = CINPY_BOOL
           /\ k # BoolKind =>
                /\ t \in Numeric \ {CINPY_CHARPTR}
                /\ Modulus(t) \in {IntValues, LongValues} /\ Modulus(t) % CWidth(k) = 0
                /\ Modulus(t) = CWidth(k) =>
                     t \in {CINPY_LONG, CINPY_LONGLONG} \/ RangeOf(t) = CRange(k)
<1>1. k \in {3, 4, 5, 6, 7, 8, 9, 10, 11, 13, 14, 101} \/ t = CINPY_UNKNOWN
  BY DEF MapTypeKind, IntegerKinds, ByteKinds, ShortKinds, IntKinds, LongKinds
<1>2. t # CINPY_UNKNOWN
  BY DEF Accepts, Types, Floats, Words, Pointers
<1>3. /\ \A n \in {ByteValues, ShortValues, IntValues, LongValues} :
           n \in Nat \ {0} /\ LongValues % n = 0
      /\ \A n \in {ByteValues, ShortValues, IntValues} : IntValues % n = 0
      /\ ByteValues # IntValues /\ ShortValues # IntValues
      /\ ByteValues # LongValues /\ ShortValues # LongValues /\ IntValues # LongValues
  BY WidthsAre
<1>4. CASE k = 3
  BY <1>4 DEF MapTypeKind, BoolKind
<1>5. CASE k \in {4, 5, 6}
  <2>1. t = CINPY_INT
    BY <1>5 DEF MapTypeKind
  <2>2. CWidth(k) \in {ByteValues, ShortValues}
    BY <1>5 DEF CWidth, ByteKinds, ShortKinds, IntKinds
  <2>3. Modulus(t) = IntValues /\ t \in Numeric \ {CINPY_CHARPTR}
    BY <2>1 DEF Modulus, Numeric, Types, Floats, Words, Pointers
  <2>4. k # BoolKind
    BY <1>5 DEF BoolKind
  <2>. QED  BY <1>3, <2>2, <2>3, <2>4
<1>6. CASE k \in {7, 8}
  <2>1. t = CINPY_UINT
    BY <1>6 DEF MapTypeKind
  <2>2. Modulus(t) = IntValues /\ RangeOf(t) = UnsignedRange(IntValues) /\ t \in Numeric \ {CINPY_CHARPTR}
    BY <2>1 DEF Modulus, RangeOf, Numeric, Types, Floats, Words, Pointers
  <2>3. /\ k = 7 => CWidth(k) = IntValues
        /\ k = 8 => CWidth(k) = ShortValues
    BY DEF CWidth, ByteKinds, ShortKinds, IntKinds
  <2>4. CRange(k) = UnsignedRange(CWidth(k)) /\ k # BoolKind
    BY <1>6 DEF CRange, BoolKind, SignedKinds
  <2>. QED  BY <1>3, <1>6, <2>2, <2>3, <2>4
<1>7. CASE k \in {9, 10}
  <2>1. t = CINPY_LONG
    BY <1>7 DEF MapTypeKind
  <2>2. CWidth(k) \in {IntValues, LongValues}
    BY <1>7 DEF CWidth, ByteKinds, ShortKinds, IntKinds, LongKinds
  <2>3. Modulus(t) = LongValues /\ t \in Numeric \ {CINPY_CHARPTR}
    BY <2>1 DEF Modulus, Numeric, Types, Floats, Words, Pointers
  <2>4. k # BoolKind
    BY <1>7 DEF BoolKind
  <2>. QED  BY <1>3, <2>1, <2>2, <2>3, <2>4
<1>8. CASE k \in {11, 101}
  <2>1. t \in {CINPY_ULONG, CINPY_PTR}
    BY <1>8 DEF MapTypeKind
  <2>2. Modulus(t) = LongValues /\ RangeOf(t) = UnsignedRange(LongValues) /\ t \in Numeric \ {CINPY_CHARPTR}
    BY <2>1 DEF Modulus, RangeOf, Numeric, Types, Floats, Words, Pointers
  <2>3. CWidth(k) = LongValues
    BY <1>8 DEF CWidth, ByteKinds, ShortKinds, IntKinds
  <2>4. CRange(k) = UnsignedRange(CWidth(k)) /\ k # BoolKind
    BY <1>8 DEF CRange, BoolKind, SignedKinds
  <2>. QED  BY <1>3, <2>2, <2>3, <2>4
<1>9. CASE k \in {13, 14}
  <2>1. t = CINPY_LONGLONG
    BY <1>9 DEF MapTypeKind
  <2>2. CWidth(k) = ByteValues
    BY <1>9 DEF CWidth, ByteKinds, ShortKinds, IntKinds
  <2>3. Modulus(t) = LongValues /\ t \in Numeric \ {CINPY_CHARPTR}
    BY <2>1 DEF Modulus, Numeric, Types, Floats, Words, Pointers
  <2>4. k # BoolKind
    BY <1>9 DEF BoolKind
  <2>. QED  BY <1>3, <2>1, <2>2, <2>3, <2>4
<1>. QED  BY <1>1, <1>2, <1>4, <1>5, <1>6, <1>7, <1>8, <1>9

LEMMA KindWidth ==
    ASSUME NEW k \in IntegerKinds
    PROVE  /\ CWidth(k) \in Nat \ {0} /\ CWidth(k) % 2 = 0 /\ LongValues % CWidth(k) = 0
           /\ k = BoolKind => CWidth(k) = ByteValues /\ k \notin SignedKinds
<1>1. CWidth(k) \in {ByteValues, ShortValues, IntValues, LongValues}
  BY DEF CWidth
<1>2. k = BoolKind => CWidth(k) = ByteValues /\ k \notin SignedKinds
  BY DEF CWidth, BoolKind, ByteKinds, ShortKinds, IntKinds, SignedKinds
<1>3. PICK W : W = CWidth(k)
  OBVIOUS
<1>4. W \in Nat \ {0} /\ W % 2 = 0 /\ LongValues % W = 0
  BY <1>1, <1>3, WidthsAre
<1>. QED  BY <1>2, <1>3, <1>4

(* A remainder determines the number of a range that has it.               *)
LEMMA SignedBack ==
    ASSUME NEW M \in Nat \ {0}, M % 2 = 0, NEW n \in SignedRange(M), NEW w \in Int, w % M = n % M
    PROVE  Signed(w, M) = n
<1>1. n \in Int
  BY DEF SignedRange
<1>2. Signed(w, M) = Signed(n, M)
  BY DEF Signed
<1>. QED  BY <1>1, <1>2, SignedIs

LEMMA UnsignedBack ==
    ASSUME NEW M \in Nat \ {0}, NEW n \in UnsignedRange(M), NEW w \in Int, w % M = n % M
    PROVE  Unsigned(w, M) = n
<1>1. n \in Int
  BY DEF UnsignedRange
<1>2. Unsigned(w, M) = Unsigned(n, M)
  BY DEF Unsigned
<1>. QED  BY <1>1, <1>2, UnsignedIs

LEMMA ReducedBack ==
    ASSUME NEW t \in Numeric, NEW n \in RangeOf(t), NEW w \in Int,
           w % Modulus(t) = n % Modulus(t)
    PROVE  Reduced(t, w) = n
<1>1. /\ IntValues \in Nat \ {0} /\ LongValues \in Nat \ {0}
      /\ IntValues % 2 = 0 /\ LongValues % 2 = 0
  BY WidthsAre
<1>2. CASE t = CINPY_INT
  <2>1. Reduced(t, w) = Signed(w, IntValues) /\ RangeOf(t) = SignedRange(IntValues) /\ Modulus(t) = IntValues
    BY <1>2 DEF Reduced, RangeOf, Modulus
  <2>. QED  BY <1>1, <2>1, SignedBack
<1>3. CASE t = CINPY_UINT
  <2>1. Reduced(t, w) = Unsigned(w, IntValues) /\ RangeOf(t) = UnsignedRange(IntValues) /\ Modulus(t) = IntValues
    BY <1>3 DEF Reduced, RangeOf, Modulus
  <2>. QED  BY <1>1, <2>1, UnsignedBack
<1>4. CASE t \in {CINPY_LONG, CINPY_LONGLONG}
  <2>1. Reduced(t, w) = Signed(w, LongValues) /\ RangeOf(t) = SignedRange(LongValues) /\ Modulus(t) = LongValues
    BY <1>4 DEF Reduced, RangeOf, Modulus
  <2>. QED  BY <1>1, <2>1, SignedBack
<1>5. CASE t \in Words
  <2>1. Reduced(t, w) = Unsigned(w, LongValues) /\ RangeOf(t) = UnsignedRange(LongValues) /\ Modulus(t) = LongValues
    BY <1>5 DEF Reduced, RangeOf, Modulus, Words
  <2>. QED  BY <1>1, <2>1, UnsignedBack
<1>. QED  BY <1>2, <1>3, <1>4, <1>5 DEF Numeric, Types, Words, Floats

LEMMA ReadsIs ==
    ASSUME NEW k \in IntegerKinds, NEW n \in CRange(k), NEW w \in Int,
           w % CWidth(k) = n % CWidth(k)
    PROVE  CReads(k, w) = n
<1>1. CWidth(k) \in Nat \ {0} /\ CWidth(k) % 2 = 0
  BY KindWidth
<1>2. CASE k \in SignedKinds
  <2>1. CRange(k) = SignedRange(CWidth(k))
    BY <1>2 DEF CRange, SignedKinds, BoolKind
  <2>2. Signed(w, CWidth(k)) = n
    BY <1>1, <2>1, SignedBack
  <2>. QED  BY <1>2, <2>2 DEF CReads
<1>3. CASE k \notin SignedKinds
  <2>1. n \in UnsignedRange(CWidth(k))
    BY <1>1, <1>3 DEF CRange, UnsignedRange
  <2>2. Unsigned(w, CWidth(k)) = n
    BY <1>1, <2>1, UnsignedBack
  <2>. QED  BY <1>3, <2>2 DEF CReads
<1>. QED  BY <1>2, <1>3

LEMMA ReadsCongruent ==
    ASSUME NEW k \in IntegerKinds, NEW w \in Int
    PROVE  CReads(k, w) \in Int /\ CReads(k, w) % CWidth(k) = w % CWidth(k)
<1>1. PICK W : W = CWidth(k)
  OBVIOUS
<1>2. W \in Nat \ {0} /\ W % 2 = 0
  BY <1>1, KindWidth
<1>3. CASE k \in SignedKinds
  <2>1. Signed(w, W) \in SignedRange(W) /\ (Signed(w, W) - w) % W = 0
    BY <1>2, SignedIs
  <2>2. Signed(w, W) \in Int
    BY <2>1 DEF SignedRange
  <2>3. Signed(w, W) % W = w % W
    BY <1>2, <2>1, <2>2, Congruent
  <2>. QED  BY <1>1, <1>3, <2>2, <2>3 DEF CReads
<1>4. CASE k \notin SignedKinds
  <2>1. Unsigned(w, W) \in UnsignedRange(W) /\ (Unsigned(w, W) - w) % W = 0
    BY <1>2, UnsignedIs
  <2>2. Unsigned(w, W) \in Int
    BY <2>1 DEF UnsignedRange
  <2>3. Unsigned(w, W) % W = w % W
    BY <1>2, <2>1, <2>2, Congruent
  <2>. QED  BY <1>1, <1>4, <2>2, <2>3 DEF CReads
<1>. QED  BY <1>3, <1>4

(* What is passed for a number differs from it by a multiple of the C      *)
(* type's width.                                                           *)
LEMMA PassedCongruent ==
    ASSUME NEW k \in IntegerKinds, NEW t, t = MapTypeKind(k), NEW v, ArgIs(v), v.kind = "int",
           v.val \in CRange(k) \/ k # BoolKind,
           Accepts(t, v), NEW c \in CValues(t, v)
    PROVE  c.val \in Int /\ c.val % CWidth(k) = v.val % CWidth(k)
<1>1. v.val \in Int /\ v = Num(v.val)
  BY NumberIs
<1>2. CWidth(k) \in Nat \ {0}
  BY KindWidth
<1>3. CASE k = BoolKind
  <2>1. v.val \in {0, 1} /\ t = CINPY_BOOL
    <3>1. CRange(k) = {0, 1}
      BY <1>3 DEF CRange, BoolKind, SignedKinds
    <3>. QED  BY <1>3, <3>1, KindIs
  <2>2. CValues(t, v) = {Num(IF b THEN 1 ELSE 0) : b \in Truths(v)}
    BY <2>1 DEF CValues, Types, Floats, Words, Pointers
  <2>3. Truths(v) = {v.val # 0}
    BY DEF Truths
  <2>4. c = Num(IF v.val # 0 THEN 1 ELSE 0)
    BY <2>2, <2>3
  <2>5. c.val = v.val
    BY <2>1, <2>4 DEF Num
  <2>. QED  BY <1>1, <2>5
<1>4. CASE k # BoolKind
  <2>1. /\ t \in Numeric /\ Modulus(t) \in {IntValues, LongValues}
        /\ Modulus(t) % CWidth(k) = 0
    BY <1>4, KindIs
  <2>2. c.val = Reduced(t, v.val)
    BY <2>1, NumberPassed DEF Num
  <2>3. c.val \in Int /\ (c.val - v.val) % Modulus(t) = 0
    BY <1>1, <2>1, <2>2, ReducedIs
  <2>4. Modulus(t) \in Nat \ {0}
    BY <2>1, WidthsAre
  <2>5. c.val - v.val \in Int
    BY <1>1, <2>3
  <2>6. (c.val - v.val) % CWidth(k) = 0
    BY <1>2, <2>1, <2>3, <2>4, <2>5, MultipleDivides
  <2>. QED  BY <1>1, <1>2, <2>3, <2>6, Congruent
<1>. QED  BY <1>3, <1>4

LEMMA SeqDomain ==
    ASSUME NEW s, s \in Seq(Range(s))
    PROVE  DOMAIN s = 1..Len(s) /\ Len(s) \in Nat /\ (s # << >> => 1 \in DOMAIN s)
<1>1. PICK T : T = Range(s)
  OBVIOUS
<1>2. s \in Seq(T)
  BY <1>1
<1>3. DOMAIN s = 1..Len(s) /\ Len(s) \in Nat /\ (s # << >> => Len(s) # 0)
  BY <1>2
<1>. QED  BY <1>3

LEMMA CalleeReadsGivenHolds == CallInv => CalleeReadsGiven
<1>. SUFFICES ASSUME CallInv, cpc = "called", Agrees, NEW j \in DOMAIN cvals,
                     NEW k, k = callee.params[j].kind, NEW v, v = args[j],
                     k \in IntegerKinds, v.kind = "int", v.val \in CRange(k)
              PROVE  CReads(k, cvals[j].val) = v.val
  BY DEF CalleeReadsGiven
<1>1. /\ given \in GivenTuples /\ args = Rewritten(given)
      /\ sig.params \in Seq(Range(sig.params)) /\ Len(cvals) = Len(sig.params)
      /\ cvals \in Seq(Range(cvals)) /\ Len(cvals) = Len(args)
  BY DEF CallInv
<1>2. j \in 1..Len(cvals) /\ j \in DOMAIN sig.params
  BY <1>1, SeqDomain
<1>3. PICK t, c : t = sig.params[j].type /\ c = cvals[j]
  OBVIOUS
<1>4. Accepts(t, v) /\ c \in CValues(t, v)
  BY <1>2, <1>3 DEF CallInv
<1>5. t = MapTypeKind(k)
  BY <1>2, <1>3 DEF Agrees
<1>6. ArgIs(v)
  BY <1>1, <1>2, RewrittenIs
<1>7. c.val \in Int /\ c.val % CWidth(k) = v.val % CWidth(k)
  BY <1>4, <1>5, <1>6, PassedCongruent
<1>8. CReads(k, c.val) = v.val
  BY <1>7, ReadsIs
<1>. QED  BY <1>3, <1>8

(* What comes back is congruent to the word that was returned. *)
LEMMA NumberReadBack ==
    ASSUME NEW t \in Numeric, t # CINPY_CHARPTR, NEW w
    PROVE  FromC(t, w) = Num(Reduced(t, w))
BY DEF FromC, Reduced, Numeric, Types, Floats, Words, Pointers

LEMMA EchoComesBackHolds == CallInv => EchoComesBack
<1>. SUFFICES ASSUME CallInv, cpc = "returned", Agrees, Echoed,
                     NEW k, k = callee.ret, NEW n, n = args[1].val
              PROVE  /\ n \in CRange(k) /\ Modulus(sig.ret) = CWidth(k) => result = Num(n)
                     /\ k # BoolKind => (result.val - n) % CWidth(k) = 0
  BY DEF EchoComesBack
<1>1. /\ given \in GivenTuples /\ args = Rewritten(given)
      /\ sig.params \in Seq(Range(sig.params)) /\ Len(cvals) = Len(sig.params)
      /\ cvals \in Seq(Range(cvals)) /\ Len(cvals) = Len(args)
      /\ word \in UnsignedRange(LongValues) /\ result = FromC(sig.ret, word)
  BY DEF CallInv
<1>2. /\ cvals # << >> /\ args[1].kind = "int" /\ k \in IntegerKinds /\ callee.params[1].kind = k
      /\ word \in CReturns(k, CReads(k, cvals[1].val))
  BY DEF Echoed
<1>3. 1 \in 1..Len(cvals) /\ 1 \in DOMAIN sig.params
  BY <1>1, <1>2, SeqDomain
<1>4. PICK t, v, c, W : t = sig.params[1].type /\ v = args[1] /\ c = cvals[1] /\ W = CWidth(k)
  OBVIOUS
<1>5. Accepts(t, v) /\ c \in CValues(t, v)
  BY <1>3, <1>4 DEF CallInv
<1>6. t = MapTypeKind(k) /\ sig.ret = t
  BY <1>2, <1>3, <1>4 DEF Agrees
<1>7. ArgIs(v) /\ v.kind = "int" /\ v.val = n
  BY <1>1, <1>2, <1>3, <1>4, RewrittenIs
<1>8. n \in Int /\ word \in Int /\ W \in Nat \ {0}
  <2>1. LongValues \in Nat \ {0}
    BY WidthsAre
  <2>. QED  BY <1>1, <1>2, <1>4, <1>7, <2>1, NumberIs, KindWidth DEF UnsignedRange
<1>9. ASSUME n \in CRange(k) \/ k # BoolKind PROVE word % W = n % W
  <2>1. c.val \in Int /\ c.val % W = n % W
    BY <1>2, <1>4, <1>5, <1>6, <1>7, <1>9, PassedCongruent
  <2>2. CReads(k, c.val) \in Int /\ CReads(k, c.val) % W = c.val % W
    BY <1>2, <1>4, <2>1, ReadsCongruent
  <2>3. word % W = CReads(k, c.val) % W
    BY <1>2, <1>4 DEF CReturns, Unsigned
  <2>. QED  BY <2>1, <2>2, <2>3
<1>10. CASE k = BoolKind
  <2>1. t = CINPY_BOOL /\ W = ByteValues
    BY <1>2, <1>4, <1>5, <1>6, <1>10, KindIs, KindWidth
  <2>2. ASSUME n \in CRange(k) PROVE result = Num(n)
    <3>1. n \in {0, 1}
      BY <1>10, <2>2 DEF CRange, BoolKind, SignedKinds
    <3>2. n \in UnsignedRange(ByteValues)
      <4>1. ByteValues \in Nat \ {0} /\ ByteValues % 2 = 0
        BY WidthsAre
      <4>. QED  BY <3>1, <4>1 DEF UnsignedRange
    <3>3. Unsigned(word, ByteValues) = n
      BY <1>8, <1>9, <2>1, <2>2, <3>2, UnsignedBack
    <3>4. FromC(t, word) = Num(IF n # 0 THEN 1 ELSE 0)
      BY <2>1, <3>3 DEF FromC, Types, Floats, Words, Pointers
    <3>. QED  BY <1>1, <1>6, <3>1, <3>4
  <2>. QED  BY <1>10, <2>2
<1>11. CASE k # BoolKind
  <2>1. /\ t \in Numeric /\ t # CINPY_CHARPTR
        /\ Modulus(t) \in {IntValues, LongValues} /\ Modulus(t) % W = 0
        /\ Modulus(t) = W => t \in {CINPY_LONG, CINPY_LONGLONG} \/ RangeOf(t) = CRange(k)
    BY <1>2, <1>4, <1>5, <1>6, <1>11, KindIs
  <2>2. result = Num(Reduced(t, word))
    BY <1>1, <1>6, <2>1, NumberReadBack
  <2>3. word % W = n % W
    BY <1>9, <1>11
  <2>4. ASSUME n \in CRange(k), Modulus(t) = W PROVE result = Num(n)
    <3>1. t \in {CINPY_LONG, CINPY_LONGLONG} => n \in SignedRange(LongValues)
      BY <1>5, <1>7, <2>1, AcceptedNumber
    <3>2. t \in {CINPY_LONG, CINPY_LONGLONG} => RangeOf(t) = SignedRange(LongValues)
      BY DEF RangeOf
    <3>3. n \in RangeOf(t)
      BY <2>1, <2>4, <3>1, <3>2
    <3>4. Reduced(t, word) = n
      BY <1>8, <2>1, <2>3, <2>4, <3>3, ReducedBack
    <3>. QED  BY <2>2, <3>4
  <2>5. (result.val - n) % W = 0
    <3>1. PICK r : r = Reduced(t, word)
      OBVIOUS
    <3>2. result.val = r
      BY <2>2, <3>1 DEF Num
    <3>3. r \in Int /\ (r - word) % Modulus(t) = 0
      BY <1>8, <2>1, <3>1, ReducedIs
    <3>4. Modulus(t) \in Nat \ {0} /\ r - word \in Int
      BY <1>8, <2>1, <3>3, WidthsAre
    <3>5. (r - word) % W = 0
      BY <1>8, <2>1, <3>3, <3>4, MultipleDivides
    <3>6. r % W = n % W
      BY <1>8, <2>3, <3>3, <3>5, Congruent
    <3>7. (r - n) % W = 0
      BY <1>8, <3>3, <3>6, CongruentBack
    <3>. QED  BY <3>2, <3>7
  <2>. QED  BY <1>4, <1>6, <2>4, <2>5
<1>. QED  BY <1>10, <1>11

-----------------------------------------------------------------------------
(* The conversions of a format. *)

(* The C string of a text is its beginning.                                *)
LEMMA CTextIs ==
    ASSUME NEW T, NEW t \in Seq(T)
    PROVE  \E m \in 0..Len(t) : /\ CText(t) = SubSeq(t, 1, m)
                                /\ DOMAIN CText(t) = 1..m
                                /\ \A i \in 1..m : CText(t)[i] = t[i]
<1>1. PICK P : P = {i \in DOMAIN t : \A h \in 1..i : t[h] # NulChar}
  OBVIOUS
<1>2. P \in SUBSET DOMAIN t
  BY <1>1
<1>3. PICK m : m = Cardinality(P)
  OBVIOUS
<1>4. m \in 0..Len(t)
  BY <1>2, <1>3, PositionsFinite
<1>5. CText(t) = SubSeq(t, 1, m)
  BY <1>1, <1>3 DEF CText
<1>. QED  BY <1>4, <1>5

(* Those of a rewritten format are its own and one for each field. *)
LEMMA FormatTextIs ==
    ASSUME NEW t \in Seq(Tokens)
    PROVE  /\ FormatText(t) \in Seq(Tokens) /\ Len(FormatText(t)) = Len(t)
           /\ Conversions(FormatText(t)) = Fields(t) \cup Conversions(t)
           /\ Fields(t) \cap Conversions(t) = {}
<1>1. PICK n, f : n = Len(t) /\ f = FormatText(t)
  OBVIOUS
<1>2. n \in Nat /\ DOMAIN t = 1..n /\ \A i \in 1..n : t[i] \in Tokens
  BY <1>1
<1>3. f = [i \in 1..n |-> IF t[i] = Field THEN PercentS ELSE t[i]]
  BY <1>1, <1>2 DEF FormatText
<1>4. PercentS \in Tokens
  BY DEF Tokens
<1>5. f \in [1..n -> Tokens]
  BY <1>2, <1>3, <1>4
<1>6. f \in Seq(Tokens) /\ Len(f) = n
  BY <1>2, <1>5
<1>7. Field # PercentS /\ Field # Percent
  <2>1. Field.is # PercentS.is /\ Field.is # Percent.is
    BY DEF Field, PercentS, Percent
  <2>. QED  BY <2>1
<1>8. Conversions(f) = Fields(t) \cup Conversions(t)
  BY <1>2, <1>3, <1>7 DEF Conversions, Fields
<1>9. Fields(t) \cap Conversions(t) = {}
  BY <1>7 DEF Conversions, Fields
<1>. QED  BY <1>1, <1>6, <1>8, <1>9

LEMMA StringPassed ==
    ASSUME NEW t, NEW v, Accepts(t, v), v.kind = "str", NEW c \in CValues(t, v), c.kind = "str"
    PROVE  c = CString(v)
<1>1. CASE t = CINPY_BOOL
  <2>1. CValues(t, v) = {Num(IF b THEN 1 ELSE 0) : b \in Truths(v)}
    BY <1>1 DEF CValues, Types, Floats, Words, Pointers
  <2>2. c.kind = "int"
    BY <2>1 DEF Num
  <2>. QED  BY <2>2
<1>2. CASE t # CINPY_BOOL
  <2>1. t \in Pointers
    BY <1>2 DEF Accepts, Types, Floats, Words, Pointers
  <2>. QED  BY <2>1 DEF CValues, Types, Floats, Words, Pointers
<1>. QED  BY <1>1, <1>2

LEMMA PointerPassed ==
    ASSUME NEW t \in Pointers, NEW v, v.kind = "str", NEW c \in CValues(t, v)
    PROVE  c = CString(v)
BY DEF CValues, Types, Floats, Words, Pointers

LEMMA ConversionsGetTheirsHolds == CallInv => ConversionsGetTheirs
<1>. SUFFICES ASSUME CallInv, cpc = "called", IsFormat(given), FieldsFirst(given[1].text),
                     cvals[1].kind = "str",
                     NEW Q, NEW i \in Conversions(cvals[1].text),
                     Q = {h \in Conversions(cvals[1].text) : h <= i},
                     NEW n, n = 1 + Cardinality(Q)
              PROVE  IF given[1].text[i] = Field
                     THEN sig.params[n].type \in Pointers =>
                            cvals[n] = CString(IF n <= Len(given) THEN PyStr(given[n]) ELSE Text(<<Field>>))
                     ELSE n <= Len(args) => args[n] = given[n]
  BY DEF ConversionsGetTheirs
<1>1. /\ given \in GivenTuples /\ args = Rewritten(given) /\ Len(given) \in Nat
      /\ cvals \in Seq(Range(cvals)) /\ Len(cvals) = Len(args)
  BY GivenAssumption DEF CallInv
<1>2. PICK g : g = given[1].text
  OBVIOUS
<1>3. PICK k \in Nat : k = Cardinality(Fields(g))
  BY <1>1, <1>2, FormatIs
<1>4. g \in Seq(Tokens)
  BY <1>1, <1>2, FormatIs
<1>5. /\ Len(args) \in Nat /\ Len(args) >= k + 1 /\ args[1] = Text(FormatText(g))
      /\ \A j \in 1..k : args[j + 1] = FieldValue(given, j)
      /\ \A j \in k + 2..Len(args) : args[j] = given[j]
  <2>1. PICK t : t = Rewritten(given)
    OBVIOUS
  <2>2. /\ Len(t) \in Nat /\ Len(t) >= k + 1 /\ t[1] = Text(FormatText(given[1].text))
        /\ \A j \in 1..k : t[j + 1] = FieldValue(given, j)
        /\ \A j \in k + 2..Len(t) : t[j] = given[j]
    BY <1>1, <1>2, <1>3, <2>1, FormatRewritten
  <2>. QED  BY <1>1, <1>2, <2>1, <2>2
<1>6. \A j \in 1..Len(cvals) : Accepts(sig.params[j].type, args[j])
                               /\ cvals[j] \in CValues(sig.params[j].type, args[j])
  BY DEF CallInv
<1>7. PICK f : f = FormatText(g)
  OBVIOUS
<1>8. /\ f \in Seq(Tokens) /\ Len(f) = Len(g) /\ Conversions(f) = Fields(g) \cup Conversions(g)
      /\ Fields(g) \cap Conversions(g) = {}
  BY <1>4, <1>7, FormatTextIs
<1>9. cvals[1].text = CText(f)
  <2>1. 1 \in 1..Len(cvals) /\ args[1].kind = "str" /\ args[1].text = f
    BY <1>1, <1>5, <1>7, TextIs
  <2>2. cvals[1] = CString(args[1])
    BY <1>6, <2>1, StringPassed
  <2>. QED  BY <2>1, <2>2 DEF CString
<1>10. PICK m \in 0..Len(f) : DOMAIN CText(f) = 1..m /\ \A h \in 1..m : CText(f)[h] = f[h]
  BY <1>8, CTextIs
<1>11. DOMAIN f = 1..Len(f) /\ Len(f) \in Nat /\ DOMAIN g = 1..Len(f)
  BY <1>4, <1>8
<1>12. \A h : h \in Conversions(CText(f)) <=> h \in Conversions(f) /\ h \in 1..m
  BY <1>10, <1>11 DEF Conversions
<1>13. i \in Conversions(f) /\ i \in 1..m
  BY <1>9, <1>12
<1>14. Q = {h \in Conversions(f) : h <= i}
  <2>1. \A h \in Conversions(f) : h \in 1..Len(f)
    BY <1>11 DEF Conversions
  <2>2. \A h \in Conversions(f) : h <= i => h \in 1..m
    BY <1>10, <1>11, <1>13, <2>1
  <2>. QED  BY <1>9, <1>12, <2>2
<1>15. Fields(g) \in SUBSET DOMAIN g /\ Q \in SUBSET DOMAIN g /\ i \in Q /\ i \in Int
  <2>1. Fields(g) \in SUBSET DOMAIN g
    BY DEF Fields
  <2>2. Conversions(f) \in SUBSET DOMAIN g
    BY <1>11 DEF Conversions
  <2>. QED  BY <1>13, <1>14, <2>1, <2>2
<1>16. /\ IsFiniteSet(Fields(g))
       /\ IsFiniteSet(Q) /\ Cardinality(Q) \in Nat
  BY <1>4, <1>15, PositionsFinite
<1>17. CASE g[i] = Field
  <2>1. i \in Fields(g)
    BY <1>15, <1>17 DEF Fields
  <2>2. Q \in SUBSET Fields(g)
    <3>1. ASSUME NEW h \in Q, h \in Conversions(g) PROVE FALSE
      <4>1. i < h /\ h <= i /\ h \in Int
        BY <1>2, <1>11, <1>14, <1>15, <2>1, <3>1 DEF FieldsFirst
      <4>. QED  BY <1>15, <4>1
    <3>. QED  BY <1>8, <1>14, <3>1
  <2>3. Cardinality(Q) <= k /\ Cardinality(Q) # 0
    BY <1>3, <1>15, <1>16, <2>2, FS_Subset, FS_EmptySet
  <2>4. PICK j \in 1..k : n = j + 1
    BY <1>3, <1>16, <2>3
  <2>5. n \in 1..Len(cvals) /\ args[n] = FieldValue(given, j)
    BY <1>1, <1>5, <2>4
  <2>6. args[n].kind = "str"
    <3>1. j \in Nat \ {0}
      OBVIOUS
    <3>. QED  BY <1>1, <2>5, <3>1, FieldValueIs
  <2>7. FieldValue(given, j) = IF n <= Len(given) THEN PyStr(given[n]) ELSE Text(<<Field>>)
    <3>1. j < Len(given) <=> n <= Len(given)
      BY <1>1, <2>4
    <3>. QED  BY <2>4, <3>1 DEF FieldValue
  <2>8. ASSUME sig.params[n].type \in Pointers
        PROVE  cvals[n] = CString(args[n])
    BY <1>6, <2>5, <2>6, <2>8, PointerPassed
  <2>. QED  BY <1>2, <1>17, <2>5, <2>7, <2>8
<1>18. CASE g[i] # Field
  <2>1. i \in Conversions(g) /\ i \notin Fields(g)
    BY <1>8, <1>13, <1>18 DEF Fields
  <2>2. Fields(g) \cup {i} \in SUBSET Q
    <3>1. ASSUME NEW h \in Fields(g) PROVE h \in Q
      <4>1. h < i /\ h \in Int
        BY <1>2, <1>11, <1>15, <2>1 DEF FieldsFirst
      <4>. QED  BY <1>8, <1>14, <1>15, <4>1
    <3>. QED  BY <1>15, <3>1
  <2>3. Cardinality(Fields(g) \cup {i}) = k + 1
    BY <1>3, <1>16, <2>1, FS_AddElement
  <2>4. k + 1 <= Cardinality(Q)
    BY <1>16, <2>2, <2>3, FS_Subset
  <2>5. n \in Nat /\ n >= k + 2
    BY <1>3, <1>16, <2>4
  <2>. QED  BY <1>2, <1>3, <1>5, <1>18, <2>5
<1>. QED  BY <1>17, <1>18

HIDE DEF CINPY_VOID, CINPY_INT, CINPY_UINT, CINPY_LONG, CINPY_ULONG, CINPY_LONGLONG, CINPY_FLOAT,
         CINPY_DOUBLE, CINPY_CHARPTR, CINPY_PTR, CINPY_SIZE_T, CINPY_BOOL, CINPY_UNKNOWN

-----------------------------------------------------------------------------
(* The whole. *)

HeaderToCallInv ==
    ParserInv /\ LoaderTypeOK /\ BlocksInv /\ FileInv /\ CallInv /\ whole \in BOOLEAN

LEMMA HeaderToCallInvInit == HeaderToCallInit => HeaderToCallInv
BY ParserInvInit, LoaderTypeInit, BlocksInvInit, FileInvInit, CallInvInit
   DEF HeaderToCallInit, HeaderToCallInv

(* A file is opened that holds bytes. *)
LEMMA OpenedIs ==
    ASSUME HeaderToCallInv, Store \/ StoreStale
    PROVE  LoaderTypeOK' /\ BlocksInv' /\ whole' \in BOOLEAN
<1>1. Encoding(parsed) \in Seq(Bytes)
  BY EncodingIs DEF HeaderToCallInv, ParserInv
<1>2. PICK e : e = Encoding(parsed)
  OBVIOUS
<1>3. \E b \in Seq(Bytes) : Open(b)
  <2>1. ASSUME NEW n \in 0..Len(e) PROVE SubSeq(e, 1, n) \in Seq(Bytes)
    BY <1>1, <1>2
  <2>2. ASSUME NEW h \in StaleHeads PROVE h \o SubSeq(e, 5, Len(e)) \in Seq(Bytes)
    <3>1. h \in Seq(Bytes)
      BY StaleAssumption
    <3>2. SubSeq(e, 5, Len(e)) \in Seq(Bytes)
      BY <1>1, <1>2
    <3>. QED  BY <3>1, <3>2, ConcatIsBehind
  <2>3. CASE Store
    BY <1>2, <2>1, <2>3 DEF Store
  <2>4. CASE StoreStale
    BY <1>2, <2>2, <2>4 DEF StoreStale
  <2>. QED  BY <2>3, <2>4
<1>4. PICK b \in Seq(Bytes) : Open(b)
  BY <1>3
<1>5. /\ lpc = "idle" /\ lpc' = "head" /\ bytes' = b
      /\ UNCHANGED <<pos, made, cur, owned, dropped>>
  BY <1>4 DEF Open
<1>6. pos = 0 /\ Len(b) \in Nat
  BY <1>4, <1>5 DEF HeaderToCallInv, FileInv
<1>7. pos' \in 0..Len(b)
  BY <1>5, <1>6
<1>8. LoaderTypeOK'
  BY <1>5, <1>7 DEF HeaderToCallInv, LoaderTypeOK
<1>9. BlocksInv'
  BY <1>5 DEF HeaderToCallInv, BlocksInv, Accounted, Failed
<1>10. whole' \in BOOLEAN
  BY DEF HeaderToCallInv, Store, StoreStale
<1>. QED  BY <1>8, <1>9, <1>10

LEMMA LoaderKept ==
    ASSUME LoaderTypeOK, BlocksInv, UNCHANGED loaderVars
    PROVE  LoaderTypeOK' /\ BlocksInv'
BY DEF LoaderTypeOK, BlocksInv, Accounted, Failed, loaderVars

LEMMA CallKept ==
    ASSUME CallInv, UNCHANGED callVars
    PROVE  CallInv'
BY DEF CallInv, CallIdle, callVars

LEMMA HeaderToCallInvNext ==
    ASSUME HeaderToCallInv, [HeaderToCallNext]_vars
    PROVE  HeaderToCallInv'
<1>1. FileInv'
  BY FileInvNext DEF HeaderToCallInv
<1>2. ParserInv'
  <2>1. [ParserNext]_parserVars
    BY DEF HeaderToCallNext, Parse, Store, StoreStale, Load, Call, InCall, vars
  <2>. QED  BY <2>1, ParserInvNext DEF HeaderToCallInv
<1>3. LoaderTypeOK' /\ BlocksInv' /\ whole' \in BOOLEAN
  <2>1. CASE Store \/ StoreStale
    BY <2>1, OpenedIs
  <2>2. CASE Load
    BY <2>2, LoaderTypeNext, BlocksInvNext DEF HeaderToCallInv, Load
  <2>3. CASE UNCHANGED <<loaderVars, whole>>
    BY <2>3, LoaderKept DEF HeaderToCallInv
  <2>. QED  BY <2>1, <2>2, <2>3 DEF HeaderToCallNext, Parse, Call, InCall, vars
<1>4. CallInv'
  <2>1. CASE Call
    <3>1. PICK i \in DOMAIN made.fns, n \in DOMAIN unit, a \in GivenTuples :
                 Enter(made.fns[i], unit[n], a)
      BY <2>1 DEF Call
    <3>2. PICK f : f = made.fns[i]
      OBVIOUS
    <3>3. f \in FnRecords
      BY <3>1, <3>2 DEF HeaderToCallInv, LoaderTypeOK, Irs
    <3>4. f.params \in Seq(Range(f.params))
      BY <3>3, SeqOfRange DEF FnRecords
    <3>. QED  BY <3>1, <3>2, <3>4, CallInvEnter DEF HeaderToCallInv
  <2>2. CASE InCall
    BY <2>2, CallInvNext DEF HeaderToCallInv, InCall
  <2>3. CASE UNCHANGED callVars
    BY <2>3, CallKept DEF HeaderToCallInv
  <2>. QED  BY <2>1, <2>2, <2>3 DEF HeaderToCallNext, Parse, Store, StoreStale, Load, vars
<1>. QED  BY <1>1, <1>2, <1>3, <1>4 DEF HeaderToCallInv

LEMMA HeaderToCallInvAlways == HeaderToCallSpec => []HeaderToCallInv
<1>1. HeaderToCallInit => HeaderToCallInv
  BY HeaderToCallInvInit
<1>2. HeaderToCallInv /\ [HeaderToCallNext]_vars => HeaderToCallInv'
  BY HeaderToCallInvNext
<1>. QED  BY <1>1, <1>2, PTL DEF HeaderToCallSpec

(* Types of the variables (parser.c, emitter.c, loader.c, marshal.c). *)
THEOREM HeaderToCallTypeCorrect == HeaderToCallSpec => []HeaderToCallTypeOK
<1>1. HeaderToCallInv => HeaderToCallTypeOK
  <2>. SUFFICES ASSUME HeaderToCallInv PROVE HeaderToCallTypeOK
    OBVIOUS
  <2>1. /\ unit \in Units /\ visited \in 0..Len(unit) /\ parsed \in Irs
        /\ ppc \in {"parse", "visit", "parsed", "unparsed"}
    BY DEF HeaderToCallInv, ParserInv, Emittable
  <2>2. {skipped, dropped, whole} \subseteq BOOLEAN
    BY DEF HeaderToCallInv, ParserInv, LoaderTypeOK
  <2>3. made \in Irs /\ pos \in 0..Len(bytes)
    BY DEF HeaderToCallInv, LoaderTypeOK
  <2>4. /\ Failed \/ lpc \in {"idle", "head", "header", "peek", "fn", "params", "ok"}
        /\ owned \in Nat
    BY DEF HeaderToCallInv, BlocksInv, Accounted, Failed
  <2>5. /\ cpc \in {"idle", "arity", "convert", "called", "returned", "raised"}
        /\ Len(cvals) <= Len(args)
    BY DEF HeaderToCallInv, CallInv
  <2>. QED  BY <2>1, <2>2, <2>3, <2>4, <2>5 DEF HeaderToCallTypeOK
<1>. QED  BY <1>1, HeaderToCallInvAlways, PTL

(* A load that fails leaves nothing allocated, unless a push failed before *)
(* it: each early return frees what the loader had made (loader.c:86-137). *)
THEOREM FailureFreesAllHolds == HeaderToCallSpec => []FailureFreesAll
<1>1. HeaderToCallInv => FailureFreesAll
  BY DEF HeaderToCallInv, BlocksInv, Accounted, FailureFreesAll
<1>. QED  BY <1>1, HeaderToCallInvAlways, PTL

(* What is loaded is the IR that was written: write and read are inverse   *)
(* on every IR whose strings fit read_str's buffer (emitter.c:28-63,       *)
(* loader.c:25-40, 72-147).                                                *)
THEOREM LoadedIsWrittenHolds == HeaderToCallSpec => []LoadedIsWritten
<1>1. HeaderToCallInv => LoadedIsWritten
  BY DEF HeaderToCallInv, FileInv, LoadedIsWritten
<1>. QED  BY <1>1, HeaderToCallInvAlways, PTL

(* No proper beginning of a file is loaded (loader.c:48-137). *)
THEOREM CutFileIsRefusedHolds == HeaderToCallSpec => []CutFileIsRefused
<1>1. HeaderToCallInv => CutFileIsRefused
  BY DEF HeaderToCallInv, FileInv, CutFileIsRefused
<1>. QED  BY <1>1, HeaderToCallInvAlways, PTL

(* What is loaded are the functions that the header declares itself, in    *)
(* their order (parser.c:27-76, through the file to loader.c:141).         *)
THEOREM LoadedDeclaresHolds == HeaderToCallSpec => []LoadedDeclares
<1>1. HeaderToCallInv => LoadedDeclares
  <2>. SUFFICES ASSUME HeaderToCallInv, lpc = "ok", Storable(parsed), ~skipped, ~dropped
                PROVE  LoadedDeclares
    BY DEF LoadedDeclares
  <2>1. made = parsed /\ visited = Len(unit)
    BY DEF HeaderToCallInv, FileInv, ParserInv
  <2>2. unit \in Seq(Cursors)
    BY UnitType DEF HeaderToCallInv, ParserInv
  <2>3. SubSeq(unit, 1, Len(unit)) = unit /\ Len(unit) \in 0..Len(unit)
    BY <2>2, SubSeqFull
  <2>4. made.fns = Declared(unit)
    BY <2>1, <2>3 DEF HeaderToCallInv, ParserInv
  <2>5. PICK own : own = Own(unit)
    OBVIOUS
  <2>6. own \in Seq(Cursors)
    BY <2>2, <2>3, <2>5, OwnOfBeginning
  <2>7. /\ Len(made.fns) = Len(own)
        /\ \A i \in 1..Len(own) : made.fns[i] = Record(own[i])
    BY <2>4, <2>5, <2>6, DeclaredType
  <2>8. ASSUME NEW i \in DOMAIN own
        PROVE  /\ made.fns[i].name = own[i].name /\ made.fns[i].ret = MapTypeKind(own[i].ret)
               /\ Len(made.fns[i].params) <= Len(own[i].params)
               /\ Len(made.fns[i].params) \in {Len(own[i].params), ParamCap}
               /\ \A j \in DOMAIN made.fns[i].params :
                    /\ made.fns[i].params[j].name = own[i].params[j].name
                    /\ made.fns[i].params[j].type = MapTypeKind(own[i].params[j].kind)
    <3>1. PICK c : c = own[i]
      OBVIOUS
    <3>2. c \in Cursors /\ made.fns[i] = Record(c)
      BY <2>6, <2>7, <2>8, <3>1
    <3>. QED  BY <3>1, <3>2, RecordType
  <2>. QED  BY <2>5, <2>7, <2>8 DEF LoadedDeclares
<1>. QED  BY <1>1, HeaderToCallInvAlways, PTL

(* A number that reaches C is the one given, or one of the type's that     *)
(* differs from it by a multiple of the modulus (marshal.c:31-55, 71-87).  *)
THEOREM NumbersArriveAlways == HeaderToCallSpec => []NumbersArrive
<1>1. HeaderToCallInv => NumbersArrive
  BY NumbersArriveHolds DEF HeaderToCallInv
<1>. QED  BY <1>1, HeaderToCallInvAlways, PTL

(* What a call passes for a number is read as that number by a function    *)
(* whose declaration the record was made from, whatever                    *)
(* cinpy_map_type_kind took its parameter for, or the call is refused      *)
(* (ir.c:55-76, parser.c:65, marshal.c:23-92).                             *)
THEOREM CalleeReadsGivenAlways == HeaderToCallSpec => []CalleeReadsGiven
<1>1. HeaderToCallInv => CalleeReadsGiven
  BY CalleeReadsGivenHolds DEF HeaderToCallInv
<1>. QED  BY <1>1, HeaderToCallInvAlways, PTL

(* A number that a function returns as it read it comes back as the one    *)
(* that was given where the record's type has the width of the function's, *)
(* and else with the bits of the function's type (ir.c:55-76,              *)
(* marshal.c:23-126).                                                      *)
THEOREM EchoComesBackAlways == HeaderToCallSpec => []EchoComesBack
<1>1. HeaderToCallInv => EchoComesBack
  BY EchoComesBackHolds DEF HeaderToCallInv
<1>. QED  BY <1>1, HeaderToCallInvAlways, PTL

(* Each conversion of a format whose fields come first finds what was      *)
(* given for it, its own conversions those arguments that the fields leave *)
(* (_fmt.py:15-34, call.c:73-91, marshal.c:66-82).                         *)
THEOREM ConversionsGetTheirsAlways == HeaderToCallSpec => []ConversionsGetTheirs
<1>1. HeaderToCallInv => ConversionsGetTheirs
  BY ConversionsGetTheirsHolds DEF HeaderToCallInv
<1>. QED  BY <1>1, HeaderToCallInvAlways, PTL
=============================================================================
