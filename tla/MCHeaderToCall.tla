--------------------------- MODULE MCHeaderToCall ---------------------------
(***************************************************************************)
(* The instance of HeaderToCall for TLC.                                   *)
(***************************************************************************)
EXTENDS HeaderToCall, TLC

Of(k) == [name |-> <<1 + (k % 5)>>, kind |-> k]

Function(name, ret, kinds) ==
    [kind |-> "function", own |-> TRUE, known |-> TRUE, name |-> name, ret |-> ret,
     params |-> [j \in DOMAIN kinds |-> Of(kinds[j])]]

Elsewhere(c) == [c EXCEPT !.own = FALSE]

NoFunction(c) == [c EXCEPT !.kind = "other"]

Unknown(c) == [c EXCEPT !.known = FALSE]

(* The buffer of read_str takes two characters and their end. *)
LongName == <<7, 7, 7>>
WholeBuffer == <<7, 7>>

(* Kinds of CXTypeKind. *)
CXUShort == 8
CXUInt == 9
CXInt == 17
CXPointer == 101

(* One unit for each kind that is mapped, some that are not among them,    *)
(* and units that differ in shape.                                         *)
EchoUnits == {<<Function(<<1>>, k, <<k>>)>> : k \in 3..14 \cup 16..18 \cup 21..22 \cup {101}}

MixedUnits ==
    {<< >>,
     <<Function(<<1>>, VoidKind, <<CXPointer, CXPointer>>), Elsewhere(Function(<<2>>, CXUInt, <<CXUInt>>)),
       Function(WholeBuffer, CXPointer, <<CXPointer, CXUShort>>)>>,
     <<NoFunction(Function(<<1>>, CXUInt, << >>)), Function(<<2>>, CXInt, << >>),
       Function(<<3>>, BoolKind, <<CXUInt, CXUInt, CXUShort, CXUShort>>), Function(<<4>>, VoidKind, <<BoolKind>>)>>,
     <<Function(LongName, CXUInt, <<CXUInt>>), Function(<<1>>, CXUInt, <<CXUInt>>)>>,
     <<Unknown(Function(<<2>>, CXUInt, <<CXUInt>>)), Function(<<1>>, VoidKind, <<CXPointer, CXPointer, CXPointer>>)>>}

SomeUnits == EchoUnits \cup MixedUnits

Header == <<9>>

(* Numbers around the limits of every type. *)
Nums == {Num(v) : v \in {-9, -8, -5, -4, -2, -1, 0, 1, 2, 3, 4, 7, 8, 15, 16}}

Plain == Text(<<Letters>>)
OneField == Text(<<Letters, Field>>)
TwoFields == Text(<<Field, Field>>)
FieldThenOwn == Text(<<Field, Percent>>)
OwnThenField == Text(<<Percent, Field>>)
CutFormat == Text(<<Field, NulChar, Percent>>)

SomeTuples ==
    {<< >>, <<Plain>>, <<OneField>>, <<PyNone>>, <<Holder>>, <<Floating>>,
     <<Text(<< >>)>>, <<Text(<<Letters, Surrogate>>)>>, <<Plain, Num(1)>>,
     <<OneField, Num(1)>>, <<OneField, Holder>>, <<OneField, Plain>>,
     <<OneField, Text(<<Letters, NulChar, Letters>>)>>, <<TwoFields, Num(1)>>,
     <<OneField, Num(1), Num(4)>>, <<TwoFields, Num(1), Num(4)>>,
     <<FieldThenOwn, Num(1), Num(4)>>, <<FieldThenOwn, Num(1)>>, <<OwnThenField, PyNone, Num(7)>>,
     <<CutFormat, Num(1), Num(4)>>, <<Num(1), Plain>>, <<Num(1), Num(4), Num(-8)>>}
    \cup {<<n>> : n \in Nums}

OldHeads == {<<Magic, PyVersion, CinpyMajor + 1, CinpyMinor>>,
             <<Magic, PyVersion + 1, CinpyMajor, CinpyMinor>>,
             <<Magic + 1, PyVersion, CinpyMajor, CinpyMinor>>}
=============================================================================
