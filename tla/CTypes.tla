------------------------------- MODULE CTypes -------------------------------
(***************************************************************************)
(* The integer types of C, their ranges and conversions, and which of them *)
(* a libclang kind (enum CXTypeKind of clang-c/Index.h) stands for.  The   *)
(* widths are those of LP64: long, long long and pointers have one.        *)
(***************************************************************************)
EXTENDS Integers

CONSTANTS
    ByteValues, ShortValues, IntValues, LongValues  \* how many values a type has: 2^width

ASSUME WidthsAssumption ==
    /\ {ByteValues, ShortValues, IntValues, LongValues} \subseteq Nat \ {0}
    /\ \A n \in {ByteValues, ShortValues, IntValues, LongValues} : n % 2 = 0
    /\ ByteValues < ShortValues /\ ShortValues % ByteValues = 0
    /\ ShortValues < IntValues /\ IntValues % ShortValues = 0
    /\ IntValues < LongValues /\ LongValues % IntValues = 0

Unsigned(v, values) == v % values

Signed(v, values) ==
    LET u == v % values IN IF u >= values \div 2 THEN u - values ELSE u

SignedRange(values) == -(values \div 2)..values \div 2 - 1

UnsignedRange(values) == 0..values - 1

-----------------------------------------------------------------------------
BoolKind == 3

ByteKinds == {3, 4, 5, 13, 14}      \* Bool, Char_U, UChar, Char_S, SChar

ShortKinds == {6, 8, 16}            \* Char16, UShort, Short

IntKinds == {7, 9, 15, 17}          \* Char32, UInt, WChar, Int

LongKinds == {10, 11, 18, 19, 101}  \* ULong, ULongLong, Long, LongLong, Pointer

SignedKinds == 13..19

IntegerKinds == ByteKinds \cup ShortKinds \cup IntKinds \cup LongKinds

FloatKinds == {21, 22}              \* Float, Double

VoidKind == 2

CWidth(k) ==
    CASE k \in ByteKinds -> ByteValues
      [] k \in ShortKinds -> ShortValues
      [] k \in IntKinds -> IntValues
      [] OTHER -> LongValues

CRange(k) ==
    CASE k = BoolKind -> {0, 1}
      [] k \in SignedKinds -> SignedRange(CWidth(k))
      [] OTHER -> UnsignedRange(CWidth(k))

(* What a function finds in a parameter of kind k that is passed in w: as  *)
(* many low bits as the parameter has.                                     *)
CReads(k, w) ==
    IF k \in SignedKinds THEN Signed(w, CWidth(k)) ELSE Unsigned(w, CWidth(k))

(* The words in which x, of kind k, may be returned: the bits above those  *)
(* of k have any value.                                                    *)
CReturns(k, x) ==
    {w \in UnsignedRange(LongValues) : Unsigned(w, CWidth(k)) = Unsigned(x, CWidth(k))}
=============================================================================
