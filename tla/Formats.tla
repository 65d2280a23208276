------------------------------- MODULE Formats -------------------------------
(***************************************************************************)
(* Python values as arguments of a call, and rewrite_fmt_args              *)
(* (src/cinpy/_fmt.py).                                                    *)
(*                                                                         *)
(* A string is a sequence of tokens.  A conversion of C's printf is one    *)
(* token and takes one argument: "%%" is text, and "%*d", or a lone "%" in *)
(* front of a field, is left out.                                          *)
(***************************************************************************)
EXTENDS Integers, Sequences, FiniteSets

Letters == [is |-> "text"]          \* characters that none of the others has
Field == [is |-> "field"]           \* {name}
PercentS == [is |-> "%s"]
Percent == [is |-> "%"]             \* another conversion
NulChar == [is |-> "nul"]           \* U+0000
Surrogate == [is |-> "surrogate"]   \* a lone surrogate, which UTF-8 has not
Shown(v) == [is |-> "str", of |-> v]  \* the digits or letters of str(v)

Tokens == {Letters, Field, PercentS, Percent, NulChar, Surrogate}

Num(v) == [kind |-> "int", val |-> v]
Text(t) == [kind |-> "str", text |-> t]
PyNone == [kind |-> "none"]

(* A float, of which no property needs the value. *)
Floating == [kind |-> "float"]

(* A value of COnly (src/cinpy/_conly.py).  FnProxy does not unwrap it, and *)
(* it is no number: its class has no __index__, __float__ or __bool__.     *)
Holder == [kind |-> "holder"]

IsValue(v) ==
    \/ v \in [kind : {"int"}, val : Int]
    \/ v \in {PyNone, Holder, Floating}
    \/ v \in [kind : {"str"}, text : Seq(Tokens)]

PyStr(v) == IF v.kind = "str" THEN v ELSE Text(<<Shown(v)>>)

-----------------------------------------------------------------------------
(* Positions in a string. *)
Fields(t) == {i \in DOMAIN t : t[i] = Field}

Conversions(t) == {i \in DOMAIN t : t[i] \in {PercentS, Percent}}

IsFormat(a) == Len(a) > 0 /\ a[1].kind = "str" /\ Fields(a[1].text) # {}

FormatText(t) == [i \in DOMAIN t |-> IF t[i] = Field THEN PercentS ELSE t[i]]

(* The j-th field takes the j-th of the values that follow the format, as  *)
(* a string, whatever the field's name; without one, its own text.         *)
FieldValue(a, j) == IF j < Len(a) THEN PyStr(a[j + 1]) ELSE Text(<<Field>>)

(* Mutant: what the fields do not take comes before what they take. *)
RewrittenRestFirst(a) ==
    IF ~IsFormat(a) THEN a
    ELSE LET k == Cardinality(Fields(a[1].text))
         IN  <<Text(FormatText(a[1].text))>> \o SubSeq(a, k + 2, Len(a))
             \o [j \in 1..k |-> FieldValue(a, j)]

(* Each {field} becomes %s.  The values of the fields come first, and then *)
(* the rest of the arguments, wherever in the format their conversions are.*)
Rewritten(a) ==
    IF ~IsFormat(a) THEN a
    ELSE LET k == Cardinality(Fields(a[1].text))
         IN  <<Text(FormatText(a[1].text))>> \o [j \in 1..k |-> FieldValue(a, j)]
             \o SubSeq(a, k + 2, Len(a))
=============================================================================
