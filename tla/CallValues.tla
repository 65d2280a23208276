----------------------------- MODULE CallValues -----------------------------
(***************************************************************************)
(* What happens to the values of one call: rewrite_fmt_args                *)
(* (src/cinpy/_fmt.py), the argument count (src/src/call.c), the           *)
(* conversions to C and back (src/src/marshal.c), and what the C function  *)
(* reads and returns, by its own declaration.                              *)
(*                                                                         *)
(* Integers have the ranges of the C types; of a float only that it is one *)
(* is known.  A call that Python code interrupts is the subject of         *)
(* Dispatch; here arguments are ints, floats, strings, None and COnly      *)
(* values, whose conversion runs none.                                     *)
(***************************************************************************)
EXTENDS CinPyTypes, CTypes, Formats, SequencesExt

CONSTANTS
    GivenTuples  \* tuples of Python values

Types ==
    {CINPY_VOID, CINPY_INT, CINPY_UINT, CINPY_LONG, CINPY_ULONG, CINPY_LONGLONG,
     CINPY_FLOAT, CINPY_DOUBLE, CINPY_CHARPTR, CINPY_PTR, CINPY_SIZE_T, CINPY_BOOL,
     CINPY_UNKNOWN}

Pointers == {CINPY_CHARPTR, CINPY_PTR}

Words == {CINPY_ULONG, CINPY_CHARPTR, CINPY_PTR, CINPY_SIZE_T}

Floats == {CINPY_FLOAT, CINPY_DOUBLE}

Numeric == Types \ ({CINPY_VOID, CINPY_BOOL, CINPY_UNKNOWN} \cup Floats)

(* A str of which nothing is known: what is read at an unknown address.    *)
Memory == [kind |-> "memory"]

ASSUME GivenAssumption ==
    \A a \in GivenTuples : a \in Seq(Range(a)) /\ \A j \in DOMAIN a : IsValue(a[j])

VARIABLES
    cpc,     \* "idle", "arity", "convert", "called", "returned" or "raised"
    sig,     \* the record: [name, ret, params]
    callee,  \* the C function of that name: the cursor of its declaration
    given,   \* the arguments of FnProxy.__call__
    args,    \* those of _InternalFunction
    cvals,   \* the arguments converted so far
    word,    \* what the C function returned
    result   \* what the call returns

callVars == <<cpc, sig, callee, given, args, cvals, word, result>>

CallIdle ==
    /\ cpc = "idle"
    /\ sig = << >>
    /\ callee = << >>
    /\ given = << >>
    /\ args = << >>
    /\ cvals = << >>
    /\ word = 0
    /\ result = PyNone

(* The caller has record f, whose name is that of the C function c, and    *)
(* the tuple a.                                                            *)
Enter(f, c, a) ==
    /\ cpc = "idle"
    /\ sig' = f
    /\ callee' = c
    /\ given' = a
    /\ args' = Rewritten(a)
    /\ cpc' = "arity"
    /\ UNCHANGED <<cvals, word, result>>

CheckArity ==
    /\ cpc = "arity"
    /\ cpc' = IF Len(args) = Len(sig.params) THEN "convert" ELSE "raised"
    /\ UNCHANGED <<sig, callee, given, args, cvals, word, result>>

-----------------------------------------------------------------------------
(* A string in C: what comes before its first NUL. *)
CText(t) ==
    SubSeq(t, 1, Cardinality({i \in DOMAIN t : \A h \in 1..i : t[h] # NulChar}))

CString(v) == [kind |-> "str", text |-> CText(v.text)]

HasUtf8(v) == v.kind = "str" /\ \A i \in DOMAIN v.text : v.text[i] # Surrogate

(* cinpy_py_to_ffi(v, t) returns 0.  PyLong_AsVoidPtr takes a negative     *)
(* number for a long, any other for an unsigned long.                      *)
Accepts(t, v) ==
    LET within(R) == v.kind = "int" /\ v.val \in R
        pointer == SignedRange(LongValues) \cup UnsignedRange(LongValues)
    IN  CASE t = CINPY_BOOL -> TRUE
          [] t \in {CINPY_INT, CINPY_LONG, CINPY_LONGLONG} -> within(SignedRange(LongValues))
          [] t \in {CINPY_UINT, CINPY_ULONG} -> within(UnsignedRange(LongValues))
          [] t \in Floats -> v.kind \in {"int", "float"}
          [] t \in Pointers -> HasUtf8(v) \/ v.kind = "none" \/ within(pointer)
          [] t = CINPY_SIZE_T -> within(pointer)
          [] OTHER -> FALSE

(* PyObject_IsTrue. *)
Truths(v) ==
    CASE v.kind = "int" -> {v.val # 0}
      [] v.kind = "none" -> {FALSE}
      [] v.kind = "str" -> {v.text # << >>}
      [] v.kind = "float" -> BOOLEAN
      [] OTHER -> {TRUE}

(* Mutant: an int argument is passed as a long. *)
CValuesKeepLong(t, v) ==
    CASE t = CINPY_BOOL -> {Num(IF b THEN 1 ELSE 0) : b \in Truths(v)}
      [] t = CINPY_UINT -> {Num(Unsigned(v.val, IntValues))}
      [] t \in {CINPY_INT, CINPY_LONG, CINPY_LONGLONG} -> {Num(Signed(v.val, LongValues))}
      [] t \in Floats -> {Floating}
      [] t \in Words /\ v.kind = "int" -> {Num(Unsigned(v.val, LongValues))}
      [] t \in Words /\ v.kind = "none" -> {Num(0)}
      [] OTHER -> {CString(v)}

(* What ffi_call finds at the argument's address; the pointer to a string  *)
(* is the string that C reads there.                                       *)
CValues(t, v) ==
    CASE t = CINPY_BOOL -> {Num(IF b THEN 1 ELSE 0) : b \in Truths(v)}
      [] t = CINPY_INT -> {Num(Signed(v.val, IntValues))}
      [] t = CINPY_UINT -> {Num(Unsigned(v.val, IntValues))}
      [] t \in {CINPY_LONG, CINPY_LONGLONG} -> {Num(Signed(v.val, LongValues))}
      [] t \in Floats -> {Floating}
      [] t \in Words /\ v.kind = "int" -> {Num(Unsigned(v.val, LongValues))}
      [] t \in Words /\ v.kind = "none" -> {Num(0)}
      [] OTHER -> {CString(v)}

Convert ==
    /\ cpc = "convert"
    /\ Len(cvals) < Len(sig.params)
    /\ LET t == sig.params[Len(cvals) + 1].type
           v == args[Len(cvals) + 1]
       IN  IF Accepts(t, v)
           THEN /\ \E c \in CValues(t, v) : cvals' = Append(cvals, c)
                /\ UNCHANGED cpc
           ELSE /\ cpc' = "raised"
                /\ UNCHANGED cvals
    /\ UNCHANGED <<sig, callee, given, args, word, result>>

(* ffi_call. *)
CallC ==
    /\ cpc = "convert"
    /\ Len(cvals) = Len(sig.params)
    /\ cpc' = "called"
    /\ UNCHANGED <<sig, callee, given, args, cvals, word, result>>

(* Mutant: the result of an unsigned type is read as a signed one. *)
FromCSigned(t, w) ==
    CASE t = CINPY_BOOL -> Num(IF Unsigned(w, ByteValues) # 0 THEN 1 ELSE 0)
      [] t \in {CINPY_INT, CINPY_UINT} -> Num(Signed(w, IntValues))
      [] t \in Numeric \ {CINPY_INT, CINPY_UINT, CINPY_CHARPTR} -> Num(Signed(w, LongValues))
      [] t \in Floats -> Floating
      [] t = CINPY_CHARPTR /\ w # 0 -> Memory
      [] OTHER -> PyNone

(* cinpy_ffi_to_py of the word w that the function has returned: as much   *)
(* of it as the type has.  The text at an address is not known.            *)
FromC(t, w) ==
    CASE t = CINPY_BOOL -> Num(IF Unsigned(w, ByteValues) # 0 THEN 1 ELSE 0)
      [] t = CINPY_INT -> Num(Signed(w, IntValues))
      [] t = CINPY_UINT -> Num(Unsigned(w, IntValues))
      [] t \in {CINPY_LONG, CINPY_LONGLONG} -> Num(Signed(w, LongValues))
      [] t \in {CINPY_ULONG, CINPY_PTR, CINPY_SIZE_T} -> Num(Unsigned(w, LongValues))
      [] t \in Floats -> Floating
      [] t = CINPY_CHARPTR /\ w # 0 -> Memory
      [] OTHER -> PyNone

(* PyUnicode_FromString fails on what is not UTF-8. *)
MayFailFromC(t, w) == t = CINPY_CHARPTR /\ w # 0

(* The function returns any word; cinpy_ffi_to_py makes a value of it. *)
Return ==
    /\ cpc = "called"
    /\ \E w \in UnsignedRange(LongValues) :
         /\ word' = w
         /\ result' = FromC(sig.ret, w)
         /\ cpc' \in {"returned"} \cup (IF MayFailFromC(sig.ret, w) THEN {"raised"} ELSE {})
    /\ UNCHANGED <<sig, callee, given, args, cvals>>

CallNext == CheckArity \/ Convert \/ CallC \/ Return

-----------------------------------------------------------------------------
(* The numbers a C type has.  *)
RangeOf(t) ==
    CASE t = CINPY_BOOL -> {0, 1}
      [] t = CINPY_INT -> SignedRange(IntValues)
      [] t = CINPY_UINT -> UnsignedRange(IntValues)
      [] t \in {CINPY_LONG, CINPY_LONGLONG} -> SignedRange(LongValues)
      [] OTHER -> UnsignedRange(LongValues)

Modulus(t) ==
    CASE t = CINPY_BOOL -> ByteValues
      [] t \in {CINPY_INT, CINPY_UINT} -> IntValues
      [] OTHER -> LongValues

(* A number that reaches C is the one that was given: exactly, if it is    *)
(* one of the type's, and else reduced to one that differs by a multiple   *)
(* of the modulus.  A long, an unsigned long and a long long are never     *)
(* reduced (marshal.c:31-55, 71-73, 83-87).                                *)
NumbersArrive ==
    cpc = "called" =>
        \A j \in DOMAIN cvals :
            LET t == sig.params[j].type
                v == args[j]
                c == cvals[j]
            IN  t \in Numeric /\ v.kind = "int" =>
                    /\ c.val \in RangeOf(t)
                    /\ v.val \in RangeOf(t) \/ t \in {CINPY_LONG, CINPY_ULONG, CINPY_LONGLONG} => c = v
                    /\ (c.val - v.val) % Modulus(t) = 0

(* The record has the types that the parser makes of the C function's      *)
(* declaration, and each parameter and the result take a register, so that *)
(* the function's j-th parameter is what was passed as the j-th argument.  *)
Agrees ==
    /\ sig.ret = MapTypeKind(callee.ret)
    /\ callee.ret \in IntegerKinds \cup FloatKinds \cup {VoidKind}
    /\ \A j \in DOMAIN callee.params : callee.params[j].kind \in IntegerKinds \cup FloatKinds
    /\ \A j \in DOMAIN sig.params :
         /\ j \in DOMAIN callee.params
         /\ sig.params[j].type = MapTypeKind(callee.params[j].kind)

(* Though cinpy_map_type_kind takes many kinds for others, what it takes   *)
(* them for is wide enough: a number that is one of the parameter's own C  *)
(* type, and that is not refused, is the number that the C function reads  *)
(* (ir.c:55-76, parser.c:65, marshal.c:23-92).                             *)
CalleeReadsGiven ==
    cpc = "called" /\ Agrees =>
        \A j \in DOMAIN cvals :
            LET k == callee.params[j].kind
                v == args[j]
            IN  k \in IntegerKinds /\ v.kind = "int" /\ v.val \in CRange(k) =>
                    CReads(k, cvals[j].val) = v.val

(* The function has returned its first argument as it read it. *)
Echoed ==
    /\ cvals # << >> /\ args[1].kind = "int"
    /\ callee.ret \in IntegerKinds /\ callee.params[1].kind = callee.ret
    /\ word \in CReturns(callee.ret, CReads(callee.ret, cvals[1].val))

(* A number that a function returns as it read it comes back to Python as  *)
(* the one that was given, if it is one of the function's type and the     *)
(* record's type has that width.  Where the record's type is wider, only   *)
(* the bits that the function's type has come back; those above them are   *)
(* whatever the register held (ir.c:55-76, marshal.c:23-126).              *)
EchoComesBack ==
    cpc = "returned" /\ Agrees /\ Echoed =>
        LET k == callee.ret
            v == args[1].val
        IN  /\ v \in CRange(k) /\ Modulus(sig.ret) = CWidth(k) => result = Num(v)
            /\ k # BoolKind => (result.val - v) % CWidth(k) = 0

(* The format has no conversion of its own before a field's. *)
FieldsFirst(t) == \A i \in Fields(t), j \in Conversions(t) : i < j

(* Of a format whose fields come before its own conversions, each          *)
(* conversion that C reads finds what was given for it: that of a field    *)
(* the text of its value, and not a number to read as an address, and one  *)
(* of its own the value itself, however many of either were given          *)
(* (_fmt.py:15-34, call.c:73-91, marshal.c:66-82).                         *)
ConversionsGetTheirs ==
    cpc = "called" /\ IsFormat(given) /\ FieldsFirst(given[1].text) /\ cvals[1].kind = "str" =>
        \A i \in Conversions(cvals[1].text) :
            LET n == 1 + Cardinality({h \in Conversions(cvals[1].text) : h <= i})
            IN  IF given[1].text[i] = Field
                THEN sig.params[n].type \in Pointers =>
                        cvals[n] = CString(IF n <= Len(given) THEN PyStr(given[n]) ELSE Text(<<Field>>))
                ELSE n <= Len(args) => args[n] = given[n]
=============================================================================
