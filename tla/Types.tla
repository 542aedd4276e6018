-------------------------------- MODULE Types --------------------------------
(***************************************************************************)
(* The types of values as the compiler compares, converts and combines     *)
(* them (src/types.cc): which type fits a number of bits, which conversion *)
(* leads from one type to another and how well it matches, which type a    *)
(* binary operator yields and which types it wants its operands to have.   *)
(*                                                                         *)
(* A type is [kind, bits] with the significant bits getBitWidth() reports, *)
(* a full type adds the set of its attributes.  The widths are constants:  *)
(* only their order decides anything in this code.                         *)
(***************************************************************************)
EXTENDS Integers, Sequences, FiniteSets, FiniteSetsExt

CONSTANTS
    IntWidths,    \* the widths of i8, i16, i32 and i64
    IntWidth,     \* of them, the width of int
    FloatBits,    \* the significands of bf16, f32 and f64
    DoubleBits,   \* of them, that of f64
    UnsetBits,    \* what the local variable res_bitwidth of getComplexRes() holds
                  \* where it is used without having been set
    SizeType,     \* the type of a size (size_t)
    Conversions   \* pairs <<from, to>> of types a declared conversion connects

ASSUME WidthAssumption ==
    /\ IntWidths \subseteq Nat \ {0, 1} /\ IntWidth \in IntWidths
    /\ FloatBits \subseteq Nat \ {0, 1} /\ DoubleBits = Max(FloatBits)

\* getTypeID(): integers (bool is the integer of one bit), floats, named
\* structs (string is one of them), pointers, arrays.
Integer(b) == [kind |-> "int", bits |-> b]
Boolean == Integer(1)
Float(b) == [kind |-> "float", bits |-> b]
Struct(name) == [kind |-> "struct", bits |-> 0, name |-> name]
String == Struct("string")
Pointer == [kind |-> "pointer", bits |-> 0]
Array(dims, elem) == [kind |-> "array", bits |-> 0, dims |-> dims, elem |-> elem]

IsInt(t) == t.kind = "int"
IsFloat(t) == t.kind = "float"
FT(t, attr) == [type |-> t, attr |-> attr]
Signed(ft) == "signed" \in ft.attr
Imaginary(ft) == Signed(ft) /\ IsFloat(ft.type)     \* A_imaginary is A_signed
SingleBits == Max(FloatBits \ {DoubleBits})

FullTypes_differ(a, b) == a.type # b.type \/ a.attr # b.attr

Larger(a, b) == IF a > b THEN a ELSE b
Smaller(a, b) == IF a < b THEN a ELSE b

\* The narrowest type that holds the bits; one bit is always bool.  A float
\* is at most a double, an integer of more bits than all has one bit more.
getFittingType(bits, float) ==
    LET fitting == {w \in IF float THEN FloatBits ELSE IntWidths : w >= bits} IN
    IF bits = 1 THEN Boolean
    ELSE IF float THEN Float(IF fitting = {} THEN DoubleBits ELSE Min(fitting))
    ELSE Integer(IF fitting = {} THEN Max(IntWidths) + 1 ELSE Min(fitting))

-----------------------------------------------------------------------------
(* Conversion of a value of full type e to full type d.  The result names  *)
(* the instruction ("nothing" when there is no conversion: the nullptr of  *)
(* the code) and how well the types match.  The match is noted before the  *)
(* code knows whether there is a conversion.                               *)

By(instruction, match) == [conv |-> instruction, match |-> match]
Converts(instruction) == By(instruction, "conversion")
Refused == Converts("nothing")

DeclaredConversion(from, to) ==
    IF <<from, to>> \in Conversions THEN Converts("call") ELSE Refused

ArrayConversion(e, d) ==
    IF /\ d.type.kind = "array"
       /\ Len(e.type.dims) = Len(d.type.dims)
       /\ \A i \in DOMAIN e.type.dims :      \* 0: only known at run time
             \/ e.type.dims[i] = d.type.dims[i]
             \/ 0 \in {e.type.dims[i], d.type.dims[i]}
       /\ e.type.elem = d.type.elem
       /\ Signed(e) = Signed(d) \/ ~IsInt(e.type.elem)
    THEN By("same", "exact")
    ELSE Refused

PointerConversion(e, d, explicit) ==
    IF ~explicit THEN Refused
    ELSE IF d.type = Pointer THEN Converts("inttoptr")
    ELSE IF d.type = SizeType THEN Converts("ptrtoint")
    ELSE IF d.type = Boolean THEN Converts("isnotnull")
    ELSE Refused

BoolConversion(e, explicit) ==
    IF e.type.bits = 1 THEN Converts("same")
    ELSE IF ~explicit /\ (IsFloat(e.type) \/ Signed(e)) THEN Refused
    ELSE Converts("isnotnull")

FloatConversion(e, d, free) ==
    IF IsFloat(e.type)
    THEN IF d.type.bits = e.type.bits THEN Converts("same")
         ELSE IF free \/ d.type.bits >= e.type.bits THEN Converts("fpcast")
         ELSE Refused
    ELSE IF free \/ d.type.bits >= e.type.bits \/ d.type.bits >= DoubleBits
         THEN By(IF Signed(e) THEN "sitofp" ELSE "uitofp",
                 IF d.type.bits < DoubleBits /\ d.type.bits < e.type.bits
                 THEN "untyped" ELSE "conversion")
         ELSE Refused

IntConversion(e, d, explicit, free) ==
    LET narrower == d.type.bits < e.type.bits IN
    CASE IsFloat(e.type) ->
            IF explicit /\ e.type.bits > Min(FloatBits)
            THEN Converts("fptoint") ELSE Refused
      [] IsInt(e.type) /\ Signed(e) /\ ~Signed(d) ->
            IF ~free THEN Refused
            ELSE Converts(IF d.type.bits = e.type.bits THEN "same" ELSE "signedcast")
      [] IsInt(e.type) /\ ~Signed(e) /\ ~Signed(d) ->
            IF ~narrower
            THEN Converts(IF d.type.bits = e.type.bits THEN "same" ELSE "unsignedcast")
            ELSE IF free THEN By("unsignedcast", "untyped") ELSE Refused
      [] IsInt(e.type) /\ Signed(d) ->
            IF narrower /\ ~free THEN Refused
            ELSE Converts(IF Signed(e) THEN "signedcast" ELSE "unsignedcast")

getConv(e, d, explicit, unknown) ==
    IF Imaginary(e) # Imaginary(d) THEN By("nothing", "untyped")
    ELSE IF e.type = d.type /\ (Signed(e) = Signed(d) \/ ~IsInt(e.type))
    THEN By("same", "exact")
    ELSE IF e.type = String /\ d.type = Pointer THEN Converts("cstr")
    ELSE IF e.type.kind = "struct" \/ (explicit /\ d.type.kind = "struct")
    THEN DeclaredConversion(e.type, d.type)
    ELSE IF e.type.kind = "array" THEN ArrayConversion(e, d)
    ELSE IF Pointer \in {e.type, d.type} THEN PointerConversion(e, d, explicit)
    ELSE IF e.type.bits = 0 \/ d.type.bits = 0 THEN Refused
    ELSE IF d.type.bits = 1 THEN BoolConversion(e, explicit)
    ELSE IF IsFloat(d.type) THEN FloatConversion(e, d, explicit \/ unknown)
    ELSE IntConversion(e, d, explicit, explicit \/ unknown)

-----------------------------------------------------------------------------
(* Operators.  getOpClass() sorts them by what they do to types; an        *)
(* operand is its full type and whether it is "unknown": an untyped        *)
(* literal, or built from such ones, which takes whatever type is wanted.  *)
(* With an imaginary operand getComplexRes() decides.                      *)

getOpClass(op) ==
    CASE op \in {"<", ">", "<=", ">=", "==", "!="}  -> "comparison"
      [] op \in {"<<", ">>"}                        -> "shift"
      [] op \in {"&&", "||"}                        -> "logical"
      [] op \in {"&", "|", "><"}                    -> "bitwise"
      [] op = "^"                                   -> "exponentiation"
      [] op = "="                                   -> "assign"
      [] op \in {"+=", "-=", "*=", "/=", "%=", "<<=", ">>=", "&&=", "||=", "><="}
                                                    -> "modassign"
      [] op = "?="                                  -> "cmpexchange"
      [] op = ":="                                  -> "declassign"
      [] op = ","                                   -> "comma"
      [] op = ":"                                   -> "colon"
      [] OTHER                                      -> "normal"

\* What the parser learns of a binary expression: its type and whether it is
\* unknown, or that it is invalid.
Result(type, attr, unknown) ==
    [ok |-> TRUE, type |-> type, attr |-> attr, unknown |-> unknown]
Invalid == [ok |-> FALSE]

\* Of two operands, the wider one counts, except that an untyped operand
\* follows a typed one.
CombinedBits(l, r) ==
    IF r.unknown = l.unknown THEN Larger(l.type.bits, r.type.bits)
    ELSE IF r.unknown THEN l.type.bits ELSE r.type.bits

SignedTyped(o) == Signed(o) /\ ~o.unknown
EitherSigned(l, r) ==
    SignedTyped(l) \/ SignedTyped(r) \/ (Signed(l) /\ Signed(r))

AssignedBits(l, r) ==        \* may a value of r's width be stored in l?
    l.type.bits = 0 \/ r.type.bits <= l.type.bits \/ r.unknown

Complex(bits) ==
    Result(Struct(IF bits >= IntWidth THEN "complex" ELSE "c32"), {"complex"}, FALSE)

getComplexRes(l, r, op) ==
    LET class == getOpClass(op)
        alike == Imaginary(l) = Imaginary(r)
        bits == Smaller(CombinedBits(l, r), DoubleBits)
        Of(imaginary) == Result(getFittingType(bits, TRUE),
                                IF imaginary THEN {"signed"} ELSE {}, FALSE)
    IN  CASE 1 \in {l.type.bits, r.type.bits} -> Invalid
          [] class \in {"comparison", "cmpexchange"} ->
                 IF alike THEN Result(Boolean, {}, FALSE) ELSE Invalid
          [] class \in {"assign", "modassign"} ->
                 IF /\ IF op \in {"=", "+=", "-="} THEN alike
                       ELSE op \in {"*=", "/="} /\ ~Imaginary(r)
                    /\ AssignedBits(l, r)
                 THEN Result(l.type, l.attr \cap {"signed"}, FALSE) ELSE Invalid
          [] class = "exponentiation" -> Complex(Smaller(UnsetBits, DoubleBits))
          [] op \in {"+", "-"} -> IF alike THEN Of(TRUE) ELSE Complex(bits)
          [] op \in {"*", "/", ""} -> Of(~alike)
          [] OTHER -> Invalid

getResType(l, r, op) ==
    LET class == getOpClass(op)
        float == IsFloat(l.type) \/ IsFloat(r.type)
        sign == IF EitherSigned(l, r) /\ ~float THEN {"signed"} ELSE {}
        unknown == l.unknown /\ r.unknown
        Fitting(bits, attr) ==
            Result(getFittingType(IF float THEN Smaller(bits, DoubleBits) ELSE bits,
                                  float), attr, unknown)
        power == IF /\ ~r.unknown /\ r.type.bits > l.type.bits
                    /\ IsFloat(r.type) \/ ~IsFloat(l.type)
                 THEN r.type.bits ELSE l.type.bits
    IN  IF l.type.kind \in {"struct", "array", "pointer"}
        THEN IF l.type = r.type THEN Result(l.type, l.attr \cap r.attr, FALSE)
             ELSE Invalid
        ELSE IF /\ class \notin {"comma", "bitwise", "colon", "ternary"}
                /\ (l.type.bits = 1) # (r.type.bits = 1)
        THEN Invalid
        ELSE IF Imaginary(l) \/ Imaginary(r) THEN getComplexRes(l, r, op)
        ELSE CASE class \in {"comparison", "cmpexchange"} -> Result(Boolean, {}, FALSE)
               [] class \in {"assign", "modassign"} ->
                      IF \/ ~IsFloat(l.type) /\ IsFloat(r.type)
                         \/ ~Signed(l) /\ ~IsFloat(l.type) /\ SignedTyped(r)
                         \/ ~AssignedBits(l, r)
                      THEN Invalid
                      ELSE Result(l.type, l.attr \cap {"signed"}, FALSE)
               [] class = "declassign" -> Invalid      \* it has no type of its own
               [] class = "shift" ->
                      IF float THEN Invalid
                      ELSE Fitting(power, l.attr \cap {"signed"})
               [] class = "exponentiation" ->
                      Fitting(power, IF float THEN {} ELSE l.attr \cap {"signed"})
               [] class = "logical" ->
                      IF \E o \in {l, r} :
                            IsFloat(o.type) \/ (o.type.bits # 1 /\ Signed(o))
                      THEN Invalid
                      ELSE Result(Boolean, {}, unknown)
               [] class = "bitwise" -> Fitting(CombinedBits(l, r), {})
               [] OTHER -> Fitting(CombinedBits(l, r), sign)

None == [kind |-> "none", bits |-> 0]   \* no particular type is wanted

\* Mutant: nothing is passed on to the operands.
WantedOfOperands(desired, l, r, class) == CombinedBits(l, r)

\* Mutant: an untyped operand counts like a typed one.
WantedByWider(desired, l, r, class) ==
    Larger(desired.bits, Larger(l.type.bits, r.type.bits))

\* The width both operands get: a wanted type that is wider than both (or a
\* float where they are integers) is passed on to them.
WantedBits(desired, l, r, class) ==
    LET Yields(o) == \/ o.unknown
                     \/ o.type.bits < desired.bits
                     \/ IsFloat(desired) /\ ~IsFloat(o.type)
    IN  IF /\ desired.bits # 0
           /\ \/ desired.bits # 1 /\ Yields(l) /\ Yields(r)
              \/ class = "logical"
        THEN desired.bits ELSE CombinedBits(l, r)

\* What each operand should be converted to before the operation, given the
\* type wanted of the whole.
getDesiredTypes(desired, l, r, op) ==
    LET class == getOpClass(op)
        bits == WantedBits(desired, l, r, class)
        float == IsFloat(desired) \/ IsFloat(l.type) \/ IsFloat(r.type)
        Both(t) == [l |-> t, r |-> t]
        Power(t) == [l |-> t, r |-> IF IsFloat(r.type) THEN t ELSE None]
    IN  IF l.type.bits = 0 \/ r.type.bits = 0 THEN Both(None)
        ELSE CASE class \in {"assign", "modassign", "cmpexchange"} ->
                      [l |-> None, r |-> l.type]
               [] class = "declassign" -> Both(None)
               [] class \in {"shift", "exponentiation"} /\ float ->
                      Power(getFittingType(IF desired.bits # 0 THEN desired.bits
                                           ELSE l.type.bits, TRUE))
               [] class = "shift" /\ ~float /\ desired.bits = 0 ->
                      [l |-> None, r |-> l.type]
               [] class = "exponentiation" /\ ~float /\ desired.bits = 0 ->
                      Both(getFittingType(Larger(bits, IntWidth), FALSE))
               [] class = "logical" -> Both(Boolean)
               [] OTHER -> Both(getFittingType(bits, float))
=============================================================================
