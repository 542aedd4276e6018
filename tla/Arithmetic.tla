------------------------------ MODULE Arithmetic ------------------------------
(***************************************************************************)
(* What an expression computes.  While it is parsed, every node gets the   *)
(* type getResType() announces; when code is generated, the types wanted   *)
(* of the operands go down the tree (getDesiredTypes(), "early type        *)
(* propagation"), each operand is converted to what is wanted of it        *)
(* (ExprAST::convert_raw), and the instruction is chosen by the operands   *)
(* and the announced signs (BinaryExprAST::codegen_raw, src/codegen.cc).   *)
(*                                                                         *)
(* The code is "generated" for known values: an integer is its pattern of  *)
(* bits, a float is the nearest number with its significand, and only      *)
(* whole numbers occur (a quotient of floats is left undefined otherwise). *)
(***************************************************************************)
EXTENDS Types

CONSTANT Floored     \* idiv_mode == idiv_mode_floored

\* Patterns of bits and the numbers they stand for.
Pow2(n) == 2 ^ n
Pattern(v, bits) == v % Pow2(bits)
Number(p, bits, signed) ==
    IF signed /\ p >= Pow2(bits - 1) THEN p - Pow2(bits) ELSE p

\* The nearest number with that many significant bits, a tie to the even one.
Rounded(v, bits) ==
    LET m == IF v < 0 THEN -v ELSE v
        step == Pow2(Min({k \in 0..20 : m <= Pow2(bits + k)}))
        low == m - (m % step)
        up == \/ 2 * (m % step) > step
              \/ 2 * (m % step) = step /\ (low \div step) % 2 = 1
        near == IF up THEN low + step ELSE low
    IN  IF v < 0 THEN -near ELSE near

Value(t, v) == [ok |-> TRUE, type |-> t, v |-> v]
\* No code is generated, or what is generated has no defined result.
Error == [ok |-> FALSE, undefined |-> FALSE]
Undefined == [ok |-> FALSE, undefined |-> TRUE]
IntValue(bits, v) == Value(Integer(bits), Pattern(v, bits))

-----------------------------------------------------------------------------
(* Nodes of the tree: operands with the value they have, and operations.   *)

Leaf(class, type, attr, v) ==
    [op |-> class, type |-> type, attr |-> attr, unknown |-> class = "literal", v |-> v]

CanCombine(op, l, r) == getResType(l, r, op).ok

BinaryExprAST(op, l, r) ==
    LET res == getResType(l, r, op)
    IN  [op |-> op, type |-> res.type, attr |-> res.attr, unknown |-> res.unknown,
         l |-> l, r |-> r]

UnaryExprAST(op, arg) ==
    [op |-> op, type |-> arg.type, attr |-> arg.attr, unknown |-> FALSE, arg |-> arg]

IsLeaf(e) == e.op \in {"variable", "literal"}
IsUnary(e) == e.op = "neg"

-----------------------------------------------------------------------------
\* What an instruction getConv() names makes of a value.
Convert(conv, x, e, d) ==
    CASE conv \in {"same"} -> x
      [] conv = "signedcast" ->
             IntValue(d.type.bits, Number(x.v, x.type.bits, TRUE))
      [] conv = "unsignedcast" -> IntValue(d.type.bits, x.v)
      [] conv = "isnotnull" -> Value(Boolean, IF x.v = 0 THEN 0 ELSE 1)
      [] conv = "sitofp" ->
             Value(d.type, Rounded(Number(x.v, x.type.bits, TRUE), d.type.bits))
      [] conv \in {"uitofp", "fpcast"} -> Value(d.type, Rounded(x.v, d.type.bits))
      [] OTHER -> Error

\* The value of e as the wanted type.  "kind" is conv_kind: an untyped operand
\* among unsigned ones is converted as unsigned.  An untyped constant must not
\* lose anything but its sign.
convert_raw(x, e, desired, kind) ==
    LET signed == /\ Signed(e)
                  /\ IF IsInt(e.type) THEN IsInt(desired) /\ kind # "unsigned"
                     ELSE ~IsInt(desired)
        d == FT(desired, IF signed THEN {"signed"} ELSE {})
        conv == getConv(FT(x.type, e.attr), d, e.unknown, FALSE).conv
        y == Convert(conv, x, e, d)
        Changed == LET NumberOf(z, s) == Number(z.v, z.type.bits, s)
                   IN  /\ e.unknown /\ IsInt(e.type) /\ IsInt(desired)
                       /\ NumberOf(x, TRUE) # NumberOf(y, TRUE) /\ x.v # y.v
    IN  IF ~x.ok \/ desired = None \/ x.type = desired THEN x
        ELSE IF conv = "nothing" \/ ~y.ok \/ Changed THEN Error
        ELSE y

\* A literal takes the wanted type itself, if it can hold it.
LiteralExprAST(e, desired) ==
    LET t == IF IsInt(e.type) /\ desired # None THEN desired ELSE e.type
    IN  IF IsFloat(t) THEN Value(t, Rounded(e.v, t.bits))
        ELSE IF t = Boolean THEN IntValue(1, IF e.v = 0 THEN 0 ELSE 1)
        ELSE IF \/ Number(Pattern(e.v, t.bits), t.bits, TRUE) = e.v
                \/ Pattern(e.v, t.bits) = e.v
             THEN IntValue(t.bits, e.v) ELSE Error

Neg(x) == IF x.type = Boolean THEN Error
          ELSE IF IsInt(x.type) THEN IntValue(x.type.bits, -x.v)
          ELSE Value(x.type, -x.v)

-----------------------------------------------------------------------------
(* The instructions.                                                       *)

OperandSigned(e) == EitherSigned(e.l, e.r)

Quotient(a, b) == (IF a < 0 THEN -a ELSE a) \div (IF b < 0 THEN -b ELSE b)
Negative(a, b) == (a < 0) # (b < 0)
SDiv(a, b) == IF Negative(a, b) THEN -Quotient(a, b) ELSE Quotient(a, b)
SRem(a, b) == a - b * SDiv(a, b)

\* "floored" is built from the C instructions and the signs.
FloorDiv(a, b) == SDiv(a, b) + (IF Negative(a, b) THEN -1 ELSE 0)
FloorRem(a, b) == SRem(a, b) + (IF Negative(SRem(a, b), b) THEN b ELSE 0)

\* The remainder of floats has the sign of the dividend, also when it is zero.
FloatRem(a, b) == SRem(a, b) + (IF Floored /\ Negative(a, b) THEN b ELSE 0)

\* The most negative number has no quotient by -1.
Overflows(a, b, bits) == a = -Pow2(bits - 1) /\ b = -1

\* Mutant: only the remainder knows of the mode.
DivideHalf(op, a, b) == IF op = "/" THEN SDiv(a, b) ELSE FloorRem(a, b)

Divide(op, a, b) ==
    CASE op = "/" -> IF Floored THEN FloorDiv(a, b) ELSE SDiv(a, b)
      [] op = "%" -> IF Floored THEN FloorRem(a, b) ELSE SRem(a, b)

\* Which of two patterns comes first: with one signed operand the comparison is
\* unsigned, put right by a test of that operand's sign.
Compares(op, a, b) ==
    CASE op = "<" -> a < b [] op = "<=" -> a <= b [] op = ">" -> a > b [] op = ">=" -> a >= b

Compare(e, x, y) ==
    LET Low(z) == Number(z.v, z.type.bits, TRUE)
        unsigned == Compares(e.op, x.v, y.v)
        below == e.op \in {"<", "<="}
    IN  IF ~IsInt(x.type) \/ ~OperandSigned(e) THEN unsigned
        ELSE IF Signed(e.l) /\ Signed(e.r) THEN Compares(e.op, Low(x), Low(y))
        ELSE IF Signed(e.l)
        THEN IF below THEN Low(x) < 0 \/ unsigned ELSE Low(x) >= 0 /\ unsigned
        ELSE IF below THEN unsigned /\ Low(y) >= 0 ELSE unsigned \/ Low(y) < 0

\* & | ><, bit by bit.
BitwiseOf(op, a, b, bits) ==
    LET Bit(p, i) == (p \div Pow2(i)) % 2
        Of(i) == CASE op = "&" -> Smaller(Bit(a, i), Bit(b, i))
                   [] op = "|" -> Larger(Bit(a, i), Bit(b, i))
                   [] op = "><" -> (Bit(a, i) + Bit(b, i)) % 2
    IN  MapThenSumSet(LAMBDA i : Pow2(i) * Of(i), 0 .. bits - 1)

\* A shift by the width or more is undefined.  The left operand decides whether
\* the sign moves in from the left.
Shift(e, x, y) ==
    LET bits == x.type.bits IN
    IF y.v >= bits THEN Undefined
    ELSE IF e.op = "<<" THEN IntValue(bits, x.v * Pow2(y.v))
    ELSE IntValue(bits, Number(x.v, bits, Signed(e.l)) \div Pow2(y.v))

Truth(b) == Value(Boolean, IF b THEN 1 ELSE 0)
Arith(op, a, b) == CASE op = "+" -> a + b [] op = "-" -> a - b [] op = "*" -> a * b

\* The right operand of && and || is computed only if the left one leaves it open.
Lazy(op, x, y) ==
    IF x.v = (IF op = "&&" THEN 0 ELSE 1) THEN x ELSE y

\* Sums of a real and an imaginary number are complex, a pair; i * i = -1.
OperateFloat(e, x, y) ==
    LET bits == x.type.bits
        negated == \/ e.op = "*" /\ Imaginary(e.l) /\ Imaginary(e.r)
                   \/ e.op = "/" /\ ~Imaginary(e.l) /\ Imaginary(e.r)
        Real(v) == Value(x.type, Rounded(IF negated THEN -v ELSE v, bits))
        second == IF e.op = "-" THEN -y.v ELSE y.v
    IN  CASE "complex" \in e.attr ->
               Value(e.type, IF Imaginary(e.l) THEN <<second, x.v>> ELSE <<x.v, second>>)
          [] e.op \in {"+", "-", "*"} -> Real(Arith(e.op, x.v, y.v))
          [] y.v = 0 \/ x.v = 0 -> Undefined
          [] e.op = "/" -> IF SRem(x.v, y.v) = 0 THEN Real(SDiv(x.v, y.v)) ELSE Undefined
          [] e.op = "%" -> Real(FloatRem(x.v, y.v))

Operate(e, x, y) ==
    LET bits == x.type.bits
        N(z) == Number(z.v, bits, Signed(e))
    IN  CASE x = Error \/ y = Error -> Error
          [] Undefined = x -> Undefined
          [] e.op \in {"&&", "||"} -> Lazy(e.op, x, y)
          [] Undefined = y -> Undefined
          [] e.op \in {"<", "<=", ">", ">="} -> Truth(Compare(e, x, y))
          [] e.op \in {"==", "!="} -> Truth((x.v = y.v) = (e.op = "=="))
          [] ~IsInt(x.type) -> IF e.op \in {"&", "|", "><", "<<", ">>"} THEN Error
                               ELSE OperateFloat(e, x, y)
          [] e.op \in {"&", "|", "><"} -> IntValue(bits, BitwiseOf(e.op, x.v, y.v, bits))
          [] e.op \in {"<<", ">>"} -> Shift(e, x, y)
          [] e.op \in {"+", "-", "*"} -> IntValue(bits, Arith(e.op, x.v, y.v))
          [] e.op \in {"/", "%"} ->
                 CASE y.v = 0 \/ (Signed(e) /\ Overflows(N(x), N(y), bits)) -> Undefined
                   [] Signed(e) -> IntValue(bits, Divide(e.op, N(x), N(y)))
                   [] OTHER -> IntValue(bits, IF e.op = "/" THEN x.v \div y.v ELSE x.v % y.v)

\* Beside an imaginary operand both become f64 or both f32.
getWanted(e, desired) ==
    LET Double(o) == o.type = Float(DoubleBits) /\ ~o.unknown
        float == Float(IF Double(e.l) \/ Double(e.r) \/ (e.l.unknown /\ e.r.unknown)
                       THEN DoubleBits ELSE SingleBits)
    IN  IF Imaginary(e.l) \/ Imaginary(e.r) THEN [l |-> float, r |-> float]
        ELSE getDesiredTypes(desired, e.l, e.r, e.op)

\* codegen(): the value of e when the type "desired" is wanted of it.
RECURSIVE codegen(_, _, _)
codegen(e, desired, kind) ==
    LET want == getWanted(e, desired)
        Kind(o) == IF ~OperandSigned(e) /\ o.unknown THEN "unsigned" ELSE "implicit"
        raw == CASE e.op = "literal" -> LiteralExprAST(e, desired)
                 [] e.op = "variable" ->
                        IF IsInt(e.type) THEN IntValue(e.type.bits, e.v)
                        ELSE Value(e.type, e.v)
                 [] e.op = "neg" ->
                        LET x == codegen(e.arg, None, "implicit")
                        IN  IF x.ok THEN Neg(x) ELSE x
                 [] OTHER -> Operate(e, codegen(e.l, want.l, Kind(e.l)),
                                        codegen(e.r, want.r, Kind(e.r)))
    IN  convert_raw(raw, e, desired, kind)

Computed(e) == codegen(e, None, "implicit")
=============================================================================
