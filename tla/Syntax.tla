-------------------------------- MODULE Syntax --------------------------------
(***************************************************************************)
(* How an expression is read: the lexer (Lexer::gettok, src/lexer.cc),     *)
(* which looks at blanks and at what the parser expects to tell a sign     *)
(* from an operator and to find the operators nobody writes (sin x, 2a),   *)
(* and the operator precedence parser (ParseUnary and ParseBinOpRHS,       *)
(* src/parser.cc) with the table of src/token.def.                         *)
(*                                                                         *)
(* The source is a sequence of lexemes, each with whether a blank precedes *)
(* it; names, numbers and operators are not spelled out any further.       *)
(***************************************************************************)
EXTENDS Integers, Sequences, SequencesExt

CONSTANTS
    Names,        \* the names of variables
    Functions,    \* the names of functions
    Numbers,      \* unsigned numeric literals
    Signed1       \* the literal a sign and a number make, as a function

Lexeme(t, sp) == [t |-> t, sp |-> sp]
IsWord(t) == t \in Names \cup Functions
IsOperand(t) == IsWord(t) \/ t \in Numbers
Signs == {"+", "-"}

\* The token kinds of operators, from the tightest to the loosest.
Kinds == <<"selector", "ref", "optional", "thread", "invisible_strong",
           "postfix", "pow", "unary", "mult", "add", "cmp", "bitand", "xor",
           "bitor", "and", "or", "arrow", "range", "colon", "ternary",
           "comma", "invisible", "assign">>
IndexOf(kind) == CHOOSE i \in DOMAIN Kinds : Kinds[i] = kind
IsOperator(kind) == \E i \in DOMAIN Kinds : Kinds[i] = kind

Precedence(kind) == IF IsOperator(kind) THEN 2 * (Len(Kinds) + 1 - IndexOf(kind)) ELSE 0
\* Mutant: a power is combined from the left.
RightButPow(kind) == kind \in {"assign", "invisible", "invisible_strong"}
RightBinding(kind) == kind \in {"assign", "invisible", "invisible_strong", "pow"}
NextPrecedence(kind) == Precedence(kind) + (IF RightBinding(kind) THEN 1 ELSE 0)

BinaryKind(t) ==
    CASE t = "^" -> "pow"
      [] t \in {"*", "/", "%", "<<", ">>"} -> "mult"
      [] t \in {"+", "-"} -> "add"
      [] t \in {"<", ">", "<=", ">=", "==", "!="} -> "cmp"
      [] t = "&" -> "bitand"
      [] t = "><" -> "xor"
      [] t = "|" -> "bitor"
      [] t = "&&" -> "and"
      [] t = "||" -> "or"
      [] t = ":" -> "colon"
      [] t = "?" -> "ternary"
      [] t = "," -> "comma"
      [] t \in {"=", ":=", "?=", "+=", "-=", "*=", "/="} -> "assign"
      [] OTHER -> "none"        \* a closing bracket, the end, a misplaced token

-----------------------------------------------------------------------------
(* The lexer: the token after the first "pos" lexemes of the source.  A    *)
(* token knows how far the source is read with it; the operators nobody    *)
(* writes read nothing.                                                    *)

Token(kind, t, pos) == [kind |-> kind, t |-> t, pos |-> pos]

Follows(src, pos, S) ==      \* directly, without a blank
    pos + 2 <= Len(src) /\ src[pos + 2].t \in S /\ ~src[pos + 2].sp

Invisible(x, pos) == Token(IF x.sp THEN "invisible" ELSE "invisible_strong", "", pos)

BinaryToken(src, pos, x) ==
    CASE IsOperand(x.t) -> Invisible(x, pos)
      [] x.t = "(" \/ (x.t = "[" /\ ~x.sp) -> Token("selector", x.t, pos)
      [] /\ x.t \in Signs \cup {"&"} /\ x.sp
         /\ Follows(src, pos, Names \cup Functions \cup Numbers) ->
             Token("invisible", "", pos)
      [] /\ x.t \in Signs /\ Follows(src, pos, {x.t})
         /\ ~(x.sp /\ Follows(src, pos, Names \cup Functions \cup Numbers)) ->
             Token("postfix", x.t, pos + 2)
      [] OTHER -> Token(BinaryKind(x.t), x.t, pos + 1)

OperandToken(src, pos, x) ==
    CASE IsWord(x.t) -> Token("identifier", x.t, pos + 1)
      [] x.t \in Numbers -> Token("number", x.t, pos + 1)
      [] x.t \in Signs /\ Follows(src, pos, Numbers) ->
             Token("number", Signed1[x.t, src[pos + 2].t], pos + 2)
      [] x.t \in Signs \cup {"!", "~"} /\ ~Follows(src, pos, Numbers) ->
             Token("unary", x.t, pos + 1)
      [] x.t = "&" -> Token("ref", x.t, pos + 1)
      [] OTHER -> Token(x.t, x.t, pos + 1)

gettok(src, pos, expect) ==
    IF pos = Len(src) THEN Token("none", "", pos)
    ELSE IF expect = "binop" THEN BinaryToken(src, pos, src[pos + 1])
    ELSE OperandToken(src, pos, src[pos + 1])

-----------------------------------------------------------------------------
(* The tree, and the parser: every function takes the current token and    *)
(* returns the tree with the token after it, or fails.                     *)

Var(x) == [op |-> "var", args |-> <<>>, name |-> x]
Numeral(n) == [op |-> "number", args |-> <<>>, name |-> n]
Function(f) == [op |-> "function", args |-> <<>>, name |-> f]
Op(op, args) == [op |-> op, args |-> args, name |-> ""]
Call(f, args) == [op |-> "call", args |-> args, name |-> f]
Empty == Op("empty", <<>>)

IsFunction(e) == e.op = "function"
Called(e) == IF IsFunction(e) THEN Call(e.name, <<>>) ELSE e

Parsed(e, tok) == [ok |-> TRUE, e |-> e, tok |-> tok]
Failed == [ok |-> FALSE]

\* The leaves of the left-heavy tree of commas.
RECURSIVE SplitExprList(_)
SplitExprList(e) ==
    IF e.op = "empty" THEN <<>>
    ELSE IF e.op = "," THEN Append(SplitExprList(e.args[1]), e.args[2])
    ELSE <<e>>

\* A function name is a call without arguments when the operator after it
\* takes an operand on its left.
CallsWithout(e, tok) ==
    /\ IsFunction(e)
    /\ \/ tok.kind = "comma"
       \/ tok.kind = "selector" /\ tok.t # "("
       \/ /\ Precedence(tok.kind) <= Precedence("mult")
          /\ Precedence(tok.kind) > Precedence("colon")

\* What becomes of an operation once both sides are parsed.
Combined(t, l, r) ==
    IF IsFunction(l) /\ t \in {"(", ""} THEN Call(l.name, SplitExprList(Called(r)))
    ELSE Op(t, <<l, Called(r)>>)

\* The functions of the parser call each other; they meet in this one: the tree
\* that starts with the operand at tok or, if there is one, with l.
RECURSIVE ParseFrom(_, _, _, _)
NoTree == Op("none", <<>>)
ParseUnary(src, tok) == ParseFrom(src, NoTree, 0, tok)
ParseBinOpRHS(src, prec, l, tok) == ParseFrom(src, l, prec, tok)

ParseExpression(src, tok) ==
    LET l == ParseUnary(src, tok)
    IN  IF l.ok THEN ParseBinOpRHS(src, 0, l.e, l.tok) ELSE Failed

ParseIdentifierExpr(src, tok) ==
    Parsed(IF tok.t \in Functions THEN Function(tok.t) ELSE Var(tok.t),
           gettok(src, tok.pos, "binop"))

ParseParenExpr(src, tok) ==
    LET v == ParseExpression(src, gettok(src, tok.pos, "none"))
    IN  IF ~v.ok THEN Failed
        ELSE IF v.tok.t = ")" THEN Parsed(v.e, gettok(src, v.tok.pos, "binop"))
        ELSE v

ParseIndex(src, tok) ==
    LET v == ParseExpression(src, gettok(src, tok.pos, "none"))
    IN  IF v.ok /\ v.tok.t = "]" THEN Parsed(v.e, gettok(src, v.tok.pos, "binop"))
        ELSE Failed

ParsePrimary(src, tok) ==
    CASE tok.kind = "identifier" -> ParseIdentifierExpr(src, tok)
      [] tok.kind = "number" -> Parsed(Numeral(tok.t), gettok(src, tok.pos, "binop"))
      [] tok.kind = "(" -> ParseParenExpr(src, tok)
      [] tok.kind = ")" -> Parsed(Empty, tok)
      [] OTHER -> Failed

\* ParseUnary(): an operand, with the signs before it.
Operand(src, tok) ==
    IF tok.kind \notin {"unary", "ref"} THEN ParsePrimary(src, tok)
    ELSE LET operand == ParseUnary(src, gettok(src, tok.pos, "none"))
             v == ParseBinOpRHS(src, Precedence(tok.kind), operand.e, operand.tok)
         IN  IF ~operand.ok THEN Failed
             ELSE IF ~v.ok THEN Failed
             ELSE IF tok.kind = "ref" /\ v.e.op # "var" THEN Failed
             ELSE Parsed(Op("prefix" \o tok.t, <<v.e>>), v.tok)

\* The operand on the right of an operator, with all that binds tighter.
RightOperand(src, tok) ==
    LET next == gettok(src, tok.pos, "none")
        r == IF tok.t = "[" THEN ParseIndex(src, next) ELSE ParseUnary(src, next)
    IN  IF ~r.ok THEN Failed
        ELSE IF Precedence(tok.kind) <= NextPrecedence(r.tok.kind)
        THEN ParseBinOpRHS(src, Precedence(tok.kind), r.e, r.tok)
        ELSE r

\* ParseBinOpRHS(): l with the operators after it, up to those of precedence prec.
Operation(src, prec, l, tok) ==
    IF NextPrecedence(tok.kind) <= prec
    THEN Parsed(IF prec = Precedence("ref") THEN l ELSE Called(l), tok)
    ELSE IF CallsWithout(l, tok) THEN ParseBinOpRHS(src, prec, Called(l), tok)
    ELSE IF tok.kind = "postfix"
    THEN IF l.op = "var"
         THEN ParseBinOpRHS(src, prec, Op("postfix" \o tok.t, <<l>>),
                            gettok(src, tok.pos, "binop"))
         ELSE Failed
    ELSE LET r == RightOperand(src, tok) IN
         IF ~r.ok THEN Failed
         ELSE ParseBinOpRHS(src, prec, Combined(tok.t, l, r.e), r.tok)

ParseFrom(src, l, prec, tok) ==
    IF l = NoTree THEN Operand(src, tok) ELSE Operation(src, prec, l, tok)

Parse(src) == ParseExpression(src, gettok(src, 0, "none"))
=============================================================================
