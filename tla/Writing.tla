-------------------------------- MODULE Writing --------------------------------
(***************************************************************************)
(* The text of a tree of operators, written the two ways the tests and the *)
(* examples of the language are written: "tight", without blanks, and      *)
(* "spaced", with blanks around the operators; in both with no more        *)
(* brackets than the hierarchy of operators in doc/Specification.md asks   *)
(* for.  Only the place of the two operators nobody writes is that of      *)
(* src/token.def, the document has it between the signs and `*`.           *)
(***************************************************************************)
EXTENDS Syntax

\* The hierarchy, from the loosest to the tightest, and what binds from the right.
Hierarchy == <<"assign", "invisible", "comma", "or", "and", "bitor", "xor",
               "bitand", "cmp", "add", "mult", "unary", "pow", "postfix",
               "invisible_strong", "selector">>
Level(kind) == 2 * (CHOOSE i \in DOMAIN Hierarchy : Hierarchy[i] = kind)
FromRight(kind) == kind \in {"assign", "invisible", "invisible_strong", "pow"}
Reach(kind) == Level(kind) + (IF FromRight(kind) THEN 1 ELSE 0)

Operators == {"^", "*", "/", "%", "+", "-", "<", "==", "&", "|", "&&", "||", "="}

Tight(text) == <<Lexeme(Head(text).t, FALSE)>> \o Tail(text)
Apart(text) == <<Lexeme(Head(text).t, TRUE)>> \o Tail(text)
Brackets(text) == <<Lexeme("(", FALSE)>> \o Tight(text) \o <<Lexeme(")", FALSE)>>

\* A sign must not touch the same sign, nor the number it is applied to, and
\* "<-" is an operator of its own.
After(op, text) ==
    IF Head(text).t = op \/ (op = "<" /\ Head(text).t = "-") THEN Apart(text)
    ELSE Tight(text)
Prefixed(sign, text) ==
    <<Lexeme(sign, FALSE)>> \o
        (IF Head(text).t \in Numbers \cup {sign} THEN Apart(text) ELSE Tight(text))

\* May an argument follow its function behind a blank only?
StartsOperand(text) ==
    \/ IsOperand(Head(text).t)
    \/ /\ Head(text).t \in Signs /\ Len(text) > 1
       /\ IsOperand(text[2].t) /\ ~text[2].sp

\* The kind of the operator at the top of a tree.
KindOf(e, spaced) ==
    CASE e.op \in Operators -> BinaryKind(e.op)
      [] e.op = "prefix-" \/ e.op = "call" -> "unary"
      [] e.op = "" -> IF spaced THEN "invisible" ELSE "invisible_strong"
      [] e.op = "[" -> "selector"
      [] OTHER -> "postfix"

RECURSIVE Write(_, _)

\* In brackets when it binds no tighter than the given level.
Within(e, level, spaced) ==
    LET text == Write(e, spaced) IN
    IF e.op \in {"var", "number"} THEN text
    ELSE IF e.op = "call" /\ text[1].t = e.name /\ Len(text) > 1 /\ text[2].sp
    THEN IF Level("invisible") > level THEN text ELSE Brackets(text)
    ELSE IF e.op = "call" /\ e.args # <<>> THEN text
    ELSE IF Reach(KindOf(e, spaced)) > level THEN text ELSE Brackets(text)

Arguments(args, spaced) ==
    LET Text(i) == Within(args[i], Level("comma"), spaced)
        Next(text, i) == text \o <<Lexeme(",", FALSE)>>
                              \o (IF spaced THEN Apart(Text(i)) ELSE Tight(Text(i)))
    IN  FoldLeft(Next, Text(1), [i \in 1..Len(args) - 1 |-> i + 1])

Write(e, spaced) ==
    CASE e.op = "var" -> <<Lexeme(e.name, FALSE)>>
      [] e.op = "number" /\ e.name \in Numbers -> <<Lexeme(e.name, FALSE)>>
      [] e.op = "number" /\ e.name \notin Numbers ->
             LET written == CHOOSE w \in DOMAIN Signed1 : Signed1[w] = e.name
             IN  <<Lexeme(written[1], FALSE), Lexeme(written[2], FALSE)>>
      [] e.op = "call" /\ e.args = <<>> ->
             <<Lexeme(e.name, FALSE)>>
             \o (IF spaced THEN <<>> ELSE <<Lexeme("(", FALSE), Lexeme(")", FALSE)>>)
      [] e.op = "call" /\ e.args # <<>> ->
             LET text == Arguments(e.args, spaced)
                 bare == spaced /\ StartsOperand(text)
             IN  <<Lexeme(e.name, FALSE)>> \o (IF bare THEN Apart(text) ELSE Brackets(text))
      [] e.op = "[" ->
             Within(e.args[1], Level("selector") - 1, spaced)
             \o <<Lexeme("[", FALSE)>> \o Write(e.args[2], spaced)
             \o <<Lexeme("]", FALSE)>>
      [] e.op = "prefix-" ->
             Prefixed("-", Within(e.args[1], Level("unary") - 1, spaced))
      [] e.op \in {"postfix+", "postfix-"} ->
             LET sign == IF e.op = "postfix+" THEN "+" ELSE "-"
             IN  Write(e.args[1], spaced) \o <<Lexeme(sign, FALSE), Lexeme(sign, FALSE)>>
      [] OTHER ->
             LET kind == KindOf(e, spaced)
                 left == Within(e.args[1], Level(kind) + (IF FromRight(kind) THEN 1 ELSE -1), spaced)
                 word == IsWord(Last(left).t) /\ (~spaced \/ e.args[1].op = "call")
                 l == IF e.op = "" /\ word THEN Brackets(left) ELSE left
                 r == Within(e.args[2], Level(kind), spaced)
             IN  IF e.op = ""
                 THEN IF spaced THEN l \o Apart(r) ELSE l \o Tight(r)
                 ELSE IF spaced THEN l \o <<Lexeme(e.op, TRUE)>> \o Apart(r)
                 ELSE l \o <<Lexeme(e.op, FALSE)>> \o After(e.op, r)
=============================================================================
