------------------------------- MODULE Frontend -------------------------------
(***************************************************************************)
(* What a session asks of the front end of the compiler: to declare        *)
(* functions, methods and operators, to define types with constructors and *)
(* destructors, to compute an expression, or to read one.  The parts share *)
(* little, so a behaviour of the specification exercises one of them.      *)
(***************************************************************************)
EXTENDS Constructors, Arithmetic, Writing

CONSTANTS
    MaxDeclarations, \* bound on the declarations of the first part
    MaxLists,      \* bound: the lists in use that end it
    Examples,      \* calls of the name whose prototypes are declared
    Leaves,        \* typed operands of the expressions to compute
    Arithmetics,   \* operators of the expressions to compute
    MaxTyped,      \* bound on the operators in such an expression
    Pieces,        \* operands of the expressions to read
    Infixes,       \* operators of the expressions to read
    MaxTree        \* bound on the nodes of such an expression

VARIABLES
    asked,         \* which of the four parts the session uses
    expr,          \* the expression to compute, as the parser has typed it
    tree           \* the expression to write and read

vars == <<protos, defined, types, last_defined_type, asked, expr, tree>>

Init ==
    /\ InitProtos
    /\ InitTypes
    /\ asked \in {"declare", "define types", "compute", "read"}
    /\ expr \in IF asked = "compute" THEN Leaves ELSE {CHOOSE e \in Leaves : TRUE}
    /\ tree \in IF asked = "read" THEN Pieces ELSE {CHOOSE e \in Pieces : TRUE}

-----------------------------------------------------------------------------
RECURSIVE Operations(_), Nodes(_)
Operations(e) ==
    IF IsLeaf(e) THEN 0
    ELSE IF IsUnary(e) THEN 1 + Operations(e.arg)
    ELSE 1 + Operations(e.l) + Operations(e.r)
Nodes(e) == 1 + FoldLeft(LAMBDA n, x : n + Nodes(x), 0, e.args)

\* The parser combines what it has read with another operand, if the types
\* allow that, or puts a sign before it.  (Operators of complex numbers, like
\* those of any struct, are calls of functions.)
Combine ==
    /\ asked = "compute" /\ Operations(expr) < MaxTyped
    /\ expr.type.kind # "struct"
    /\ \/ \E op \in Arithmetics, leaf \in Leaves :
             \/ /\ CanCombine(op, expr, leaf)
                /\ expr' = BinaryExprAST(op, expr, leaf)
             \/ /\ CanCombine(op, leaf, expr)
                /\ expr' = BinaryExprAST(op, leaf, expr)
       \/ /\ expr.type # Boolean
          /\ expr' = UnaryExprAST("neg", expr)
    /\ UNCHANGED <<declared, typeVars, asked, tree>>

\* A larger tree of operators, calls and indices.
Extend ==
    /\ asked = "read" /\ Nodes(tree) < MaxTree
    /\ \E piece \in Pieces :
          \/ \E op \in Infixes : tree' \in {Op(op, <<tree, piece>>), Op(op, <<piece, tree>>)}
          \/ \E x \in Names : tree' \in {Op("=", <<Var(x), tree>>), Op("", <<tree, Var(x)>>)}
          \/ \E f \in Functions : tree' \in {Call(f, <<tree>>), Call(f, <<tree, piece>>)}
          \/ tree' \in {Op("[", <<tree, piece>>), Op("prefix-", <<tree>>)}
    /\ UNCHANGED <<declared, typeVars, asked, expr>>

DeclareOne ==
    /\ \/ asked = "define types"
       \/ /\ asked = "declare"
          /\ MapThenSumSet(LAMBDA l : Len(protos[l]), Lists) < MaxDeclarations
          /\ Cardinality({l \in Lists : protos[l] # <<>>}) < MaxLists
    /\ \E h \in IF asked = "declare" THEN Headers ELSE Members : Declare(h)
    /\ UNCHANGED <<asked, expr, tree>>

DefineTypes == asked = "define types" /\ DeclareTypes /\ UNCHANGED <<asked, expr, tree>>

Next == DeclareOne \/ DefineTypes \/ Combine \/ Extend

Spec == Init /\ [][Next]_vars

-----------------------------------------------------------------------------
\* A virtual attribute stays one: whatever is declared after it, a setter
\* stands second and last in its list, behind the getter of the same type
\* (conflicts() looks at the list only when a prototype joins it).
SetterIsPaired ==
    \A l \in Lists : \A i \in DOMAIN protos[l] :
        Is("setter", protos[l][i]) =>
            /\ i = 2 /\ Len(protos[l]) = 2
            /\ protos[l][1].ret = protos[l][2].args[2]
            /\ Len(protos[l][1].args) = 1

\* A function is found by its symbol, so what is called through one prototype
\* may be the code compiled for another one.  Whenever two prototypes share a
\* symbol, though, their arguments are passed alike, and only prototypes that
\* differ in the kind of a reference may disagree on what is returned.
SymbolsAgree ==
    \A p, q \in Listed :
        p.symbol = q.symbol /\ ~Is("c_api", p) =>
            /\ [i \in DOMAIN p.args |-> Passed(p.args[i])]
                  = [i \in DOMAIN q.args |-> Passed(q.args[i])]
            /\ SameArguments(p, q) => PrototypeAST(p) = PrototypeAST(q)

\* A function that is defined can be called: no later declaration takes its
\* prototype from the list, unless one takes a vec or map, whose elements
\* CompareProtos() does not look at.
DefinedStaysListed ==
    \A s \in defined :
        \/ \E p \in Listed : p.symbol = s
        \/ \E p \in Listed : \E i \in DOMAIN p.args : p.args[i].type \in {Vec(Void).type, SetOf(Void).type}

ListsConsistent == SetterIsPaired /\ SymbolsAgree /\ DefinedStaysListed

\* The parts of an object of type t: itself, its fields, their fields.
RECURSIVE Parts(_)
Parts(t) ==
    {[path |-> <<>>, type |-> t]} \cup
    UNION {{[path |-> <<i, k>> \o part.path, type |-> part.type] :
                k \in 1 .. FieldTypes[t][i].times, part \in Parts(FieldTypes[t][i].type)} :
           i \in DOMAIN FieldTypes[t]}

\* The bodies a function runs, each for a part of the object it is called for.
RECURSIVE Runs(_, _)
Runs(name, t) ==
    LET Step(c) ==
            IF c.field = 0 THEN <<[path |-> <<>>, body |-> c.call]>>
            ELSE LET within == Runs(c.call, FieldTypes[t][c.field].type)
                 IN  [n \in DOMAIN within |->
                         [within[n] EXCEPT !.path = <<c.field, c.element>> \o @]]
    IN  FlattenSeq([n \in DOMAIN types.code[name] |-> Step(types.code[name][n])])

OnceForEach(t, slot, kind) ==
    LET runs == IF types.auto[t][slot] = Missing THEN <<>> ELSE Runs(types.auto[t][slot], t)
        expected == {p \in Parts(t) : FullName(p.type, kind) \in defined
                                       /\ types.auto[p.type][slot] # Deleted}
    IN  /\ Len(runs) = Cardinality(expected)
        /\ {runs[n] : n \in DOMAIN runs}
               = {[path |-> p.path, body |-> FullName(p.type, kind)] : p \in expected}

\* A type whose marks have the functions they promise: no body had an error, not
\* "init" alone is deleted, and what is cloned by a constructor of its own has no
\* field that cannot be cloned.
Promises(t) ==
    /\ "destructor" \in types.attr[t] => types.auto[t].destroy \in DOMAIN types.code
    /\ "constructor" \in types.attr[t] =>
           \/ types.auto[t].clone = Deleted
           \/ /\ types.auto[t].clone \in DOMAIN types.code
              /\ \A i \in DOMAIN FieldTypes[t] : types.auto[FieldTypes[t][i].type].clone # Deleted

\* Destroying an object runs the destructor of each of its parts that has one, and
\* cloning it the constructor of each, once: whatever of the functions for it was
\* written or provided, in arrays and in fields of fields.  What has a part that
\* cannot be cloned cannot be cloned.
PartsHandledOnce ==
    \A t \in types.known \ {last_defined_type} :
        (\A p \in Parts(t) : Promises(p.type)) =>
            /\ OnceForEach(t, "destroy", "D2")
            /\ IF \E p \in Parts(t) : types.auto[p.type].clone = Deleted
               THEN types.auto[t].clone = Deleted
               ELSE OnceForEach(t, "clone", "C2")

\* A call that some function matches exactly keeps its meaning: neither a later
\* overload nor a declaration repeated for the definition takes it over, since
\* new prototypes join the list at its end and matching ones stay in place.
Decided(list, call) ==
    LET i == selectProto(list, call)
    IN  i # 0 /\ (list[i].varargs \/ Class(list[i], call) = 1)
ExactIsStable ==
    [][\A l \in {k \in Lists : protos'[k] # protos[k]}, call \in Examples :
          Decided(protos[l], call) =>
              LET then == Meaning(protos'[l], call)
              IN  then # <<>> /\ SameArguments(then[1], Meaning(protos[l], call)[1])]_vars

\* The type the parser announces for an expression is the type of the value the
\* generated code has: two passes over the tree, getResType() up and
\* getDesiredTypes() down, agree wherever code is generated at all.  Except for
\* an integer beside an imaginary number: there the announced type follows the
\* width of the integer, the computed one is f64 or f32.
RECURSIVE Mixed(_)
Mixed(e) ==
    IF IsLeaf(e) THEN FALSE
    ELSE IF IsUnary(e) THEN Mixed(e.arg)
    ELSE \/ Mixed(e.l) \/ Mixed(e.r)
         \/ \E <<o, p>> \in {<<e.l, e.r>>, <<e.r, e.l>>} : Imaginary(o) /\ IsInt(p.type)
AnnouncedType ==
    Computed(expr).ok /\ ~Mixed(expr) => Computed(expr).type = expr.type

\* What a sum or product of integers would be without any width.
RECURSIVE Exact(_)
Exact(e) ==
    IF IsLeaf(e) THEN e.v
    ELSE Arith(e.op, Exact(e.l), Exact(e.r))

RECURSIVE Ring(_)      \* integers, their sums, differences and products
Ring(e) ==
    IF IsLeaf(e) THEN IsInt(e.type) /\ e.type # Boolean
    ELSE e.op \in {"+", "-", "*"} /\ Ring(e.l) /\ Ring(e.r)

\* No intermediate result is truncated: a sum or product of integers is right up
\* to the width of the type announced for the whole, however narrow its operands
\* and whatever their signs, because that type is wanted of the operands first
\* (getDesiredTypes()).  A sign ends that: its operand is computed in its own type.
SumsExact ==
    Ring(expr) /\ Computed(expr).ok =>
        Computed(expr).v = Pattern(Exact(expr), expr.type.bits)

\* A comparison of two typed operands that are right themselves is right about
\* the numbers, signed or not: -1 < 0u and not 0u < -1 for variables with these
\* values.  (An untyped -1 beside an unsigned operand is a large number.)
Represented(e) ==
    /\ Ring(e) /\ ~e.unknown
    /\ Exact(e) = Number(Pattern(Exact(e), e.type.bits), e.type.bits, Signed(e))
ComparisonsExact ==
    (/\ expr.op \in {"<", "<=", ">", ">="} /\ Computed(expr).ok
     /\ Represented(expr.l) /\ Represented(expr.r))
        => (Computed(expr).v = 1) = Compares(expr.op, Exact(expr.l), Exact(expr.r))

\* A right shift divides by a power of two and rounds down, whatever the sign and
\* however wide the number of places.
ShiftsExact ==
    (expr.op = ">>" /\ Represented(expr.l) /\ Represented(expr.r) /\ Computed(expr).ok)
        => Computed(expr).v =
             Pattern(Exact(expr.l) \div Pow2(Exact(expr.r)), expr.type.bits)

\* With i * i = -1: what an operation on a real and an imaginary number, or two
\* imaginary ones, yields is the pair of its real and imaginary part.
ImaginaryExact ==
    expr.op \in {"+", "-", "*", "/"} =>
    LET Part(o, v) == IF Imaginary(o) THEN <<0, v>> ELSE <<v, 0>>
        l == Part(expr.l, expr.l.v)
        r == Part(expr.r, expr.r.v)
        c == Computed(expr)
        result == IF "complex" \in expr.attr THEN c.v ELSE Part(expr, c.v)
        Product(x, y) == <<x[1] * y[1] - x[2] * y[2], x[1] * y[2] + x[2] * y[1]>>
    IN  (/\ c.ok /\ IsLeaf(expr.l) /\ IsLeaf(expr.r)
         /\ Imaginary(expr.l) \/ Imaginary(expr.r))
        => CASE expr.op = "+" -> result = <<l[1] + r[1], l[2] + r[2]>>
             [] expr.op = "-" -> result = <<l[1] - r[1], l[2] - r[2]>>
             [] expr.op = "*" -> result = Product(l, r)
             [] expr.op = "/" -> Product(result, r) = l
             [] OTHER -> TRUE

\* All four: types decide how wide and in which order numbers are, never which
\* number an expression is.
NumbersKept == SumsExact /\ ComparisonsExact /\ ShiftsExact /\ ImaginaryExact

\* "In all cases ... the following equation is always fulfilled: a = b * (a/b) +
\* (a%b)", for the quotients and remainders of both modes of division.
DivisionEquation ==
    (expr.op = "/" /\ Ring(expr.l) /\ Ring(expr.r) /\ Computed(expr).ok) =>
        LET quotient == BinaryExprAST("*", expr.r, expr)
            sum == BinaryExprAST("+", quotient, BinaryExprAST("%", expr.l, expr.r))
        IN  Computed(sum).ok => Computed(sum).v = Pattern(Exact(expr.l), expr.type.bits)

\* What is written is what is read: a tree written with no more brackets and
\* blanks than the precedences ask for, tight or spaced, is the tree the lexer
\* and the parser make of that text, to its end.
RoundTrip ==
    asked = "read" =>
        \A text \in {Write(tree, spaced) : spaced \in BOOLEAN} :
            Parse(text) = Parsed(tree, Token("none", "", Len(text)))
=============================================================================
