-------------------------------- MODULE Calls --------------------------------
(***************************************************************************)
(* Prototypes and the calls of them: ParseDefinition() and HandleExtern()  *)
(* add prototypes to the list of the functions of a name or of the methods *)
(* of a receiver and a name, PrototypeAST::conflicts() (src/parser.cc)     *)
(* decides whether they may, and selectProto() (src/functions.cc) picks    *)
(* the one a call means.                                                   *)
(***************************************************************************)
EXTENDS Prototype

CONSTANTS
    Headers          \* what a program may declare

VARIABLES
    protos,             \* FunctionProtos[name] and MethodProtos[{receiver, name}]
    defined             \* defined_functions: symbols that have their code

declared == <<protos, defined>>

\* The list a prototype belongs to; functions have no receiver.
ListOf(p) == <<IF Is("method", p) THEN ReceiverName(p.args[1]) ELSE "", p.name>>

\* A constructor that returns its value is a function like others.
AsListed(p) ==
    IF Is("constructor", p) /\ p.ret # Void
    THEN [p EXCEPT !.visibility = @ \ {"method"}] ELSE p

\* The prototypes of what can be declared at all.
Prototypes ==
    [h \in {x \in Headers : \E t \in DOMAIN Known : ~Malformed(x, t)} |->
        setMangledName(ParsePrototype(h))]
Lists == {ListOf(AsListed(Prototypes[h])) : h \in DOMAIN Prototypes}

InitProtos ==
    /\ protos = [l \in Lists |-> <<>>]
    /\ defined = {}

Listed == UNION {{protos[l][i] : i \in DOMAIN protos[l]} : l \in Lists}

-----------------------------------------------------------------------------
SameArguments(a, b) ==
    /\ Len(a.args) = Len(b.args)
    /\ \A i \in DOMAIN a.args : ~FullTypes_differ(a.args[i], b.args[i])

CompareProtos(a, b) ==
    CASE \E flag \in {"method", "constructor", "destructor", "setter"} :
            Is(flag, a) # Is(flag, b) -> "different"
      [] ~SameArguments(a, b) -> "different"     \* also a second C signature
      [] FullTypes_differ(a.ret, b.ret) -> "conflicting"
      [] Is("c_api", a) # Is("c_api", b) -> "conflicting"
      [] OTHER -> "matching"

Matches(p, list) == {i \in DOMAIN list : CompareProtos(p, list[i]) = "matching"}

\* Mutant: the presence of a setter does not close the list.
ConflictsWithoutSetter(p, list) ==
    \/ \E i \in DOMAIN list : CompareProtos(p, list[i]) = "conflicting"
    \/ /\ Matches(p, list) = {} /\ Is("setter", p)
       /\ ~ /\ Len(list) = 1
            /\ Len(p.args) = 2 /\ Len(list[1].args) = 1
            /\ ~FullTypes_differ(list[1].ret, p.args[2])

\* May p not join the list?  A setter needs the getter as the only method of
\* the name, and once it is declared nothing but itself can be declared again.
Conflicts(p, list) ==
    \/ \E i \in DOMAIN list :
          \/ Is("setter", list[i]) /\ ~Is("setter", p)
          \/ CompareProtos(p, list[i]) = "conflicting"
    \/ /\ Matches(p, list) = {} /\ Is("setter", p)
       /\ ~ /\ Len(list) = 1
            /\ Len(p.args) = 2 /\ Len(list[1].args) = 1
            /\ ~FullTypes_differ(list[1].ret, p.args[2])

\* Mutant: a new prototype goes to the front.
PutFirst(p, list) ==
    IF Matches(p, list) = {} THEN <<p>> \o list
    ELSE [list EXCEPT ![Max(Matches(p, list))] = p]

\* A matching prototype takes the place of the old one, a new one is appended.
check_and_add_proto(p, list) ==
    IF Matches(p, list) = {} THEN Append(list, p)
    ELSE [list EXCEPT ![Max(Matches(p, list))] = p]

\* Only structs (and c32) have methods; "init" and "clone" belong to default
\* constructors.
Unsuitable(h, p) ==
    \/ Is("method", p) /\ ~OfDeclared(p.args[1])
    \/ /\ h.word \in {"init", "clone"}
       /\ ~(Is("constructor", p) /\ p.ret = Void /\ Len(p.args) = 1)

MayDefine(h) ==
    LET named == Prototypes[h]
        p == AsListed(named)
    IN  named.symbol \notin defined /\ ~Unsuitable(h, p) /\ ~Conflicts(p, protos[ListOf(p)])

\* The definition of a function or method: its prototype is listed before the
\* body is read, and stays when there is an error in it.
ParseDefinition(h, correct) ==
    LET p == AsListed(Prototypes[h])
        l == ListOf(p)
    IN  /\ MayDefine(h)
        /\ protos' = [protos EXCEPT ![l] = check_and_add_proto(p, @)]
        /\ defined' = IF correct THEN defined \cup {p.symbol} ELSE defined

\* The declaration of an external one: a function is appended even when the
\* list holds a matching prototype.
HandleExtern(h) ==
    LET p == Prototypes[h]
        l == ListOf(p)
    IN  /\ ~(Is("method", p) /\ ~OfDeclared(p.args[1]))
        /\ ~Conflicts(p, protos[l])
        /\ protos' = [protos EXCEPT ![l] =
                          IF Is("method", p) THEN check_and_add_proto(p, @) ELSE Append(@, p)]
        /\ UNCHANGED defined

-----------------------------------------------------------------------------
(* A call is the sequence of its arguments, each with its type, whether it *)
(* is an untyped literal and whether it is a list in braces.               *)

Aggregate(t) == t.kind \in {"struct", "array"}

ArgMatch(arg, param) ==
    IF arg.type = Pointer /\ "optional" \in param.attr THEN By("nothing", "exact")
    ELSE IF arg.list /\ Aggregate(param.type) THEN By("same", "untyped")
    ELSE getConv(arg, param, FALSE, arg.unknown)

\* The receiver of a method has been found already and is not compared.
Compared(p) == IF Is("method", p) THEN DOMAIN p.args \ {1} ELSE DOMAIN p.args

\* 1: all arguments match exactly; 2: with conversions; 3: with conversions
\* of untyped values that lose some; 0: not at all.
Class(p, call) ==
    LET match == [i \in Compared(p) |-> ArgMatch(call[i], p.args[i])] IN
    IF Len(p.args) # Len(call) THEN 0
    ELSE IF \E i \in DOMAIN match : match[i] = By("nothing", "untyped") THEN 0
    ELSE IF \A i \in DOMAIN match : match[i].match = "exact" THEN 1
    ELSE IF \A i \in DOMAIN match : match[i].match # "untyped" THEN 2
    ELSE 3

OfClass(list, call, n) == {i \in DOMAIN list : Class(list[i], call) = n}

\* An argument passed by reference cannot be converted on the way.
ConvertsReference(p, call) ==
    \E i \in Compared(p) :
        /\ "ref" \in p.args[i].attr
        /\ ArgMatch(call[i], p.args[i]).conv \notin {"nothing", "same"}

\* The first prototype with variable arguments or that matches exactly; else
\* the only one with conversions, else the only one with lossy ones.
selectProto(list, call) ==
    LET first == {i \in DOMAIN list : list[i].varargs \/ Class(list[i], call) = 1}
        best == IF OfClass(list, call, 2) # {} THEN OfClass(list, call, 2)
                ELSE OfClass(list, call, 3)
        Only(i) == IF ConvertsReference(list[i], call) THEN 0 ELSE i
    IN  IF first # {} THEN Min(first)
        ELSE IF Cardinality(best) = 1 THEN Only(CHOOSE i \in best : TRUE)
        ELSE 0

\* What a call means: the prototype, or that there is none to be called.
Meaning(list, call) ==
    LET i == selectProto(list, call) IN IF i = 0 THEN <<>> ELSE <<list[i]>>
=============================================================================
