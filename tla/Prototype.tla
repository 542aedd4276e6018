------------------------------- MODULE Prototype -------------------------------
(***************************************************************************)
(* Headers of functions, methods, operators, constructors and destructors: *)
(* ParsePrototype() (src/parser.cc) turns what is written after "def" into *)
(* a prototype, Mangle() (src/mangler.cc) gives it the symbol under which  *)
(* the linker knows it, and PrototypeAST::PrototypeAST() (src/types.cc)    *)
(* decides how its arguments are passed.                                   *)
(*                                                                         *)
(* A prototype is its visibility flags, its name, the full types of its    *)
(* arguments (of a method, the receiver first) and the type it returns.  A *)
(* symbol is the sequence of its parts; a length that precedes a name in   *)
(* the symbol is the part "#".                                             *)
(***************************************************************************)
EXTENDS Types, SequencesExt

CONSTANTS
    Known,     \* the full types a name stands for
    Fields,    \* the names of the fields of the types
    Large,     \* the types of more than sret_limit bytes
    Path       \* import path of the module

Void == FT(Struct("void"), {})      \* void_type
Is(flag, p) == flag \in p.visibility

\* llvm_vec_type and llvm_map_type: what the elements are is kept beside the type.
Vec(elem) == [type |-> Struct("vec"), attr |-> {}, elem |-> <<elem>>]
MapOf(key, val) == [type |-> Struct("map"), attr |-> {}, elem |-> <<key, val>>]
SetOf(key) == [type |-> Struct("map"), attr |-> {}, elem |-> <<key>>]
va_arg_type == FT(Array(<<0>>, Struct("interface")), {"ref", "by_value"})
OfDeclared(ft) == ft.type.kind = "struct" \/ "complex" \in ft.attr

-----------------------------------------------------------------------------
(* What is written.  A header has an introducing word, a type or function  *)
(* name, what follows it ("." and the name of a method, an operator or     *)
(* nothing), arguments with the word before their type, and so on.         *)

Receiver(h) == Known[h.first]
HasReceiver(h) == h.first \in DOMAIN Known
OfOperator(h) == h.then \notin {"", "."}
Destructs(h) == h.word = "~"
Constructs(h) == HasReceiver(h) /\ h.then = "" /\ ~Destructs(h)
OfStruct(h) == HasReceiver(h) /\ Receiver(h).type.kind = "struct"

\* const, unique, shared, optional and ref all make a reference; what is too
\* large to be passed in registers is passed by address, as a value.
Argument(a) ==
    LET attr == a.type.attr \cup (IF a.word = "" THEN {} ELSE {a.word, "ref"})
    IN  [a.type EXCEPT !.attr =
            IF "ref" \notin attr /\ a.type.type \in Large
            THEN attr \cup {"by_value", "sret_ref"} ELSE attr]

This(h) == FT(Receiver(h).type, Receiver(h).attr \cup {"ref"}
                  \cup (IF h.word = "const" THEN {"by_value"} ELSE {}))

ArgTypes(h) ==
    (IF OfStruct(h) \/ (HasReceiver(h) /\ OfOperator(h)) THEN <<This(h)>> ELSE <<>>)
    \o [i \in DOMAIN h.args |-> Argument(h.args[i])]
    \o (IF h.varargs /\ ~h.c_api THEN <<va_arg_type>> ELSE <<>>)

Kind(h) ==
    CASE Destructs(h) -> "destructor"
      [] Constructs(h) /\ h.ret # Void -> "conversion"
      [] Constructs(h) -> "constructor"
      [] ~OfOperator(h) -> "other"
      [] OfDeclared(ArgTypes(h)[1]) -> IF Len(ArgTypes(h)) = 1 THEN "unary" ELSE "binary"
      [] OTHER -> "reverse"

\* Headers nothing can be made of.  A destructor or default constructor has to
\* follow its type.
Malformed(h, last) ==
    LET args == ArgTypes(h)
        kind == Kind(h)
    IN  \/ ~HasReceiver(h) /\ (h.then # "" \/ Destructs(h))
        \/ HasReceiver(h) /\ h.c_api
        \/ Destructs(h) /\ h.first # last
        \/ h.then = "." /\ (~OfStruct(h) \/ h.second \in Fields[h.first])
        \/ h.setter /\ (h.then = "" \/ Len(args) # 2 \/ h.varargs)
        \/ kind = "destructor" /\ (h.ret # Void \/ Len(args) # 1)
        \/ kind = "conversion" /\ (~OfStruct(h) \/ Len(args) # 1)
        \/ kind \in {"unary", "binary", "reverse"} /\ Len(args) > 2
        \/ kind = "unary" /\ h.then \notin {"+", "-"}
        \/ kind = "reverse" /\ ~(Len(args) = 2 /\ OfDeclared(args[2]))
        \/ kind = "constructor" /\ OfStruct(h) /\ Len(args) = 1 /\ h.first # last

\* A constructor of a basic type returns what it makes; with one argument it is
\* an ordinary function.
ParsePrototype(h) ==
    LET args == ArgTypes(h)
        kind == Kind(h)
        basic == kind = "constructor" /\ ~OfStruct(h)
        AsValue(ft) == IF "ref" \in ft.attr THEN ft
                       ELSE [ft EXCEPT !.attr = @ \cup {"ref", "by_value"}]
        AsLeft(ft) == IF ft.type.kind = "struct" THEN ft
                      ELSE [ft EXCEPT !.attr = @ \ {"ref"}]
    IN  [visibility |->
             ({kind} \cup (IF h.c_api THEN {"c_api"} ELSE {})
                     \cup (IF h.setter THEN {"setter"} ELSE {})
                     \cup (IF HasReceiver(h) THEN {"method"} ELSE {}))
             \ (IF basic /\ Len(args) = 1 THEN {"constructor", "method"} ELSE {}),
         op |-> IF OfOperator(h) THEN h.then ELSE "",
         name |-> CASE kind = "destructor" -> "~" \o h.first
                    [] OfOperator(h) -> kind \o h.then
                    [] h.then = "." -> h.second
                    [] OTHER -> h.first,
         args |-> IF kind = "reverse" THEN <<AsValue(args[2]), AsLeft(args[1])>> ELSE args,
         ret |-> IF basic THEN Receiver(h) ELSE h.ret,
         varargs |-> h.varargs,
         symbol |-> <<>>]

-----------------------------------------------------------------------------
(* Symbols.                                                                *)

Sized(name) == <<"#", name>>

IntCode(bits, signed) ==
    LET rank == Cardinality({w \in IntWidths : w < bits})
    IN  IF bits = 1 THEN "b"
        ELSE (IF signed THEN <<"c", "s", "i", "x">> ELSE <<"h", "t", "j", "y">>)[rank + 1]

\* The code of a type without the mark of a reference.
RECURSIVE ValueCode(_)
ValueCode(ft) ==
    LET Elem(i) == (IF "ref" \in ft.elem[i].attr THEN <<"R">> ELSE <<>>)
                       \o ValueCode(ft.elem[i])
        imaginary == IF Signed(ft) THEN "G" ELSE ""
    IN  CASE ft.type = Struct("map") ->
               IF Len(ft.elem) = 1 THEN <<"U3set">> \o Elem(1)
               ELSE <<"U3map", "I">> \o Elem(1) \o <<"E">> \o Elem(2)
          [] ft.type = Struct("vec") -> <<"U3vec">> \o Elem(1)
          [] ft.type = Pointer ->
               <<"P">> \o (IF ft.attr \cap {"const", "cstring"} = {} THEN <<>> ELSE <<"K">>)
                       \o <<IF "cstring" \in ft.attr THEN "c" ELSE "v">>
          [] "complex" \in ft.attr -> <<IF ft.type.kind = "struct" THEN "Cd" ELSE "Cf">>
          [] IsFloat(ft.type) ->
               <<imaginary \o (IF ft.type.bits = DoubleBits THEN "d" ELSE "f")>>
          [] IsInt(ft.type) -> <<IntCode(ft.type.bits, Signed(ft))>>
          [] ft.type.kind = "array" ->
               [i \in DOMAIN ft.type.dims |-> "A" \o ToString(ft.type.dims[i])]
                   \o ValueCode(FT(ft.type.elem, ft.attr))
          [] OTHER -> Sized(ft.type.name)

\* Mutant: references are not told from values.
OnlyValueCode(ft) == ValueCode(ft)

TypeCode(ft) == (IF "ref" \in ft.attr THEN <<"R">> ELSE <<>>) \o ValueCode(ft)

OperatorCode(op) ==
    CASE op = "+" -> "pl" [] op = "-" -> "mi" [] op = "*" -> "ml" [] op = "/" -> "dv"
      [] op = "%" -> "rm" [] op = "^" -> "eo" [] op = "==" -> "eq" [] op = "<" -> "lt"

MangleOp(p) ==
    IF Is("unary", p) THEN (IF p.op = "+" THEN "ps" ELSE "ng") ELSE OperatorCode(p.op)

\* Basic types contribute the name they were first declared with.
ReceiverName(ft) ==
    IF ft.type.kind = "struct" THEN ft.type.name
    ELSE IF "complex" \in ft.attr THEN "c32"
    ELSE CHOOSE name \in DOMAIN Known :
             Known[name].type = ft.type /\ Signed(Known[name]) = Signed(ft)

\* The scope of a symbol, its name, and what ends the scope.
MangleBase(p) ==
    LET scoped == Path # <<>> \/ Is("method", p)
        special == {"constructor", "destructor", "conversion"} \cap p.visibility # {}
    IN  (IF scoped THEN <<"N">> \o FlattenSeq([i \in DOMAIN Path |-> Sized(Path[i])]) ELSE <<>>)
        \o (IF ~Is("method", p) \/ special THEN <<>>
            ELSE Sized(ReceiverName(p.args[IF Is("reverse", p) THEN 2 ELSE 1])))
        \o (CASE Is("destructor", p) -> Sized(ReceiverName(p.args[1])) \o <<"D2">>
              [] Is("constructor", p) -> Sized(p.name) \o <<"C2">>
              [] p.op # "" -> <<MangleOp(p)>>
              [] OTHER -> Sized(p.name))
        \o (IF Path # <<>> \/ (Is("method", p) /\ ~Is("conversion", p)) THEN <<"E">> ELSE <<>>)

Mangle(p) ==
    LET args == IF Is("conversion", p) THEN <<p.args[1], p.ret>> ELSE p.args
        all == ~Is("method", p) \/ (Is("constructor", p) /\ p.ret # Void)
        first == IF all THEN 1 ELSE 2
        codes == IF Is("reverse", p) THEN TypeCode(args[1])
                 ELSE FlattenSeq([i \in 1 .. Len(args) - first + 1 |-> TypeCode(args[i + first - 1])])
    IN  <<"_Z">> \o MangleBase(p)
        \o (IF Is("conversion", p) THEN <<"cv">> ELSE <<>>)
        \o (IF args = <<>> \/ (Is("method", p) /\ Len(args) = 1) THEN <<"v">> ELSE codes)
        \o (IF Is("conversion", p) THEN <<"Ev">> ELSE <<>>)

\* Functions with a C interface keep their names.
setMangledName(p) ==
    [p EXCEPT !.symbol = IF Is("c_api", p) THEN <<p.name>> ELSE Mangle(p)]

-----------------------------------------------------------------------------
\* How an argument reaches a function: its LLVM type.  An array with open
\* dimensions is passed as a reference together with its sizes.
Passed(ft) ==
    IF ft.type.kind = "array" /\ 0 \in {ft.type.dims[i] : i \in DOMAIN ft.type.dims}
    THEN [kind |-> "sizes and address"]
    ELSE IF {"ref", "by_value"} \cap ft.attr # {} THEN Pointer
    ELSE ft.type

\* A large result is stored where an additional first argument points to.
PrototypeAST(p) ==
    [args |-> (IF ~Is("constructor", p) /\ p.ret.type \in Large THEN <<Pointer>> ELSE <<>>)
                  \o [i \in DOMAIN p.args |-> Passed(p.args[i])],
     ret |-> IF p.ret.type \in Large THEN Void.type ELSE p.ret.type]
=============================================================================
