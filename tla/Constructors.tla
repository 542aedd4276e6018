----------------------------- MODULE Constructors -----------------------------
(***************************************************************************)
(* Default constructors and destructors.  AutoMethods (src/parser.cc)      *)
(* holds, for each struct, the functions that initialize, clone and        *)
(* destroy an object with all its fields.  They may be defined or deleted  *)
(* right after the type; when something else follows, the missing ones are *)
(* made from those of the fields (finish_constructors_and_destructor(),    *)
(* src/functions.cc).                                                      *)
(***************************************************************************)
EXTENDS Calls

CONSTANT
    FieldTypes    \* the fields of a struct, in order: [type, times], more than
                  \* one time in an array

VARIABLES
    types,              \* what is kept of the types: see Types0
    last_defined_type   \* the type whose constructors and destructor may follow

typeVars == <<types, last_defined_type>>

Structs == DOMAIN FieldTypes
Missing == <<>>
Deleted == <<"!">>         \* invalid_constructor

\* The marks of a type (type_attr), the marks its fields had when it was defined,
\* the names of its functions, and the code of those the compiler provides: the
\* calls, each of a function for a field or, as field 0, for the object itself.
Types0 ==
    [known |-> {},
     attr |-> [t \in Structs |-> {}],
     fields |-> [t \in Structs |-> <<>>],
     auto |-> [t \in Structs |->
                 [clone |-> Missing, destroy |-> Missing, init |-> Missing, own |-> Missing]],
     code |-> [s \in {} |-> <<>>]]

\* A session that starts with the definition of a type without fields.
InitTypes ==
    \E t \in Structs :
        /\ FieldTypes[t] = <<>>
        /\ types = [Types0 EXCEPT !.known = {t}]
        /\ last_defined_type = t

Mark(slot) == IF slot = "destroy" THEN "destructor" ELSE "constructor"

\* createConstructorOrDestructorFnProto(): C1 and D1 handle the fields, too.
FullName(t, kind) ==
    <<"_Z", "N">> \o FlattenSeq([i \in DOMAIN Path |-> Sized(Path[i])])
                  \o Sized(t) \o <<kind, "E", "v">>

-----------------------------------------------------------------------------
\* A field refers to its type while that has no marks, and to a copy otherwise.
FieldMarks(o, t, i) ==
    IF o.fields[t][i] = {} THEN o.attr[FieldTypes[t][i].type] ELSE o.fields[t][i]

FieldFunction(o, t, i, slot) == o.auto[FieldTypes[t][i].type][slot]
Needed(o, t, slot) ==
    {i \in DOMAIN FieldTypes[t] : Mark(slot) \in FieldMarks(o, t, i)}
Unhandled(o, t, slot) ==
    {i \in Needed(o, t, slot) : FieldFunction(o, t, i, slot) \in {Missing, Deleted}}

CallsFor(o, t, i, slot) ==
    [k \in 1 .. FieldTypes[t][i].times |->
        [field |-> i, element |-> k, call |-> FieldFunction(o, t, i, slot)]]

\* insert_field_destructors(): a call per field with the mark.  The first field
\* without a function to call ends it.
FieldCalls(o, t, slot) ==
    FlattenSeq([i \in DOMAIN FieldTypes[t] |->
        IF /\ Mark(slot) \in FieldMarks(o, t, i)
           /\ \A j \in Unhandled(o, t, slot) : i < j
        THEN CallsFor(o, t, i, slot) ELSE <<>>])

Provide(o, t, slot, name, calls) ==
    [o EXCEPT !.auto[t][slot] = name, !.code = name :> calls @@ @,
              !.attr[t] = @ \cup {Mark(slot)}]

\* A function that does nothing but call those of the fields.
ProvideFor(o, t, slot) ==
    LET full == FullName(t, IF slot = "destroy" THEN "D1" ELSE "C1")
        provided == Provide(o, t, slot, full, FieldCalls(o, t, slot))
    IN  IF slot = "clone" /\ o.auto[t].init # Deleted
        THEN Provide(provided, t, "init", FullName(t, "C2"), <<>>)
        ELSE provided

MustDelete(o, t, slot, unhandled) ==
    unhandled # {} /\ FieldFunction(o, t, Min(unhandled), slot) = Deleted

\* The type has none of its own; nothing is provided if no field needs it, and
\* what cannot be cloned with all its fields is deleted.
check_destructor(o, t, slot) ==
    IF Mark(slot) \in o.attr[t] \/ Needed(o, t, slot) = {} THEN o
    ELSE IF Unhandled(o, t, slot) = {} THEN ProvideFor(o, t, slot)
    ELSE IF MustDelete(o, t, slot, Unhandled(o, t, slot))
    THEN [o EXCEPT !.auto[t].clone = Deleted, !.attr[t] = @ \cup {"constructor"}]
    ELSE o

\* Mutant: one of the two is enough.
FinishOne(o, t) ==
    IF t = "" THEN o
    ELSE IF "destructor" \notin o.attr[t] THEN check_destructor(o, t, "destroy")
    ELSE check_destructor(o, t, "clone")

\* The section of a type ends.
finish_constructors_and_destructor(o, t) ==
    IF t = "" THEN o
    ELSE FoldLeft(LAMBDA done, slot : check_destructor(done, t, slot), o, <<"destroy", "clone">>)

-----------------------------------------------------------------------------
Marked(o, h) ==
    [o EXCEPT !.attr[h.first] =
        @ \cup {IF Destructs(h) THEN "destructor" ELSE "constructor"}]

Initializes(h) == h.word # "clone"      \* without a word, it does both
Clones(h) == h.word # "init"

\* ParseDefinition() notes the name before it reads the body.
Noted(o, h, name) ==
    LET auto == o.auto[h.first]
        late == Clones(h) /\ auto.clone = Deleted
    IN  IF Destructs(h) THEN [ok |-> TRUE, types |-> [o EXCEPT !.auto[h.first].own = name]]
        ELSE IF Initializes(h) /\ auto.init = Deleted THEN [ok |-> FALSE, types |-> o]
        ELSE [ok |-> ~late,
              types |-> [o EXCEPT !.auto[h.first] =
                            [@ EXCEPT !.init = IF Initializes(h) THEN name ELSE @,
                                      !.clone = IF Clones(h) /\ ~late THEN name ELSE @]]]

\* finish_codegen(): the body gets a full version that handles the fields, too,
\* first those of a destructor, and last those of a constructor.
finish_codegen(o, h, name) ==
    LET t == h.first
        body == <<[field |-> 0, element |-> 1, call |-> name]>>
    IN  IF Destructs(h)
        THEN Provide(o, t, "destroy", FullName(t, "D1"), FieldCalls(o, t, "destroy") \o body)
        ELSE IF o.auto[t].clone = Deleted THEN o
        ELSE Provide(o, t, "clone", FullName(t, "C1"), body \o FieldCalls(o, t, "clone"))

IsDefault(h) == Destructs(h) \/ (Constructs(h) /\ h.ret = Void /\ h.args = <<>>)

NotedFor(h) == Noted(Marked(types, h), h, Prototypes[h].symbol)

DefineMember(h, correct) ==
    /\ NotedFor(h).ok
    /\ types' = IF correct THEN finish_codegen(NotedFor(h).types, h, Prototypes[h].symbol)
                ELSE NotedFor(h).types

\* The prototype conflicts, or the function has been deleted.
RefuseDefinition(h) ==
    /\ ~(MayDefine(h) /\ NotedFor(h).ok)
    /\ types' = IF Prototypes[h].symbol \in defined THEN Marked(types, h)
                ELSE NotedFor(h).types
    /\ UNCHANGED declared

\* "delete" of both conflicts with either, and has deleted the first by then.
DeleteMember(h) ==
    LET o == Marked(types, h)
        kept == Initializes(h) /\ types.auto[h.first].init # Missing
    IN  /\ types' = IF kept THEN o
                    ELSE [o EXCEPT !.auto[h.first] =
                             [@ EXCEPT !.init = IF Initializes(h) THEN Deleted ELSE @,
                                       !.clone = IF Clones(h) /\ @ = Missing THEN Deleted ELSE @]]
        /\ UNCHANGED declared

\* What a definition or declaration refers to has been defined.
Refers(h) ==
    LET receiver == IF HasReceiver(h) THEN {Receiver(h).type} ELSE {}
    IN  \A type \in receiver \cup {h.args[i].type.type : i \in DOMAIN h.args} :
            type.kind = "struct" /\ type.name \in Structs => type.name \in types.known

\* A function, method or operator ends the section of the last type; what may
\* belong to the section has to follow its type.
Declare(h) ==
    LET special == Constructs(h) \/ Destructs(h)
        ended == IF special THEN types
                 ELSE finish_constructors_and_destructor(types, last_defined_type)
    IN  /\ Refers(h) /\ ~Malformed(h, last_defined_type)
        /\ \/ \E correct \in BOOLEAN :
                 /\ ParseDefinition(h, correct)
                 /\ IF IsDefault(h) THEN DefineMember(h, correct) ELSE types' = ended
           \/ IsDefault(h) /\ RefuseDefinition(h)
           \/ /\ HandleExtern(h)
              /\ types' = IF IsDefault(h) THEN Marked(types, h) ELSE ended
           \/ IsDefault(h) /\ Constructs(h) /\ DeleteMember(h)
        /\ last_defined_type' = IF special THEN last_defined_type ELSE ""

\* A header that is refused may have left its mark: that of a destructor with
\* arguments, that of a constructor which does not follow its type.
RefuseMember(h) ==
    /\ Refers(h)
    /\ Destructs(h) = (h.first = last_defined_type)
    /\ types' = Marked(types, h)
    /\ UNCHANGED <<declared, last_defined_type>>

\* HandleTypeDef(): the section of the last type ends, that of t begins.
HandleTypeDef(t) ==
    LET o == finish_constructors_and_destructor(types, last_defined_type)
    IN  /\ t \notin types.known
        /\ \A i \in DOMAIN FieldTypes[t] : FieldTypes[t][i].type \in types.known
        /\ types' = [o EXCEPT !.known = @ \cup {t},
                              !.fields[t] = [i \in DOMAIN FieldTypes[t] |->
                                                o.attr[FieldTypes[t][i].type]]]
        /\ last_defined_type' = t
        /\ UNCHANGED declared

\* Any other statement.
EndSection ==
    /\ last_defined_type # ""
    /\ types' = finish_constructors_and_destructor(types, last_defined_type)
    /\ last_defined_type' = ""
    /\ UNCHANGED declared

\* What may follow in the section of a type, and the types.
Members == {h \in Headers : IsDefault(h)}
DeclareTypes ==
    \/ \E h \in Members : RefuseMember(h)
    \/ \E t \in Structs : HandleTypeDef(t)
    \/ EndSection
=============================================================================
