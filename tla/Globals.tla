------------------------------ MODULE Globals ------------------------------
(***************************************************************************)
(* The main level variables of an interactive session.  A `global` variable *)
(* is thread local, but every expression runs in a thread of its own: a     *)
(* shadow of each global outlives the threads, and two chains of generated  *)
(* functions copy all shadows into the thread before the expression and     *)
(* back after it.  Two more chains construct and destroy the copies of a    *)
(* thread that a program starts.  A declaration extends the chains; its     *)
(* "setter" function runs on the main thread.                               *)
(* Source: HandleGlobalVariable() and the Register...() functions of        *)
(* src/codegen.cc, ParseTopLevelExpr() of src/parser.cc, get_thread_wrapper() *)
(* of src/threads.cc.                                                       *)
(*                                                                         *)
(* A declaration is [name, global, constexpr (by `:=`), rhs, ctor, usable,  *)
(* dtor]: rhs is "struct" for a literal S{...}, "call", or "copy" of a      *)
(* variable; ctor and dtor tell whether the type is marked with a default   *)
(* constructor and with a destructor, usable whether the constructor that   *)
(* it is marked with exists and has not been deleted.                       *)
(***************************************************************************)
EXTENDS Repl, Sequences, SequencesExt

CONSTANTS
  Names,         \* of variables
  Declarations,  \* what may be declared
  Externals,     \* names that are taken by external functions
  Started        \* a thread started by a program

ASSUME DeclarationsAssumption ==
  Declarations \subseteq [name : Names, global : BOOLEAN, constexpr : BOOLEAN,
                          rhs : {"struct", "call", "copy"}, ctor : BOOLEAN, usable : BOOLEAN,
                          dtor : BOOLEAN]
ASSUME StartedAssumption == Started \notin {Main, Exec}

VARIABLES
  table,         \* lex.module->globals_table
  symbols,       \* all_global_symbols
  shared,        \* the shadow of a global, the only copy of any other variable
  copies,        \* thread local copies, by thread; the main thread, whose copies
                 \* are restored before every use, has none here
  handlers,      \* whom last_shadow_saver and last_shadow_restorer call, in order
  constructors,  \* whom last_thread_constructor_caller calls, in order
  destructors,   \* whom last_thread_destructor_caller calls, in order
  phase,         \* of the expression: "body", "save", "returned"
  unsaved,       \* what its saver has still to copy
  started        \* the thread Started

globalVars == <<table, symbols, shared, copies, handlers, constructors,
                destructors, phase, unsaved, started>>

\* An object: which value, and whether it is constructed.
Object(data, life) == [data |-> data, life |-> life]
Objects == [data : 0 .. 2, life : {"raw", "live", "dead", "broken"}]
Nothing == Object(0, "none")
Construct(o) == [o EXCEPT !.life = IF @ = "raw" THEN "live" ELSE "broken"]
Destroy(o) == [o EXCEPT !.life = IF @ \in {"raw", "live"} THEN "dead" ELSE "broken"]

Absent == [state |-> "absent"]
Half(d) == [state |-> "half", decl |-> d]      \* known to the parser only
Unmade(d) == [state |-> "unmade", decl |-> d]  \* filled in, but without storage
Entry(d) == [state |-> "declared", decl |-> d]

Declared(v) == table[v].state = "declared"
Global(v) == Declared(v) /\ table[v].decl.global
Destructed(v) == Declared(v) /\ table[v].decl.dtor

NotStarted == [phase |-> "none", up |-> <<>>, down |-> <<>>, all |-> <<>>, known |-> {}]

InitGlobals ==
  /\ table        = [v \in Names |-> Absent]
  /\ symbols      = Externals
  /\ shared       = [v \in Names |-> Nothing]
  /\ copies       = [t \in {Exec, Started} |-> [v \in Names |-> Nothing]]
  /\ handlers     = <<>>
  /\ constructors = <<>>
  /\ destructors  = <<>>
  /\ phase        = "save"
  /\ unsaved      = <<>>
  /\ started      = NotStarted

-----------------------------------------------------------------------------
(* Declarations.                                                           *)

\* The value of the right hand side is constructed by its own code, unless it
\* is a copy or a constant.
is_call_expr(d) == d.rhs \in {"call", "struct"}
Rhs(d) == Object(1, IF d.ctor /\ (~is_call_expr(d) \/ d.constexpr) THEN "raw" ELSE "live")

needs_constructor(d) ==
  d.ctor /\ (~is_call_expr(d) \/ (d.rhs = "struct" /\ d.constexpr))

\* Is there something to do at run time, by a setter function?
needs_call(d) == ~d.constexpr \/ needs_constructor(d)

\* What a new thread finds in its copy: the constant, or zeros.
Image(d) == IF d.constexpr THEN Rhs(d) ELSE Object(0, IF d.ctor THEN "raw" ELSE "live")
Initial(d) == IF needs_constructor(d) THEN Construct(Rhs(d)) ELSE Rhs(d)

\* What the chain of restorers makes of the copies of a thread.
Restored(copy) == [v \in Names |-> IF v \in ToSet(handlers) THEN shared[v] ELSE copy[v]]
\* And the chain of savers of the shadows.
Saved(copy) == [v \in Names |-> IF v \in ToSet(handlers) THEN copy[v] ELSE shared[v]]

\* Mutant: a saver and restorer do not call the previous ones.
RegisterAlone(d) == handlers' = IF d.global THEN <<d.name>> ELSE handlers

\* A new saver (restorer) copies its variable, then calls the previous one.
RegisterShadowHandlers(d) ==
  handlers' = IF d.global THEN <<d.name>> \o handlers ELSE handlers

\* Mutant: the new constructor is called before the previous ones.
RegisterBefore(d) ==
  constructors' = IF needs_constructor(d) /\ d.global
                  THEN <<d.name>> \o constructors ELSE constructors

\* A new constructor caller calls the previous one first.
RegisterThreadConstructor(d) ==
  constructors' = IF needs_constructor(d) /\ d.global
                  THEN Append(constructors, d.name) ELSE constructors

\* A new destructor caller calls the previous one last.  It is registered for
\* every variable, whether thread local or not.
RegisterThreadDestructor(d) ==
  destructors' = IF d.dtor THEN <<d.name>> \o destructors ELSE destructors

\* The setter function restores all globals, computes the value (which may
\* assign another global w), constructs it and saves everything.
Setter(d, w) ==
  LET before == Restored([v \in Names |-> Nothing])
      after == [before EXCEPT ![w].data = IF w = d.name THEN @ ELSE 2,
                              ![d.name] = IF d.global THEN Initial(d) ELSE @]
  IN  /\ shared' = [Saved(after) EXCEPT ![d.name] = Initial(d)]
      /\ copies' = [t \in DOMAIN copies |-> [copies[t] EXCEPT ![d.name] = Image(d)]]

\* A constant needs no code: every thread has it.
Constant(d) ==
  /\ copies' = [t \in DOMAIN copies |-> [copies[t] EXCEPT ![d.name] = Image(d)]]
  /\ shared' = [shared EXCEPT ![d.name] = Image(d)]

Refused(d) == \/ d.constexpr /\ ~d.global
              \/ d.global /\ d.name \in symbols

\* The setter function is to call a constructor that there is not.
lacks_constructor(d) == needs_constructor(d) /\ ~d.usable

HandleGlobalVariable(d, w) ==
  /\ table[d.name] = Absent
  /\ ~Refused(d)
  /\ ~lacks_constructor(d)
  /\ table' = [table EXCEPT ![d.name] = Entry(d)]
  /\ symbols' = IF d.global THEN symbols \cup {d.name} ELSE symbols
  /\ IF needs_call(d) THEN Setter(d, w) ELSE w = d.name /\ Constant(d)
  /\ RegisterShadowHandlers(d)
  /\ RegisterThreadConstructor(d)
  /\ RegisterThreadDestructor(d)
  /\ UNCHANGED <<phase, unsaved, started>>

\* `:=` for an ordinary variable, or a name taken by an external function: the
\* entry the parser has made is left.
RefuseDeclaration(d) ==
  /\ table[d.name] = Absent
  /\ Refused(d)
  /\ table' = [table EXCEPT ![d.name] = Half(d)]
  /\ UNCHANGED <<symbols, shared, copies, handlers, constructors, destructors,
                 phase, unsaved, started>>

\* By then the symbol and the entry are there, and both stay.  The unfinished
\* setter function is not called.
NoConstructorFound(d) ==
  /\ table[d.name] = Absent
  /\ ~Refused(d)
  /\ lacks_constructor(d)
  /\ table' = [table EXCEPT ![d.name] = Unmade(d)]
  /\ symbols' = IF d.global THEN symbols \cup {d.name} ELSE symbols
  /\ UNCHANGED <<shared, copies, handlers, constructors, destructors,
                 phase, unsaved, started>>

\* Mutant: the symbol stays registered.
KeepSymbol(d) == symbols' = IF d.global THEN symbols \cup {d.name} ELSE symbols

\* It erases the symbol also when it was not inserted for d.
cleanupGlobal(d) == symbols' = symbols \ {d.name}

\* No code can be generated for the right hand side.
DeclarationFails(d) ==
  /\ table[d.name] = Absent
  /\ ~Refused(d)
  /\ cleanupGlobal(d)
  /\ UNCHANGED <<table, shared, copies, handlers, constructors, destructors,
                 phase, unsaved, started>>

-----------------------------------------------------------------------------
(* An expression: restorer, the expression itself, saver.                  *)

Restore ==
  /\ copies' = [copies EXCEPT ![Exec] =
                  Restored([v \in Names |-> IF Declared(v) THEN Image(table[v].decl) ELSE Nothing])]
  /\ phase' = "body"
  /\ unsaved' = <<>>
  /\ UNCHANGED <<table, symbols, shared, handlers, constructors, destructors,
                 started>>

\* Of any other variable there is one copy, whose value does not matter here.
Assign(v) ==
  /\ Global(v)
  /\ copies' = [copies EXCEPT ![Exec][v].data = 2]
  /\ UNCHANGED <<table, symbols, shared, handlers, constructors, destructors,
                 phase, unsaved, started>>

BodyEnds ==
  /\ phase' = "save"
  /\ unsaved' = handlers
  /\ UNCHANGED <<table, symbols, shared, copies, handlers, constructors,
                 destructors, started>>

SaveOne ==
  /\ unsaved # <<>>
  /\ shared' = [shared EXCEPT ![Head(unsaved)] = copies[Exec][Head(unsaved)]]
  /\ unsaved' = Tail(unsaved)
  /\ UNCHANGED <<table, symbols, copies, handlers, constructors, destructors,
                 phase, started>>

\* The copies of a thread end with it.
Release ==
  /\ copies' = [copies EXCEPT ![Exec] = [v \in Names |-> Nothing]]
  /\ UNCHANGED <<table, symbols, shared, handlers, constructors, destructors,
                 phase, unsaved, started>>

\* A top level `return` saves nothing and destroys all variables.  It refers to
\* each that has a destructor: it is never run if one of them has no storage.
DestructAll ==
  /\ \A v \in Names : table[v] # Absent /\ table[v].decl.dtor => Declared(v)
  /\ phase' = "returned"
  /\ copies' = [copies EXCEPT ![Exec] = [v \in Names |->
                  IF Global(v) /\ Destructed(v) THEN Destroy(@[v]) ELSE @[v]]]
  /\ shared' = [v \in Names |->
                  IF Destructed(v) /\ ~Global(v) THEN Destroy(shared[v]) ELSE shared[v]]
  /\ UNCHANGED <<table, symbols, handlers, constructors, destructors,
                 unsaved, started>>

-----------------------------------------------------------------------------
(* A thread started by a program: get_thread_wrapper().                    *)

StartedStep(from, new) ==
  /\ started.phase = from
  /\ started' = new
  /\ UNCHANGED <<table, symbols, handlers, constructors, destructors,
                 phase, unsaved>>

\* The wrapper is generated with the `thread` expression: it calls the chains
\* of that time.
StartThread ==
  /\ StartedStep("none", [phase |-> "construct", up |-> constructors,
                          down |-> destructors, all |-> constructors,
                          known |-> {v \in Names : Global(v)}])
  /\ copies' = [copies EXCEPT ![Started] =
                  [v \in Names |-> IF Declared(v) THEN Image(table[v].decl) ELSE Nothing]]
  /\ UNCHANGED shared

ConstructOne ==
  /\ started.up # <<>>
  /\ StartedStep("construct", [started EXCEPT !.up = Tail(@)])
  /\ copies' = [copies EXCEPT ![Started][Head(started.up)] = Construct(@)]
  /\ UNCHANGED shared

Run ==
  /\ started.up = <<>>
  /\ StartedStep("construct", [started EXCEPT !.phase = "run"])
  /\ UNCHANGED <<copies, shared>>

FunctionEnds ==
  /\ StartedStep("run", [started EXCEPT !.phase = "destroy"])
  /\ UNCHANGED <<copies, shared>>

DestroyOne ==
  LET v == Head(started.down) IN
  /\ started.down # <<>>
  /\ StartedStep("destroy", [started EXCEPT !.down = Tail(@)])
  /\ IF Global(v)
     THEN copies' = [copies EXCEPT ![Started][v] = Destroy(@)] /\ UNCHANGED shared
     ELSE shared' = [shared EXCEPT ![v] = Destroy(@)] /\ UNCHANGED copies

ThreadEnds ==
  /\ started.down = <<>>
  /\ StartedStep("destroy", NotStarted)
  /\ copies' = [copies EXCEPT ![Started] = [v \in Names |-> Nothing]]
  /\ UNCHANGED shared

StartedNext == ConstructOne \/ Run \/ FunctionEnds \/ DestroyOne \/ ThreadEnds
=============================================================================
