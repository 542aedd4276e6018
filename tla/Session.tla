------------------------------ MODULE Session ------------------------------
(***************************************************************************)
(* The session as a whole: the main thread reads declarations and           *)
(* expressions; an expression runs in its thread between    *)
(* restorer and saver, and may be ended at any step by a signal; a thread   *)
(* it has started goes on beside it.  Composition of Repl and Globals.      *)
(***************************************************************************)
EXTENDS Globals

sessionVars == <<vars, globalVars>>

SessionInit == Init /\ InitGlobals

\* MainLoop() with something that runs no thread.
ReadOther(to) ==
  MainStep("read", to)
  /\ UNCHANGED <<kind, expr, execVars, execution_thread, handlerVars>>

Declare ==
  /\ ReadOther("read")
  /\ \E d \in Declarations :
        \/ HandleGlobalVariable(d, d.name)
        \/ \E w \in Names : Global(w) /\ HandleGlobalVariable(d, w)
        \/ RefuseDeclaration(d)
        \/ NoConstructorFound(d)
        \/ DeclarationFails(d)

\* A setter runs on the main thread: SIGABRT there is the end.  And so is code
\* that cannot be linked, as it refers to a variable without storage.
SetterAborts == ReadOther("dead") /\ UNCHANGED globalVars

MainGoesOn ==
  \/ JoinThread /\ Release
  \/ (Publish \/ ClearHandle \/ UseResult) /\ UNCHANGED globalVars

MainNext ==
  \/ Declare
  \/ SetterAborts
  \/ (\E k \in Kinds : ReadExpression(k)) /\ UNCHANGED globalVars
  \/ EndOfInput /\ UNCHANGED globalVars
  \/ CreateThread /\ Restore
  \/ CreateFails /\ UNCHANGED globalVars
  \/ MainGoesOn

Body(A) ==
  /\ ExecStep("running", "running")
  /\ phase = "body"
  /\ A
  /\ UNCHANGED <<mpc, kind, expr, retval, killed, execution_thread, handlerVars>>

ExecNext ==
  \/ \E v \in Names : Body(Assign(v))
  \/ Body(StartThread)
  \/ Body(BodyEnds)
  \/ /\ ExecStep("running", "running") /\ SaveOne
     /\ UNCHANGED <<mpc, kind, expr, retval, killed, execution_thread, handlerVars>>
  \/ /\ phase = "save" /\ unsaved = <<>>
     /\ \E v \in Returns \cup {Magic} : (kind = "int" => v = Magic) /\ ExpressionEnds(v)
     /\ UNCHANGED globalVars
  \/ /\ phase = "body" /\ kind = "int"
     /\ \E v \in Returns : ExpressionEnds(v)
     /\ DestructAll
  \/ phase = "body" /\ ExpressionAborts /\ UNCHANGED globalVars
  \/ ExecReturns /\ UNCHANGED globalVars

SignalNext ==
  /\ \E t \in Threads : CtrlC(t) \/ HandlerStep(t)
  /\ UNCHANGED globalVars

SessionNext ==
  \/ MainNext
  \/ ExecNext
  \/ mpc \notin {"ended", "dead"} /\ StartedNext /\ UNCHANGED vars
  \/ SignalNext

SessionSpec == SessionInit /\ [][SessionNext]_sessionVars

-----------------------------------------------------------------------------
\* A global variable has one value, although every expression runs on a thread
\* with copies of its own: an expression starts with what the last one left, and
\* has it all saved when it finishes; an interrupted one may have saved a part.
Mode ==
  IF epc = "running" THEN (IF phase = "body" THEN "busy" ELSE "saving")
  ELSE IF phase # "save" \/ unsaved # <<>> THEN "abandoned" ELSE "idle"
Globals(copy) == [v \in Names |-> IF Global(v) THEN copy[v] ELSE Nothing]
Store == INSTANCE SessionStore WITH
           Values <- Objects, NoValue <- Nothing, mode <- Mode,
           store <- Globals(shared),
           working <- Globals(IF epc = "running" THEN copies[Exec] ELSE shared)
ImplementsStore == Store!Spec

\* In a thread that a program starts, the globals it constructs are constructed
\* in the order of their declarations and destroyed in the reverse one, each once:
\* as long as one that may refer to earlier ones lives, these live, too.
ConstructedInOrder ==
  LET life == [i \in DOMAIN started.all |-> copies[Started][started.all[i]].life]
  IN  /\ \A i \in DOMAIN life : life[i] # "broken"
      /\ started.phase = "run" => \A i \in DOMAIN life : life[i] = "live"
      /\ \A j \in DOMAIN life, i \in DOMAIN life :
            i < j /\ life[j] = "live" /\ Destructed(started.all[j]) => life[i] = "live"

\* The compiler's symbols and the parser's table agree, however a declaration
\* ends: one that fails half way frees both its symbol and its entry or, when it
\* finds no constructor, keeps both.  So what the parser takes for a new name, to
\* be declared (again), is never refused for a symbol of an earlier attempt.
HasSymbol(v) == table[v].state \in {"declared", "unmade"} /\ table[v].decl.global
SymbolsMatch ==
  /\ \A v \in Names : HasSymbol(v) => v \in symbols
  /\ \A v \in symbols : v \in Externals \/ HasSymbol(v)

\* "If there is a default constructor for the type it is called for each new
\* thread" (doc/Specification.md): a started thread runs with its copies
\* constructed.  Not so for a global that is initialized by a call or by `= S{...}`.
ThreadsConstruct ==
  started.phase = "run" =>
    \A v \in started.known : copies[Started][v].life = "live"
=============================================================================
