-------------------------------- MODULE Repl --------------------------------
(***************************************************************************)
(* The interactive session (volvox -J) on POSIX: the main thread reads a   *)
(* top level expression, compiles it, runs it in a thread of its own and   *)
(* joins that thread; SIGABRT and SIGFPE end the thread they are raised    *)
(* in, SIGINT runs CtrlCHandler on any thread of the process.              *)
(* Source: src/main.cc.                                                    *)
(*                                                                         *)
(* The execution threads are numbered; 0 is the null handle. The pthread_t *)
(* of a joined thread is not taken as reused by a later one.               *)
(***************************************************************************)
EXTENDS Integers

CONSTANTS
  Main,       \* the main thread
  Exec,       \* the execution thread, one at a time
  Workers,    \* threads started by earlier expressions
  Kinds,      \* subset of {"int", "bool"}: what the expressions return,
              \* bool for the call of a test function (-t)
  Returns,    \* values of a top level `return`
  Magic,      \* JIT_SUCCESS_MAGIC
  Null,       \* what pthread_exit(nullptr) leaves: 0
  MaxExprs,   \* bound: execution threads
  MaxInts     \* bound: SIGINTs sent by the terminal

ASSUME ThreadsDiffer == Main # Exec /\ Main \notin Workers /\ Exec \notin Workers
ASSUME KindsAssumption == Kinds \subseteq {"int", "bool"}
ASSUME ValuesAssumption == Magic \notin Returns \cup {Null}
ASSUME BoundsAssumption == MaxExprs \in Nat /\ MaxInts \in Nat

VARIABLES
  mpc,        \* the main thread
  kind,       \* return type of the expression at hand
  expr,       \* number of the current execution thread
  epc,        \* the execution thread
  retval,     \* its exit value
  killed,     \* how it ended: "no", "abort", "interrupt"
  execution_thread,
  hpc,        \* per thread: where its run of CtrlCHandler is
  hhandle,    \* per thread: the handler's local variable handle
  pending,    \* per thread: a SIGINT not yet delivered
  ints        \* SIGINTs sent so far

vars == <<mpc, kind, expr, epc, retval, killed, execution_thread, hpc, hhandle,
          pending, ints>>

execVars    == <<epc, retval, killed>>
handlerVars == <<hpc, hhandle, pending, ints>>

Threads == {Main, Exec} \cup Workers
Values  == Returns \cup {Magic, Null}
Handles == 0 .. MaxExprs

TypeOK ==
  /\ mpc     \in {"read", "create", "publish", "join", "clear", "result",
                  "ended", "dead"}
  /\ kind    \in {"int", "bool"}
  /\ expr    \in 0 .. MaxExprs
  /\ epc     \in {"none", "running", "finishing", "exited", "joined"}
  /\ retval  \in Values
  /\ killed  \in {"no", "abort", "interrupt"}
  /\ execution_thread \in Handles
  /\ hpc     \in [Threads -> {"none", "exchange", "putback", "kill"}]
  /\ hhandle \in [Threads -> Handles]
  /\ pending \in [Threads -> BOOLEAN]
  /\ ints    \in 0 .. MaxInts

Init ==
  /\ mpc     = "read"
  /\ kind    = "int"
  /\ expr    = 0
  /\ epc     = "none"
  /\ retval  = Magic
  /\ killed  = "no"
  /\ execution_thread = 0
  /\ hpc     = [t \in Threads |-> "none"]
  /\ hhandle = [t \in Threads |-> 0]
  /\ pending = [t \in Threads |-> FALSE]
  /\ ints    = 0

-----------------------------------------------------------------------------
(* The main thread. A running handler suspends the thread it runs on.      *)

MainStep(from, to) ==
  /\ mpc = from
  /\ hpc[Main] = "none"
  /\ mpc' = to

\* MainLoop and HandleTopLevelExpression up to the call of spawn_*_expr. An
\* expression that does not parse or compile is dropped: no step.
ReadExpression(k) ==
  /\ MainStep("read", "create")
  /\ expr < MaxExprs
  /\ kind' = k
  /\ UNCHANGED <<expr, execVars, execution_thread, handlerVars>>

\* tok_eof.
EndOfInput ==
  /\ MainStep("read", "ended")
  /\ UNCHANGED <<kind, expr, execVars, execution_thread, handlerVars>>

\* Mutant: spawn_int_expr does what spawn_bool_expr does.
PublishAlways(k) == "publish"

\* pthread_create. Only spawn_bool_expr publishes the new handle.
PublishStep(k) == IF k = "bool" THEN "publish" ELSE "join"

CreateThread ==
  /\ MainStep("create", PublishStep(kind))
  /\ expr'   = expr + 1
  /\ epc'    = "running"
  /\ killed' = "no"
  /\ pending' = [pending EXCEPT ![Exec] = FALSE]
  /\ UNCHANGED <<kind, retval, execution_thread, hpc, hhandle, ints>>

\* pthread_create fails: abort(), so finish_thread ends the main thread.
CreateFails ==
  /\ MainStep("create", "dead")
  /\ UNCHANGED <<kind, expr, execVars, execution_thread, handlerVars>>

\* execution_thread = thread;
Publish ==
  /\ MainStep("publish", "join")
  /\ execution_thread' = expr
  /\ UNCHANGED <<kind, expr, execVars, handlerVars>>

\* pthread_join.
JoinThread ==
  /\ MainStep("join", IF kind = "bool" THEN "clear" ELSE "result")
  /\ epc = "exited"
  /\ epc' = "joined"
  /\ UNCHANGED <<kind, expr, retval, killed, execution_thread, handlerVars>>

\* Mutant: the handle is cleared by the execution thread only.
ClearNothing ==
  /\ MainStep("clear", "result")
  /\ UNCHANGED <<kind, expr, execVars, execution_thread, handlerVars>>

\* Mutant: an invalid handle instead of the null one.
ClearInvalid ==
  /\ MainStep("clear", "result")
  /\ execution_thread' = -1
  /\ UNCHANGED <<kind, expr, execVars, handlerVars>>

\* execution_thread = 0, "in case did not finish due to signal".
ClearHandle ==
  /\ MainStep("clear", "result")
  /\ execution_thread' = 0
  /\ UNCHANGED <<kind, expr, execVars, handlerVars>>

\* have_return = return_value != JIT_SUCCESS_MAGIC for an int expression.
\* MainLoop returns when it is set; a bool result only is reported.
UseResult ==
  /\ MainStep("result",
              IF kind = "int" /\ retval # Magic THEN "ended" ELSE "read")
  /\ UNCHANGED <<kind, expr, execVars, execution_thread, handlerVars>>

-----------------------------------------------------------------------------
(* The execution thread: anon_expr_wrapper and anon_expr_wrapper_int.      *)

ExecStep(from, to) ==
  /\ epc = from
  /\ hpc[Exec] = "none"
  /\ epc' = to

\* The expression ends: with the magic value, or with that of a `return`.
ExpressionEnds(v) ==
  /\ ExecStep("running", "finishing")
  /\ kind = "bool" => v # Magic
  /\ retval' = v
  /\ UNCHANGED <<mpc, kind, expr, killed, execution_thread, handlerVars>>

\* execution_thread = 0 and return from the wrapper.
ExecReturns ==
  /\ ExecStep("finishing", "exited")
  /\ execution_thread' = 0
  /\ UNCHANGED <<mpc, kind, expr, retval, killed, handlerVars>>

\* raise(SIGABRT) or SIGFPE: finish_thread calls pthread_exit(nullptr).
ExpressionAborts ==
  /\ ExecStep("running", "exited")
  /\ retval' = Null
  /\ killed' = "abort"
  /\ UNCHANGED <<mpc, kind, expr, execution_thread, handlerVars>>

-----------------------------------------------------------------------------
(* SIGINT.                                                                 *)

Alive(t) ==
  CASE t = Main -> mpc \notin {"ended", "dead"}
    [] t = Exec -> epc \in {"running", "finishing"}
    [] OTHER    -> TRUE

\* The terminal sends SIGINT to the process: any thread may take it.
CtrlC(t) ==
  /\ ints < MaxInts
  /\ mpc # "ended"
  /\ Alive(t)
  /\ ints' = ints + 1
  /\ pending' = [pending EXCEPT ![t] = TRUE]
  /\ UNCHANGED <<mpc, kind, expr, execVars, execution_thread, hpc, hhandle>>

\* The handler starts; SIGINT is blocked on this thread until it returns.
StartHandler(t) ==
  /\ mpc # "ended"
  /\ Alive(t)
  /\ pending[t]
  /\ hpc[t] = "none"
  /\ pending' = [pending EXCEPT ![t] = FALSE]
  /\ hpc' = [hpc EXCEPT ![t] = "exchange"]
  /\ UNCHANGED <<mpc, kind, expr, execVars, execution_thread, hhandle, ints>>

\* handle = execution_thread.exchange(0); ignored if it was 0; if it is the
\* thread itself: pthread_exit(nullptr).
Exchange(t) ==
  LET handle == execution_thread IN
  /\ hpc[t] = "exchange"
  /\ execution_thread' = 0
  /\ \/ /\ handle = 0
        /\ hpc' = [hpc EXCEPT ![t] = "none"]
        /\ UNCHANGED <<execVars, hhandle>>
     \/ /\ handle # 0 /\ t = Exec /\ handle = expr
        /\ hpc' = [hpc EXCEPT ![t] = "none"]
        /\ epc' = "exited"
        /\ retval' = Null
        /\ killed' = "interrupt"
        /\ UNCHANGED hhandle
     \/ /\ handle # 0 /\ ~(t = Exec /\ handle = expr)
        /\ hpc' = [hpc EXCEPT ![t] = "putback"]
        /\ hhandle' = [hhandle EXCEPT ![t] = handle]
        /\ UNCHANGED execVars
  /\ UNCHANGED <<mpc, kind, expr, pending, ints>>

\* Mutant: the signal is passed on without restoring the handle.
PutBackNothing(t) ==
  /\ hpc[t] = "putback"
  /\ hpc' = [hpc EXCEPT ![t] = "kill"]
  /\ UNCHANGED <<mpc, kind, expr, execVars, execution_thread, hhandle, pending,
                 ints>>

\* execution_thread = handle;
PutBack(t) ==
  /\ hpc[t] = "putback"
  /\ hpc' = [hpc EXCEPT ![t] = "kill"]
  /\ execution_thread' = hhandle[t]
  /\ UNCHANGED <<mpc, kind, expr, execVars, hhandle, pending, ints>>

\* pthread_kill(handle, SIGINT): nothing for a thread that has ended. For one
\* that has been joined POSIX leaves it undefined; taken as nothing too.
PassOn(t) ==
  LET current == hhandle[t] = expr /\ epc # "joined" IN
  /\ hpc[t] = "kill"
  /\ hpc' = [hpc EXCEPT ![t] = "none"]
  /\ pending' = [pending EXCEPT ![Exec] = @ \/ (current /\ Alive(Exec))]
  /\ hhandle' = [hhandle EXCEPT ![t] = 0]
  /\ UNCHANGED <<mpc, kind, expr, execVars, execution_thread, ints>>

HandlerStep(t) == StartHandler(t) \/ Exchange(t) \/ PutBack(t) \/ PassOn(t)

Next ==
  \/ \E k \in Kinds : ReadExpression(k)
  \/ EndOfInput
  \/ CreateThread
  \/ CreateFails
  \/ Publish
  \/ JoinThread
  \/ ClearHandle
  \/ UseResult
  \/ \E v \in Returns \cup {Magic} : ExpressionEnds(v)
  \/ ExecReturns
  \/ ExpressionAborts
  \/ \E t \in Threads : CtrlC(t)
  \/ \E t \in Threads : HandlerStep(t)

Spec == Init /\ [][Next]_vars

\* A running expression may loop for ever; the main thread, a finished
\* expression and the handlers go on. Input may never come.
Fairness ==
  /\ WF_vars(CreateThread \/ Publish \/ JoinThread \/ ClearHandle \/ UseResult)
  /\ WF_vars(ExecReturns)
  /\ \A t \in Threads : WF_vars(HandlerStep(t))

FairSpec == Spec /\ Fairness

-----------------------------------------------------------------------------
(* Properties.                                                             *)

HandlerActive == \E t \in Threads : hpc[t] # "none"

\* Ctrl-C during an expression does not end the session: "the REPL is not
\* terminated" (CtrlCHandler). Holds although an interrupted int expression
\* would end it, since its handle is never published.
InterruptNeverEndsRepl ==
  [][mpc = "result" /\ mpc' = "ended" => killed # "interrupt"]_vars

\* When the main thread waits for input and no handler is half way through,
\* the published handle is null: a Ctrl-C at the prompt is ignored. A handler
\* on the main or on the execution thread cannot leave a stale one behind,
\* whatever the order of its steps with publish, exit, join and clear; one on
\* another thread can.
NoStaleHandle ==
  mpc = "read" /\ ~HandlerActive => execution_thread = 0

InterruptHandled == mpc = "join" /\ hpc[Main] = "exchange" /\ epc = "running"

\* "Terminate the main execution thread if there is one" (CtrlCHandler): an
\* interrupt that the main thread handles while it waits for a test function,
\* whose handle is published, ends it, also when the function itself never
\* would. In whatever order two handlers take the handle, put it back and pass
\* the signal on, one of them reaches the thread.
InterruptEndsTest ==
  (InterruptHandled /\ kind = "bool") ~> (epc \in {"exited", "joined"})
=============================================================================
