--------------------------- MODULE SessionProofs ---------------------------
(***************************************************************************)
(* What holds of an interactive session for any variables and declarations, *)
(* any number of expressions, interrupts and threads left behind. The       *)
(* argument for its threads: a handle is published only for a test function, *)
(* and what a handler has taken out of execution_thread is the handle of    *)
(* this thread or of an earlier one.                                        *)
(***************************************************************************)
EXTENDS Session, TLAPS

-----------------------------------------------------------------------------
(* The threads of a session: what Repl alone says of them.                 *)

\* Where the threads may be at the same time.
StepsInv ==
  /\ mpc \notin {"publish", "join"} => epc \in {"none", "joined"}
  /\ mpc \in {"publish", "clear"} => kind = "bool"
  /\ mpc = "create" => expr < MaxExprs
  /\ hpc[Exec] # "none" => epc \in {"running", "finishing"}

\* Handles are of threads that have been created; the thread of an int
\* expression has none that is published, so no interrupt ends it.
PublishedInv ==
  /\ execution_thread <= expr
  /\ \A t \in Threads : hhandle[t] <= expr
  /\ mpc \in {"join", "result"} /\ kind = "int" =>
       /\ killed # "interrupt"
       /\ execution_thread # expr
       /\ \A t \in Threads : hhandle[t] # expr

IInv == TypeOK /\ StepsInv /\ PublishedInv

LEMMA InitIInv == Init => IInv
<1> SUFFICES ASSUME Init PROVE IInv
  OBVIOUS
<1>1. Exec \in Threads
  BY DEF Threads
<1>2. TypeOK
  BY BoundsAssumption DEF Init, TypeOK, Values, Handles
<1>3. StepsInv /\ PublishedInv
  BY <1>1 DEF Init, StepsInv, PublishedInv
<1>4. QED
  BY <1>2, <1>3 DEF IInv

\* The steps of the main thread.
LEMMA MainIInv ==
  ASSUME IInv,
         \/ \E k \in Kinds : ReadExpression(k)
         \/ EndOfInput \/ CreateThread \/ CreateFails \/ Publish
         \/ JoinThread \/ ClearHandle \/ UseResult
  PROVE  IInv'
<1>1. TypeOK /\ StepsInv /\ PublishedInv /\ Exec \in Threads
  BY DEF IInv, Threads
<1>2. ASSUME NEW k \in Kinds, ReadExpression(k) PROVE IInv'
  BY <1>1, <1>2, KindsAssumption
     DEF ReadExpression, MainStep, IInv, TypeOK, StepsInv, PublishedInv, execVars, handlerVars
<1>3. CASE EndOfInput \/ CreateFails
  BY <1>1, <1>3 DEF EndOfInput, CreateFails, MainStep, IInv, TypeOK, StepsInv, PublishedInv,
     execVars, handlerVars
<1>4. CASE CreateThread
  <2>1. expr' = expr + 1 /\ expr' \in 0 .. MaxExprs
    BY <1>1, <1>4, BoundsAssumption DEF CreateThread, MainStep, StepsInv, TypeOK
  <2>2. hpc[Exec] = "none"
    BY <1>1, <1>4 DEF CreateThread, MainStep, StepsInv
  <2>3. TypeOK'
    BY <1>1, <1>4, <2>1 DEF CreateThread, MainStep, PublishStep, TypeOK
  <2>4. StepsInv'
    BY <1>1, <1>4, <2>2 DEF CreateThread, MainStep, PublishStep, StepsInv, TypeOK
  <2>5. PublishedInv'
    <3>1. execution_thread < expr' /\ \A t \in Threads : hhandle[t] < expr'
      BY <1>1, <2>1, BoundsAssumption DEF PublishedInv, TypeOK, Handles
    <3>2. execution_thread \in Int /\ expr' \in Int /\ \A t \in Threads : hhandle[t] \in Int
      BY <1>1, <2>1, BoundsAssumption DEF TypeOK, Handles
    <3>3. QED
      BY <3>1, <3>2, <1>4 DEF CreateThread, PublishedInv
  <2>6. QED
    BY <2>3, <2>4, <2>5 DEF IInv
<1>5. CASE Publish
  BY <1>1, <1>5 DEF Publish, MainStep, IInv, TypeOK, StepsInv, PublishedInv, execVars,
     handlerVars, Handles
<1>6. CASE JoinThread
  BY <1>1, <1>6 DEF JoinThread, MainStep, IInv, TypeOK, StepsInv, PublishedInv, handlerVars
<1>7. CASE ClearHandle
  BY <1>1, <1>7, BoundsAssumption DEF ClearHandle, MainStep, IInv, TypeOK, StepsInv,
     PublishedInv, execVars, handlerVars, Handles
<1>8. CASE UseResult
  BY <1>1, <1>8 DEF UseResult, MainStep, IInv, TypeOK, StepsInv, PublishedInv, execVars,
     handlerVars
<1>9. QED
  BY <1>2, <1>3, <1>4, <1>5, <1>6, <1>7, <1>8

\* The steps of the execution thread.
LEMMA ExecIInv ==
  ASSUME IInv,
         \/ \E v \in Returns \cup {Magic} : ExpressionEnds(v)
         \/ ExecReturns \/ ExpressionAborts
  PROVE  IInv'
<1>1. TypeOK /\ StepsInv /\ PublishedInv /\ Exec \in Threads
  BY DEF IInv, Threads
<1>2. ASSUME NEW v \in Returns \cup {Magic}, ExpressionEnds(v) PROVE IInv'
  BY <1>1, <1>2 DEF ExpressionEnds, ExecStep, IInv, TypeOK, StepsInv, PublishedInv,
     handlerVars, Values
<1>3. CASE ExecReturns
  <2>1. execution_thread' = 0 /\ 0 \in Handles /\ 0 <= expr
    BY <1>1, <1>3, BoundsAssumption DEF ExecReturns, Handles, TypeOK
  <2>2. TypeOK' /\ StepsInv'
    BY <1>1, <1>3, <2>1 DEF ExecReturns, ExecStep, TypeOK, StepsInv, handlerVars
  <2>3. mpc = "join" /\ kind = "int" => expr # 0
    BY <1>1, BoundsAssumption DEF PublishedInv, TypeOK, Handles
  <2>4. PublishedInv'
    BY <1>1, <1>3, <2>1, <2>3 DEF ExecReturns, ExecStep, PublishedInv, StepsInv, handlerVars
  <2>5. QED
    BY <2>2, <2>4 DEF IInv
<1>4. CASE ExpressionAborts
  BY <1>1, <1>4 DEF ExpressionAborts, ExecStep, IInv, TypeOK, StepsInv, PublishedInv,
     handlerVars, Values
<1>5. QED
  BY <1>2, <1>3, <1>4

\* A handler takes the handle out of execution_thread.
LEMMA ExchangeIInv ==
  ASSUME IInv, NEW t \in Threads, Exchange(t)
  PROVE  IInv'
<1>1. TypeOK /\ StepsInv /\ PublishedInv /\ Exec \in Threads
  BY DEF IInv, Threads
<1>2. /\ hpc[t] = "exchange" /\ execution_thread' = 0
      /\ UNCHANGED <<mpc, kind, expr, pending, ints>>
  BY DEF Exchange
<1>3. 0 \in Handles /\ 0 <= expr /\ (mpc \in {"join", "result"} /\ kind = "int" => expr # 0)
  BY <1>1, BoundsAssumption DEF PublishedInv, TypeOK, Handles
<1>4. CASE execution_thread = 0 /\ hpc' = [hpc EXCEPT ![t] = "none"] /\ UNCHANGED <<execVars, hhandle>>
  BY <1>1, <1>2, <1>3, <1>4 DEF IInv, TypeOK, StepsInv, PublishedInv, execVars
<1>5. CASE /\ execution_thread # 0 /\ t = Exec /\ execution_thread = expr
           /\ hpc' = [hpc EXCEPT ![t] = "none"]
           /\ epc' = "exited" /\ retval' = Null /\ killed' = "interrupt" /\ UNCHANGED hhandle
  <2>1. TypeOK' /\ StepsInv'
    BY <1>1, <1>2, <1>3, <1>5 DEF TypeOK, StepsInv, Values
  <2>2. ~(mpc \in {"join", "result"} /\ kind = "int")
    BY <1>1, <1>5 DEF PublishedInv
  <2>3. PublishedInv'
    BY <1>1, <1>2, <1>3, <1>5, <2>2 DEF PublishedInv
  <2>4. QED
    BY <2>1, <2>3 DEF IInv
<1>6. CASE /\ execution_thread # 0 /\ ~(t = Exec /\ execution_thread = expr)
           /\ hpc' = [hpc EXCEPT ![t] = "putback"]
           /\ hhandle' = [hhandle EXCEPT ![t] = execution_thread]
           /\ UNCHANGED execVars
  <2>1. TypeOK' /\ StepsInv'
    BY <1>1, <1>2, <1>3, <1>6 DEF TypeOK, StepsInv, execVars
  <2>2. \A u \in Threads : hhandle'[u] = IF u = t THEN execution_thread ELSE hhandle[u]
    BY <1>1, <1>6 DEF TypeOK
  <2>3. PublishedInv'
    BY <1>1, <1>2, <1>3, <1>6, <2>2 DEF PublishedInv, execVars
  <2>4. QED
    BY <2>1, <2>3 DEF IInv
<1>7. QED
  BY <1>4, <1>5, <1>6 DEF Exchange

\* Only the execution thread of today is sent a signal.
LEMMA PassOnPending ==
  ASSUME TypeOK, NEW t \in Threads, PassOn(t)
  PROVE  pending' \in [Threads -> BOOLEAN]
<1> DEFINE new == pending[Exec] \/ ((hhandle[t] = expr /\ epc # "joined") /\ Alive(Exec))
<1>1. pending' = [pending EXCEPT ![Exec] = new]
  BY DEF PassOn
<1>2. new \in BOOLEAN
  OBVIOUS
<1>3. pending \in [Threads -> BOOLEAN]
  BY DEF TypeOK
<1> HIDE DEF new
<1>4. QED
  BY <1>1, <1>2, <1>3

\* Signals and their handlers.
LEMMA SignalIInv ==
  ASSUME IInv, NEW t \in Threads, CtrlC(t) \/ HandlerStep(t)
  PROVE  IInv'
<1>1. TypeOK /\ StepsInv /\ PublishedInv /\ Exec \in Threads
  BY DEF IInv, Threads
<1>2. CASE CtrlC(t)
  <2>1. ints' \in 0 .. MaxInts
    BY <1>1, <1>2, BoundsAssumption DEF CtrlC, TypeOK
  <2>2. QED
    BY <1>1, <1>2, <2>1 DEF CtrlC, IInv, TypeOK, StepsInv, PublishedInv, execVars
<1>3. CASE StartHandler(t)
  <2>1. t = Exec => epc \in {"running", "finishing"}
    BY <1>3, ThreadsDiffer DEF StartHandler, Alive
  <2>2. QED
    BY <1>1, <1>3, <2>1 DEF StartHandler, IInv, TypeOK, StepsInv, PublishedInv, execVars
<1>4. CASE Exchange(t)
  BY <1>4, ExchangeIInv
<1>5. CASE PutBack(t)
  BY <1>1, <1>5 DEF PutBack, IInv, TypeOK, StepsInv, PublishedInv, execVars
<1>6. CASE PassOn(t)
  <2>1. pending' \in [Threads -> BOOLEAN]
    BY <1>1, <1>6, PassOnPending
  <2>2. 0 \in Handles /\ 0 <= expr /\ (mpc \in {"join", "result"} /\ kind = "int" => expr # 0)
    BY <1>1, BoundsAssumption DEF PublishedInv, TypeOK, Handles
  <2>3. hhandle' = [hhandle EXCEPT ![t] = 0] /\ hpc' = [hpc EXCEPT ![t] = "none"]
        /\ UNCHANGED <<mpc, kind, expr, execVars, execution_thread, ints>>
    BY <1>6 DEF PassOn
  <2>4. QED
    BY <1>1, <2>1, <2>2, <2>3 DEF IInv, TypeOK, StepsInv, PublishedInv, execVars
<1>7. QED
  BY <1>2, <1>3, <1>4, <1>5, <1>6 DEF HandlerStep

LEMMA NextIInv == IInv /\ [Next]_vars => IInv'
<1> SUFFICES ASSUME IInv, [Next]_vars PROVE IInv'
  OBVIOUS
<1>1. CASE UNCHANGED vars
  BY <1>1 DEF IInv, TypeOK, StepsInv, PublishedInv, vars
<1>2. CASE Next
  BY <1>2, MainIInv, ExecIInv, SignalIInv DEF Next
<1>3. QED
  BY <1>1, <1>2

LEMMA SpecIInv == Spec => []IInv
<1>1. QED
  BY InitIInv, NextIInv, PTL DEF Spec

\* Type correctness, for any threads left behind, any number of expressions
\* and of interrupts.
THEOREM TypeCorrect == Spec => []TypeOK
<1>1. IInv => TypeOK
  BY DEF IInv
<1>2. QED
  BY SpecIInv, <1>1, PTL

\* An interrupt ends the thread of an expression only if that is a test
\* function, so the `have_return` that MainLoop makes of the exit value of an
\* interrupted int expression never ends the session.
THEOREM InterruptNeverEnds == Spec => InterruptNeverEndsRepl
<1>1. ASSUME IInv, [Next]_vars
      PROVE  [mpc = "result" /\ mpc' = "ended" => killed # "interrupt"]_vars
  <2>1. SUFFICES ASSUME Next, mpc = "result", mpc' = "ended" PROVE killed # "interrupt"
    BY <1>1
  <2>2. UseResult
    BY <2>1 DEF Next, ReadExpression, EndOfInput, CreateThread, CreateFails, Publish, JoinThread,
       ClearHandle, MainStep, ExpressionEnds, ExecReturns, ExpressionAborts, CtrlC, HandlerStep,
       StartHandler, Exchange, PutBack, PassOn
  <2>3. kind = "int"
    BY <2>1, <2>2 DEF UseResult, MainStep
  <2>4. QED
    BY <1>1, <2>1, <2>3 DEF IInv, PublishedInv
<1>2. QED
  BY SpecIInv, <1>1, PTL DEF Spec, InterruptNeverEndsRepl

-----------------------------------------------------------------------------
(* Without threads that programs have left behind.                         *)

\* The handle is published while the main thread waits for a test function.
PublishedWhileJoining ==
  execution_thread # 0 =>
    execution_thread = expr /\ mpc \in {"join", "clear"} /\ kind = "bool"

\* Only the main thread, which it suspends, runs a handler that holds one.
HandlersHold == \A t \in Threads :
  hpc[t] = "putback" =>
    t = Main /\ mpc \in {"join", "clear"} /\ kind = "bool" /\ hhandle[t] = expr

AloneInv == IInv /\ PublishedWhileJoining /\ HandlersHold

LEMMA InitAlone == Init => AloneInv
BY InitIInv DEF Init, AloneInv, PublishedWhileJoining, HandlersHold

LEMMA NextAlone ==
  ASSUME Workers = {}, AloneInv, [Next]_vars
  PROVE  AloneInv'
<1>1. /\ TypeOK /\ StepsInv /\ PublishedWhileJoining /\ HandlersHold
      /\ Threads = {Main, Exec} /\ Main # Exec
  BY ThreadsDiffer DEF AloneInv, IInv, Threads
<1>2. IInv'
  BY NextIInv DEF AloneInv
<1>3. CASE \/ \E k \in Kinds : ReadExpression(k)
           \/ EndOfInput \/ CreateThread \/ CreateFails \/ Publish
           \/ JoinThread \/ ClearHandle \/ UseResult
  <2>1. hpc[Main] = "none" /\ hpc' = hpc /\ hhandle' = hhandle
    BY <1>3 DEF ReadExpression, EndOfInput, CreateThread, CreateFails, Publish, JoinThread,
       ClearHandle, UseResult, MainStep, handlerVars
  <2>2. HandlersHold'
    BY <1>1, <2>1 DEF HandlersHold
  <2>3. PublishedWhileJoining'
    BY <1>1, <1>3 DEF ReadExpression, EndOfInput, CreateThread, CreateFails, Publish, JoinThread,
       ClearHandle, UseResult, MainStep, PublishedWhileJoining, StepsInv
  <2>4. QED
    BY <1>2, <2>2, <2>3 DEF AloneInv
<1>4. CASE \/ \E v \in Returns \cup {Magic} : ExpressionEnds(v)
           \/ ExecReturns \/ ExpressionAborts
  BY <1>1, <1>2, <1>4 DEF ExpressionEnds, ExecReturns, ExpressionAborts, AloneInv,
     PublishedWhileJoining, HandlersHold, handlerVars
<1>5. ASSUME NEW t \in Threads, CtrlC(t) \/ HandlerStep(t) PROVE AloneInv'
  <2>1. CASE CtrlC(t)
    BY <1>1, <1>2, <2>1 DEF CtrlC, AloneInv, PublishedWhileJoining, HandlersHold
  <2>2. CASE StartHandler(t)
    BY <1>1, <1>2, <2>2 DEF StartHandler, AloneInv, PublishedWhileJoining, HandlersHold, TypeOK
  <2>3. CASE Exchange(t)
    <3>1. execution_thread' = 0 /\ UNCHANGED <<mpc, kind, expr>> /\ hpc[t] = "exchange"
      BY <2>3 DEF Exchange
    <3>2. ASSUME NEW u \in Threads, hpc'[u] = "putback"
          PROVE  u = Main /\ mpc \in {"join", "clear"} /\ kind = "bool" /\ hhandle'[u] = expr
      <4>1. CASE u # t
        <5>1. hpc'[u] = hpc[u] /\ hhandle'[u] = hhandle[u]
          BY <1>1, <2>3, <4>1 DEF Exchange, TypeOK
        <5>2. QED
          BY <1>1, <3>2, <5>1 DEF HandlersHold
      <4>2. CASE u = t
        <5>1. execution_thread # 0 /\ ~(t = Exec /\ execution_thread = expr)
              /\ hhandle'[t] = execution_thread
          BY <1>1, <2>3, <3>2, <4>2 DEF Exchange, TypeOK
        <5>2. QED
          BY <1>1, <4>2, <5>1 DEF PublishedWhileJoining
      <4>3. QED
        BY <4>1, <4>2
    <3>3. QED
      BY <1>2, <3>1, <3>2 DEF AloneInv, PublishedWhileJoining, HandlersHold
  <2>4. CASE PutBack(t)
    <3>1. hpc' = [hpc EXCEPT ![t] = "kill"] /\ execution_thread' = hhandle[t]
          /\ UNCHANGED <<mpc, kind, expr, hhandle>> /\ hpc[t] = "putback"
      BY <2>4 DEF PutBack
    <3>2. QED
      BY <1>1, <1>2, <3>1 DEF AloneInv, PublishedWhileJoining, HandlersHold, TypeOK
  <2>5. CASE PassOn(t)
    <3>1. hpc' = [hpc EXCEPT ![t] = "none"] /\ hhandle' = [hhandle EXCEPT ![t] = 0]
          /\ UNCHANGED <<mpc, kind, expr, execution_thread>>
      BY <2>5 DEF PassOn
    <3>2. QED
      BY <1>1, <1>2, <3>1 DEF AloneInv, PublishedWhileJoining, HandlersHold, TypeOK
  <2>6. QED
    BY <1>5, <2>1, <2>2, <2>3, <2>4, <2>5 DEF HandlerStep
<1>6. CASE UNCHANGED vars
  BY <1>1, <1>2, <1>6 DEF vars, AloneInv, PublishedWhileJoining, HandlersHold
<1>7. QED
  BY <1>3, <1>4, <1>5, <1>6 DEF Next

\* As long as no program has left a thread behind, a Ctrl-C at the prompt finds
\* no handle: in whatever order handlers on the main and on the execution
\* thread and the steps of these threads come. (With a thread left behind, a
\* handler there can put a stale handle back; that is why it is assumed.)
THEOREM HandleCleared ==
  ASSUME Workers = {}
  PROVE  Spec => []NoStaleHandle
<1>1. AloneInv => NoStaleHandle
  BY DEF AloneInv, PublishedWhileJoining, NoStaleHandle
<1>2. ASSUME AloneInv, [Next]_vars PROVE AloneInv'
  BY <1>2, NextAlone
<1>3. QED
  BY InitAlone, <1>1, <1>2, PTL DEF Spec

-----------------------------------------------------------------------------
(* The objects of a session.                                               *)

Slots == Objects \cup {Nothing}

\* The things an assignment and a destructor make of an object.
LEMMA ObjectFacts ==
  /\ Nothing \notin Objects
  /\ \A o \in Slots : Construct(o) \in Objects /\ Destroy(o) \in Objects
  /\ \A o \in Objects : [o EXCEPT !.data = 2] \in Objects
  /\ Object(0, "raw") \in Objects /\ Object(0, "live") \in Objects
  /\ Object(1, "raw") \in Objects /\ Object(1, "live") \in Objects
BY DEF Slots, Objects, Nothing, Object, Construct, Destroy

LEMMA DeclaredValues ==
  ASSUME NEW d \in Declarations
  PROVE  /\ d.name \in Names /\ d.global \in BOOLEAN /\ d.dtor \in BOOLEAN
         /\ Rhs(d) \in Objects /\ Image(d) \in Objects /\ Initial(d) \in Objects
<1>1. d.name \in Names /\ d.global \in BOOLEAN /\ d.dtor \in BOOLEAN
  BY DeclarationsAssumption
<1>2. Rhs(d) \in Objects
  BY ObjectFacts DEF Rhs
<1>3. Image(d) \in Objects
  BY ObjectFacts, <1>2 DEF Image
<1>4. Initial(d) \in Objects
  BY ObjectFacts, <1>2 DEF Initial, Slots
<1>5. QED
  BY <1>1, <1>2, <1>3, <1>4

\* A copy whose constructor a thread calls is raw before.
LEMMA RawBefore ==
  ASSUME NEW d \in Declarations, needs_constructor(d)
  PROVE  Image(d).life = "raw"
BY DEF needs_constructor, Image, Rhs, Object

-----------------------------------------------------------------------------
(* What a step does to the variables, and to the expression at hand.        *)

Declares ==
  /\ epc \in {"none", "joined"} /\ epc' = epc
  /\ \E d \in Declarations :
       \/ \E w \in Names : (w = d.name \/ Global(w)) /\ HandleGlobalVariable(d, w)
       \/ RefuseDeclaration(d) \/ NoConstructorFound(d)
       \/ DeclarationFails(d)

\* The expression ends in one way or another, or nothing happens.
Ends ==
  /\ epc' = epc \/ (epc \in {"running", "finishing"} /\ epc' \in {"finishing", "exited"})
  /\ UNCHANGED globalVars

Begins   == epc \in {"none", "joined"} /\ epc' = "running" /\ Restore
Releases == epc = "exited" /\ epc' = "joined" /\ Release

Runs ==
  /\ epc = "running" /\ epc' = "running"
  /\ \/ phase = "body" /\ ((\E v \in Names : Assign(v)) \/ StartThread \/ BodyEnds)
     \/ SaveOne

Returned  == epc = "running" /\ epc' = "finishing" /\ phase = "body" /\ DestructAll
Continues == epc' = epc /\ StartedNext

SessionStep == Declares \/ Ends \/ Begins \/ Releases \/ Runs \/ Returned \/ Continues

\* The session goes on as it does without variables, or dies in a setter.
LEMMA ReplSteps ==
  ASSUME SessionNext
  PROVE  Next \/ UNCHANGED vars \/ ReadOther("dead")
<1>1. CASE MainNext
  BY <1>1 DEF MainNext, MainGoesOn, SetterAborts, Declare, ReadOther, MainStep, Next, vars,
     execVars, handlerVars
<1>2. CASE ExecNext
  BY <1>2 DEF ExecNext, Body, ExecStep, Next, vars, execVars, handlerVars
<1>3. CASE SignalNext
  BY <1>3 DEF SignalNext, Next
<1>4. QED
  BY <1>1, <1>2, <1>3 DEF SessionNext

LEMMA SessionIInvNext ==
  ASSUME IInv, [SessionNext]_sessionVars
  PROVE  IInv'
<1>1. CASE ReadOther("dead")
  BY <1>1 DEF ReadOther, MainStep, IInv, TypeOK, StepsInv, PublishedInv, execVars, handlerVars
<1>2. CASE UNCHANGED sessionVars
  BY <1>2, NextIInv DEF sessionVars
<1>3. QED
  BY <1>1, <1>2, ReplSteps, NextIInv

LEMMA SessionSteps ==
  ASSUME IInv, [SessionNext]_sessionVars
  PROVE  SessionStep
<1>1. TypeOK /\ StepsInv
  BY DEF IInv
<1>2. CASE MainNext
  <2>1. CASE Declare
    <3>1. epc \in {"none", "joined"} /\ epc' = epc
      BY <1>1, <2>1 DEF Declare, ReadOther, MainStep, StepsInv, execVars
    <3>2. QED
      BY <2>1, <3>1, DeclaredValues DEF Declare, Declares, SessionStep
  <2>2. CASE \/ SetterAborts
             \/ (\E k \in Kinds : ReadExpression(k)) /\ UNCHANGED globalVars
             \/ EndOfInput /\ UNCHANGED globalVars
             \/ CreateFails /\ UNCHANGED globalVars
             \/ (Publish \/ ClearHandle \/ UseResult) /\ UNCHANGED globalVars
    BY <2>2 DEF SetterAborts, ReadOther, ReadExpression, EndOfInput, CreateFails, Publish,
       ClearHandle, UseResult, execVars, SessionStep, Ends
  <2>3. CASE CreateThread /\ Restore
    BY <1>1, <2>3 DEF CreateThread, MainStep, StepsInv, SessionStep, Begins
  <2>4. CASE JoinThread /\ Release
    BY <2>4 DEF JoinThread, SessionStep, Releases
  <2>5. QED
    BY <1>2, <2>1, <2>2, <2>3, <2>4 DEF MainNext, MainGoesOn
<1>3. CASE ExecNext
  BY <1>3 DEF ExecNext, Body, ExecStep, ExpressionEnds, ExpressionAborts, ExecReturns,
     SessionStep, Runs, Ends, Returned
<1>4. CASE StartedNext /\ UNCHANGED vars
  BY <1>4 DEF SessionStep, Continues, vars
<1>5. CASE SignalNext
  <2>1. PICK t \in Threads : CtrlC(t) \/ HandlerStep(t)
    BY <1>5 DEF SignalNext
  <2>2. epc' = epc \/ (epc \in {"running", "finishing"} /\ epc' = "exited")
    BY <1>1, <2>1 DEF CtrlC, HandlerStep, StartHandler, Exchange, PutBack, PassOn, execVars, StepsInv
  <2>3. QED
    BY <1>5, <2>2 DEF SignalNext, SessionStep, Ends
<1>6. CASE UNCHANGED sessionVars
  BY <1>6 DEF sessionVars, vars, SessionStep, Ends
<1>7. QED
  BY <1>2, <1>3, <1>4, <1>5, <1>6 DEF SessionNext

-----------------------------------------------------------------------------
(* The table of variables and the symbols.                                 *)

Entries == {Absent} \cup UNION {{Half(d), Unmade(d), Entry(d)} : d \in Declarations}
TableInv == table \in [Names -> Entries]

LEMMA StatesDiffer ==
  /\ Absent.state = "absent"
  /\ \A d : /\ Half(d).state = "half" /\ Half(d).decl = d
            /\ Unmade(d).state = "unmade" /\ Unmade(d).decl = d
            /\ Entry(d).state = "declared" /\ Entry(d).decl = d
BY DEF Absent, Half, Unmade, Entry

LEMMA KindsKept ==
  ASSUME UNCHANGED table
  PROVE  \A v : /\ Declared(v)' <=> Declared(v)
                /\ Global(v)' <=> Global(v)
                /\ Destructed(v)' <=> Destructed(v)
                /\ HasSymbol(v)' <=> HasSymbol(v)
BY DEF Declared, Global, Destructed, HasSymbol

LEMMA DeclaredEntry ==
  ASSUME TableInv, NEW v \in Names, Declared(v)
  PROVE  table[v].decl \in Declarations /\ table[v] = Entry(table[v].decl)
BY StatesDiffer DEF TableInv, Entries, Declared

\* A variable that is declared is new, the others stay what they are.
LEMMA NewVariable ==
  ASSUME TableInv, NEW d \in Declarations, table[d.name] = Absent,
         table' = [table EXCEPT ![d.name] = Entry(d)]
  PROVE  /\ TableInv'
         /\ ~Declared(d.name)
         /\ \A v \in Names :
              /\ table'[v] = IF v = d.name THEN Entry(d) ELSE table[v]
              /\ Declared(v)' <=> v = d.name \/ Declared(v)
              /\ Global(v)' <=> IF v = d.name THEN d.global ELSE Global(v)
              /\ Destructed(v)' <=> IF v = d.name THEN d.dtor ELSE Destructed(v)
              /\ HasSymbol(v)' <=> IF v = d.name THEN d.global ELSE HasSymbol(v)
<1>1. d.name \in Names /\ d.global \in BOOLEAN /\ d.dtor \in BOOLEAN
  BY DeclaredValues
<1>2. TableInv' /\ \A v \in Names : table'[v] = IF v = d.name THEN Entry(d) ELSE table[v]
  BY <1>1 DEF TableInv, Entries
<1>3. ~Declared(d.name)
  BY StatesDiffer DEF Declared
<1>4. ASSUME NEW v \in Names
      PROVE  /\ Declared(v)' <=> v = d.name \/ Declared(v)
             /\ Global(v)' <=> IF v = d.name THEN d.global ELSE Global(v)
             /\ Destructed(v)' <=> IF v = d.name THEN d.dtor ELSE Destructed(v)
             /\ HasSymbol(v)' <=> IF v = d.name THEN d.global ELSE HasSymbol(v)
  <2>1. CASE v = d.name
    <3>1. table'[v].state = "declared" /\ table'[v].decl = d
      BY <1>2, <2>1, StatesDiffer
    <3>2. QED
      BY <2>1, <3>1 DEF Declared, Global, Destructed, HasSymbol
  <2>2. CASE v # d.name
    <3>1. table'[v] = table[v]
      BY <1>2, <2>2
    <3>2. QED
      BY <2>2, <3>1 DEF Declared, Global, Destructed, HasSymbol
  <2>3. QED
    BY <2>1, <2>2
<1>5. QED
  BY <1>2, <1>3, <1>4

\* The entry of a declaration that is refused, or lacks a constructor, is that of
\* no variable; it has a symbol only if this was inserted.
LEMMA HalfVariable ==
  ASSUME TableInv, NEW d \in Declarations, RefuseDeclaration(d) \/ NoConstructorFound(d)
  PROVE  /\ TableInv'
         /\ \A v \in Names : /\ Declared(v)' <=> Declared(v)
                             /\ Global(v)' <=> Global(v)
                             /\ Destructed(v)' <=> Destructed(v)
                             /\ Declared(v) => table'[v] = table[v]
                             /\ HasSymbol(v)' <=> IF v = d.name
                                                  THEN NoConstructorFound(d) /\ d.global
                                                  ELSE HasSymbol(v)
<1> DEFINE new == table'[d.name]
<1>1. /\ d.name \in Names /\ d.global \in BOOLEAN /\ table[d.name] = Absent
      /\ table' = [table EXCEPT ![d.name] = Half(d)] \/ table' = [table EXCEPT ![d.name] = Unmade(d)]
      /\ NoConstructorFound(d) => table' = [table EXCEPT ![d.name] = Unmade(d)]
      /\ ~NoConstructorFound(d) => table' = [table EXCEPT ![d.name] = Half(d)]
  BY DeclaredValues DEF RefuseDeclaration, NoConstructorFound
<1>2. /\ new = IF NoConstructorFound(d) THEN Unmade(d) ELSE Half(d)
      /\ \A v \in Names \ {d.name} : table'[v] = table[v]
  BY <1>1 DEF TableInv
<1>3. TableInv'
  BY <1>1 DEF TableInv, Entries
<1>4. /\ new.state = IF NoConstructorFound(d) THEN "unmade" ELSE "half"
      /\ new.decl = d
  BY <1>2, StatesDiffer
<1>5. ASSUME NEW v \in Names
      PROVE  /\ Declared(v)' <=> Declared(v)
             /\ Declared(v) => table'[v] = table[v]
  BY <1>1, <1>2, <1>4, StatesDiffer DEF Declared
<1>6. ASSUME NEW v \in Names
      PROVE  /\ Global(v)' <=> Global(v)
             /\ Destructed(v)' <=> Destructed(v)
  BY <1>5 DEF Global, Destructed
<1>7. ASSUME NEW v \in Names
      PROVE  HasSymbol(v)' <=> IF v = d.name THEN NoConstructorFound(d) /\ d.global ELSE HasSymbol(v)
  <2>1. CASE v = d.name
    BY <1>1, <1>4, <2>1 DEF HasSymbol
  <2>2. CASE v # d.name
    BY <1>2, <2>2 DEF HasSymbol
  <2>3. QED
    BY <2>1, <2>2
<1>8. QED
  BY <1>3, <1>5, <1>6, <1>7

LEMMA TableInvNext ==
  ASSUME TableInv, SessionStep
  PROVE  TableInv'
<1>1. CASE Declares
  BY <1>1, NewVariable, HalfVariable DEF Declares, HandleGlobalVariable, DeclarationFails, TableInv
<1>2. CASE ~Declares
  <2>1. UNCHANGED table
    BY <1>2 DEF SessionStep, Ends, Begins, Releases, Runs, Returned, Continues, globalVars, Restore,
       Release, Assign, StartThread, StartedStep, BodyEnds, SaveOne, DestructAll, StartedNext,
       ConstructOne, Run, FunctionEnds, DestroyOne, ThreadEnds
  <2>2. QED
    BY <2>1 DEF TableInv
<1>3. QED
  BY <1>1, <1>2

\* SymbolsMatch, where names that are no variables are taken by others.
SymbolsInv ==
  /\ \A v \in Names : HasSymbol(v) => v \in symbols
  /\ \A v \in symbols : v \in Externals \/ (v \in Names /\ HasSymbol(v))

LEMMA SymbolsNext ==
  ASSUME TableInv, SymbolsInv, SessionStep
  PROVE  SymbolsInv'
<1>1. CASE Declares
  <2>1. PICK d \in Declarations :
          \/ \E w \in Names : HandleGlobalVariable(d, w)
          \/ RefuseDeclaration(d) \/ NoConstructorFound(d)
          \/ DeclarationFails(d)
    BY <1>1 DEF Declares
  <2>2. CASE \E w \in Names : HandleGlobalVariable(d, w)
    <3>1. /\ table[d.name] = Absent /\ table' = [table EXCEPT ![d.name] = Entry(d)]
          /\ symbols' = IF d.global THEN symbols \cup {d.name} ELSE symbols
          /\ ~(d.global /\ d.name \in symbols)
      BY <2>2 DEF HandleGlobalVariable, Refused
    <3>2. \A v \in Names : HasSymbol(v)' <=> IF v = d.name THEN d.global ELSE HasSymbol(v)
      BY <3>1, NewVariable
    <3>3. ~HasSymbol(d.name)
      BY <3>1, StatesDiffer DEF HasSymbol
    <3>4. QED
      BY <3>1, <3>2, <3>3, DeclaredValues DEF SymbolsInv
  <2>3. CASE RefuseDeclaration(d) /\ ~NoConstructorFound(d)
    <3>1. /\ symbols' = symbols /\ ~HasSymbol(d.name)
          /\ \A v \in Names : HasSymbol(v)' <=> IF v = d.name THEN FALSE ELSE HasSymbol(v)
      BY <2>3, HalfVariable, StatesDiffer DEF RefuseDeclaration, HasSymbol
    <3>2. QED
      BY <3>1 DEF SymbolsInv
  <2>4. CASE NoConstructorFound(d)
    <3>1. /\ table[d.name] = Absent
          /\ symbols' = IF d.global THEN symbols \cup {d.name} ELSE symbols
      BY <2>4 DEF NoConstructorFound
    <3>2. \A v \in Names : HasSymbol(v)' <=> IF v = d.name THEN d.global ELSE HasSymbol(v)
      BY <2>4, HalfVariable
    <3>3. ~HasSymbol(d.name)
      BY <3>1, StatesDiffer DEF HasSymbol
    <3>4. QED
      BY <3>1, <3>2, <3>3, DeclaredValues DEF SymbolsInv
  <2>5. CASE DeclarationFails(d)
    <3>1. /\ table[d.name] = Absent /\ symbols' = symbols \ {d.name}
          /\ \A v \in Names : HasSymbol(v)' <=> HasSymbol(v)
      BY <2>5, KindsKept DEF DeclarationFails, cleanupGlobal
    <3>2. ~HasSymbol(d.name)
      BY <3>1, StatesDiffer DEF HasSymbol
    <3>3. QED
      BY <3>1, <3>2 DEF SymbolsInv
  <2>6. QED
    BY <2>1, <2>2, <2>3, <2>4, <2>5
<1>2. CASE ~Declares
  <2>1. UNCHANGED <<table, symbols>>
    BY <1>2 DEF SessionStep, Ends, Begins, Releases, Runs, Returned, Continues, globalVars, Restore,
       Release, Assign, StartThread, StartedStep, BodyEnds, SaveOne, DestructAll, StartedNext,
       ConstructOne, Run, FunctionEnds, DestroyOne, ThreadEnds
  <2>2. QED
    BY <2>1, KindsKept DEF SymbolsInv
<1>3. QED
  BY <1>1, <1>2

\* HandleGlobalVariable() and cleanupHasSymbol() keep all_global_symbols and the
\* table of variables together, for any declarations in any order: also when a
\* declaration fails after its symbol was inserted, or is refused.
THEOREM SymbolsMatchTable == SessionSpec => []SymbolsMatch
<1> DEFINE Inv == IInv /\ TableInv /\ SymbolsInv
<1>1. SessionInit => Inv
  <2> SUFFICES ASSUME SessionInit PROVE Inv
    OBVIOUS
  <2>1. IInv /\ TableInv
    BY InitIInv DEF SessionInit, InitGlobals, TableInv, Entries
  <2>2. \A v \in Names : ~HasSymbol(v)
    BY StatesDiffer DEF SessionInit, InitGlobals, HasSymbol
  <2>3. SymbolsInv
    BY <2>2 DEF SessionInit, InitGlobals, SymbolsInv
  <2>4. QED
    BY <2>1, <2>3
<1>2. ASSUME Inv, [SessionNext]_sessionVars PROVE Inv'
  BY <1>2, SessionSteps, SessionIInvNext, TableInvNext, SymbolsNext
<1>3. Inv => SymbolsMatch
  BY DEF SymbolsInv, SymbolsMatch
<1>4. QED
  BY <1>1, <1>2, <1>3, PTL DEF SessionSpec

-----------------------------------------------------------------------------
(* The values of the variables.                                            *)

Copies == [{Exec, Started} -> [Names -> Slots]]

\* A global has a value, and so has its copy in a running expression.
ObjectsInv ==
  /\ shared \in [Names -> Slots]
  /\ copies \in Copies
  /\ \A v \in Names : Global(v) =>
       shared[v] \in Objects /\ (epc = "running" => copies[Exec][v] \in Objects)

\* The chains of savers and restorers have all globals and nothing else.
HandlersInv ==
  /\ handlers \in Seq(Names)
  /\ \A v \in Names : v \in ToSet(handlers) <=> Global(v)

\* What the saver has not come to is still in `unsaved`.
SaverInv ==
  /\ phase \in {"body", "save", "returned"}
  /\ unsaved \in Seq(Names)
  /\ phase # "save" => unsaved = <<>>
  /\ epc = "running" => phase # "returned"
  /\ epc = "running" /\ phase = "save" =>
       \A v \in Names : Global(v) => v \in ToSet(unsaved) \/ shared[v] = copies[Exec][v]

\* The other two chains, and what a started thread has still to call of them.
ChainsInv ==
  /\ constructors \in Seq(Names) /\ destructors \in Seq(Names)
  /\ started \in [phase : {"none", "construct", "run", "destroy"}, up : Seq(Names),
                  down : Seq(Names), all : Seq(Names), known : SUBSET Names]

StoreInv == TableInv /\ ObjectsInv /\ HandlersInv /\ SaverInv /\ ChainsInv

LEMMA SetOfNone == ToSet(<<>>) = {}
BY DEF ToSet

LEMMA SetOfFirst ==
  ASSUME NEW S, NEW x \in S, NEW s \in Seq(S)
  PROVE  <<x>> \o s \in Seq(S) /\ ToSet(<<x>> \o s) = {x} \cup ToSet(s)
<1> DEFINE t == <<x>> \o s
<1>1. /\ t \in Seq(S) /\ Len(t) = Len(s) + 1 /\ Len(s) \in Nat
      /\ DOMAIN t = 1 .. Len(s) + 1 /\ DOMAIN s = 1 .. Len(s)
      /\ t[1] = x /\ \A i \in 1 .. Len(s) : t[i + 1] = s[i]
  OBVIOUS
<1> HIDE DEF t
<1>2. ToSet(t) \subseteq {x} \cup ToSet(s)
  <2>1. SUFFICES ASSUME NEW i \in DOMAIN t, i # 1 PROVE t[i] \in ToSet(s)
    BY <1>1 DEF ToSet
  <2>2. i - 1 \in 1 .. Len(s) /\ t[i] = s[i - 1]
    <3>1. i - 1 \in 1 .. Len(s) /\ (i - 1) + 1 = i
      BY <1>1, <2>1
    <3>2. QED
      BY <1>1, <3>1
  <2>3. QED
    BY <1>1, <2>2 DEF ToSet
<1>3. {x} \cup ToSet(s) \subseteq ToSet(t)
  <2>1. ASSUME NEW i \in DOMAIN s PROVE s[i] \in ToSet(t)
    <3>1. i + 1 \in DOMAIN t /\ t[i + 1] = s[i]
      BY <1>1
    <3>2. QED
      BY <3>1 DEF ToSet
  <2>2. 1 \in DOMAIN t
    BY <1>1
  <2>3. QED
    BY <1>1, <2>1, <2>2 DEF ToSet
<1>4. QED
  BY <1>1, <1>2, <1>3 DEF t

LEMMA SetOfTail ==
  ASSUME NEW S, NEW s \in Seq(S), s # <<>>
  PROVE  /\ Head(s) \in S /\ Tail(s) \in Seq(S)
         /\ ToSet(s) = {Head(s)} \cup ToSet(Tail(s))
<1>1. Head(s) \in S /\ Tail(s) \in Seq(S) /\ s = <<Head(s)>> \o Tail(s)
  OBVIOUS
<1>2. QED
  BY <1>1, SetOfFirst

\* What a declaration makes of the values.
LEMMA DeclaredValue ==
  ASSUME StoreInv, NEW d \in Declarations, NEW w \in Names, w = d.name \/ Global(w),
         HandleGlobalVariable(d, w)
  PROVE  /\ shared' \in [Names -> Slots] /\ shared'[d.name] \in Objects
         /\ w # d.name => shared'[w] \in Objects
         /\ \A v \in Names \ {d.name, w} : shared'[v] = shared[v]
         /\ copies' \in Copies
         /\ \A t \in {Exec, Started} :
              /\ copies'[t][d.name] = Image(d)
              /\ \A v \in Names \ {d.name} : copies'[t][v] = copies[t][v]
<1>1. /\ d.name \in Names
      /\ Image(d) \in Objects /\ Initial(d) \in Objects
  BY DeclaredValues
<1>2. table[d.name] = Absent /\ IF needs_call(d) THEN Setter(d, w) ELSE w = d.name /\ Constant(d)
  BY DEF HandleGlobalVariable
<1>3. ~Global(d.name)
  BY <1>2, StatesDiffer DEF Global, Declared
<1>4. copies' = [t \in DOMAIN copies |-> [copies[t] EXCEPT ![d.name] = Image(d)]]
  BY <1>2 DEF Setter, Constant
<1>5. /\ copies' \in Copies
      /\ \A t \in {Exec, Started} :
              /\ copies'[t][d.name] = Image(d)
              /\ \A v \in Names \ {d.name} : copies'[t][v] = copies[t][v]
  BY <1>1, <1>4 DEF StoreInv, ObjectsInv, Copies, Slots
<1>6. CASE ~needs_call(d)
  <2>1. w = d.name /\ shared' = [shared EXCEPT ![d.name] = Image(d)]
    BY <1>2, <1>6 DEF Constant
  <2>2. QED
    BY <1>1, <1>5, <2>1 DEF StoreInv, ObjectsInv, Slots
<1>7. CASE needs_call(d)
  <2> DEFINE before == Restored([v \in Names |-> Nothing])
             after == [before EXCEPT ![w].data = IF w = d.name THEN @ ELSE 2,
                                     ![d.name] = IF d.global THEN Initial(d) ELSE @]
  <2>1. shared' = [Saved(after) EXCEPT ![d.name] = Initial(d)]
    BY <1>2, <1>7 DEF Setter
  <2>2. /\ before \in [Names -> Slots]
        /\ \A v \in Names : before[v] = IF Global(v) THEN shared[v] ELSE Nothing
    BY DEF Restored, StoreInv, ObjectsInv, HandlersInv, Slots
  <2> HIDE DEF before
  <2>3. /\ \A v \in Names \ {d.name, w} : after[v] = before[v]
        /\ w # d.name => after[w] = [before[w] EXCEPT !.data = 2]
    BY <1>1, <2>2
  <2>4. w # d.name => after[w] \in Objects
    BY <2>2, <2>3, ObjectFacts DEF StoreInv, ObjectsInv
  <2> HIDE DEF after
  <2>5. \A v \in Names : Saved(after)[v] = IF Global(v) THEN after[v] ELSE shared[v]
    BY DEF Saved, StoreInv, HandlersInv
  <2>6. DOMAIN Saved(after) = Names /\ Saved(after) = [v \in Names |-> Saved(after)[v]]
    BY DEF Saved
  <2>7. \A v \in Names : shared'[v] = IF v = d.name THEN Initial(d) ELSE Saved(after)[v]
    BY <1>1, <2>1, <2>6
  <2>8. \A v \in Names \ {d.name, w} : shared'[v] = shared[v]
    BY <2>2, <2>3, <2>5, <2>7
  <2>9. shared'[d.name] \in Objects /\ (w # d.name => shared'[w] \in Objects)
    BY <1>1, <2>4, <2>5, <2>7
  <2>10. shared' \in [Names -> Slots]
    <3>1. shared' = [v \in Names |-> shared'[v]]
      BY <2>1, <2>6
    <3>2. \A v \in Names : shared'[v] \in Slots
      BY <2>8, <2>9 DEF StoreInv, ObjectsInv, Slots
    <3>3. QED
      BY <3>1, <3>2
  <2>11. QED
    BY <1>5, <2>8, <2>9, <2>10
<1>8. QED
  BY <1>6, <1>7

LEMMA DeclaresStoreInv ==
  ASSUME StoreInv, Declares
  PROVE  StoreInv'
<1>1. PICK d \in Declarations :
        \/ \E w \in Names : (w = d.name \/ Global(w)) /\ HandleGlobalVariable(d, w)
        \/ RefuseDeclaration(d) \/ NoConstructorFound(d)
        \/ DeclarationFails(d)
  BY DEF Declares
<1>2. /\ epc # "running" /\ epc' # "running" /\ UNCHANGED <<phase, unsaved, started>>
  BY <1>1 DEF Declares, HandleGlobalVariable, RefuseDeclaration, NoConstructorFound,
     DeclarationFails
<1>3. SaverInv'
  BY <1>2 DEF StoreInv, SaverInv
<1>4. CASE \E w \in Names : (w = d.name \/ Global(w)) /\ HandleGlobalVariable(d, w)
  <2>1. PICK w \in Names : (w = d.name \/ Global(w)) /\ HandleGlobalVariable(d, w)
    BY <1>4
  <2>2. /\ d.name \in Names /\ d.global \in BOOLEAN
        /\ table[d.name] = Absent /\ table' = [table EXCEPT ![d.name] = Entry(d)]
        /\ RegisterShadowHandlers(d) /\ RegisterThreadConstructor(d) /\ RegisterThreadDestructor(d)
    BY <2>1, DeclaredValues DEF HandleGlobalVariable
  <2>3. /\ TableInv' /\ ~Global(d.name)
        /\ \A v \in Names : Global(v)' <=> IF v = d.name THEN d.global ELSE Global(v)
    BY <2>2, NewVariable DEF StoreInv, Global
  <2>4. ObjectsInv'
    BY <1>2, <2>1, <2>3, DeclaredValue DEF StoreInv, ObjectsInv
  <2>5. HandlersInv'
    BY <2>2, <2>3, SetOfFirst DEF StoreInv, HandlersInv, RegisterShadowHandlers
  <2>6. ChainsInv'
    BY <1>2, <2>2, SetOfFirst DEF StoreInv, ChainsInv, RegisterThreadConstructor,
       RegisterThreadDestructor
  <2>7. QED
    BY <1>3, <2>3, <2>4, <2>5, <2>6 DEF StoreInv
<1>5. CASE RefuseDeclaration(d) \/ NoConstructorFound(d) \/ DeclarationFails(d)
  <2>1. /\ UNCHANGED <<shared, copies, handlers, constructors, destructors>>
        /\ TableInv' /\ \A v \in Names : Global(v)' <=> Global(v)
    BY <1>5, HalfVariable, KindsKept
       DEF RefuseDeclaration, NoConstructorFound, DeclarationFails, StoreInv, TableInv
  <2>2. QED
    BY <1>2, <1>3, <2>1 DEF StoreInv, ObjectsInv, HandlersInv, ChainsInv
<1>6. QED
  BY <1>1, <1>4, <1>5

\* What a new thread finds in its copies.
LEMMA ImageValue ==
  ASSUME TableInv, NEW v \in Names
  PROVE  /\ (IF Declared(v) THEN Image(table[v].decl) ELSE Nothing) \in Slots
         /\ Declared(v) => Image(table[v].decl) \in Objects
BY DeclaredEntry, DeclaredValues DEF Slots

\* The restorer gives an expression the values of the shadows.
LEMMA RestoredValues ==
  ASSUME StoreInv, Restore
  PROVE  /\ copies' \in Copies
         /\ \A v \in Names : Global(v) => copies'[Exec][v] = shared[v]
         /\ copies'[Started] = copies[Started]
<1> DEFINE image == [v \in Names |-> IF Declared(v) THEN Image(table[v].decl) ELSE Nothing]
<1>1. copies' = [copies EXCEPT ![Exec] = Restored(image)]
  BY DEF Restore
<1>2. image \in [Names -> Slots]
  BY ImageValue DEF StoreInv
<1> HIDE DEF image
<1>3. /\ Restored(image) \in [Names -> Slots]
      /\ \A v \in Names : Global(v) => Restored(image)[v] = shared[v]
  BY <1>2 DEF Restored, StoreInv, ObjectsInv, HandlersInv
<1>4. QED
  BY <1>1, <1>3, StartedAssumption DEF StoreInv, ObjectsInv, Copies

\* The steps of an expression.
LEMMA RunsStoreInv ==
  ASSUME StoreInv, Runs
  PROVE  StoreInv'
<1>1. TableInv /\ ObjectsInv /\ HandlersInv /\ SaverInv /\ ChainsInv
  BY DEF StoreInv
<1>2. UNCHANGED <<table, handlers, constructors, destructors>> /\ epc = "running" /\ epc' = "running"
  BY DEF Runs, Assign, StartThread, StartedStep, BodyEnds, SaveOne
<1>3. TableInv' /\ HandlersInv' /\ \A v \in Names : Global(v)' <=> Global(v)
  BY <1>1, <1>2, KindsKept DEF TableInv, HandlersInv
<1>4. CASE phase = "body" /\ \E v \in Names : Assign(v)
  <2>1. PICK v \in Names : Assign(v)
    BY <1>4
  <2>2. /\ Global(v) /\ UNCHANGED <<shared, phase, unsaved, started>>
        /\ copies' = [copies EXCEPT ![Exec][v].data = 2]
    BY <2>1 DEF Assign
  <2>3. [copies[Exec][v] EXCEPT !.data = 2] \in Objects
    BY <1>1, <1>2, <2>2, ObjectFacts DEF ObjectsInv
  <2>4. /\ copies' \in Copies
        /\ \A u \in Names : copies'[Exec][u] = IF u = v THEN [copies[Exec][v] EXCEPT !.data = 2]
                                                        ELSE copies[Exec][u]
    <3>1. copies' = [copies EXCEPT ![Exec] = [copies[Exec] EXCEPT ![v] = [copies[Exec][v] EXCEPT !.data = 2]]]
      BY <2>2
    <3>2. copies[Exec] \in [Names -> Slots] /\ copies \in Copies
      BY <1>1 DEF ObjectsInv, Copies
    <3>3. QED
      BY <2>3, <3>1, <3>2 DEF Copies, Slots
  <2>5. ObjectsInv'
    BY <1>1, <1>2, <1>3, <2>2, <2>3, <2>4 DEF ObjectsInv
  <2>6. SaverInv' /\ ChainsInv'
    BY <1>1, <1>2, <1>4, <2>2 DEF SaverInv, ChainsInv
  <2>7. QED
    BY <1>3, <2>5, <2>6 DEF StoreInv
<1>5. CASE phase = "body" /\ StartThread
  <2>1. /\ UNCHANGED <<shared, phase, unsaved>>
        /\ copies' = [copies EXCEPT ![Started] =
                        [v \in Names |-> IF Declared(v) THEN Image(table[v].decl) ELSE Nothing]]
        /\ started' = [phase |-> "construct", up |-> constructors, down |-> destructors,
                       all |-> constructors, known |-> {v \in Names : Global(v)}]
    BY <1>5 DEF StartThread, StartedStep
  <2>2. copies' \in Copies /\ copies'[Exec] = copies[Exec]
    BY <1>1, <2>1, ImageValue, StartedAssumption DEF ObjectsInv, Copies
  <2>3. QED
    BY <1>1, <1>2, <1>3, <1>5, <2>1, <2>2 DEF StoreInv, ObjectsInv, SaverInv, ChainsInv
<1>6. CASE phase = "body" /\ BodyEnds
  <2>1. UNCHANGED <<shared, copies, started>> /\ phase' = "save" /\ unsaved' = handlers
    BY <1>6 DEF BodyEnds
  <2>2. SaverInv'
    BY <1>1, <1>3, <2>1 DEF SaverInv, HandlersInv
  <2>3. QED
    BY <1>1, <1>2, <1>3, <2>1, <2>2 DEF StoreInv, ObjectsInv, ChainsInv
<1>7. CASE SaveOne
  <2>1. /\ unsaved # <<>> /\ UNCHANGED <<copies, phase, started>>
        /\ shared' = [shared EXCEPT ![Head(unsaved)] = copies[Exec][Head(unsaved)]]
        /\ unsaved' = Tail(unsaved)
    BY <1>7 DEF SaveOne
  <2>2. /\ Head(unsaved) \in Names /\ Tail(unsaved) \in Seq(Names)
        /\ ToSet(unsaved) = {Head(unsaved)} \cup ToSet(Tail(unsaved))
    BY <1>1, <2>1, SetOfTail DEF SaverInv
  <2>3. copies[Exec][Head(unsaved)] \in Slots
    BY <1>1, <2>2 DEF ObjectsInv, Copies
  <2>4. ObjectsInv'
    BY <1>1, <1>2, <1>3, <2>1, <2>2, <2>3 DEF ObjectsInv
  <2>5. SaverInv'
    BY <1>1, <1>2, <1>3, <2>1, <2>2 DEF SaverInv, ObjectsInv
  <2>6. QED
    BY <1>1, <1>2, <1>3, <2>1, <2>4, <2>5 DEF StoreInv, ChainsInv
<1>8. QED
  BY <1>4, <1>5, <1>6, <1>7 DEF Runs

\* The steps of a started thread.
LEMMA ContinuesStoreInv ==
  ASSUME StoreInv, Continues
  PROVE  /\ StoreInv' /\ copies'[Exec] = copies[Exec]
         /\ \A v \in Names : Global(v) => shared'[v] = shared[v]
<1>1. TableInv /\ ObjectsInv /\ HandlersInv /\ SaverInv /\ ChainsInv
  BY DEF StoreInv
<1>2. /\ UNCHANGED <<table, handlers, constructors, destructors, phase, unsaved>> /\ epc' = epc
      /\ copies \in Copies
  BY <1>1 DEF Continues, StartedNext, StartedStep, ConstructOne, Run, FunctionEnds, DestroyOne,
     ThreadEnds, ObjectsInv
<1>3. TableInv' /\ HandlersInv' /\ \A v \in Names : Global(v)' <=> Global(v)
  BY <1>1, <1>2, KindsKept DEF TableInv, HandlersInv
<1>4. ASSUME NEW v \in Names PROVE Construct(copies[Started][v]) \in Slots
                                   /\ Destroy(copies[Started][v]) \in Slots /\ Destroy(shared[v]) \in Slots
  BY <1>1, ObjectFacts DEF ObjectsInv, Copies, Slots
<1>5. /\ ChainsInv' /\ copies' \in Copies /\ copies'[Exec] = copies[Exec] /\ shared' \in [Names -> Slots]
      /\ \A v \in Names : Global(v) => shared'[v] = shared[v]
  <2>1. CASE ConstructOne
    <3>1. /\ started.up # <<>> /\ started' = [started EXCEPT !.up = Tail(started.up)]
          /\ copies' = [copies EXCEPT ![Started][Head(started.up)] = Construct(@)] /\ UNCHANGED shared
      BY <2>1 DEF ConstructOne, StartedStep
    <3>2. Head(started.up) \in Names /\ Tail(started.up) \in Seq(Names)
      BY <1>1, <3>1 DEF ChainsInv
    <3>3. copies' = [copies EXCEPT ![Started] = [copies[Started] EXCEPT ![Head(started.up)] =
                       Construct(copies[Started][Head(started.up)])]]
      BY <3>1
    <3>4. ChainsInv'
      BY <1>1, <1>2, <3>1, <3>2 DEF ChainsInv
    <3>5. QED
      BY <1>1, <1>2, <1>4, <3>1, <3>2, <3>3, <3>4, StartedAssumption DEF Copies, ObjectsInv
  <2>2. CASE Run \/ FunctionEnds
    BY <1>1, <1>2, <2>2 DEF Run, FunctionEnds, StartedStep, ChainsInv, ObjectsInv
  <2>3. CASE DestroyOne
    <3>1. /\ started.down # <<>> /\ started' = [started EXCEPT !.down = Tail(started.down)]
          /\ IF Global(Head(started.down))
             THEN copies' = [copies EXCEPT ![Started][Head(started.down)] = Destroy(@)] /\ UNCHANGED shared
             ELSE shared' = [shared EXCEPT ![Head(started.down)] = Destroy(@)] /\ UNCHANGED copies
      BY <2>3 DEF DestroyOne, StartedStep
    <3>2. Head(started.down) \in Names /\ Tail(started.down) \in Seq(Names)
      BY <1>1, <3>1 DEF ChainsInv
    <3>3. ChainsInv'
      BY <1>1, <1>2, <3>1, <3>2 DEF ChainsInv
    <3>4. CASE Global(Head(started.down))
      <4>1. copies' = [copies EXCEPT ![Started] = [copies[Started] EXCEPT ![Head(started.down)] =
                         Destroy(copies[Started][Head(started.down)])]]
        BY <3>1, <3>4
      <4>2. QED
        BY <1>1, <1>2, <1>4, <3>1, <3>2, <3>3, <3>4, <4>1, StartedAssumption DEF Copies, ObjectsInv
    <3>5. CASE ~Global(Head(started.down))
      BY <1>1, <1>2, <1>4, <3>1, <3>2, <3>3, <3>5 DEF ObjectsInv
    <3>6. QED
      BY <3>4, <3>5
  <2>4. CASE ThreadEnds
    <3>1. /\ started' = NotStarted /\ UNCHANGED shared
          /\ copies' = [copies EXCEPT ![Started] = [v \in Names |-> Nothing]]
      BY <2>4 DEF ThreadEnds, StartedStep
    <3>2. QED
      BY <1>1, <1>2, <3>1, StartedAssumption DEF ChainsInv, NotStarted, Copies, ObjectsInv, Slots
  <2>5. QED
    BY <2>1, <2>2, <2>3, <2>4 DEF Continues, StartedNext
<1>6. ObjectsInv' /\ SaverInv'
  BY <1>1, <1>2, <1>3, <1>5 DEF ObjectsInv, SaverInv
<1>7. QED
  BY <1>3, <1>5, <1>6 DEF StoreInv

LEMMA StoreInvNext ==
  ASSUME StoreInv, SessionStep
  PROVE  StoreInv'
<1>1. TableInv /\ ObjectsInv /\ HandlersInv /\ SaverInv /\ ChainsInv
  BY DEF StoreInv
<1>2. CASE Ends
  <2>1. \A v \in Names : Global(v)' <=> Global(v)
    BY <1>2, KindsKept DEF Ends, globalVars
  <2>2. TableInv' /\ ObjectsInv' /\ HandlersInv' /\ ChainsInv'
    BY <1>1, <1>2, <2>1 DEF Ends, globalVars, TableInv, ObjectsInv, HandlersInv, ChainsInv
  <2>3. SaverInv'
    BY <1>1, <1>2, <2>1 DEF Ends, globalVars, SaverInv
  <2>4. QED
    BY <2>2, <2>3 DEF StoreInv
<1>3. CASE Begins
  <2>1. \A v \in Names : Global(v)' <=> Global(v)
    BY <1>3, KindsKept DEF Begins, Restore
  <2>2. /\ copies' \in Copies
        /\ \A v \in Names : Global(v) => copies'[Exec][v] = shared[v]
    BY <1>3, RestoredValues DEF Begins
  <2>3. /\ epc' = "running" /\ phase' = "body" /\ unsaved' = <<>> /\ UNCHANGED shared
    BY <1>3 DEF Begins, Restore
  <2>4. ObjectsInv'
    BY <1>1, <2>1, <2>2, <2>3 DEF ObjectsInv
  <2>5. SaverInv'
    BY <2>3 DEF SaverInv
  <2>6. TableInv' /\ HandlersInv' /\ ChainsInv'
    BY <1>1, <1>3, <2>1 DEF Begins, Restore, TableInv, HandlersInv, ChainsInv
  <2>7. QED
    BY <2>4, <2>5, <2>6 DEF StoreInv
<1>4. CASE Releases
  <2>1. \A v \in Names : Global(v)' <=> Global(v)
    BY <1>4, KindsKept DEF Releases, Release
  <2>2. ObjectsInv' /\ SaverInv'
    BY <1>1, <1>4, <2>1 DEF Releases, Release, ObjectsInv, Copies, Slots, SaverInv
  <2>3. TableInv' /\ HandlersInv' /\ ChainsInv'
    BY <1>1, <1>4, <2>1 DEF Releases, Release, TableInv, HandlersInv, ChainsInv
  <2>4. QED
    BY <2>2, <2>3 DEF StoreInv
<1>5. CASE Returned
  <2>1. \A v \in Names : Global(v)' <=> Global(v)
    BY <1>5, KindsKept DEF Returned, DestructAll
  <2>2. \A v \in Names : /\ Destroy(shared[v]) \in Slots
                         /\ Destroy(copies[Exec][v]) \in Slots
    BY <1>1, ObjectFacts DEF ObjectsInv, Copies, Slots
  <2>3. shared' \in [Names -> Slots] /\ \A v \in Names : Global(v) => shared'[v] = shared[v]
    BY <1>1, <1>5, <2>2 DEF Returned, DestructAll, ObjectsInv
  <2>4. copies' \in Copies
    BY <1>1, <1>5, <2>2 DEF Returned, DestructAll, ObjectsInv, Copies
  <2>5. ObjectsInv' /\ SaverInv'
    BY <1>1, <1>5, <2>1, <2>3, <2>4 DEF Returned, DestructAll, ObjectsInv, SaverInv
  <2>6. TableInv' /\ HandlersInv' /\ ChainsInv'
    BY <1>1, <1>5, <2>1 DEF Returned, DestructAll, TableInv, HandlersInv, ChainsInv
  <2>7. QED
    BY <2>5, <2>6 DEF StoreInv
<1>6. QED
  BY <1>2, <1>3, <1>4, <1>5, DeclaresStoreInv, RunsStoreInv, ContinuesStoreInv DEF SessionStep

LEMMA InitStoreInv == SessionInit => StoreInv /\ IInv /\ SymbolsInv /\ started = NotStarted
<1> SUFFICES ASSUME SessionInit PROVE StoreInv /\ IInv /\ SymbolsInv /\ started = NotStarted
  OBVIOUS
<1>1. IInv /\ TableInv /\ epc = "none" /\ started = NotStarted
  BY InitIInv DEF SessionInit, InitGlobals, TableInv, Entries, Init
<1>2. \A v \in Names : ~Global(v) /\ ~HasSymbol(v)
  BY StatesDiffer DEF SessionInit, InitGlobals, Global, HasSymbol, Declared
<1>3. SymbolsInv /\ ObjectsInv
  BY <1>2 DEF SessionInit, InitGlobals, SymbolsInv, ObjectsInv, Copies, Slots
<1>4. HandlersInv
  BY <1>2, SetOfNone DEF SessionInit, InitGlobals, HandlersInv
<1>5. SaverInv
  BY <1>1 DEF SessionInit, InitGlobals, SaverInv
<1>6. ChainsInv
  BY DEF SessionInit, InitGlobals, ChainsInv, NotStarted
<1>7. QED
  BY <1>1, <1>3, <1>4, <1>5, <1>6 DEF StoreInv

-----------------------------------------------------------------------------
(* One store.                                                              *)

Working == Globals(IF epc = "running" THEN copies[Exec] ELSE shared)

\* Globals keep their values as long as the table does.
LEMMA StoreKept ==
  ASSUME \A v \in Names : Global(v)' <=> Global(v),
         \A v \in Names : Global(v) => shared'[v] = shared[v]
  PROVE  Globals(shared)' = Globals(shared)
BY DEF Globals

LEMMA WorkingKept ==
  ASSUME \A v \in Names : Global(v)' <=> Global(v),
         epc = "running", epc' = "running",
         \A v \in Names : Global(v) => copies'[Exec][v] = copies[Exec][v]
  PROVE  Working' = Working
BY DEF Working, Globals

LEMMA NotRunning ==
  /\ epc # "running" => Working = Globals(shared)
  /\ epc' # "running" => Working' = Globals(shared)'
BY DEF Working

LEMMA ModeFacts ==
  ASSUME SaverInv
  PROVE  /\ epc = "running" /\ phase = "body" => Mode = "busy"
         /\ epc = "running" /\ phase # "body" => Mode = "saving" /\ phase = "save"
         /\ epc # "running" => Mode \in {"idle", "abandoned"}
BY DEF Mode, SaverInv

\* The end of an expression.
LEMMA EndsStore ==
  ASSUME StoreInv, Ends
  PROVE  Store!Next \/ UNCHANGED <<Mode, Globals(shared), Working>>
<1>1. ObjectsInv /\ SaverInv /\ \A v \in Names : Global(v)' <=> Global(v)
  BY KindsKept DEF StoreInv, Ends, globalVars
<1>2. /\ UNCHANGED <<shared, copies, phase, unsaved>> /\ Globals(shared)' = Globals(shared)
  BY <1>1, StoreKept DEF Ends, globalVars
<1>3. CASE epc' = epc
  BY <1>1, <1>2, <1>3 DEF Working, Mode, Globals
<1>4. CASE epc = "finishing" /\ epc' \in {"finishing", "exited"}
  BY <1>2, <1>4, NotRunning DEF Mode
<1>5. CASE epc = "running" /\ epc' \in {"finishing", "exited"}
  <2>1. Working' = Globals(shared)'
    BY <1>5, NotRunning
  <2>2. CASE phase # "save" \/ unsaved # <<>>
    <3>1. Mode \in {"busy", "saving"} /\ Mode' = "abandoned"
      BY <1>2, <1>5, <2>2 DEF Mode
    <3>2. QED
      BY <1>2, <2>1, <3>1 DEF Store!Next, Store!Abandon, Working
  <2>3. CASE phase = "save" /\ unsaved = <<>>
    <3>1. Mode = "saving" /\ Mode' = "idle"
      BY <1>2, <1>5, <2>3 DEF Mode
    <3>2. Working = Globals(shared)
      BY <1>1, <1>5, <2>3, SetOfNone DEF SaverInv, Working, Globals
    <3>3. QED
      BY <1>2, <2>1, <3>1, <3>2 DEF Store!Next, Store!Finish, Working
  <2>4. QED
    BY <2>2, <2>3
<1>6. QED
  BY <1>3, <1>4, <1>5 DEF Ends

\* Declarations.
LEMMA DeclaresStore ==
  ASSUME StoreInv, Declares
  PROVE  Store!Next \/ UNCHANGED <<Mode, Globals(shared), Working>>
<1>1. PICK d \in Declarations :
        \/ \E w \in Names : (w = d.name \/ Global(w)) /\ HandleGlobalVariable(d, w)
        \/ RefuseDeclaration(d) \/ NoConstructorFound(d)
        \/ DeclarationFails(d)
  BY DEF Declares
<1>2. epc # "running" /\ epc' = epc /\ UNCHANGED <<phase, unsaved>>
  BY <1>1 DEF Declares, HandleGlobalVariable, RefuseDeclaration, NoConstructorFound,
     DeclarationFails
<1>3. /\ Mode' = Mode /\ Mode \in {"idle", "abandoned"}
      /\ Working = Globals(shared) /\ Working' = Globals(shared)'
  BY <1>2, NotRunning DEF Mode
<1>4. CASE RefuseDeclaration(d) \/ NoConstructorFound(d) \/ DeclarationFails(d)
  <2>1. UNCHANGED shared /\ \A v \in Names : Global(v)' <=> Global(v)
    BY <1>4, HalfVariable, KindsKept DEF StoreInv, RefuseDeclaration,
       NoConstructorFound, DeclarationFails
  <2>2. QED
    BY <1>3, <2>1, StoreKept
<1>5. CASE \E w \in Names : (w = d.name \/ Global(w)) /\ HandleGlobalVariable(d, w)
  <2>1. PICK w \in Names : (w = d.name \/ Global(w)) /\ HandleGlobalVariable(d, w)
    BY <1>5
  <2>2. /\ d.name \in Names /\ table[d.name] = Absent
        /\ table' = [table EXCEPT ![d.name] = Entry(d)]
    BY <2>1, DeclaredValues DEF HandleGlobalVariable
  <2>3. ~Global(d.name) /\ \A v \in Names : Global(v)' <=> IF v = d.name THEN d.global ELSE Global(v)
    BY <2>2, NewVariable DEF StoreInv, Global
  <2>4. /\ shared' \in [Names -> Slots] /\ shared'[d.name] \in Objects
        /\ \A v \in Names \ {d.name, w} : shared'[v] = shared[v]
    BY <2>1, DeclaredValue
  <2>5. Globals(shared)' \in [Names -> Objects \cup {Nothing}]
    BY <2>4 DEF Globals, Slots
  <2>6. Globals(shared)[d.name] = Nothing
    BY <2>2, <2>3 DEF Globals
  <2>7. w # d.name => Globals(shared)[w] # Nothing
    BY <2>1, ObjectFacts DEF Globals, StoreInv, ObjectsInv
  <2>8. \A u \in Names \ {d.name, w} : Globals(shared)'[u] = Globals(shared)[u]
    BY <2>3, <2>4 DEF Globals
  <2>9. Store!Declare
    BY <1>3, <2>2, <2>5, <2>6, <2>7, <2>8 DEF Store!Declare, Store!Between, Working
  <2>10. QED
    BY <2>9 DEF Store!Next
<1>6. QED
  BY <1>1, <1>4, <1>5

\* The steps of an expression.
LEMMA RunsStore ==
  ASSUME StoreInv, Runs
  PROVE  Store!Next \/ UNCHANGED <<Mode, Globals(shared), Working>>
<1>1. ObjectsInv /\ SaverInv /\ epc = "running" /\ epc' = "running"
  BY DEF StoreInv, Runs
<1>2. \A v \in Names : Global(v)' <=> Global(v)
  BY KindsKept DEF Runs, Assign, StartThread, StartedStep, BodyEnds, SaveOne
<1>3. Working = Globals(copies[Exec]) /\ Working' = Globals(copies[Exec])'
  BY <1>1 DEF Working
<1>4. CASE phase = "body" /\ \E v \in Names : Assign(v)
  <2>1. PICK v \in Names : Assign(v)
    BY <1>4
  <2>2. /\ Global(v) /\ UNCHANGED <<shared, phase, unsaved>>
        /\ copies' = [copies EXCEPT ![Exec][v].data = 2]
    BY <2>1 DEF Assign
  <2>3. Mode = "busy" /\ Mode' = "busy" /\ Globals(shared)' = Globals(shared)
    BY <1>1, <1>2, <1>4, <2>2, StoreKept DEF Mode
  <2> DEFINE x == [copies[Exec][v] EXCEPT !.data = 2]
  <2>4. x \in Objects /\ copies[Exec][v] \in Objects
    BY <1>1, <2>2, ObjectFacts DEF ObjectsInv
  <2>5. copies'[Exec] = [copies[Exec] EXCEPT ![v] = x]
    BY <1>1, <2>2 DEF ObjectsInv, Copies
  <2>6. copies[Exec] \in [Names -> Slots]
    BY <1>1 DEF ObjectsInv, Copies
  <2> HIDE DEF x
  <2>7. Working' = [Working EXCEPT ![v] = x]
    BY <1>2, <1>3, <2>2, <2>5, <2>6 DEF Globals
  <2>8. Working[v] # Nothing
    BY <1>3, <2>2, <2>4, ObjectFacts DEF Globals
  <2>9. Store!Assign
    BY <2>3, <2>4, <2>7, <2>8 DEF Store!Assign, Working
  <2>10. QED
    BY <2>9 DEF Store!Next
<1>5. CASE phase = "body" /\ StartThread
  <2>1. /\ UNCHANGED <<shared, phase, unsaved>>
        /\ copies' = [copies EXCEPT ![Started] =
                        [v \in Names |-> IF Declared(v) THEN Image(table[v].decl) ELSE Nothing]]
    BY <1>5 DEF StartThread, StartedStep
  <2>2. copies'[Exec] = copies[Exec]
    BY <1>1, <2>1, StartedAssumption DEF ObjectsInv, Copies
  <2>3. QED
    BY <1>1, <1>2, <2>1, <2>2, StoreKept, WorkingKept DEF Mode
<1>6. CASE phase = "body" /\ BodyEnds
  <2>1. UNCHANGED <<shared, copies>> /\ phase' = "save"
    BY <1>6 DEF BodyEnds
  <2>2. Mode = "busy" /\ Mode' = "saving"
    BY <1>1, <1>6, <2>1 DEF Mode
  <2>3. Globals(shared)' = Globals(shared) /\ Working' = Working
    BY <1>1, <1>2, <2>1, StoreKept, WorkingKept
  <2>4. QED
    BY <2>2, <2>3 DEF Store!Next, Store!Save, Working
<1>7. CASE SaveOne
  <2> DEFINE v == Head(unsaved)
  <2>1. /\ unsaved # <<>> /\ UNCHANGED <<copies, phase>>
        /\ shared' = [shared EXCEPT ![v] = copies[Exec][v]]
    BY <1>7 DEF SaveOne
  <2>2. phase = "save" /\ v \in Names
    BY <1>1, <2>1 DEF SaverInv
  <2> HIDE DEF v
  <2>3. Mode = "saving" /\ Mode' = "saving"
    BY <1>1, <2>1, <2>2 DEF Mode
  <2>4. Working' = Working
    BY <1>1, <1>2, <2>1, WorkingKept
  <2>5. Globals(shared)' = [Globals(shared) EXCEPT ![v] = Working[v]]
    BY <1>1, <1>2, <1>3, <2>1, <2>2 DEF Globals, ObjectsInv
  <2>6. Store!SaveOne
    BY <2>2, <2>3, <2>4, <2>5 DEF Store!SaveOne, Working
  <2>7. QED
    BY <2>6 DEF Store!Next
<1>8. QED
  BY <1>4, <1>5, <1>6, <1>7 DEF Runs

\* Every step is a step of the store, or changes nothing in it.
LEMMA StoreStep ==
  ASSUME StoreInv, SessionStep
  PROVE  Store!Next \/ UNCHANGED <<Mode, Globals(shared), Working>>
<1>1. CASE Begins
  <2>1. /\ epc \in {"none", "joined"} /\ epc' = "running" /\ phase' = "body" /\ UNCHANGED shared
        /\ \A v \in Names : Global(v)' <=> Global(v)
    BY <1>1, KindsKept DEF Begins, Restore
  <2>2. Globals(shared)' = Globals(shared)
    BY <2>1, StoreKept
  <2>3. Working' = Globals(shared)
    BY <1>1, <2>1, RestoredValues DEF Begins, Working, Globals
  <2>4. Mode \in {"idle", "abandoned"} /\ Mode' = "busy"
    BY <2>1 DEF Mode
  <2>5. QED
    BY <2>2, <2>3, <2>4 DEF Store!Next, Store!Begin, Store!Between, Working
<1>2. CASE Releases
  <2>1. /\ epc = "exited" /\ epc' = "joined" /\ UNCHANGED <<shared, phase, unsaved>>
        /\ \A v \in Names : Global(v)' <=> Global(v)
    BY <1>2, KindsKept DEF Releases, Release
  <2>2. QED
    BY <2>1, StoreKept, NotRunning DEF Mode
<1>3. CASE Returned
  <2>1. /\ epc = "running" /\ epc' = "finishing" /\ phase = "body" /\ phase' = "returned"
        /\ \A v \in Names : Global(v)' <=> Global(v)
        /\ \A v \in Names : Global(v) => shared'[v] = shared[v]
    BY <1>3, KindsKept DEF Returned, DestructAll
  <2>2. Mode = "busy" /\ Mode' = "abandoned"
    BY <2>1 DEF Mode
  <2>3. Globals(shared)' = Globals(shared) /\ Working' = Globals(shared)
    BY <2>1, StoreKept, NotRunning
  <2>4. QED
    BY <2>2, <2>3 DEF Store!Next, Store!Abandon, Working
<1>4. CASE Continues
  <2>1. /\ epc' = epc /\ UNCHANGED <<phase, unsaved>>
        /\ copies'[Exec] = copies[Exec]
        /\ \A v \in Names : Global(v)' <=> Global(v)
        /\ \A v \in Names : Global(v) => shared'[v] = shared[v]
    BY <1>4, KindsKept, ContinuesStoreInv DEF Continues, StartedNext, StartedStep, ConstructOne, Run,
       FunctionEnds, DestroyOne, ThreadEnds
  <2>2. Mode' = Mode /\ Globals(shared)' = Globals(shared)
    BY <2>1, StoreKept DEF Mode
  <2>3. Working' = Working
    BY <2>1, <2>2, WorkingKept, NotRunning
  <2>4. QED
    BY <2>2, <2>3
<1>5. QED
  BY <1>1, <1>2, <1>3, <1>4, EndsStore, DeclaresStore, RunsStore DEF SessionStep

\* A session implements one store of the global variables: whatever is declared
\* and whichever threads run, an expression starts with the values the last one
\* left and leaves its own when it finishes; one that a signal or a `return` ends
\* leaves a part of them.
THEOREM SessionImplementsStore == SessionSpec => ImplementsStore
<1>1. SessionInit => Store!Init
  <2> SUFFICES ASSUME SessionInit PROVE Store!Init
    OBVIOUS
  <2>1. \A v \in Names : ~Global(v)
    BY StatesDiffer DEF SessionInit, InitGlobals, Global, Declared
  <2>2. Mode = "idle"
    BY DEF SessionInit, Init, InitGlobals, Mode
  <2>3. \A f : Globals(f) = [v \in Names |-> Nothing]
    BY <2>1 DEF Globals
  <2>4. QED
    BY <2>2, <2>3 DEF Store!Init
<1>2. ASSUME StoreInv, IInv, [SessionNext]_sessionVars
      PROVE  StoreInv' /\ IInv' /\ [Store!Next]_(Store!vars)
  <2>1. StoreInv' /\ IInv'
    BY <1>2, SessionSteps, StoreInvNext, SessionIInvNext
  <2>2. Store!Next \/ UNCHANGED <<Mode, Globals(shared), Working>>
    BY <1>2, SessionSteps, StoreStep
  <2>3. QED
    BY <2>1, <2>2 DEF Store!vars, Working
<1>3. SessionInit => StoreInv /\ IInv
  BY InitStoreInv
<1>4. QED
  BY <1>1, <1>2, <1>3, PTL DEF SessionSpec, ImplementsStore, Store!Spec

-----------------------------------------------------------------------------
(* Sequences without repetitions, as orders.                               *)

Earlier(x, y, s) == \E p, q \in DOMAIN s : p < q /\ s[p] = x /\ s[q] = y

LEMMA EarlierFacts ==
  ASSUME NEW S, NEW s \in Seq(S), IsInjective(s), NEW x, NEW y
  PROVE  /\ Earlier(x, y, s) => x \in ToSet(s) /\ y \in ToSet(s) /\ x # y
         /\ ~(Earlier(x, y, s) /\ Earlier(y, x, s))
<1>1. DOMAIN s \subseteq Nat
  OBVIOUS
<1>2. Earlier(x, y, s) => x \in ToSet(s) /\ y \in ToSet(s) /\ x # y
  BY <1>1 DEF Earlier, ToSet, IsInjective
<1>3. ASSUME Earlier(x, y, s), Earlier(y, x, s) PROVE FALSE
  <2>1. PICK p, q \in DOMAIN s : p < q /\ s[p] = x /\ s[q] = y
    BY <1>3 DEF Earlier
  <2>2. PICK i, j \in DOMAIN s : i < j /\ s[i] = y /\ s[j] = x
    BY <1>3 DEF Earlier
  <2>3. i = q /\ j = p
    BY <2>1, <2>2 DEF IsInjective
  <2>4. QED
    BY <1>1, <2>1, <2>2, <2>3
<1>4. QED
  BY <1>2, <1>3

LEMMA EarlierInNone ==
  /\ IsInjective(<<>>)
  /\ \A x, y : ~Earlier(x, y, <<>>)
BY DEF IsInjective, Earlier

\* A new first element is before all others.
LEMMA EarlierWithFirst ==
  ASSUME NEW S, NEW h \in S, NEW s \in Seq(S)
  PROVE  /\ IsInjective(<<h>> \o s) <=> h \notin ToSet(s) /\ IsInjective(s)
         /\ \A x, y : Earlier(x, y, <<h>> \o s) <=> Earlier(x, y, s) \/ (x = h /\ y \in ToSet(s))
<1> DEFINE t == <<h>> \o s
<1>1. /\ Len(t) = Len(s) + 1 /\ Len(s) \in Nat
      /\ DOMAIN t = 1 .. Len(s) + 1 /\ DOMAIN s = 1 .. Len(s)
      /\ t[1] = h /\ \A i \in 1 .. Len(s) : t[i + 1] = s[i]
  OBVIOUS
<1> HIDE DEF t
<1>2. ASSUME NEW i \in DOMAIN t, i # 1 PROVE i - 1 \in DOMAIN s /\ t[i] = s[i - 1]
  <2>1. i - 1 \in 1 .. Len(s) /\ (i - 1) + 1 = i
    BY <1>1, <1>2
  <2>2. QED
    BY <1>1, <2>1
<1>3. ASSUME NEW i \in DOMAIN s PROVE i + 1 \in DOMAIN t /\ t[i + 1] = s[i] /\ i + 1 # 1 /\ i \in Nat
  BY <1>1
<1>4. 1 \in DOMAIN t /\ \A i \in DOMAIN t : i \in Nat /\ (i = 1 \/ 1 < i)
  BY <1>1
<1>5. ASSUME IsInjective(t) PROVE h \notin ToSet(s) /\ IsInjective(s)
  <2>1. \A i \in DOMAIN s : s[i] # h
    BY <1>1, <1>3, <1>4, <1>5 DEF IsInjective
  <2>2. ASSUME NEW i \in DOMAIN s, NEW j \in DOMAIN s, s[i] = s[j] PROVE i = j
    <3>1. i + 1 = j + 1
      BY <1>3, <1>5, <2>2 DEF IsInjective
    <3>2. QED
      BY <1>3, <3>1
  <2>3. QED
    BY <2>1, <2>2 DEF IsInjective, ToSet
<1>6. ASSUME h \notin ToSet(s), IsInjective(s) PROVE IsInjective(t)
  <2>1. SUFFICES ASSUME NEW i \in DOMAIN t, NEW j \in DOMAIN t, t[i] = t[j] PROVE i = j
    BY DEF IsInjective
  <2>2. \A k \in DOMAIN t : t[k] = h => k = 1
    BY <1>2, <1>6 DEF ToSet
  <2>3. CASE i # 1 /\ j # 1
    <3>1. i - 1 = j - 1
      BY <1>2, <1>6, <2>1, <2>3 DEF IsInjective
    <3>2. QED
      BY <1>4, <3>1
  <2>4. QED
    BY <1>1, <2>1, <2>2, <2>3
<1>7. ASSUME NEW x, NEW y
      PROVE  Earlier(x, y, t) <=> Earlier(x, y, s) \/ (x = h /\ y \in ToSet(s))
  <2>1. ASSUME Earlier(x, y, t) PROVE Earlier(x, y, s) \/ (x = h /\ y \in ToSet(s))
    <3>1. PICK p, q \in DOMAIN t : p < q /\ t[p] = x /\ t[q] = y
      BY <2>1 DEF Earlier
    <3>2. q # 1 /\ q - 1 \in DOMAIN s /\ s[q - 1] = y
      BY <1>2, <1>4, <3>1
    <3>3. CASE p = 1
      BY <1>1, <3>1, <3>2, <3>3 DEF ToSet
    <3>4. CASE p # 1
      <4>1. p - 1 \in DOMAIN s /\ s[p - 1] = x /\ p - 1 < q - 1
        BY <1>2, <1>4, <3>1, <3>4
      <4>2. QED
        BY <3>2, <4>1 DEF Earlier
    <3>5. QED
      BY <3>3, <3>4
  <2>2. ASSUME Earlier(x, y, s) PROVE Earlier(x, y, t)
    <3>1. PICK p, q \in DOMAIN s : p < q /\ s[p] = x /\ s[q] = y
      BY <2>2 DEF Earlier
    <3>2. p + 1 \in DOMAIN t /\ q + 1 \in DOMAIN t /\ p + 1 < q + 1 /\ t[p + 1] = x /\ t[q + 1] = y
      BY <1>3, <3>1
    <3>3. QED
      BY <3>2 DEF Earlier
  <2>3. ASSUME x = h, y \in ToSet(s) PROVE Earlier(x, y, t)
    <3>1. PICK q \in DOMAIN s : s[q] = y
      BY <2>3 DEF ToSet
    <3>2. q + 1 \in DOMAIN t /\ 1 < q + 1 /\ t[q + 1] = y
      BY <1>3, <1>4, <3>1
    <3>3. QED
      BY <1>1, <1>4, <2>3, <3>2 DEF Earlier
  <2>4. QED
    BY <2>1, <2>2, <2>3
<1>8. QED
  BY <1>5, <1>6, <1>7 DEF t

\* A new last one is after all others.
LEMMA EarlierWithLast ==
  ASSUME NEW S, NEW l \in S, NEW s \in Seq(S), IsInjective(s), l \notin ToSet(s)
  PROVE  /\ Append(s, l) \in Seq(S) /\ IsInjective(Append(s, l))
         /\ ToSet(Append(s, l)) = ToSet(s) \cup {l}
         /\ \A x, y : Earlier(x, y, Append(s, l)) => Earlier(x, y, s) \/ (x \in ToSet(s) /\ y = l)
<1> DEFINE t == Append(s, l)
<1>1. /\ t \in Seq(S) /\ Len(s) \in Nat
      /\ DOMAIN t = 1 .. Len(s) + 1 /\ DOMAIN s = 1 .. Len(s)
      /\ t[Len(s) + 1] = l /\ \A i \in 1 .. Len(s) : t[i] = s[i]
  OBVIOUS
<1> HIDE DEF t
<1>2. /\ Len(s) + 1 \in DOMAIN t /\ Len(s) + 1 \in Nat
      /\ \A i \in DOMAIN t : i \in Nat /\ i <= Len(s) + 1 /\ (i = Len(s) + 1 \/ i \in DOMAIN s)
      /\ \A i \in DOMAIN s : i \in DOMAIN t /\ i \in Nat /\ i < Len(s) + 1
  BY <1>1
<1>3. ToSet(t) = ToSet(s) \cup {l}
  BY <1>1, <1>2 DEF ToSet
<1>4. IsInjective(t)
  <2>1. SUFFICES ASSUME NEW i \in DOMAIN t, NEW j \in DOMAIN t, t[i] = t[j] PROVE i = j
    BY DEF IsInjective
  <2>2. \A k \in DOMAIN s : t[k] = s[k] /\ t[k] # l
    BY <1>1 DEF ToSet
  <2>3. QED
    BY <1>1, <1>2, <2>1, <2>2 DEF IsInjective
<1>5. ASSUME NEW x, NEW y, Earlier(x, y, t)
      PROVE  Earlier(x, y, s) \/ (x \in ToSet(s) /\ y = l)
  <2>1. PICK p, q \in DOMAIN t : p < q /\ t[p] = x /\ t[q] = y
    BY <1>5 DEF Earlier
  <2>2. p \in DOMAIN s /\ s[p] = x
    BY <1>1, <1>2, <2>1
  <2>3. CASE q = Len(s) + 1
    BY <1>1, <2>1, <2>2, <2>3 DEF ToSet
  <2>4. CASE q \in DOMAIN s
    BY <1>1, <2>1, <2>2, <2>4 DEF Earlier
  <2>5. QED
    BY <1>2, <2>3, <2>4
<1>6. QED
  BY <1>1, <1>3, <1>4, <1>5 DEF t

-----------------------------------------------------------------------------
(* The copies of a started thread.                                         *)

\* The two chains have every variable once, in opposite orders.
CallersInv ==
  /\ IsInjective(constructors) /\ IsInjective(destructors)
  /\ \A v \in ToSet(constructors) : Global(v) /\ needs_constructor(table[v].decl)
  /\ \A v \in Names : v \in ToSet(destructors) <=> Destructed(v)
  /\ \A v, w : Earlier(v, w, constructors) /\ v \in ToSet(destructors) /\ w \in ToSet(destructors) =>
       Earlier(w, v, destructors)

\* So has what the thread still calls: the variables it has not constructed are
\* the last ones, and those it has not destroyed the first ones.
PendingInv ==
  /\ IsInjective(started.all) /\ IsInjective(started.up) /\ IsInjective(started.down)
  /\ ToSet(started.up) \subseteq ToSet(started.all)
  /\ \A v \in ToSet(started.all) : Global(v)
  /\ \A v \in ToSet(started.down) : Destructed(v)
  /\ \A v, w : Earlier(v, w, started.up) => Earlier(v, w, started.all)
  /\ \A v, w : Earlier(v, w, started.all) =>
       (v \in ToSet(started.up) => w \in ToSet(started.up))
  /\ \A v, w : Earlier(v, w, started.all) =>
       (w \in ToSet(started.down) /\ Destructed(v) => v \in ToSet(started.down))
  /\ \A v, w : Earlier(v, w, started.all) =>
       (v \in ToSet(started.down) /\ w \in ToSet(started.down) => Earlier(w, v, started.down))

ToDestroy(v) == Destructed(v) => v \in ToSet(started.down)

LivesInv ==
  /\ started.phase = "none" => started.all = <<>>
  /\ started.phase \in {"run", "destroy"} => started.up = <<>>
  /\ started.phase \in {"construct", "run"} => \A v \in ToSet(started.all) : ToDestroy(v)
  /\ \A v \in ToSet(started.all) :
       copies[Started][v].life = IF v \in ToSet(started.up) THEN "raw"
                                 ELSE IF ToDestroy(v) THEN "live" ELSE "dead"

OrderInv == CallersInv /\ PendingInv /\ LivesInv

LEMMA OrderImplies == StoreInv /\ OrderInv => ConstructedInOrder
<1> SUFFICES ASSUME StoreInv, OrderInv PROVE ConstructedInOrder
  OBVIOUS
<1>1. ChainsInv /\ PendingInv /\ LivesInv
  BY DEF StoreInv, OrderInv
<1> DEFINE all == started.all
           life(v) == copies[Started][v].life
<1>2. all \in Seq(Names) /\ \A i \in DOMAIN all : all[i] \in ToSet(all)
  BY <1>1 DEF ChainsInv, ToSet
<1>3. \A i \in DOMAIN all : life(all[i]) # "broken"
  BY <1>1, <1>2 DEF LivesInv
<1>4. started.phase = "run" => \A i \in DOMAIN all : life(all[i]) = "live"
  BY <1>1, <1>2, SetOfNone DEF LivesInv
<1>5. ASSUME NEW i \in DOMAIN all, NEW j \in DOMAIN all, i < j, life(all[j]) = "live", Destructed(all[j])
      PROVE  life(all[i]) = "live"
  <2>1. Earlier(all[i], all[j], all)
    BY <1>5 DEF Earlier
  <2>2. all[j] \notin ToSet(started.up) /\ ToDestroy(all[j])
    BY <1>1, <1>2, <1>5 DEF LivesInv
  <2>3. all[i] \notin ToSet(started.up) /\ ToDestroy(all[i])
    BY <1>1, <1>5, <2>1, <2>2 DEF PendingInv, ToDestroy
  <2>4. QED
    BY <1>1, <1>2, <2>3 DEF LivesInv
<1>6. QED
  BY <1>3, <1>4, <1>5 DEF ConstructedInOrder

\* A declaration makes the chains longer; a thread that is running does not see it.
LEMMA DeclaresOrder ==
  ASSUME StoreInv, OrderInv, NEW d \in Declarations, NEW w \in Names, w = d.name \/ Global(w),
         HandleGlobalVariable(d, w)
  PROVE  OrderInv'
<1> DEFINE n == d.name
<1>1. /\ TableInv /\ ChainsInv /\ CallersInv /\ PendingInv /\ LivesInv
      /\ n \in Names /\ d.global \in BOOLEAN /\ d.dtor \in BOOLEAN
  BY DeclaredValues DEF StoreInv, OrderInv
<1>2. /\ table[n] = Absent /\ table' = [table EXCEPT ![n] = Entry(d)] /\ UNCHANGED started
      /\ RegisterThreadConstructor(d) /\ RegisterThreadDestructor(d)
  BY DEF HandleGlobalVariable
<1>3. /\ ~Declared(n) /\ table'[n].decl = d
      /\ \A v \in Names : /\ v # n => table'[v] = table[v]
                          /\ Global(v)' <=> IF v = n THEN d.global ELSE Global(v)
                          /\ Destructed(v)' <=> IF v = n THEN d.dtor ELSE Destructed(v)
  <2>1. /\ ~Declared(n)
        /\ \A v \in Names : /\ table'[v] = IF v = n THEN Entry(d) ELSE table[v]
                            /\ Global(v)' <=> IF v = n THEN d.global ELSE Global(v)
                            /\ Destructed(v)' <=> IF v = n THEN d.dtor ELSE Destructed(v)
    BY <1>1, <1>2, NewVariable
  <2>2. table'[n].decl = d
    BY <1>1, <2>1, StatesDiffer
  <2>3. QED
    BY <2>1, <2>2
<1>4. ~Global(n) /\ ~Destructed(n)
  BY <1>3 DEF Global, Destructed
<1>5. /\ ToSet(constructors) \subseteq Names \ {n} /\ ToSet(destructors) \subseteq Names \ {n}
      /\ ToSet(started.all) \subseteq Names \ {n} /\ ToSet(started.down) \subseteq Names \ {n}
  <2>1. \A s \in Seq(Names) : ToSet(s) \subseteq Names
    BY DEF ToSet
  <2>2. QED
    BY <1>1, <1>4, <2>1 DEF ChainsInv, CallersInv, PendingInv
<1>6. CallersInv'
  <2> DEFINE c == constructors
             e == destructors
  <2>1. /\ c \in Seq(Names) /\ e \in Seq(Names) /\ IsInjective(c) /\ IsInjective(e)
        /\ c' = IF needs_constructor(d) /\ d.global THEN Append(c, n) ELSE c
        /\ e' = IF d.dtor THEN <<n>> \o e ELSE e
    BY <1>1, <1>2 DEF ChainsInv, CallersInv, RegisterThreadConstructor, RegisterThreadDestructor
  <2>2. /\ IsInjective(c')
        /\ ToSet(c') = ToSet(c) \cup (IF needs_constructor(d) /\ d.global THEN {n} ELSE {})
        /\ \A v, x : Earlier(v, x, c') => Earlier(v, x, c) \/ (v \in ToSet(c) /\ x = n)
    BY <1>1, <1>5, <2>1, EarlierWithLast
  <2>3. /\ IsInjective(e')
        /\ ToSet(e') = ToSet(e) \cup (IF d.dtor THEN {n} ELSE {})
        /\ \A v, x : Earlier(v, x, e') <=> Earlier(v, x, e) \/ (d.dtor /\ v = n /\ x \in ToSet(e))
    BY <1>1, <1>5, <2>1, EarlierWithFirst, SetOfFirst
  <2>4. \A v, x : Earlier(v, x, c) => v \in ToSet(c) /\ x \in ToSet(c)
    BY <2>1, EarlierFacts
  <2> HIDE DEF c, e
  <2>5. \A v \in ToSet(c') : Global(v)' /\ needs_constructor(table'[v].decl)
    BY <1>1, <1>3, <1>5, <2>2 DEF CallersInv, c
  <2>6. \A v \in Names : v \in ToSet(e') <=> Destructed(v)'
    BY <1>1, <1>3, <1>4, <2>3 DEF CallersInv, e
  <2>7. ASSUME NEW v, NEW x, Earlier(v, x, c'), v \in ToSet(e'), x \in ToSet(e')
        PROVE  Earlier(x, v, e')
    BY <1>1, <1>5, <2>2, <2>3, <2>4, <2>7 DEF CallersInv, c, e
  <2>8. QED
    BY <2>2, <2>3, <2>5, <2>6, <2>7 DEF CallersInv, needs_constructor, is_call_expr, c, e
<1>7. PendingInv' /\ \A v \in ToSet(started.all) : ToDestroy(v)' <=> ToDestroy(v)
  <2>1. \A v \in ToSet(started.all) \cup ToSet(started.down) :
          (Global(v)' <=> Global(v)) /\ (Destructed(v)' <=> Destructed(v))
    BY <1>3, <1>5
  <2>2. \A v, x : Earlier(v, x, started.all) => v \in ToSet(started.all)
    BY <1>1, EarlierFacts DEF ChainsInv, PendingInv
  <2>3. QED
    BY <1>1, <1>2, <2>1, <2>2 DEF PendingInv, ToDestroy
<1>8. LivesInv'
  <2>1. \A v \in ToSet(started.all) : copies'[Started][v] = copies[Started][v]
    BY <1>5, DeclaredValue
  <2>2. QED
    BY <1>1, <1>2, <1>7, <2>1 DEF LivesInv
<1>9. QED
  BY <1>6, <1>7, <1>8 DEF OrderInv

\* Steps that leave the thread and the chains alone.
LEMMA OrderKept ==
  ASSUME StoreInv, OrderInv, UNCHANGED <<constructors, destructors, started>>,
         copies'[Started] = copies[Started],
         \A v \in Names : /\ Global(v)' <=> Global(v)
                          /\ Destructed(v)' <=> Destructed(v)
                          /\ Declared(v) => table'[v] = table[v]
  PROVE  OrderInv'
<1>1. CallersInv /\ PendingInv /\ LivesInv /\ ChainsInv
  BY DEF StoreInv, OrderInv
<1>2. /\ ToSet(constructors) \subseteq Names /\ ToSet(started.all) \subseteq Names
      /\ ToSet(started.down) \subseteq Names
  BY <1>1 DEF ChainsInv, ToSet
<1>3. \A v \in Names : Global(v) => table'[v] = table[v]
  BY DEF Global
<1>4. CallersInv'
  <2>1. \A v \in ToSet(constructors) : Global(v)' /\ needs_constructor(table'[v].decl)
    BY <1>1, <1>2, <1>3 DEF CallersInv
  <2>2. QED
    BY <1>1, <2>1 DEF CallersInv, needs_constructor, is_call_expr
<1>5. PendingInv'
  <2>1. \A v, w : Earlier(v, w, started.all) => v \in ToSet(started.all)
    BY <1>1, EarlierFacts DEF ChainsInv, PendingInv
  <2>2. QED
    BY <1>1, <1>2, <2>1 DEF PendingInv
<1>6. LivesInv'
  BY <1>1, <1>2 DEF LivesInv, ToDestroy
<1>7. QED
  BY <1>4, <1>5, <1>6 DEF OrderInv

\* A new thread finds raw copies of what it constructs.
LEMMA StartsOrdered ==
  ASSUME StoreInv, OrderInv, StartThread
  PROVE  OrderInv'
<1>1. /\ TableInv /\ ObjectsInv /\ ChainsInv /\ CallersInv
      /\ UNCHANGED <<table, constructors, destructors>>
  BY DEF StoreInv, OrderInv, StartThread, StartedStep
<1>2. /\ started'.phase = "construct" /\ started'.up = constructors
      /\ started'.all = constructors /\ started'.down = destructors
      /\ copies' = [copies EXCEPT ![Started] =
                      [v \in Names |-> IF Declared(v) THEN Image(table[v].decl) ELSE Nothing]]
  BY DEF StartThread, StartedStep
<1>3. \A v : (Global(v)' <=> Global(v)) /\ (Destructed(v)' <=> Destructed(v))
  BY <1>1, KindsKept
<1>4. CallersInv'
  BY <1>1, <1>3 DEF CallersInv
<1>5. ToSet(constructors) \subseteq Names /\ ToSet(destructors) \subseteq Names
  BY <1>1 DEF ChainsInv, ToSet
<1>6. \A v, w : Earlier(v, w, constructors) => v \in ToSet(constructors) /\ w \in ToSet(constructors)
  BY <1>1, EarlierFacts DEF ChainsInv, CallersInv
<1>7. PendingInv'
  BY <1>1, <1>2, <1>3, <1>5, <1>6 DEF CallersInv, PendingInv
<1>8. \A v \in ToSet(constructors) : copies'[Started][v].life = "raw"
  <2>1. \A v \in Names : copies'[Started][v] = IF Declared(v) THEN Image(table[v].decl) ELSE Nothing
    BY <1>1, <1>2 DEF ObjectsInv, Copies
  <2>2. ASSUME NEW v \in ToSet(constructors) PROVE copies'[Started][v].life = "raw"
    <3>1. Declared(v) /\ needs_constructor(table[v].decl)
      BY <1>1, <2>2 DEF CallersInv, Global
    <3>2. table[v].decl \in Declarations
      BY <1>1, <1>5, <2>2, <3>1, DeclaredEntry
    <3>3. QED
      BY <1>5, <2>1, <2>2, <3>1, <3>2, RawBefore
  <2>3. QED
    BY <2>2
<1>9. \A v \in ToSet(constructors) : Destructed(v) => v \in ToSet(destructors)
  BY <1>1, <1>5 DEF CallersInv
<1>10. LivesInv'
  BY <1>2, <1>3, <1>8, <1>9 DEF LivesInv, ToDestroy
<1>11. QED
  BY <1>4, <1>7, <1>10 DEF OrderInv

\* What is left of a chain without its first call.
LEMMA TailOrdered ==
  ASSUME NEW s \in Seq(Names), IsInjective(s), s # <<>>
  PROVE  /\ Head(s) \in Names /\ Tail(s) \in Seq(Names) /\ IsInjective(Tail(s))
         /\ Head(s) \notin ToSet(Tail(s)) /\ ToSet(s) = {Head(s)} \cup ToSet(Tail(s))
         /\ \A v, w : Earlier(v, w, s) <=> Earlier(v, w, Tail(s)) \/ (v = Head(s) /\ w \in ToSet(Tail(s)))
<1> DEFINE h == Head(s)
           t == Tail(s)
<1>1. h \in Names /\ t \in Seq(Names) /\ s = <<h>> \o t
  OBVIOUS
<1> HIDE DEF h, t
<1>2. ToSet(s) = {h} \cup ToSet(t)
  BY <1>1, SetOfFirst
<1>3. /\ IsInjective(t) /\ h \notin ToSet(t)
      /\ \A v, w : Earlier(v, w, s) <=> Earlier(v, w, t) \/ (v = h /\ w \in ToSet(t))
  BY <1>1, EarlierWithFirst
<1>4. QED
  BY <1>1, <1>2, <1>3 DEF h, t

LEMMA ConstructsOrdered ==
  ASSUME StoreInv, OrderInv, ConstructOne
  PROVE  OrderInv'
<1> DEFINE v == Head(started.up)
           rest == Tail(started.up)
<1>1. /\ ObjectsInv /\ ChainsInv /\ CallersInv /\ PendingInv /\ LivesInv
      /\ UNCHANGED <<table, constructors, destructors>>
  BY DEF StoreInv, OrderInv, ConstructOne, StartedStep
<1>2. /\ started.phase = "construct" /\ started.up # <<>>
      /\ started' = [started EXCEPT !.up = rest]
      /\ copies' = [copies EXCEPT ![Started][v] = Construct(@)]
  BY DEF ConstructOne, StartedStep
<1>3. /\ started'.phase = "construct" /\ started'.up = rest
      /\ started'.all = started.all /\ started'.down = started.down
  BY <1>1, <1>2 DEF ChainsInv
<1>4. \A u : (Global(u)' <=> Global(u)) /\ (Destructed(u)' <=> Destructed(u))
  BY <1>1, KindsKept
<1>5. /\ v \in Names /\ rest \in Seq(Names) /\ IsInjective(rest)
      /\ v \notin ToSet(rest) /\ ToSet(started.up) = {v} \cup ToSet(rest)
      /\ \A u, w : Earlier(u, w, started.up) <=> Earlier(u, w, rest) \/ (u = v /\ w \in ToSet(rest))
  BY <1>1, <1>2, TailOrdered DEF ChainsInv, PendingInv
<1> HIDE DEF v, rest
<1>6. CallersInv'
  BY <1>1, <1>4 DEF CallersInv
<1>7. ASSUME NEW u, NEW w, Earlier(u, w, started.all), u \in ToSet(rest)
      PROVE  w \in ToSet(rest)
  <2>1. w \in ToSet(started.up)
    BY <1>1, <1>5, <1>7 DEF PendingInv
  <2>2. w # v
    <3>1. ~Earlier(w, u, started.all)
      BY <1>1, <1>7, EarlierFacts DEF ChainsInv, PendingInv
    <3>2. QED
      BY <1>1, <1>5, <1>7, <3>1 DEF PendingInv
  <2>3. QED
    BY <1>5, <2>1, <2>2
<1>8. PendingInv'
  BY <1>1, <1>3, <1>4, <1>5, <1>7 DEF PendingInv
<1>9. /\ copies'[Started][v] = Construct(copies[Started][v])
      /\ \A u \in Names \ {v} : copies'[Started][u] = copies[Started][u]
  <2>1. copies' = [copies EXCEPT ![Started] = [copies[Started] EXCEPT ![v] = Construct(copies[Started][v])]]
    BY <1>2
  <2>2. QED
    BY <1>1, <1>5, <2>1 DEF ObjectsInv, Copies
<1>10. copies'[Started][v].life = "live"
  <2>1. copies[Started][v] \in Slots /\ copies[Started][v].life = "raw"
    BY <1>1, <1>5 DEF LivesInv, PendingInv, ObjectsInv, Copies
  <2>2. QED
    BY <1>9, <2>1 DEF Construct, Slots, Objects, Nothing, Object
<1>11. LivesInv'
  <2>1. ToSet(started.all) \subseteq Names
    BY <1>1 DEF ChainsInv, ToSet
  <2>2. \A u \in ToSet(started.all) : ToDestroy(u) /\ ToDestroy(u)'
    BY <1>1, <1>2, <1>3, <1>4 DEF LivesInv, ToDestroy
  <2>3. \A u \in ToSet(started.all) : copies'[Started][u].life = IF u \in ToSet(rest) THEN "raw" ELSE "live"
    BY <1>1, <1>5, <1>9, <1>10, <2>1, <2>2 DEF LivesInv
  <2>4. QED
    BY <1>3, <2>2, <2>3 DEF LivesInv
<1>12. QED
  BY <1>6, <1>8, <1>11 DEF OrderInv

LEMMA DestroysOrdered ==
  ASSUME StoreInv, OrderInv, DestroyOne
  PROVE  OrderInv'
<1> DEFINE v == Head(started.down)
           rest == Tail(started.down)
<1>1. /\ ObjectsInv /\ ChainsInv /\ CallersInv /\ PendingInv /\ LivesInv
      /\ UNCHANGED <<table, constructors, destructors>>
  BY DEF StoreInv, OrderInv, DestroyOne, StartedStep
<1>2. /\ started.phase = "destroy" /\ started.down # <<>>
      /\ started' = [started EXCEPT !.down = rest]
      /\ IF Global(v) THEN copies' = [copies EXCEPT ![Started][v] = Destroy(@)]
                      ELSE UNCHANGED copies
  BY DEF DestroyOne, StartedStep
<1>3. /\ started'.phase = "destroy" /\ started'.down = rest
      /\ started'.all = started.all /\ started'.up = started.up
  BY <1>1, <1>2 DEF ChainsInv
<1>4. \A u : (Global(u)' <=> Global(u)) /\ (Destructed(u)' <=> Destructed(u))
  BY <1>1, KindsKept
<1>5. /\ v \in Names /\ rest \in Seq(Names) /\ IsInjective(rest)
      /\ v \notin ToSet(rest) /\ ToSet(started.down) = {v} \cup ToSet(rest)
      /\ \A u, w : Earlier(u, w, started.down) <=> Earlier(u, w, rest) \/ (u = v /\ w \in ToSet(rest))
  BY <1>1, <1>2, TailOrdered DEF ChainsInv, PendingInv
<1> HIDE DEF v, rest
<1>6. CallersInv'
  BY <1>1, <1>4 DEF CallersInv
<1>7. ASSUME NEW u, NEW w, Earlier(u, w, started.all), w \in ToSet(rest), Destructed(u)
      PROVE  u \in ToSet(rest)
  <2>1. w \in ToSet(started.down) /\ u \in ToSet(started.down)
    BY <1>1, <1>5, <1>7 DEF PendingInv
  <2>2. Earlier(w, u, started.down)
    BY <1>1, <1>7, <2>1 DEF PendingInv
  <2>3. Earlier(w, u, rest)
    BY <1>5, <1>7, <2>2
  <2>4. QED
    BY <1>5, <2>3, EarlierFacts
<1>8. ASSUME NEW u, NEW w, Earlier(u, w, started.all), u \in ToSet(rest), w \in ToSet(rest)
      PROVE  Earlier(w, u, rest)
  <2>1. Earlier(w, u, started.down)
    BY <1>1, <1>5, <1>8 DEF PendingInv
  <2>2. QED
    BY <1>5, <1>8, <2>1
<1>9. PendingInv'
  BY <1>1, <1>3, <1>4, <1>5, <1>7, <1>8 DEF PendingInv
<1>10. /\ v \in ToSet(started.all) => copies'[Started][v] = Destroy(copies[Started][v])
       /\ \A u \in Names \ {v} : copies'[Started][u] = copies[Started][u]
  <2>1. CASE Global(v)
    <3>1. copies' = [copies EXCEPT ![Started] = [copies[Started] EXCEPT ![v] = Destroy(copies[Started][v])]]
      BY <1>2, <2>1
    <3>2. QED
      BY <1>1, <1>5, <3>1 DEF ObjectsInv, Copies
  <2>2. CASE ~Global(v)
    BY <1>1, <1>2, <2>2 DEF PendingInv
  <2>3. QED
    BY <2>1, <2>2
<1>11. started.up = <<>> /\ ToSet(started.all) \subseteq Names
  BY <1>1, <1>2 DEF LivesInv, ChainsInv, ToSet
<1>12. v \in ToSet(started.all) => copies'[Started][v].life = "dead"
  <2>1. SUFFICES ASSUME v \in ToSet(started.all) PROVE copies'[Started][v].life = "dead"
    OBVIOUS
  <2>2. copies[Started][v] \in Slots /\ copies[Started][v].life = "live"
    BY <1>1, <1>5, <1>11, <2>1, SetOfNone DEF LivesInv, ToDestroy, ObjectsInv, Copies
  <2>3. QED
    BY <1>10, <2>1, <2>2 DEF Destroy, Slots, Objects, Nothing, Object
<1>13. \A u \in ToSet(started.all) \ {v} : ToDestroy(u)' <=> ToDestroy(u)
  BY <1>3, <1>4, <1>5 DEF ToDestroy
<1>14. \A u : u = v => ~ToDestroy(u)'
  <2>1. Destructed(v)
    BY <1>1, <1>5 DEF PendingInv
  <2>2. QED
    BY <1>3, <1>4, <1>5, <2>1 DEF ToDestroy
<1>15. LivesInv'
  BY <1>1, <1>3, <1>10, <1>11, <1>12, <1>13, <1>14, SetOfNone DEF LivesInv
<1>16. QED
  BY <1>6, <1>9, <1>15 DEF OrderInv

\* The steps that leave the copies of the thread alone.
LEMMA OthersOrdered ==
  ASSUME StoreInv, OrderInv,
         Ends \/ Begins \/ Releases \/ Returned \/ (Runs /\ ~StartThread)
  PROVE  OrderInv'
<1>1. UNCHANGED <<table, constructors, destructors, started>>
  BY DEF Ends, globalVars, Begins, Restore, Releases, Release, Returned, DestructAll, Runs, Assign,
     BodyEnds, SaveOne
<1>2. \A v : (Global(v)' <=> Global(v)) /\ (Destructed(v)' <=> Destructed(v))
  BY <1>1, KindsKept
<1>3. copies'[Started] = copies[Started]
  <2>1. copies \in Copies
    BY DEF StoreInv, ObjectsInv
  <2>2. CASE Ends \/ Releases \/ Returned
    BY <2>1, <2>2, StartedAssumption DEF Ends, globalVars, Releases, Release, Returned, DestructAll, Copies
  <2>3. CASE Begins
    BY <2>3, RestoredValues DEF Begins
  <2>4. CASE BodyEnds \/ SaveOne
    BY <2>4 DEF BodyEnds, SaveOne
  <2>5. CASE \E v \in Names : Assign(v)
    <3>1. PICK v \in Names : copies' = [copies EXCEPT ![Exec][v].data = 2]
      BY <2>5 DEF Assign
    <3>2. copies' = [copies EXCEPT ![Exec] = [copies[Exec] EXCEPT ![v] = [copies[Exec][v] EXCEPT !.data = 2]]]
      BY <3>1
    <3>3. QED
      BY <2>1, <3>2, StartedAssumption DEF Copies
  <2>6. QED
    BY <2>2, <2>3, <2>4, <2>5 DEF Runs
<1>4. QED
  BY <1>1, <1>2, <1>3, OrderKept

LEMMA OrderInvNext ==
  ASSUME StoreInv, OrderInv, SessionStep
  PROVE  OrderInv'
<1>1. CASE Declares
  <2>1. PICK d \in Declarations :
          \/ \E w \in Names : (w = d.name \/ Global(w)) /\ HandleGlobalVariable(d, w)
          \/ RefuseDeclaration(d) \/ NoConstructorFound(d)
          \/ DeclarationFails(d)
    BY <1>1 DEF Declares
  <2>2. CASE \E w \in Names : (w = d.name \/ Global(w)) /\ HandleGlobalVariable(d, w)
    BY <2>2, DeclaresOrder
  <2>3. CASE RefuseDeclaration(d) \/ NoConstructorFound(d)
    BY <2>3, HalfVariable, OrderKept DEF RefuseDeclaration, NoConstructorFound, StoreInv
  <2>4. CASE DeclarationFails(d)
    BY <2>4, KindsKept, OrderKept DEF DeclarationFails
  <2>5. QED
    BY <2>1, <2>2, <2>3, <2>4
<1>2. CASE StartThread
  BY <1>2, StartsOrdered
<1>3. CASE Continues
  <2>1. CASE ConstructOne \/ DestroyOne
    BY <2>1, ConstructsOrdered, DestroysOrdered
  <2>2. ASSUME Run \/ FunctionEnds \/ ThreadEnds PROVE OrderInv'
    <3>1. /\ UNCHANGED <<table, constructors, destructors>>
          /\ CallersInv /\ PendingInv /\ LivesInv /\ ChainsInv
      BY <2>2 DEF Run, FunctionEnds, ThreadEnds, StartedStep, StoreInv, OrderInv
    <3>2. \A v : (Global(v)' <=> Global(v)) /\ (Destructed(v)' <=> Destructed(v))
      BY <3>1, KindsKept
    <3>3. CallersInv'
      BY <3>1, <3>2 DEF CallersInv
    <3>4. CASE Run
      <4>1. /\ started.phase = "construct" /\ started.up = <<>> /\ started'.phase = "run"
            /\ started'.all = started.all /\ started'.up = started.up /\ started'.down = started.down
            /\ UNCHANGED copies
        BY <3>1, <3>4 DEF Run, StartedStep, ChainsInv
      <4>2. PendingInv' /\ LivesInv'
        BY <3>1, <3>2, <4>1 DEF PendingInv, LivesInv, ToDestroy
      <4>3. QED
        BY <3>3, <4>2 DEF OrderInv
    <3>5. CASE FunctionEnds
      <4>1. /\ started.phase = "run" /\ started'.phase = "destroy"
            /\ started'.all = started.all /\ started'.up = started.up /\ started'.down = started.down
            /\ UNCHANGED copies
        BY <3>1, <3>5 DEF FunctionEnds, StartedStep, ChainsInv
      <4>2. PendingInv' /\ LivesInv'
        BY <3>1, <3>2, <4>1 DEF PendingInv, LivesInv, ToDestroy
      <4>3. QED
        BY <3>3, <4>2 DEF OrderInv
    <3>6. CASE ThreadEnds
      <4>1. /\ started'.phase = "none"
            /\ started'.all = <<>> /\ started'.up = <<>> /\ started'.down = <<>>
        BY <3>6 DEF ThreadEnds, StartedStep, NotStarted
      <4>2. PendingInv' /\ LivesInv'
        BY <4>1, SetOfNone, EarlierInNone DEF PendingInv, LivesInv
      <4>3. QED
        BY <3>3, <4>2 DEF OrderInv
    <3>7. QED
      BY <2>2, <3>4, <3>5, <3>6
  <2>3. QED
    BY <1>3, <2>1, <2>2 DEF Continues, StartedNext
<1>4. QED
  BY <1>1, <1>2, <1>3, OthersOrdered DEF SessionStep

\* The chains of thread constructors and destructors keep the order, however many
\* declarations extend them and also while a thread still calls the chains of the
\* time it was started: it constructs its copies in the order of their declaration
\* and destroys them in the reverse one, each once.
THEOREM ThreadGlobalsInOrder == SessionSpec => []ConstructedInOrder
<1> DEFINE Inv == IInv /\ StoreInv /\ OrderInv
<1>1. SessionInit => Inv
  <2> SUFFICES ASSUME SessionInit PROVE Inv
    OBVIOUS
  <2>1. IInv /\ StoreInv /\ started = NotStarted
    BY InitStoreInv
  <2>2. constructors = <<>> /\ destructors = <<>> /\ \A v \in Names : ~Destructed(v)
    BY StatesDiffer DEF SessionInit, InitGlobals, Destructed, Declared
  <2>3. CallersInv
    BY <2>2, SetOfNone, EarlierInNone DEF CallersInv
  <2>4. PendingInv /\ LivesInv
    BY <2>1, SetOfNone, EarlierInNone DEF NotStarted, PendingInv, LivesInv
  <2>5. QED
    BY <2>1, <2>3, <2>4 DEF OrderInv
<1>2. ASSUME Inv, [SessionNext]_sessionVars PROVE Inv'
  BY <1>2, SessionSteps, SessionIInvNext, StoreInvNext, OrderInvNext
<1>3. Inv => ConstructedInOrder
  BY OrderImplies
<1>4. QED
  BY <1>1, <1>2, <1>3, PTL DEF SessionSpec
=============================================================================
