---------------------------- MODULE ThreadHandle ----------------------------
(***************************************************************************)
(* The life of a `thread f(...)` expression on Linux: the control block    *)
(* {refcount, eventfd, result, arguments}, the wrapper that runs on the    *)
(* new thread, and every evaluation of `t.wait` on the handle.             *)
(* Sources: src/threads.cc (code the compiler emits), clib/threads_c.c     *)
(* (pthread glue).                                                         *)
(*                                                                         *)
(* How an abort ends depends on the mode: a compiled program dies, while   *)
(* the REPL's SIGABRT handler (finish_thread) only ends the thread that    *)
(* called abort().                                                         *)
(***************************************************************************)
EXTENDS Integers

CONSTANTS
  Threads,   \* evaluations of thread expressions
  Waiters,   \* evaluations of .wait
  Values,    \* results of the thread's function
  NoValue,   \* the result field before it is stored
  NoThread,  \* the target of a wait that has not started
  Repl       \* TRUE in the REPL: signal handlers are installed

ASSUME NoValueAssumption == NoValue \notin Values
ASSUME NoThreadAssumption == NoThread \notin Threads
ASSUME ReplAssumption    == Repl \in BOOLEAN

VARIABLES
  handle,    \* how the value of the thread expression is used
  block,     \* the malloc'ed control block
  refcount,  \* number of references - 1
  fd,        \* the eventfd
  event,     \* its counter
  ret,       \* the result field of the block
  tpc,       \* where the wrapper is
  wpc,       \* where a wait is
  target,    \* the handle it waits on
  got,       \* what it returned
  process    \* an abort ends the whole process of a compiled program

vars == <<handle, block, refcount, fd, event, ret, tpc, wpc, target,
          got, process>>

(* "kept": codegen_raw has a target, i.e. the handle is stored;            *)
(* "discarded": no target and the value is not used;                       *)
(* "temporary": no target but the value is used at once, `(thread f).wait` *)
Uses     == {"kept", "discarded", "temporary"}
Running  == process = "runs"
Wrapper  == {"none", "body", "stored", "destructed", "keep", "return",
             "exited", "notcreated"}
Waiting  == {"idle", "poll", "read", "join", "load", "done", "wild", "killed"}

TypeOK ==
  /\ handle   \in [Threads -> Uses \cup {"none"}]
  /\ block    \in [Threads -> {"none", "live", "freed"}]
  /\ refcount \in [Threads -> -1 .. 1]
  /\ fd       \in [Threads -> {"none", "open", "closed"}]
  /\ event    \in [Threads -> {0, 1}]
  /\ ret      \in [Threads -> Values \cup {NoValue}]
  /\ tpc      \in [Threads -> Wrapper]
  /\ wpc      \in [Waiters -> Waiting]
  /\ target   \in [Waiters -> Threads \cup {NoThread}]
  /\ got      \in [Waiters -> Values \cup {NoValue}]
  /\ process  \in {"runs", "aborted"}

Init ==
  /\ handle   = [t \in Threads |-> "none"]
  /\ block    = [t \in Threads |-> "none"]
  /\ refcount = [t \in Threads |-> 0]
  /\ fd       = [t \in Threads |-> "none"]
  /\ event    = [t \in Threads |-> 0]
  /\ ret      = [t \in Threads |-> NoValue]
  /\ tpc      = [t \in Threads |-> "none"]
  /\ wpc      = [w \in Waiters |-> "idle"]
  /\ target   = [w \in Waiters |-> NoThread]
  /\ got      = [w \in Waiters |-> NoValue]
  /\ process  = "runs"

-----------------------------------------------------------------------------
(* The owner: evaluating the thread expression.                            *)

\* Mutants: the number of references itself; the handle not counted.
InitialRefcountIsCount(use)  == IF use = "kept" THEN 2 ELSE 1
InitialRefcountNoHandle(use) == 0

\* Initial value of the reference counter: `target ? 1 : 0`.
InitialRefcount(use) == IF use = "kept" THEN 1 ELSE 0

\* malloc, store the counter, create the eventfd, store the arguments and
\* call pthread_create. The eventfd exists only with a target. A failing
\* pthread_create is not looked at: the handle is NULL and nobody runs.
ThreadExpr(t, use) ==
  /\ Running
  /\ handle[t] = "none"
  /\ handle'   = [handle EXCEPT ![t] = use]
  /\ block'    = [block EXCEPT ![t] = "live"]
  /\ refcount' = [refcount EXCEPT ![t] = InitialRefcount(use)]
  /\ fd'       = [fd EXCEPT ![t] = IF use = "kept" THEN "open" ELSE "none"]
  /\ \E pc \in {"body", "notcreated"} : tpc' = [tpc EXCEPT ![t] = pc]
  /\ UNCHANGED <<event, ret, wpc, target, got, process>>

\* _abort_if_negative on the result of eventfd(): the thread that evaluates
\* the expression ends; the block is lost.
EventfdFails(t) ==
  /\ Running
  /\ handle[t] = "none"
  /\ handle'  = [handle EXCEPT ![t] = "discarded"]
  /\ block'   = [block EXCEPT ![t] = "live"]
  /\ tpc'     = [tpc EXCEPT ![t] = "notcreated"]
  /\ process' = IF Repl THEN "runs" ELSE "aborted"
  /\ UNCHANGED <<refcount, fd, event, ret, wpc, target, got>>

-----------------------------------------------------------------------------
(* The wrapper, __thread_wrapper_<n>, on the new thread.                   *)

ThreadStep(t, from, to) ==
  /\ Running
  /\ tpc[t] = from
  /\ tpc' = [tpc EXCEPT ![t] = to]

\* Mutant: the result is not stored (the test of ret_sz inverted).
CallWithoutStore(t, v) ==
  /\ ThreadStep(t, "body", "stored")
  /\ UNCHANGED <<handle, block, refcount, fd, event, ret, wpc, target,
                 got, process>>

\* Thread constructors, the call, and the store of its result.
Call(t, v) ==
  /\ ThreadStep(t, "body", "stored")
  /\ ret' = [ret EXCEPT ![t] = v]
  /\ UNCHANGED <<handle, block, refcount, fd, event, wpc, target, got,
                 process>>

\* The function aborts (index out of range, division by zero ...).
BodyAborts(t) ==
  /\ ThreadStep(t, "body", "exited")
  /\ process' = IF Repl THEN "runs" ELSE "aborted"
  /\ UNCHANGED <<handle, block, refcount, fd, event, ret, wpc, target,
                 got>>

\* Destructors of the thread local globals.
ThreadDestructors(t) ==
  /\ ThreadStep(t, "stored", "destructed")
  /\ UNCHANGED <<handle, block, refcount, fd, event, ret, wpc, target,
                 got, process>>

\* CreateReleaseRefC is emitted only `if (have_target)`. It branches on the
\* value the counter had before the atomic decrement: the last reference
\* closes the eventfd and frees the block, another one is left to the Keeper.
Release(t) ==
  LET last == refcount[t] = 0 IN
  /\ Running
  /\ tpc[t] = "destructed"
  /\ \/ /\ handle[t] # "kept"
        /\ tpc' = [tpc EXCEPT ![t] = "return"]
        /\ UNCHANGED <<refcount, fd, block>>
     \/ /\ handle[t] = "kept"
        /\ refcount' = [refcount EXCEPT ![t] = @ - 1]
        /\ fd'    = [fd EXCEPT ![t] = IF last THEN "closed" ELSE @]
        /\ block' = [block EXCEPT ![t] = IF last THEN "freed" ELSE @]
        /\ tpc'   = [tpc EXCEPT ![t] = IF last THEN "return" ELSE "keep"]
  /\ UNCHANGED <<handle, event, ret, wpc, target, got, process>>

\* Mutant: the last reference is recognised but its Keeper not called.
SignalNobody(t) ==
  /\ ThreadStep(t, "keep", "return")
  /\ UNCHANGED <<handle, block, refcount, fd, event, ret, wpc, target,
                 got, process>>

\* The Keeper: load the descriptor from the block and write 1 to it.
Signal(t) ==
  /\ ThreadStep(t, "keep", "return")
  /\ event' = [event EXCEPT ![t] = 1]
  /\ UNCHANGED <<handle, block, refcount, fd, ret, wpc, target, got,
                 process>>

\* The wrapper returns: pthread_join on the thread can return.
Exit(t) ==
  /\ ThreadStep(t, "return", "exited")
  /\ UNCHANGED <<handle, block, refcount, fd, event, ret, wpc, target,
                 got, process>>

-----------------------------------------------------------------------------
(* t.wait: __join_thread, then the load of the result.                     *)

WaitStep(w, from, to) ==
  /\ Running
  /\ wpc[w] = from
  /\ wpc' = [wpc EXCEPT ![w] = to]

\* read_fd = *((int*)cb + 1). Without an eventfd that word belongs to the
\* result or the arguments: what the wait does then is not defined.
StartWait(w, t) ==
  /\ handle[t] \in {"kept", "temporary"}
  /\ \A v \in Waiters : target[v] = t => handle[t] = "kept"
  /\ WaitStep(w, "idle", IF handle[t] = "kept" THEN "poll" ELSE "wild")
  /\ target' = [target EXCEPT ![w] = t]
  /\ UNCHANGED <<handle, block, refcount, fd, event, ret, tpc, got,
                 process>>

\* poll() returns once the eventfd is readable.
Poll(w) ==
  /\ WaitStep(w, "poll", "read")
  /\ event[target[w]] > 0
  /\ UNCHANGED <<handle, block, refcount, fd, event, ret, tpc, target,
                 got, process>>

\* poll() fails with EINTR when a signal handler ran on this thread; the
\* only handler of the runtime that returns is the REPL's CtrlCHandler.
\* The wait then calls abort(), and the REPL's handler ends its thread.
PollInterrupted(w) ==
  /\ Repl
  /\ WaitStep(w, "poll", "killed")
  /\ UNCHANGED <<handle, block, refcount, fd, event, ret, tpc, target,
                 got, process>>

\* Mutant: EAGAIN is not retried.
ReadWithoutRetry(w) ==
  /\ WaitStep(w, "read", "join")
  /\ event' = [event EXCEPT ![target[w]] = 0]
  /\ UNCHANGED <<handle, block, refcount, fd, ret, tpc, target, got,
                 process>>

\* A nonblocking read: it resets the counter, or fails with EAGAIN.
Read(w) ==
  LET t == target[w] IN
  /\ Running
  /\ wpc[w] = "read"
  /\ wpc'   = [wpc EXCEPT ![w] = IF event[t] > 0 THEN "join" ELSE "poll"]
  /\ event' = [event EXCEPT ![t] = 0]
  /\ UNCHANGED <<handle, block, refcount, fd, ret, tpc, target, got,
                 process>>

\* pthread_join waits for the end of the thread.
Join(w) ==
  LET t == target[w] IN
  /\ WaitStep(w, "join", "load")
  /\ tpc[t] = "exited"
  /\ UNCHANGED <<handle, block, refcount, fd, event, ret, tpc, target, got,
                 process>>

\* The result is read from the control block.
LoadResult(w) ==
  /\ WaitStep(w, "load", "done")
  /\ got' = [got EXCEPT ![w] = ret[target[w]]]
  /\ UNCHANGED <<handle, block, refcount, fd, event, ret, tpc, target,
                 process>>

-----------------------------------------------------------------------------
OwnerStep(t) == EventfdFails(t) \/ \E use \in Uses : ThreadExpr(t, use)

WrapperStep(t) ==
  \/ \E v \in Values : Call(t, v)
  \/ BodyAborts(t)
  \/ ThreadDestructors(t)
  \/ Release(t)
  \/ Signal(t)
  \/ Exit(t)

WaiterStep(w) ==
  \/ \E t \in Threads : StartWait(w, t)
  \/ Poll(w)
  \/ PollInterrupted(w)
  \/ Read(w)
  \/ Join(w)
  \/ LoadResult(w)

Next ==
  \/ \E t \in Threads : OwnerStep(t)
  \/ \E t \in Threads : WrapperStep(t)
  \/ \E w \in Waiters : WaiterStep(w)

Spec == Init /\ [][Next]_vars

(***************************************************************************)
(* Every thread is scheduled, and the thread's function ends. Aborts,      *)
(* failing calls and new expressions are never forced.                     *)
(***************************************************************************)
Fairness ==
  /\ \A t \in Threads :
       /\ WF_vars(\E v \in Values : Call(t, v))
       /\ WF_vars(ThreadDestructors(t))
       /\ WF_vars(Release(t))
       /\ WF_vars(Signal(t))
       /\ WF_vars(Exit(t))
  /\ \A w \in Waiters :
       /\ WF_vars(Poll(w))
       /\ WF_vars(Read(w))
       /\ WF_vars(Join(w))
       /\ WF_vars(LoadResult(w))

FairSpec == Spec /\ Fairness

-----------------------------------------------------------------------------
(* Safety.                                                                 *)

\* A wait that returns does so after the thread has ended, with the result
\* its function stored - not with a stale or half written field.
WaitReturnsResult ==
  \A w \in Waiters : wpc[w] = "done" =>
    /\ tpc[target[w]] = "exited"
    /\ got[w] \in Values
    /\ got[w] = ret[target[w]]

\* However many waits are made on copies of a handle, at most one of them
\* gets past the eventfd: pthread_join is never called twice for a thread.
OneJoinPerThread ==
  \A v, w \in Waiters :
    /\ wpc[v] \in {"join", "load", "done"}
    /\ wpc[w] \in {"join", "load", "done"}
    /\ target[v] = target[w]
    => v = w

\* No one touches a control block after it was freed or polls a closed
\* eventfd, although the wrapper goes on using the block after it has
\* given up its reference (the Keeper reads the descriptor from it).
NoUseAfterFree ==
  /\ \A t \in Threads :
       tpc[t] \in {"body", "stored", "destructed", "keep"} => block[t] = "live"
  /\ \A w \in Waiters :
       /\ wpc[w] \in {"poll", "read"} => fd[target[w]] = "open"
       /\ wpc[w] \in {"join", "load"} => block[target[w]] = "live"

\* Both: what a handle refers to is there as long as it is used, and is given
\* back once.
HandlesSafe == OneJoinPerThread /\ NoUseAfterFree

(* Liveness.                                                               *)

\* A wait on a created thread returns: the eventfd is written although the
\* wrapper has given up its reference, and of several waits one succeeds.
\* Excepted are a thread that aborted and waits ended by an interrupt.
Aborted(t) == tpc[t] = "exited" /\ ret[t] = NoValue

WaitReturns ==
  \A t \in Threads :
    (tpc[t] # "notcreated" /\ \E w \in Waiters : target[w] = t /\ wpc[w] = "poll")
      ~> (\/ ~Running
          \/ Aborted(t)
          \/ \E w \in Waiters : target[w] = t /\ wpc[w] = "done"
          \/ \A w \in Waiters : target[w] = t => wpc[w] = "killed")

=============================================================================
