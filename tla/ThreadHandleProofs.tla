------------------------- MODULE ThreadHandleProofs -------------------------
(***************************************************************************)
(* The safety properties of ThreadHandle for any number of threads and     *)
(* waits. None of them is inductive by itself: the result a wait returns   *)
(* depends on the order store - signal - read - join, which BlockInv and   *)
(* WaitInv record for the two sides of the eventfd.                        *)
(***************************************************************************)
EXTENDS ThreadHandle, TLAPS

\* A block is live from its creation on, a kept handle has an eventfd and
\* holds a reference, and the eventfd is written after the result.
BlockInv(t) ==
  /\ tpc[t] = "none" => handle[t] = "none"
  /\ handle[t] # "none" => block[t] = "live"
  /\ handle[t] = "kept" => fd[t] = "open"
  /\ handle[t] = "kept" /\ tpc[t] \in {"body", "stored", "destructed"}
       => refcount[t] = 1
  /\ tpc[t] = "keep" => handle[t] = "kept"
  /\ tpc[t] \notin {"none", "notcreated"} => handle[t] # "none"
  /\ tpc[t] \in {"stored", "destructed", "keep"} => ret[t] \in Values
  /\ event[t] = 1 => tpc[t] \in {"return", "exited"} /\ ret[t] \in Values

\* A wait that has read the eventfd left it at zero, and nobody writes it
\* again.
WaitInv(w) ==
  /\ wpc[w] # "idle" => target[w] \in Threads
  /\ wpc[w] \in {"poll", "read", "join", "load"} => handle[target[w]] = "kept"
  /\ wpc[w] \in {"join", "load", "done"} =>
       /\ tpc[target[w]] \in {"return", "exited"}
       /\ ret[target[w]] \in Values
       /\ event[target[w]] = 0
  /\ wpc[w] \in {"load", "done"} => tpc[target[w]] = "exited"
  /\ wpc[w] = "done" => got[w] = ret[target[w]]

IInv ==
  /\ TypeOK
  /\ \A t \in Threads : BlockInv(t)
  /\ \A w \in Waiters : WaitInv(w)
  /\ OneJoinPerThread

-----------------------------------------------------------------------------
\* The initial state satisfies the inductive invariant.
LEMMA InitIInv == Init => IInv
  BY DEF Init, IInv, TypeOK, Uses, Wrapper, Waiting, BlockInv, WaitInv,
         OneJoinPerThread

\* A step of the owner or of a wrapper keeps the inductive invariant.
LEMMA ThreadSideIInv ==
  ASSUME IInv, NEW t \in Threads, OwnerStep(t) \/ WrapperStep(t)
  PROVE  IInv'
<1>. USE DEF IInv, TypeOK, Uses, Wrapper, Waiting, BlockInv, WaitInv,
             OneJoinPerThread, ThreadStep
<1>1. ASSUME NEW use \in Uses, ThreadExpr(t, use) PROVE IInv'
  BY <1>1 DEF ThreadExpr, InitialRefcount
<1>2. CASE EventfdFails(t)
  BY <1>2 DEF EventfdFails
<1>3. ASSUME NEW v \in Values, Call(t, v) PROVE IInv'
  BY <1>3 DEF Call
<1>4. CASE BodyAborts(t)
  BY <1>4 DEF BodyAborts
<1>5. CASE ThreadDestructors(t)
  BY <1>5 DEF ThreadDestructors
<1>6. CASE Release(t)
  BY <1>6 DEF Release
<1>7. CASE Signal(t)
  BY <1>7 DEF Signal
<1>8. CASE Exit(t)
  BY <1>8 DEF Exit
<1>. QED
  BY <1>1, <1>2, <1>3, <1>4, <1>5, <1>6, <1>7, <1>8 DEF OwnerStep, WrapperStep

\* A step of a wait keeps the inductive invariant.
LEMMA WaitSideIInv ==
  ASSUME IInv, NEW w \in Waiters, WaiterStep(w)
  PROVE  IInv'
<1>. USE DEF IInv, TypeOK, Uses, Wrapper, Waiting, BlockInv, WaitInv,
             OneJoinPerThread, WaitStep
<1>1. ASSUME NEW t \in Threads, StartWait(w, t) PROVE IInv'
  BY <1>1 DEF StartWait
<1>2. CASE Poll(w)
  BY <1>2 DEF Poll
<1>3. CASE PollInterrupted(w)
  BY <1>3 DEF PollInterrupted
<1>4. CASE Read(w)
  BY <1>4 DEF Read
<1>5. CASE Join(w)
  BY <1>5 DEF Join
<1>6. CASE LoadResult(w)
  BY <1>6 DEF LoadResult
<1>. QED
  BY <1>1, <1>2, <1>3, <1>4, <1>5, <1>6 DEF WaiterStep

\* The inductive invariant holds in every reachable state.
LEMMA Invariance == Spec => []IInv
<1>1. IInv /\ [Next]_vars => IInv'
  <2>. SUFFICES ASSUME IInv, [Next]_vars PROVE IInv'
    OBVIOUS
  <2>1. CASE Next
    BY <2>1, ThreadSideIInv, WaitSideIInv DEF Next
  <2>2. CASE UNCHANGED vars
    BY <2>2 DEF vars, IInv, TypeOK, BlockInv, WaitInv, OneJoinPerThread
  <2>. QED
    BY <2>1, <2>2
<1>. QED
  BY InitIInv, <1>1, PTL DEF Spec

-----------------------------------------------------------------------------
\* Every variable keeps its type.
THEOREM TypeCorrect == Spec => []TypeOK
<1>1. IInv => TypeOK
  BY DEF IInv
<1>. QED
  BY Invariance, <1>1, PTL

\* A wait returns only after its thread has ended, with the stored result.
THEOREM ResultCorrect == Spec => []WaitReturnsResult
<1>1. IInv => WaitReturnsResult
  BY DEF IInv, WaitInv, WaitReturnsResult
<1>. QED
  BY Invariance, <1>1, PTL

\* pthread_join is called at most once for a thread, whatever the number of
\* waits on copies of its handle.
THEOREM JoinedOnce == Spec => []OneJoinPerThread
<1>1. IInv => OneJoinPerThread
  BY DEF IInv
<1>. QED
  BY Invariance, <1>1, PTL

\* Neither the wrapper, after it gave up its reference, nor a wait uses a
\* freed block or a closed eventfd.
THEOREM BlocksSafe == Spec => []NoUseAfterFree
<1>1. IInv => NoUseAfterFree
  BY DEF IInv, TypeOK, BlockInv, WaitInv, NoUseAfterFree
<1>. QED
  BY Invariance, <1>1, PTL

\* What a handle refers to is there as long as it is used, and joined once.
THEOREM HandlesAreSafe == Spec => []HandlesSafe
  BY JoinedOnce, BlocksSafe, PTL DEF HandlesSafe
=============================================================================
