-------------------------- MODULE SemaphoreProofs --------------------------
(***************************************************************************)
(* Proofs about Semaphore for any threads, limits and arguments: no token  *)
(* is lost or handed out twice, the semaphore breaks only for a reason,    *)
(* and timedwait does not give up early.                                   *)
(***************************************************************************)
EXTENDS Semaphore, TLAPS

\* What the local variables mean at each step: a write has something to
\* write, and the time limit of a ppoll does not end before end_time.
LocalsFit(t) ==
  /\ pc[t] = "write" => call[t] = "post" /\ arg[t] > 0
  /\ pc[t] \in {"enter", "poll", "read"} => call[t] \in Waits
  /\ call[t] = "timedwait" =>
       /\ pc[t] = "enter" => now + arg[t] >= finish[t]
       /\ pc[t] = "poll"  => expiry[t] >= finish[t]

\* A closed semaphore is a reason for errors.
ClosedIsReason == handle = "stdin" => "EBADF" \in reasons

IInv ==
  /\ TypeOK
  /\ \A t \in Threads : LocalsFit(t)
  /\ ClosedIsReason
  /\ TokensConserved
  /\ ErrorHasReason

-----------------------------------------------------------------------------
\* The constructor establishes the inductive invariant.
LEMMA InitIInv == Init => IInv
<1> SUFFICES ASSUME Init PROVE IInv
  OBVIOUS
<1> PICK v \in InitVals : Creates(v)
  BY DEF Init
<1>1. v \in Int
  BY ArgumentAssumption
<1> QED
  BY <1>1, BoundAssumption
     DEF Init, Creates, IInv, TypeOK, LocalsFit, ClosedIsReason, TokensConserved,
         ErrorHasReason, Waits, Errors

\* A read that fails keeps the inductive invariant: the three methods differ.
LEMMA ReadFailsIInv ==
  ASSUME IInv, NEW t \in Threads, ReadFails(t)
  PROVE  IInv'
<1> DEFINE Same == UNCHANGED <<count, handle, err, call, now, calls, signals,
                               posted, taken, reasons>>
<1>0. pc[t] = "read" /\ Same
  BY DEF ReadFails
<1>1. CASE Return(t, "false")
  BY <1>0, <1>1, BoundAssumption
    DEF IInv, TypeOK, LocalsFit, ClosedIsReason, TokensConserved,
        ErrorHasReason, Waits, Errors, IsOpen, Goto, Return, Fail
<1>2. CASE call[t] = "wait" /\ Goto(t, "enter") /\ UNCHANGED locals
  BY <1>0, <1>2, BoundAssumption
    DEF IInv, TypeOK, LocalsFit, ClosedIsReason, TokensConserved,
        ErrorHasReason, Waits, Errors, IsOpen, Goto, Return, Fail, locals
<1>3. CASE call[t] = "timedwait" /\ Retry(t)
  BY <1>0, <1>1, <1>3, BoundAssumption
    DEF IInv, TypeOK, LocalsFit, ClosedIsReason, TokensConserved,
        ErrorHasReason, Waits, Errors, IsOpen, Goto, Return, Fail, Retry
<1> QED
  BY <1>1, <1>2, <1>3 DEF ReadFails

\* So does a read of a closed descriptor.
LEMMA ReadClosedIInv ==
  ASSUME IInv, NEW t \in Threads, ReadClosed(t)
  PROVE  IInv'
<1>1. CASE Fail(t, "EBADF")
  BY <1>1, BoundAssumption
    DEF IInv, TypeOK, LocalsFit, ClosedIsReason, TokensConserved,
        ErrorHasReason, Waits, Errors, IsOpen, Goto, Return, Fail, ReadClosed
<1>2. CASE call[t] = "wait" /\ Goto(t, "enter") /\ UNCHANGED <<locals, err>>
  BY <1>2, BoundAssumption
    DEF IInv, TypeOK, LocalsFit, ClosedIsReason, TokensConserved,
        ErrorHasReason, Waits, Errors, IsOpen, Goto, Return, Fail, ReadClosed, locals
<1> QED
  BY <1>1, <1>2 DEF ReadClosed

\* Every step of every thread, close and the clock keep it.
LEMMA NextIInv == IInv /\ [Next]_vars => IInv'
<1> SUFFICES ASSUME IInv, [Next]_vars PROVE IInv'
  OBVIOUS
<1> USE ArgumentAssumption, BoundAssumption
    DEF IInv, TypeOK, LocalsFit, ClosedIsReason, TokensConserved,
        ErrorHasReason, Waits, Errors, IsOpen, Goto, Return, Fail, Enter
<1>1. ASSUME NEW t \in Threads, NEW method \in Waits \cup {"post"},
             CallFails(t, method)
      PROVE  IInv'
  BY <1>1 DEF CallFails
<1>2. ASSUME NEW t \in Threads, NEW n \in Posts, PostInvalid(t, n) PROVE IInv'
  BY <1>2 DEF PostInvalid
<1>3. ASSUME NEW t \in Threads, NEW n \in Posts, Post(t, n) PROVE IInv'
  BY <1>3 DEF Post
<1>4. ASSUME NEW t \in Threads, Write(t) PROVE IInv'
  BY <1>4 DEF Write
<1>5. ASSUME NEW t \in Threads, WriteOverflows(t) PROVE IInv'
  BY <1>5 DEF WriteOverflows
<1>6. ASSUME NEW t \in Threads, WriteElsewhere(t) PROVE IInv'
  BY <1>6 DEF WriteElsewhere
<1>7. ASSUME NEW t \in Threads, NEW d \in Timeouts, CallWait(t, "timedwait", d)
      PROVE  IInv'
  BY <1>7 DEF CallWait
<1>7a. ASSUME NEW t \in Threads, NEW method \in {"wait", "trywait"},
              CallWait(t, method, 0)
       PROVE  IInv'
  BY <1>7a DEF CallWait
<1>8. ASSUME NEW t \in Threads, EnterPoll(t) PROVE IInv'
  BY <1>8 DEF EnterPoll, locals
<1>9. ASSUME NEW t \in Threads, EnterClosed(t) PROVE IInv'
  BY <1>9 DEF EnterClosed, locals
<1>10. ASSUME NEW t \in Threads, PollReady(t) PROVE IInv'
  BY <1>10 DEF PollReady, locals
<1>11. ASSUME NEW t \in Threads, PollTimesOut(t) PROVE IInv'
  BY <1>11 DEF PollTimesOut
<1>12. ASSUME NEW t \in Threads, PollInterrupted(t) PROVE IInv'
  BY <1>12 DEF PollInterrupted
<1>13. ASSUME NEW t \in Threads, Read(t) PROVE IInv'
  BY <1>13 DEF Read
<1>14. ASSUME NEW t \in Threads, ReadFails(t) PROVE IInv'
  BY ONLY IInv, <1>14, ReadFailsIInv
<1>15. ASSUME NEW t \in Threads, ReadClosed(t) PROVE IInv'
  BY ONLY IInv, <1>15, ReadClosedIInv
<1>16. CASE Close
  BY <1>16 DEF Close, locals
<1>17. CASE Clock
  BY <1>17 DEF Clock, locals
<1>18. CASE UNCHANGED vars
  BY <1>18 DEF vars, locals
<1> QED
  BY <1>1, <1>2, <1>3, <1>4, <1>5, <1>6, <1>7, <1>8, <1>9, <1>10, <1>11, <1>12,
     <1>13, <1>14, <1>15, <1>16, <1>17, <1>18, <1>7a DEF Next, Step

\* The inductive invariant holds in every reachable state.
LEMMA Invariant == Spec => []IInv
  BY InitIInv, NextIInv, PTL DEF Spec

-----------------------------------------------------------------------------
\* Every variable keeps its type; in particular the eventfd stays in range.
THEOREM TypeCorrect == Spec => []TypeOK
  BY Invariant, PTL DEF IInv

\* Waits that returned true and tokens that are left are those posted.
THEOREM Conserved == Spec => []TokensConserved
  BY Invariant, PTL DEF IInv

\* Contention alone never disables a semaphore.
THEOREM BreaksForReason == Spec => []ErrorHasReason
  BY Invariant, PTL DEF IInv

\* timedwait reports failure without an error only from end_time on.
THEOREM NeverEarly == Spec => NotBeforeTime
<1> DEFINE GivesUp(t) == /\ pc[t] # "idle" /\ pc'[t] = "idle"
                         /\ call[t] = "timedwait" /\ result'[t] = "false"
           OnTime     == \A t \in Threads :
                           GivesUp(t) => now >= finish[t] \/ err' # "none"
<1>1. IInv /\ [Next]_vars => [OnTime]_vars
  <2> SUFFICES ASSUME IInv, Next, NEW w \in Threads, GivesUp(w)
               PROVE  now >= finish[w] \/ err' # "none"
    OBVIOUS
  <2> USE DEF IInv, TypeOK, LocalsFit, Waits, Goto, Return, Fail
  <2>2. ASSUME NEW t \in Threads, NEW method \in Waits \cup {"post"},
               CallFails(t, method)
        PROVE  FALSE
    BY <2>2 DEF CallFails, Enter
  <2>3. ASSUME NEW t \in Threads, NEW n \in Posts, PostInvalid(t, n) \/ Post(t, n)
        PROVE  FALSE
    BY <2>3 DEF PostInvalid, Post, Enter
  <2>4. ASSUME NEW t \in Threads, NEW d \in Timeouts, CallWait(t, "timedwait", d)
        PROVE  FALSE
    BY <2>4 DEF CallWait, Enter
  <2>5. ASSUME NEW t \in Threads, NEW method \in {"wait", "trywait"},
               CallWait(t, method, 0)
        PROVE  FALSE
    BY <2>5 DEF CallWait, Enter
  <2>6. ASSUME NEW t \in Threads, Step(t)
        PROVE  now >= finish[w] \/ err' # "none"
    <3>1. CASE Write(t) \/ WriteOverflows(t) \/ WriteElsewhere(t)
      BY <3>1 DEF Write, WriteOverflows, WriteElsewhere
    <3>2. CASE EnterPoll(t) \/ EnterClosed(t)
      BY <3>2 DEF EnterPoll, EnterClosed
    <3>3. CASE PollReady(t) \/ PollTimesOut(t)
      BY <3>3 DEF PollReady, PollTimesOut
    <3>4. CASE Read(t)
      BY <3>4 DEF Read
    <3>5. CASE ReadFails(t)
      BY <3>5 DEF ReadFails, Retry, locals
    <3>6. CASE ReadClosed(t)
      BY <3>6 DEF ReadClosed, locals
    <3> QED
      BY <2>6, <3>1, <3>2, <3>3, <3>4, <3>5, <3>6 DEF Step
  <2>7. ASSUME NEW t \in Threads, PollInterrupted(t)
        PROVE  now >= finish[w] \/ err' # "none"
    BY <2>7 DEF PollInterrupted
  <2>8. CASE Close \/ Clock
    BY <2>8 DEF Close, Clock
  <2> QED
    BY <2>2, <2>3, <2>4, <2>5, <2>6, <2>7, <2>8 DEF Next
<1> QED
  BY <1>1, Invariant, PTL DEF Spec, NotBeforeTime
=============================================================================
