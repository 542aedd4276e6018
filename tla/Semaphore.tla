----------------------------- MODULE Semaphore -----------------------------
(***************************************************************************)
(* sync.Semaphore on Linux: a non-blocking eventfd in semaphore mode that  *)
(* waiters ppoll and then read. Between the two another thread may take    *)
(* the token. An error found by any thread stays in the semaphore, and     *)
(* makes every later call fail.                                            *)
(* Source: lib/volvox/sync/20_semaphore.vx. The eventfd itself is that of  *)
(* Linux: write adds, read takes one, both fail with EAGAIN at the limits. *)
(* A time span is counted in ticks: a timespec with negative seconds is    *)
(* one with less than 0 ticks, for nsec is never negative.                 *)
(***************************************************************************)
EXTENDS Integers

CONSTANTS
  Threads,
  InitVals,    \* arguments of the constructor
  Posts,       \* arguments of post
  Timeouts,    \* arguments of timedwait
  SEMVMX,      \* the largest value of the eventfd
  MaxTime,     \* bound of the clock
  MaxSignals,  \* bound: signals that interrupt a ppoll
  MaxCalls     \* bound: calls per thread

ASSUME ArgumentAssumption ==
  /\ InitVals \subseteq Int
  /\ Posts \subseteq Int
  /\ Timeouts \subseteq Int

ASSUME BoundAssumption ==
  /\ SEMVMX \in Nat
  /\ MaxTime \in Nat
  /\ MaxSignals \in Nat
  /\ MaxCalls \in Nat

VARIABLES
  count,      \* value of the eventfd
  handle,     \* Semaphore.handle: the eventfd, or descriptor 0 after close
  err,        \* Semaphore.err
  pc,         \* per thread: "idle", "write", "enter", "poll" or "read"
  call,       \* per thread: the method it is in, or was in last
  arg,        \* per thread: post: how many; timedwait: time left
  finish,     \* per thread: end_time of timedwait
  expiry,     \* per thread: when its ppoll gives up
  result,     \* per thread: what its last call returned
  now,        \* CLOCK_MONOTONIC
  calls,      \* per thread: calls made
  signals,    \* signals taken so far
  posted,     \* tokens whose post returned true, and the initial ones
  taken,      \* waits that returned true
  reasons     \* errors for which something outside gave a reason

locals == <<arg, finish, expiry>>
vars == <<count, handle, err, pc, call, locals, result, now, calls, signals,
          posted, taken, reasons>>

IsOpen == handle = "eventfd"

Waits  == {"wait", "timedwait", "trywait"}
Errors == {"EINVAL", "EINTR", "EBADF", "EAGAIN"}

TypeOK ==
  /\ count \in 0 .. SEMVMX
  /\ handle \in {"eventfd", "stdin"}
  /\ err \in Errors \cup {"none"}
  /\ pc \in [Threads -> {"idle", "write", "enter", "poll", "read"}]
  /\ call \in [Threads -> Waits \cup {"post"}]
  /\ arg \in [Threads -> Int]
  /\ finish \in [Threads -> Int]
  /\ expiry \in [Threads -> Int]
  /\ result \in [Threads -> {"none", "true", "false"}]
  /\ now \in 0 .. MaxTime
  /\ calls \in [Threads -> 0 .. MaxCalls]
  /\ signals \in 0 .. MaxSignals
  /\ posted \in Nat
  /\ taken \in Nat
  /\ reasons \subseteq Errors

\* Mutant: the initial value is not checked.
CreatesUnchecked(v) ==
  /\ count   = v
  /\ err     = "none"
  /\ posted  = count
  /\ reasons = {}

\* semaphore(init_val): an initial value out of range leaves an error.
Creates(v) ==
  LET valid == v >= 0 /\ v <= SEMVMX IN
  /\ count   = IF valid THEN v ELSE 0
  /\ err     = IF valid THEN "none" ELSE "EINVAL"
  /\ posted  = count
  /\ reasons = {err} \ {"none"}

Init ==
  /\ \E v \in InitVals : Creates(v)
  /\ handle  = "eventfd"
  /\ pc      = [t \in Threads |-> "idle"]
  /\ call    = [t \in Threads |-> "post"]
  /\ arg     = [t \in Threads |-> 0]
  /\ finish  = [t \in Threads |-> 0]
  /\ expiry  = [t \in Threads |-> 0]
  /\ result  = [t \in Threads |-> "none"]
  /\ now     = 0
  /\ calls   = [t \in Threads |-> 0]
  /\ signals = 0
  /\ taken   = 0

-----------------------------------------------------------------------------

Goto(t, step) ==
  /\ pc' = [pc EXCEPT ![t] = step]
  /\ UNCHANGED result

\* The local variables are gone.
Return(t, res) ==
  /\ pc' = [pc EXCEPT ![t] = "idle"]
  /\ result' = [result EXCEPT ![t] = res]
  /\ arg' = [arg EXCEPT ![t] = 0]
  /\ finish' = [finish EXCEPT ![t] = 0]
  /\ expiry' = [expiry EXCEPT ![t] = 0]

\* Return false and leave the error in the semaphore.
Fail(t, e) ==
  /\ err' = e
  /\ Return(t, "false")

\* A method is called. What calls after close do is left out: they use
\* descriptor 0.
Enter(t, method) ==
  /\ pc[t] = "idle"
  /\ IsOpen
  /\ calls[t] < MaxCalls
  /\ calls' = [calls EXCEPT ![t] = @ + 1]
  /\ call' = [call EXCEPT ![t] = method]
  /\ UNCHANGED <<count, handle, now, signals, posted, taken>>

\* With an error in the semaphore it returns false at once.
CallFails(t, method) ==
  /\ Enter(t, method)
  /\ err # "none"
  /\ Return(t, "false")
  /\ UNCHANGED <<err, reasons>>

\* post(n), the argument is no count.
PostInvalid(t, n) ==
  /\ Enter(t, "post")
  /\ err = "none"
  /\ n <= 0 \/ n > SEMVMX
  /\ Fail(t, "EINVAL")
  /\ reasons' = reasons \cup {"EINVAL"}

\* post(n) up to the system call.
Post(t, n) ==
  /\ Enter(t, "post")
  /\ err = "none"
  /\ n > 0 /\ n <= SEMVMX
  /\ arg' = [arg EXCEPT ![t] = n]
  /\ Goto(t, "write")
  /\ UNCHANGED <<err, finish, expiry, reasons>>

\* write(handle, n) of an eventfd that is open and has room.
Write(t) ==
  /\ pc[t] = "write"
  /\ IsOpen
  /\ count + arg[t] <= SEMVMX
  /\ count' = count + arg[t]
  /\ posted' = posted + arg[t]
  /\ Return(t, "true")
  /\ UNCHANGED <<handle, err, call, now, calls, signals, taken, reasons>>

\* Too many posts: write reports EAGAIN, which is not the number 35 that
\* ERROR_TOO_MANY_POSTS has on Linux, and so stays in the semaphore.
WriteOverflows(t) ==
  /\ pc[t] = "write"
  /\ IsOpen
  /\ count + arg[t] > SEMVMX
  /\ Fail(t, "EAGAIN")
  /\ reasons' = reasons \cup {"EAGAIN"}
  /\ UNCHANGED <<count, handle, call, now, calls, signals, posted, taken>>

\* After close the handle is 0: the write goes to standard input, which may
\* accept it.
WriteElsewhere(t) ==
  /\ pc[t] = "write"
  /\ ~IsOpen
  /\ \/ Return(t, "true") /\ UNCHANGED err
     \/ Fail(t, "EBADF")
  /\ UNCHANGED <<count, handle, call, now, calls, signals, posted, taken, reasons>>

-----------------------------------------------------------------------------

\* wait, timedwait(d) and trywait up to ppoll. trywait polls with a time
\* limit of 0; wait has none.
CallWait(t, method, d) ==
  LET limit == IF d < 0 THEN 0 ELSE d IN
  /\ Enter(t, method)
  /\ err = "none"
  /\ arg' = [arg EXCEPT ![t] = limit]
  /\ finish' = [finish EXCEPT ![t] = now + limit]
  /\ Goto(t, "enter")
  /\ UNCHANGED <<err, expiry, reasons>>

\* ppoll begins to wait.
EnterPoll(t) ==
  /\ pc[t] = "enter"
  /\ IsOpen
  /\ Goto(t, "poll")
  /\ expiry' = [expiry EXCEPT ![t] = now + arg[t]]
  /\ UNCHANGED <<count, handle, err, call, arg, finish, now, calls, signals, posted, taken, reasons>>

\* The descriptor is closed: ppoll reports POLLNVAL, not POLLIN. trywait
\* returns; the loops of wait and timedwait never end (no step).
EnterClosed(t) ==
  /\ pc[t] = "enter"
  /\ ~IsOpen
  /\ call[t] = "trywait"
  /\ Return(t, "false")
  /\ UNCHANGED <<count, handle, err, call, now, calls, signals, posted, taken, reasons>>

\* Mutant: wait does not ask for POLLIN.
PollReadyTimedOnly(t) ==
  /\ pc[t] = "poll"
  /\ count > 0
  /\ call[t] # "wait"
  /\ Goto(t, "read")
  /\ UNCHANGED <<count, handle, err, call, locals, now, calls, signals, posted, taken, reasons>>

\* ppoll reports POLLIN. It keeps the eventfd alive when it is closed.
PollReady(t) ==
  /\ pc[t] = "poll"
  /\ count > 0
  /\ Goto(t, "read")
  /\ UNCHANGED <<count, handle, err, call, locals, now, calls, signals, posted, taken, reasons>>

\* Mutant: timedwait polls without a time limit, as wait does.
PollTimesOutTryOnly(t) ==
  /\ pc[t] = "poll"
  /\ call[t] = "trywait"
  /\ count = 0
  /\ now >= expiry[t]
  /\ Return(t, "false")
  /\ UNCHANGED <<count, handle, err, call, now, calls, signals, posted, taken, reasons>>

\* ppoll returns 0.
PollTimesOut(t) ==
  /\ pc[t] = "poll"
  /\ call[t] # "wait"
  /\ count = 0
  /\ now >= expiry[t]
  /\ Return(t, "false")
  /\ UNCHANGED <<count, handle, err, call, now, calls, signals, posted, taken, reasons>>

\* A signal handler - of Ctrl-C in the REPL - interrupts ppoll.
PollInterrupted(t) ==
  /\ pc[t] = "poll"
  /\ count = 0
  /\ signals < MaxSignals
  /\ signals' = signals + 1
  /\ Fail(t, "EINTR")
  /\ reasons' = reasons \cup {"EINTR"}
  /\ UNCHANGED <<count, handle, call, now, calls, posted, taken>>

\* Mutant: whether read got the token is not looked at.
ReadUnchecked(t) ==
  /\ pc[t] = "read"
  /\ IsOpen
  /\ count' = IF count > 0 THEN count - 1 ELSE count
  /\ taken' = taken + 1
  /\ Return(t, "true")
  /\ UNCHANGED <<handle, err, call, now, calls, signals, posted, reasons>>

\* read(fd) takes one.
Read(t) ==
  /\ pc[t] = "read"
  /\ IsOpen
  /\ count > 0
  /\ count' = count - 1
  /\ taken' = taken + 1
  /\ Return(t, "true")
  /\ UNCHANGED <<handle, err, call, now, calls, signals, posted, reasons>>

\* Mutant: a token lost to another thread ends timedwait.
RetryGivesUp(t) == Return(t, "false")

\* timedwait, the token went to another thread: try again for the time that
\* is left, unless there is none.
Retry(t) ==
  LET left == finish[t] - now IN
  IF left < 0
  THEN Return(t, "false")
  ELSE /\ arg' = [arg EXCEPT ![t] = left]
       /\ Goto(t, "enter")
       /\ UNCHANGED <<finish, expiry>>

\* read(fd) fails with EAGAIN: another thread has taken the token.
ReadFails(t) ==
  /\ pc[t] = "read"
  /\ IsOpen /\ count = 0
  /\ \/ call[t] = "wait" /\ Goto(t, "enter") /\ UNCHANGED locals
     \/ call[t] = "timedwait" /\ Retry(t)
     \/ call[t] = "trywait" /\ Return(t, "false")
  /\ UNCHANGED <<count, handle, err, call, now, calls, signals, posted, taken, reasons>>

\* read(fd) of a closed descriptor: wait just tries again.
ReadClosed(t) ==
  /\ pc[t] = "read"
  /\ ~IsOpen
  /\ \/ call[t] = "wait" /\ Goto(t, "enter") /\ UNCHANGED <<locals, err>>
     \/ call[t] # "wait" /\ Fail(t, "EBADF")
  /\ UNCHANGED <<count, handle, call, now, calls, signals, posted, taken, reasons>>

\* s.close: the descriptor is closed and the handle set to 0.
Close ==
  /\ IsOpen
  /\ handle' = "stdin"
  /\ reasons' = reasons \cup {"EBADF"}
  /\ UNCHANGED <<count, err, pc, call, locals, result, now, calls, signals,
                 posted, taken>>

Clock ==
  /\ now < MaxTime
  /\ now' = now + 1
  /\ UNCHANGED <<count, handle, err, pc, call, locals, result, calls, signals,
                 posted, taken, reasons>>

Step(t) ==
  \/ Write(t)
  \/ WriteOverflows(t)
  \/ WriteElsewhere(t)
  \/ EnterPoll(t)
  \/ EnterClosed(t)
  \/ PollReady(t)
  \/ PollTimesOut(t)
  \/ Read(t)
  \/ ReadFails(t)
  \/ ReadClosed(t)

Next ==
  \/ \E t \in Threads, method \in Waits \cup {"post"} : CallFails(t, method)
  \/ \E t \in Threads, n \in Posts : PostInvalid(t, n)
  \/ \E t \in Threads, n \in Posts : Post(t, n)
  \/ \E t \in Threads, d \in Timeouts : CallWait(t, "timedwait", d)
  \/ \E t \in Threads, method \in {"wait", "trywait"} : CallWait(t, method, 0)
  \/ \E t \in Threads : Step(t)
  \/ \E t \in Threads : PollInterrupted(t)
  \/ Close
  \/ Clock

Spec == Init /\ [][Next]_vars

\* Threads inside a method run, and time passes. Nobody has to call.
Fairness == WF_vars(Clock) /\ \A t \in Threads : WF_vars(Step(t))

FairSpec == Spec /\ Fairness

-----------------------------------------------------------------------------
(* Properties.                                                             *)

\* Tokens are neither lost nor handed out twice: however many threads poll,
\* lose the race for the token, time out or are interrupted, the waits that
\* returned true and the tokens still there are those whose post succeeded.
\* (Once closed, a post may return true for what it wrote elsewhere.)
TokensConserved == count + taken = posted

\* The semaphore breaks only for a reason: a bad argument, a signal, an
\* overflow or a close. Losing the race for a token is none.
ErrorHasReason == err # "none" => err \in reasons

\* timedwait returns false without an error only when its time is over,
\* however often the token went to others before.
NotBeforeTime ==
  [][\A t \in Threads :
       /\ pc[t] # "idle" /\ pc'[t] = "idle"
       /\ call[t] = "timedwait" /\ result'[t] = "false"
       => now >= finish[t] \/ err' # "none"]_vars

\* A waiter does not sleep while there are tokens: it gets one unless others
\* take them all.
NoLostWakeup ==
  \A t \in Threads :
    pc[t] \in {"enter", "poll"} /\ count > 0
      ~> count = 0 \/ pc[t] = "idle" \/ ~IsOpen

\* timedwait returns unless the semaphore is closed. The bounded clock has to
\* reach the expiry of its ppoll, which is later than end_time by the time
\* spent between clock_gettime and ppoll.
TimedwaitReturns ==
  \A t \in Threads :
    pc[t] # "idle" /\ call[t] = "timedwait"
      ~> pc[t] = "idle" \/ ~IsOpen \/ expiry[t] > MaxTime
=============================================================================
