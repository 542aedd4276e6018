------------------------------- MODULE Mutex -------------------------------
(***************************************************************************)
(* sync.mutex on Linux: a wrapper around a robust pthread mutex. In the    *)
(* REPL every top level expression runs in a thread of its own, which may  *)
(* end - or be ended by a signal, at any point - without unlocking; the    *)
(* next expression must be able to lock and to unlock the mutex.           *)
(* Source: lib/volvox/sync/10_mutex.vx. The operators named after pthread  *)
(* functions describe glibc.                                               *)
(***************************************************************************)
EXTENDS Integers

CONSTANTS
  Threads,
  Nobody,
  Repl,       \* arch.isREPL
  MaxCalls    \* bound: calls per thread, not counting unlock by a holder

ASSUME NobodyAssumption == Nobody \notin Threads
ASSUME ReplAssumption == Repl \in BOOLEAN
ASSUME CallsAssumption == MaxCalls \in Nat

VARIABLES
  owner,      \* the thread that pthread has down as owner, or Nobody
  state,      \* "ok"; "ownerdead": free, the owner died; "inconsistent":
              \* locked after that; "lost": not recoverable
  pc,         \* per thread: the step of the method it is in
  result,     \* per thread: what its last call returned
  holds,      \* threads whose lock succeeded and that have not unlocked
  calls       \* per thread: calls made

vars == <<owner, state, pc, result, holds, calls>>

Locking   == {"lock", "trylock", "timedlock"}
Unlocking == {"unlock", "probe", "giveback", "urecover"}
Results   == {"none", "ok", "EPERM", "EBUSY", "ETIMEDOUT", "ENOTRECOVERABLE"}

TypeOK ==
  /\ owner \in Threads \cup {Nobody}
  /\ state \in {"ok", "ownerdead", "inconsistent", "lost"}
  /\ pc \in [Threads -> {"idle", "recover"} \cup Locking \cup Unlocking]
  /\ result \in [Threads -> Results]
  /\ holds \subseteq Threads
  /\ calls \in [Threads -> 0 .. MaxCalls]

Init ==
  /\ owner  = Nobody
  /\ state  = "ok"
  /\ pc     = [t \in Threads |-> "idle"]
  /\ result = [t \in Threads |-> "none"]
  /\ holds  = {}
  /\ calls  = [t \in Threads |-> 0]

-----------------------------------------------------------------------------
(* pthread. A lock that succeeds after its owner died reports EOWNERDEAD.  *)

\* What pthread_mutex_trylock returns to any thread.
TrylockResult ==
  CASE state = "lost"      -> "ENOTRECOVERABLE"
    [] owner # Nobody      -> "EBUSY"
    [] state = "ownerdead" -> "EOWNERDEAD"
    [] OTHER               -> "ok"

\* The effect of a successful lock.
Take(t) ==
  /\ owner' = t
  /\ state' = IF state = "ownerdead" THEN "inconsistent" ELSE "ok"

\* pthread_mutex_unlock returns UnlockResult(t); unlocking a mutex that was
\* not made consistent makes it unusable for good.
UnlockResult(t) == IF owner = t THEN "ok" ELSE "EPERM"

Give(t) ==
  IF owner = t
  THEN /\ owner' = Nobody
       /\ state' = IF state = "inconsistent" THEN "lost" ELSE state
  ELSE UNCHANGED <<owner, state>>

\* pthread_mutex_consistent
Consistent(t) ==
  IF owner = t /\ state = "inconsistent" THEN state' = "ok" ELSE UNCHANGED state

-----------------------------------------------------------------------------
(* The methods.                                                            *)

Call(t, at) ==
  /\ pc[t] = "idle"
  /\ IF t \in holds /\ at \in Unlocking
     THEN UNCHANGED calls
     ELSE calls[t] < MaxCalls /\ calls' = [calls EXCEPT ![t] = @ + 1]
  /\ pc' = [pc EXCEPT ![t] = at]
  /\ result' = [result EXCEPT ![t] = "none"]

Return(t, res) ==
  /\ pc' = [pc EXCEPT ![t] = "idle"]
  /\ result' = [result EXCEPT ![t] = res]

\* m.lock, m.trylock and m.timedlock are called. A thread that
\* locks what it has locked waits for itself for ever: left out.
CallLock(t, how) ==
  /\ how = "trylock" \/ owner # t
  /\ Call(t, how)
  /\ UNCHANGED <<owner, state, holds>>

\* Mutant: a lock that reports EOWNERDEAD is used as it is.
AfterLockNoConsistent == "idle"

\* if res == EOWNERDEAD: pthread_mutex_consistent.
AfterLock == IF TrylockResult = "EOWNERDEAD" THEN "recover" ELSE "idle"

\* The pthread function takes the mutex.
Locks(t) ==
  /\ pc[t] \in Locking
  /\ TrylockResult \in {"ok", "EOWNERDEAD"}
  /\ Take(t)
  /\ pc' = [pc EXCEPT ![t] = AfterLock]
  /\ result' = [result EXCEPT ![t] = IF AfterLock = "idle" THEN "ok" ELSE @]
  /\ holds' = IF AfterLock = "idle" THEN holds \cup {t} ELSE holds
  /\ UNCHANGED calls

Recover(t) ==
  /\ pc[t] = "recover"
  /\ Consistent(t)
  /\ Return(t, "ok")
  /\ holds' = holds \cup {t}
  /\ UNCHANGED <<owner, calls>>

\* Any other result is returned as it is. lock and timedlock wait while the
\* mutex is busy.
LockFails(t) ==
  /\ pc[t] \in (IF TrylockResult = "EBUSY" THEN {"trylock"} ELSE Locking)
  /\ TrylockResult \in {"EBUSY", "ENOTRECOVERABLE"}
  /\ Return(t, TrylockResult)
  /\ UNCHANGED <<owner, state, holds, calls>>

\* pthread_mutex_timedlock(this, ts): ts, the duration, is taken for the
\* absolute time at which to give up. That is in 1970: there is no waiting.
TimesOut(t) ==
  /\ pc[t] = "timedlock"
  /\ TrylockResult = "EBUSY"
  /\ Return(t, "ETIMEDOUT")
  /\ UNCHANGED <<owner, state, holds, calls>>

\* m.unlock: in the REPL the mutex is probed with trylock first.
CallUnlock(t) ==
  /\ Call(t, IF Repl THEN "probe" ELSE "unlock")
  /\ UNCHANGED <<owner, state, holds>>

\* Mutant: an orphaned mutex is unlocked without pthread_mutex_consistent.
AfterProbeNoConsistent(res) == IF res = "ok" THEN "giveback" ELSE "unlock"

\* Mutant: what trylock reports of an orphaned mutex is handed to the caller.
AfterProbeGivesUp(res) ==
  CASE res = "ok"    -> "giveback"
    [] res = "EBUSY" -> "unlock"
    [] OTHER         -> "idle"

\* Mutant: a busy mutex is taken for a free one.
AfterProbeBusy(res) ==
  CASE res \in {"ok", "EBUSY"} -> "giveback"
    [] OTHER                   -> "urecover"

\* Free: give it back and report EPERM. Busy, perhaps with this thread:
\* unlock. Left by a dead owner: make it consistent, then unlock.
AfterProbe(res) ==
  CASE res = "ok"        -> "giveback"
    [] res = "EBUSY"     -> "unlock"
    [] res = "EOWNERDEAD" -> "urecover"
    [] OTHER             -> "idle"

Probe(t) ==
  LET res == TrylockResult IN
  /\ pc[t] = "probe"
  /\ IF res \in {"ok", "EOWNERDEAD"} THEN Take(t) ELSE UNCHANGED <<owner, state>>
  /\ pc' = [pc EXCEPT ![t] = AfterProbe(res)]
  /\ result' = [result EXCEPT ![t] = IF AfterProbe(res) = "idle" THEN res ELSE @]
  /\ UNCHANGED <<holds, calls>>

GiveBack(t) ==
  /\ pc[t] = "giveback"
  /\ Give(t)
  /\ Return(t, "EPERM")
  /\ UNCHANGED <<holds, calls>>

RecoverForUnlock(t) ==
  /\ pc[t] = "urecover"
  /\ Consistent(t)
  /\ pc' = [pc EXCEPT ![t] = "unlock"]
  /\ UNCHANGED <<owner, result, holds, calls>>

\* Mutant: the mutex of whoever has it is unlocked.
UnlockAnyones(t) ==
  /\ pc[t] = "unlock"
  /\ owner' = Nobody
  /\ UNCHANGED state
  /\ Return(t, "ok")
  /\ holds' = holds \ {t}
  /\ UNCHANGED calls

Unlock(t) ==
  /\ pc[t] = "unlock"
  /\ Give(t)
  /\ Return(t, UnlockResult(t))
  /\ holds' = IF owner = t THEN holds \ {t} ELSE holds
  /\ UNCHANGED calls

\* Mutant: the mutex is not created as a robust one.
DiesNotRobust(t) ==
  /\ Repl
  /\ Return(t, "none")
  /\ holds' = holds \ {t}
  /\ UNCHANGED <<owner, state, calls>>

\* The thread ends: its expression is done, it aborts, or Ctrl-C ends it
\* within a method. What it owned is left to whoever locks next. Another
\* thread takes the place of the dead one.
Dies(t) ==
  /\ Repl
  /\ owner' = IF owner = t THEN Nobody ELSE owner
  /\ state' = IF owner = t THEN "ownerdead" ELSE state
  /\ Return(t, "none")
  /\ holds' = holds \ {t}
  /\ UNCHANGED calls

Step(t) ==
  \/ Locks(t)
  \/ Recover(t)
  \/ LockFails(t)
  \/ TimesOut(t)
  \/ Probe(t)
  \/ GiveBack(t)
  \/ RecoverForUnlock(t)
  \/ Unlock(t)

Next ==
  \/ \E t \in Threads, how \in Locking : CallLock(t, how)
  \/ \E t \in Threads : Step(t)
  \/ \E t \in Threads : CallUnlock(t)
  \/ \E t \in Threads : Dies(t)

Spec == Init /\ [][Next]_vars

\* Threads inside a method go on. A thread that holds the mutex unlocks it
\* or dies: the promise of the program, not of the library.
Fairness ==
  \A t \in Threads :
    /\ WF_vars(Step(t))
    /\ WF_vars(t \in holds /\ (CallUnlock(t) \/ Dies(t)))

FairSpec == Spec /\ Fairness

-----------------------------------------------------------------------------
(* Properties.                                                             *)

\* However threads die, also within lock and unlock, the mutex never gets
\* into the state in which pthread refuses it for ever.
NeverLost == state # "lost"

\* A thread whose lock returned 0 is the owner until it unlocks or dies: no
\* probe, recovery or unlock of another thread takes the mutex from it, and
\* no two threads hold it.
HolderOwns == \A t \in holds : owner = t

\* Both: wherever threads die, the mutex stays usable and the holder stays its
\* one owner.
Exclusive == NeverLost /\ HolderOwns

\* Unlocking what one holds succeeds, in spite of the probe.
HolderUnlocks ==
  [][\A t \in holds : pc[t] \in Unlocking /\ pc'[t] = "idle"
                        => result'[t] \in {"ok", "none"}]_vars

\* A lock returns although holders abort without unlocking - the reason for
\* running each expression in a thread (src/main.cc:2075-2083).
LockReturns == \A t \in Threads : pc[t] = "lock" ~> pc[t] # "lock"
=============================================================================
