---------------------------- MODULE MutexProofs ----------------------------
(***************************************************************************)
(* Proofs about Mutex for any set of threads, in the REPL and in compiled  *)
(* programs.                                                               *)
(***************************************************************************)
EXTENDS Mutex, TLAPS

\* A thread between a lock and the end of the method owns the mutex, and is
\* not yet, or was not, one of those that hold it for the program.
InMethodOwns ==
  \A t \in Threads :
    pc[t] \in {"recover", "urecover", "giveback"} => owner = t /\ t \notin holds

\* An orphaned mutex is free; an inconsistent one has an owner that is about
\* to repair it.
StateFits ==
  /\ state = "ownerdead" => owner = Nobody
  /\ state = "inconsistent" =>
       owner \in Threads /\ pc[owner] \in {"recover", "urecover"}

IInv == TypeOK /\ InMethodOwns /\ StateFits /\ NeverLost /\ HolderOwns

LEMMA InitIInv == Init => IInv
  BY NobodyAssumption, CallsAssumption
     DEF Init, IInv, TypeOK, InMethodOwns, StateFits, NeverLost, HolderOwns,
         Results, Locking, Unlocking

LEMMA NextIInv == IInv /\ [Next]_vars => IInv'
<1> SUFFICES ASSUME IInv, [Next]_vars PROVE IInv'
  OBVIOUS
<1> USE NobodyAssumption, CallsAssumption
    DEF IInv, TypeOK, InMethodOwns, StateFits, NeverLost, HolderOwns, Results,
        Locking, Unlocking
<1>1. ASSUME NEW t \in Threads, NEW how \in Locking, CallLock(t, how) PROVE IInv'
  BY <1>1 DEF CallLock, Call
<1>2. ASSUME NEW t \in Threads, Locks(t) PROVE IInv'
  BY <1>2 DEF Locks, Take, TrylockResult, AfterLock
<1>3. ASSUME NEW t \in Threads, Recover(t) PROVE IInv'
  BY <1>3 DEF Recover, Consistent, Return
<1>4. ASSUME NEW t \in Threads, LockFails(t) PROVE IInv'
  BY <1>4 DEF LockFails, Return, TrylockResult
<1>5. ASSUME NEW t \in Threads, TimesOut(t) PROVE IInv'
  BY <1>5 DEF TimesOut, Return, TrylockResult
<1>6. ASSUME NEW t \in Threads, Probe(t) PROVE IInv'
  BY <1>6 DEF Probe, AfterProbe, Take, TrylockResult
<1>7. ASSUME NEW t \in Threads, GiveBack(t) PROVE IInv'
  BY <1>7 DEF GiveBack, Give, Return
<1>8. ASSUME NEW t \in Threads, RecoverForUnlock(t) PROVE IInv'
  BY <1>8 DEF RecoverForUnlock, Consistent
<1>9. ASSUME NEW t \in Threads, Unlock(t) PROVE IInv'
  BY <1>9 DEF Unlock, Give, UnlockResult, Return
<1>10. ASSUME NEW t \in Threads, CallUnlock(t) PROVE IInv'
  BY <1>10, ReplAssumption DEF CallUnlock, Call
<1>11. ASSUME NEW t \in Threads, Dies(t) PROVE IInv'
  BY <1>11 DEF Dies, Return
<1>12. ASSUME UNCHANGED vars PROVE IInv'
  BY <1>12 DEF vars
<1>13. QED
  BY <1>1, <1>2, <1>3, <1>4, <1>5, <1>6, <1>7, <1>8, <1>9, <1>10, <1>11,
     <1>12 DEF Next, Step

LEMMA Invariance == Spec => []IInv
<1>1. Init => IInv
  BY InitIInv
<1>2. IInv /\ [Next]_vars => IInv'
  BY NextIInv
<1>3. QED
  BY <1>1, <1>2, PTL DEF Spec

\* Every variable of the mutex model keeps its type (Mutex!TypeOK).
THEOREM TypeCorrect == Spec => []TypeOK
<1>1. IInv => TypeOK
  BY DEF IInv
<1>2. QED
  BY <1>1, Invariance, PTL

\* The robust mutex never becomes unrecoverable, wherever threads die.
THEOREM Recoverable == Spec => []NeverLost
<1>1. IInv => NeverLost
  BY DEF IInv
<1>2. QED
  BY <1>1, Invariance, PTL

\* A thread that holds the mutex is its owner; hence no two threads hold it.
THEOREM HoldersAreOwners == Spec => []HolderOwns
<1>1. IInv => HolderOwns
  BY DEF IInv
<1>2. QED
  BY <1>1, Invariance, PTL

\* The mutex stays usable and exclusive, wherever threads die.
THEOREM StaysExclusive == Spec => []Exclusive
<1>1. IInv => Exclusive
  BY DEF IInv, Exclusive
<1>2. QED
  BY <1>1, Invariance, PTL

\* The call of unlock by a thread that holds the mutex returns 0, whatever
\* the probe with trylock does in the REPL.
THEOREM UnlockSucceeds == Spec => HolderUnlocks
<1> DEFINE A == \A t \in holds : pc[t] \in Unlocking /\ pc'[t] = "idle"
                                   => result'[t] \in {"ok", "none"}
<1>1. IInv /\ [Next]_vars => [A]_vars
  <2> SUFFICES ASSUME IInv, Next, NEW h \in holds, pc[h] \in Unlocking,
                      pc'[h] = "idle"
               PROVE  result'[h] \in {"ok", "none"}
    OBVIOUS
  <2> USE NobodyAssumption DEF IInv, TypeOK, InMethodOwns, HolderOwns, Unlocking,
          Locking, NeverLost
  <2>1. ASSUME NEW t \in Threads, NEW how \in Locking, CallLock(t, how)
        PROVE  result'[h] \in {"ok", "none"}
    BY <2>1 DEF CallLock, Call
  <2>2. ASSUME NEW t \in Threads, Step(t) PROVE result'[h] \in {"ok", "none"}
    <3>1. CASE Locks(t)
      BY <3>1 DEF Locks, TrylockResult
    <3>2. CASE Recover(t)
      BY <3>2 DEF Recover, Return
    <3>3. CASE LockFails(t)
      BY <3>3 DEF LockFails, Return
    <3>4. CASE TimesOut(t)
      BY <3>4 DEF TimesOut, Return
    <3>5. CASE Probe(t)
      BY <3>5 DEF Probe, AfterProbe, TrylockResult
    <3>6. CASE GiveBack(t)
      BY <3>6 DEF GiveBack, Return
    <3>7. CASE RecoverForUnlock(t)
      BY <3>7 DEF RecoverForUnlock
    <3>8. CASE Unlock(t)
      BY <3>8 DEF Unlock, UnlockResult, Return
    <3>9. QED
      BY <2>2, <3>1, <3>2, <3>3, <3>4, <3>5, <3>6, <3>7, <3>8 DEF Step
  <2>3. ASSUME NEW t \in Threads, CallUnlock(t)
        PROVE  result'[h] \in {"ok", "none"}
    BY <2>3 DEF CallUnlock, Call
  <2>4. ASSUME NEW t \in Threads, Dies(t) PROVE result'[h] \in {"ok", "none"}
    BY <2>4 DEF Dies, Return
  <2>5. QED
    BY <2>1, <2>2, <2>3, <2>4 DEF Next
<1>2. QED
  BY <1>1, Invariance, PTL DEF Spec, HolderUnlocks
=============================================================================
