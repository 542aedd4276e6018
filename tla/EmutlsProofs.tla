---------------------------- MODULE EmutlsProofs ----------------------------
(***************************************************************************)
(* For any number of threads and variables: emulated thread local storage   *)
(* implements ThreadLocals, and frees what it allocated. The argument: who  *)
(* gives a variable its index holds the mutex and has seen that it has      *)
(* none; an index is new, so nobody's array holds an object there; and no   *)
(* object is in two places.                                                *)
(***************************************************************************)
EXTENDS Emutls, SequenceTheorems, TLAPS

\* The mutex is held exactly in between lock and unlock.
MutexInv == \A t \in Threads : pc[t] \in Locked <=> mutex = t

\* What a thread knows about the index of its variable.
LocalInv == \A t \in Threads :
  /\ pc[t] = "assign" => index[control[t]] = 0
  /\ pc[t] \in {"unlock", "array", "object"} => local[t] = index[control[t]] /\ local[t] # 0
  /\ pc[t] = "object" => local[t] <= Len(array[t])
  /\ pc[t] = "none" => array[t] = << >>

\* Indices are given one after the other.
IndexInv ==
  /\ \A v \in Variables : index[v] <= num_object
  /\ \A v, w \in Variables : v # w /\ index[v] # 0 => index[v] # index[w]

\* Objects are allocated, have an index that was given, and are in one place.
ArrayInv == \A t \in Threads : \A i \in 1..Len(array[t]) :
  array[t][i] # None =>
    /\ i <= num_object /\ array[t][i] \in live
    /\ \A u \in Threads : \A j \in 1..Len(array[u]) :
         array[u][j] = array[t][i] => u = t /\ j = i

\* What is allocated is in an array.
LiveInv == \A a \in live : \E t \in Threads : \E i \in 1..Len(array[t]) : array[t][i] = a

IInv == TypeOK /\ MutexInv /\ LocalInv /\ IndexInv /\ ArrayInv /\ LiveInv

-----------------------------------------------------------------------------
\* The new array has room for the index.
LEMMA SizeFits ==
  ASSUME NEW i \in Nat \ {0}
  PROVE  /\ emutls_new_data_array_size(i) \in Nat
         /\ emutls_new_data_array_size(i) >= i
<1> DEFINE x == i + Header + Multiple - 1
           q == x \div Multiple
<1>1. x \in Nat /\ Multiple \in Nat \ {0}
  BY EmutlsAssumption
<1>2. q \in Nat /\ x < q * Multiple + Multiple
  <2>1. \A a \in Nat, b \in Nat \ {0} : a \div b \in Nat /\ a < (a \div b) * b + b
    <3>1. SUFFICES ASSUME NEW a \in Nat, NEW b \in Nat \ {0}
                   PROVE  a \div b \in Nat /\ a < (a \div b) * b + b
      OBVIOUS
    <3>2. a \div b \in Nat /\ a % b \in 0..b - 1
      OBVIOUS
    <3>3. a = b * (a \div b) + (a % b)
      OBVIOUS
    <3>4. QED
      BY <3>2, <3>3
  <2>2. QED
    BY <1>1, <2>1
<1>3. q * Multiple \in Nat
  BY <1>1, <1>2
<1>4. q * Multiple >= i + Header
  BY <1>1, <1>2, <1>3, EmutlsAssumption
<1>5. QED
  BY <1>3, <1>4, EmutlsAssumption DEF emutls_new_data_array_size

\* Growing keeps the objects and adds none.
LEMMA ResizedKeeps ==
  ASSUME NEW data \in Seq(Addresses \cup {None}), NEW n \in Nat, n > Len(data)
  PROVE  /\ Resized(data, n) \in Seq(Addresses \cup {None})
         /\ Len(Resized(data, n)) = n
         /\ \A i \in 1..Len(data) : Resized(data, n)[i] = data[i]
         /\ \A i \in 1..n : i > Len(data) => Resized(data, n)[i] = None
<1>1. Resized(data, n) \in [1..n -> Addresses \cup {None}]
  BY DEF Resized
<1>2. \A S, f : f \in [1..n -> S] => f \in Seq(S) /\ Len(f) = n
  <2>1. SUFFICES ASSUME NEW S, NEW f \in [1..n -> S] PROVE f \in Seq(S) /\ Len(f) = n
    OBVIOUS
  <2>2. f \in Seq(S)
    BY SeqDef
  <2>3. 1..Len(f) = 1..n /\ Len(f) \in Nat
    BY <2>2, LenProperties
  <2>4. \A m \in Nat : 1..m = 1..n => m = n
    <3>1. SUFFICES ASSUME NEW m \in Nat, 1..m = 1..n PROVE m = n
      OBVIOUS
    <3>2. \A i \in Int : 1 <= i /\ i <= m <=> 1 <= i /\ i <= n
      BY <3>1
    <3>3. QED
      BY <3>2
  <2>5. QED
    BY <2>2, <2>3, <2>4
<1>3. Resized(data, n) \in Seq(Addresses \cup {None}) /\ Len(Resized(data, n)) = n
  BY <1>1, <1>2
<1>4. QED
  BY <1>3 DEF Resized

-----------------------------------------------------------------------------
LEMMA InitIInv == Init => IInv
<1> SUFFICES ASSUME Init PROVE IInv
  OBVIOUS
<1> USE EmutlsAssumption DEF Init
<1>1. TypeOK
  <2>1. array \in [Threads -> Seq(Addresses \cup {None})]
    BY EmptySeq
  <2>2. QED
    BY <2>1 DEF TypeOK
<1>2. MutexInv /\ LocalInv
  BY DEF MutexInv, LocalInv, Locked
<1>3. IndexInv /\ ArrayInv /\ LiveInv
  BY DEF IndexInv, ArrayInv, LiveInv
<1>4. QED
  BY <1>1, <1>2, <1>3 DEF IInv

\* Looking for the index touches no array.
LEMMA IndexSideIInv ==
  ASSUME IInv, NEW t \in Threads,
         \/ LoadIndex(t) \/ emutls_init_once(t) \/ emutls_lock(t)
         \/ Reread(t) \/ Assign(t) \/ emutls_unlock(t) \/ OutOfMemory(t) \/ User(t)
  PROVE  IInv'
<1> USE EmutlsAssumption
    DEF IInv, TypeOK, MutexInv, LocalInv, IndexInv, ArrayInv, LiveInv, Locked, Steps, Goto
<1>1. CASE LoadIndex(t)
  BY <1>1 DEF LoadIndex
<1>2. CASE emutls_init_once(t)
  BY <1>2 DEF emutls_init_once
<1>3. CASE emutls_lock(t)
  BY <1>3 DEF emutls_lock
<1>4. CASE Reread(t)
  BY <1>4 DEF Reread
<1>5. CASE Assign(t)
  <2> USE <1>5 DEF Assign
  <2>1. TypeOK' /\ MutexInv'
    OBVIOUS
  <2>2. \A v \in Variables : index'[v] = IF v = control[t] THEN num_object + 1 ELSE index[v]
    OBVIOUS
  <2>3. IndexInv'
    BY <2>2
  <2>4. LocalInv'
    BY <2>2
  <2>5. ArrayInv' /\ LiveInv'
    OBVIOUS
  <2>6. QED
    BY <2>1, <2>3, <2>4, <2>5
<1>6. CASE emutls_unlock(t)
  BY <1>6 DEF emutls_unlock
<1>7. CASE OutOfMemory(t)
  BY <1>7 DEF OutOfMemory
<1>8. CASE User(t)
  <2>1. CASE Begin(t)
    BY <2>1 DEF Begin
  <2>2. CASE End(t)
    BY <2>2 DEF End
  <2>3. ASSUME NEW v \in Variables, GetAddress(t, v) PROVE IInv'
    BY <2>3 DEF GetAddress
  <2>4. QED
    BY <1>8, <2>1, <2>2, <2>3 DEF User
<1>9. QED
  BY <1>1, <1>2, <1>3, <1>4, <1>5, <1>6, <1>7, <1>8

\* Arrays that hold what they held, in the same places, or less of it.
LEMMA KeptObjects ==
  ASSUME ArrayInv, UNCHANGED num_object,
         \A u \in Threads : \A i \in 1..Len(array'[u]) : array'[u][i] # None =>
           /\ i \in 1..Len(array[u]) /\ array'[u][i] = array[u][i]
           /\ array'[u][i] \in live'
  PROVE  ArrayInv'
BY DEF ArrayInv

\* What another thread frees is not in this thread's array.
LEMMA NotShutDown ==
  ASSUME ArrayInv, NEW t \in Threads, NEW u \in Threads, u # t,
         NEW i \in 1..Len(array[u]), array[u][i] # None
  PROVE  array[u][i] \in live /\ array[u][i] \notin emutls_shutdown(array[t])
BY DEF ArrayInv, emutls_shutdown

\* A thread changes its own array only.
LEMMA ArraySideIInv ==
  ASSUME IInv, NEW t \in Threads,
         \/ emutls_get_address_array(t) \/ emutls_allocate_object(t) \/ ReturnAddress(t)
         \/ emutls_key_destructor(t)
  PROVE  IInv'
<1> USE EmutlsAssumption
    DEF IInv, TypeOK, MutexInv, LocalInv, IndexInv, ArrayInv, LiveInv, Locked, Steps, Goto
<1>1. CASE emutls_get_address_array(t)
  <2> USE <1>1 DEF emutls_get_address_array
  <2>1. CASE local[t] <= Len(array[t])
    BY <2>1
  <2>2. CASE ~(local[t] <= Len(array[t]))
    <3> DEFINE size == emutls_new_data_array_size(local[t])
               new  == Resized(array[t], size)
    <3>1. local[t] \in Nat \ {0} /\ array[t] \in Seq(Addresses \cup {None})
      OBVIOUS
    <3>2. size \in Nat /\ size >= local[t] /\ size > Len(array[t])
      BY <2>2, <3>1, SizeFits
    <3>3. /\ new \in Seq(Addresses \cup {None}) /\ Len(new) = size
          /\ \A i \in 1..Len(array[t]) : new[i] = array[t][i]
          /\ \A i \in 1..size : i > Len(array[t]) => new[i] = None
      BY <3>1, <3>2, ResizedKeeps
    <3>4. array' = [array EXCEPT ![t] = new]
      BY <2>2
    <3> HIDE DEF size, new
    <3>5. TypeOK' /\ MutexInv' /\ IndexInv'
      BY <3>3, <3>4
    <3>6. LocalInv'
      BY <3>2, <3>3, <3>4
    <3>7. \A u \in Threads : \A i \in 1..Len(array'[u]) : array'[u][i] # None =>
            /\ i \in 1..Len(array[u]) /\ array'[u][i] = array[u][i]
            /\ array'[u][i] \in live'
      BY <3>3, <3>4
    <3>8. ArrayInv'
      BY <3>7, KeptObjects
    <3>9. \A u \in Threads : \A i \in 1..Len(array[u]) :
            i \in 1..Len(array'[u]) /\ array'[u][i] = array[u][i]
      BY <3>2, <3>3, <3>4
    <3>10. LiveInv'
      <4> SUFFICES ASSUME NEW a \in live
                   PROVE  \E u \in Threads : \E i \in 1..Len(array'[u]) : array'[u][i] = a
        OBVIOUS
      <4>1. PICK u \in Threads : \E i \in 1..Len(array[u]) : array[u][i] = a
        OBVIOUS
      <4>2. PICK i \in 1..Len(array[u]) : array[u][i] = a
        BY <4>1
      <4>3. i \in 1..Len(array'[u]) /\ array'[u][i] = a
        BY <3>9, <4>2
      <4>4. QED
        BY <4>3
    <3>11. QED
      BY <3>5, <3>6, <3>8, <3>10
  <2>3. QED
    BY <2>1, <2>2
<1>2. CASE emutls_allocate_object(t)
  <2>1. PICK a \in Addresses \ live :
          /\ array' = [array EXCEPT ![t][local[t]] = a]
          /\ live' = live \cup {a}
          /\ answer' = [answer EXCEPT ![t] = a]
    BY <1>2 DEF emutls_allocate_object
  <2>2. /\ pc[t] = "object" /\ pc' = [pc EXCEPT ![t] = "idle"] /\ array[t][local[t]] = None
        /\ UNCHANGED <<control, local, once, mutex, num_object, index, rounds>>
    BY <1>2 DEF emutls_allocate_object
  <2>3. local[t] \in 1..Len(array[t]) /\ local[t] <= num_object
    BY <2>2
  <2>4. array[t] \in Seq(Addresses \cup {None}) /\ a \in Addresses \cup {None}
    OBVIOUS
  <2>5. /\ [array[t] EXCEPT ![local[t]] = a] \in Seq(Addresses \cup {None})
        /\ Len([array[t] EXCEPT ![local[t]] = a]) = Len(array[t])
    BY <2>3, <2>4, ExceptSeq
  <2>6. /\ array' \in [Threads -> Seq(Addresses \cup {None})]
        /\ \A u \in Threads : Len(array'[u]) = Len(array[u])
    BY <2>1, <2>5
  <2>7. \A u \in Threads : \A i \in 1..Len(array[u]) :
          array'[u][i] = IF u = t /\ i = local[t] THEN a ELSE array[u][i]
    BY <2>1, <2>3
  <2>8. TypeOK' /\ MutexInv' /\ IndexInv' /\ LocalInv'
    BY <2>1, <2>2, <2>6
  <2>9. ArrayInv'
    BY <2>1, <2>2, <2>3, <2>6, <2>7
  <2>10. LiveInv'
    <3> SUFFICES ASSUME NEW b \in live'
                 PROVE  \E u \in Threads : \E i \in 1..Len(array'[u]) : array'[u][i] = b
      OBVIOUS
    <3>1. CASE b = a
      BY <2>3, <2>6, <2>7, <3>1
    <3>2. CASE b \in live
      <4>1. PICK u \in Threads : \E i \in 1..Len(array[u]) : array[u][i] = b
        BY <3>2
      <4>2. PICK i \in 1..Len(array[u]) : array[u][i] = b
        BY <4>1
      <4>3. i \in 1..Len(array'[u]) /\ array'[u][i] = b
        BY <2>2, <2>6, <2>7, <3>2, <4>2
      <4>4. QED
        BY <4>3
    <3>3. QED
      BY <2>1, <3>1, <3>2
  <2>11. QED
    BY <2>8, <2>9, <2>10
<1>3. CASE ReturnAddress(t)
  <2>1. local[t] \in 1..Len(array[t]) /\ array[t] \in Seq(Addresses \cup {None})
    BY <1>3 DEF ReturnAddress
  <2>2. array[t][local[t]] \in Addresses \cup {None}
    BY <2>1, ElementOfSeq
  <2>3. QED
    BY <1>3, <2>2 DEF ReturnAddress
<1>4. CASE emutls_key_destructor(t)
  <2>1. CASE array[t] # << >> /\ rounds[t] > 0
    <3>1. /\ rounds' = [rounds EXCEPT ![t] = @ - 1]
          /\ UNCHANGED <<pc, control, local, once, mutex, num_object, index, array, live, answer>>
      BY <1>4, <2>1 DEF emutls_key_destructor
    <3>2. rounds' \in [Threads -> Nat]
      BY <2>1, <3>1
    <3>3. QED
      BY <3>1, <3>2
  <2>2. CASE ~(array[t] # << >> /\ rounds[t] > 0)
    <3>1. /\ pc[t] = "ending" /\ pc' = [pc EXCEPT ![t] = "none"]
          /\ live' = live \ emutls_shutdown(array[t])
          /\ array' = [array EXCEPT ![t] = << >>]
          /\ answer' = [answer EXCEPT ![t] = None]
          /\ UNCHANGED <<control, local, once, mutex, num_object, index, rounds>>
      BY <1>4, <2>2 DEF emutls_key_destructor
    <3>2. << >> \in Seq(Addresses \cup {None}) /\ Len(<< >>) = 0
      BY EmptySeq
    <3>3. TypeOK' /\ MutexInv' /\ IndexInv' /\ LocalInv'
      BY <3>1, <3>2
    <3>4. \A a : a \in emutls_shutdown(array[t]) <=>
            a # None /\ \E i \in 1..Len(array[t]) : array[t][i] = a
      BY DEF emutls_shutdown
    <3>5. \A u \in Threads : \A i \in 1..Len(array'[u]) :
            u # t /\ i \in 1..Len(array[u]) /\ array'[u] = array[u]
      BY <3>1, <3>2
    <3>6. ArrayInv'
      <4>1. ASSUME NEW u \in Threads, NEW i \in 1..Len(array'[u]), array'[u][i] # None
            PROVE  /\ i \in 1..Len(array[u]) /\ array'[u][i] = array[u][i]
                   /\ array'[u][i] \in live'
        <5>1. u # t /\ i \in 1..Len(array[u]) /\ array'[u][i] = array[u][i]
          BY <3>5
        <5>2. array[u][i] \in live /\ array[u][i] \notin emutls_shutdown(array[t])
          BY <4>1, <5>1, NotShutDown
        <5>3. QED
          BY <3>1, <5>1, <5>2
      <4>2. QED
        BY <3>1, <4>1, KeptObjects
    <3>7. LiveInv'
      <4> SUFFICES ASSUME NEW a \in live'
                   PROVE  \E u \in Threads : \E i \in 1..Len(array'[u]) : array'[u][i] = a
        OBVIOUS
      <4>1. PICK u \in Threads : \E i \in 1..Len(array[u]) : array[u][i] = a
        BY <3>1
      <4>2. a # None
        BY <3>1
      <4>3. u # t
        BY <3>1, <3>4, <4>1, <4>2
      <4>4. QED
        BY <3>1, <4>1, <4>3
    <3>8. QED
      BY <3>3, <3>6, <3>7
  <2>3. QED
    BY <2>1, <2>2
<1>5. QED
  BY <1>1, <1>2, <1>3, <1>4

LEMMA NextIInv == IInv /\ [Next]_vars => IInv'
<1> SUFFICES ASSUME IInv, [Next]_vars PROVE IInv'
  OBVIOUS
<1>1. CASE Next
  BY <1>1, IndexSideIInv, ArraySideIInv DEF Next, Step
<1>2. CASE UNCHANGED vars
  BY <1>2 DEF vars, IInv, TypeOK, MutexInv, LocalInv, IndexInv, ArrayInv, LiveInv
<1>3. QED
  BY <1>1, <1>2

LEMMA AlwaysIInv == Spec => []IInv
  BY InitIInv, NextIInv, PTL DEF Spec

-----------------------------------------------------------------------------
\* What is allocated is in the array of a thread that has not ended
\* (emutls.c:100-115, 260-268), whatever the number of threads and variables.
THEOREM FreedAtTheEnd == Spec => []NothingLeaked
<1>1. IInv => NothingLeaked
  <2> SUFFICES ASSUME IInv PROVE NothingLeaked
    OBVIOUS
  <2> DEFINE there == UNION {emutls_shutdown(array[t]) : t \in {u \in Threads : pc[u] /= "none"}}
  <2>1. ASSUME NEW a \in live PROVE a \in there
    <3>1. PICK t \in Threads : \E i \in 1..Len(array[t]) : array[t][i] = a
      BY DEF IInv, LiveInv
    <3>2. a # None
      BY EmutlsAssumption DEF IInv, TypeOK
    <3>3. pc[t] # "none"
      BY <3>1 DEF IInv, LocalInv
    <3>4. a \in emutls_shutdown(array[t])
      BY <3>1, <3>2 DEF emutls_shutdown
    <3>5. QED
      BY <3>3, <3>4
  <2>2. ASSUME NEW a \in there PROVE a \in live
    <3>1. PICK t \in Threads : a \in emutls_shutdown(array[t])
      BY <2>2
    <3>2. QED
      BY <3>1 DEF IInv, ArrayInv, emutls_shutdown
  <2>3. live = there
    BY <2>1, <2>2
  <2>4. QED
    BY <2>3 DEF NothingLeaked
<1>2. QED
  BY <1>1, AlwaysIInv, PTL

-----------------------------------------------------------------------------
\* The object of a thread and a variable, and what Tls sees of it.
Seen == [t \in Threads |-> [v \in Variables |-> ObjectOf(t, v)]]

\* Only objects that were allocated are seen.
LEMMA SeenLive ==
  ASSUME IInv, NEW t \in Threads, NEW v \in Variables
  PROVE  ObjectOf(t, v) \in live \cup {None}
  BY DEF IInv, ArrayInv, ObjectOf

\* A step that changes neither the objects nor the answer is a stutter.
LEMMA Stutters ==
  ASSUME IInv,
         \A t \in Threads : \A v \in Variables : ObjectOf(t, v)' = ObjectOf(t, v),
         answer' = answer
  PROVE  UNCHANGED Tls!vars
  BY DEF Tls!vars

\* Steps that leave the arrays and the indices alone.
LEMMA UnchangedSeen ==
  ASSUME UNCHANGED <<index, array>>, NEW t \in Threads, NEW v \in Variables
  PROVE  ObjectOf(t, v)' = ObjectOf(t, v)
  BY DEF ObjectOf

LEMMA RefinesStep ==
  ASSUME IInv, IInv', NEW t \in Threads, Step(t) \/ User(t)
  PROVE  [Tls!Next]_(Tls!vars)
<1>1. CASE UNCHANGED <<index, array, answer>>
  BY <1>1, UnchangedSeen, Stutters
<1>2. CASE LoadIndex(t) \/ emutls_init_once(t) \/ emutls_lock(t) \/ Reread(t) \/ emutls_unlock(t)
           \/ OutOfMemory(t) \/ User(t)
  BY <1>1, <1>2 DEF LoadIndex, emutls_init_once, emutls_lock, Reread, emutls_unlock, OutOfMemory,
     User, Begin, End, GetAddress
\* Nobody has an object at an index that was not given yet.
<1>3. CASE Assign(t)
  <2>1. /\ index' = [index EXCEPT ![control[t]] = num_object + 1]
        /\ UNCHANGED <<array, answer>> /\ pc[t] = "assign"
    BY <1>3 DEF Assign, Goto
  <2>2. ASSUME NEW u \in Threads, NEW v \in Variables PROVE ObjectOf(u, v)' = ObjectOf(u, v)
    <3>1. CASE v # control[t]
      BY <2>1, <3>1 DEF ObjectOf, IInv, TypeOK
    <3>2. CASE v = control[t]
      <4>1. index[v] = 0 /\ index'[v] = num_object + 1 /\ num_object \in Nat
        BY <2>1, <3>2 DEF IInv, TypeOK, LocalInv
      <4>2. ObjectOf(u, v) = None
        BY <4>1 DEF ObjectOf
      <4>3. num_object + 1 \in 1..Len(array[u]) => array[u][num_object + 1] = None
        BY <4>1 DEF IInv, ArrayInv
      <4>4. QED
        BY <2>1, <4>1, <4>2, <4>3 DEF ObjectOf
    <3>3. QED
      BY <3>1, <3>2
  <2>3. QED
    BY <2>1, <2>2, Stutters
\* Growing keeps the objects.
<1>4. CASE emutls_get_address_array(t)
  <2>1. UNCHANGED <<index, answer>> /\ pc[t] = "array"
    BY <1>4 DEF emutls_get_address_array, Goto
  <2>2. CASE local[t] <= Len(array[t])
    BY <1>1, <1>4, <2>1, <2>2 DEF emutls_get_address_array
  <2>3. CASE ~(local[t] <= Len(array[t]))
    <3> DEFINE size == emutls_new_data_array_size(local[t])
               new  == Resized(array[t], size)
    <3>1. local[t] \in Nat \ {0} /\ array[t] \in Seq(Addresses \cup {None})
      BY <2>1 DEF IInv, TypeOK, LocalInv
    <3>2. size \in Nat /\ size > Len(array[t])
      BY <2>3, <3>1, SizeFits
    <3>3. /\ Len(new) = size
          /\ \A i \in 1..Len(array[t]) : new[i] = array[t][i]
          /\ \A i \in 1..size : i > Len(array[t]) => new[i] = None
      BY <3>1, <3>2, ResizedKeeps
    <3>4. array' = [array EXCEPT ![t] = new]
      BY <1>4, <2>3 DEF emutls_get_address_array
    <3>5. array \in [Threads -> Seq(Addresses \cup {None})] /\ index \in [Variables -> Nat]
      BY DEF IInv, TypeOK
    <3> HIDE DEF size, new
    <3>6. ASSUME NEW u \in Threads, NEW v \in Variables PROVE ObjectOf(u, v)' = ObjectOf(u, v)
      BY <2>1, <3>1, <3>2, <3>3, <3>4, <3>5 DEF ObjectOf
    <3>7. QED
      BY <2>1, <3>6, Stutters
  <2>4. QED
    BY <2>2, <2>3
<1>5. CASE emutls_allocate_object(t)
  <2>1. PICK a \in Addresses \ live :
          /\ array' = [array EXCEPT ![t][local[t]] = a]
          /\ answer' = [answer EXCEPT ![t] = a]
    BY <1>5 DEF emutls_allocate_object
  <2>2. /\ pc[t] = "object" /\ array[t][local[t]] = None /\ index' = index
    BY <1>5 DEF emutls_allocate_object, Goto
  <2>3. /\ local[t] = index[control[t]] /\ local[t] \in 1..Len(array[t]) /\ control[t] \in Variables
    BY <2>2 DEF IInv, TypeOK, LocalInv
  <2>4. ObjectOf(t, control[t]) = None
    BY <2>2, <2>3 DEF ObjectOf
  <2>5. a \notin Tls!InUse
    BY SeenLive, EmutlsAssumption DEF Tls!InUse
  <2>6. ASSUME NEW u \in Threads, NEW v \in Variables
        PROVE  ObjectOf(u, v)' = IF u = t /\ v = control[t] THEN a ELSE ObjectOf(u, v)
    <3>1. array[t] \in Seq(Addresses \cup {None}) /\ array \in [Threads -> Seq(Addresses \cup {None})]
      BY DEF IInv, TypeOK
    <3>2. Len(array'[u]) = Len(array[u])
      <4>1. CASE u = t
        BY <2>1, <2>3, <3>1, <4>1, ExceptSeq
      <4>2. QED
        BY <2>1, <3>1, <4>1
    <3>3. \A i \in 1..Len(array[u]) : array'[u][i] = IF u = t /\ i = local[t] THEN a ELSE array[u][i]
      BY <2>1, <2>3, <3>1
    <3>4. index[v] \in 1..Len(array[u]) => (index[v] = local[t] <=> v = control[t])
      BY <2>3 DEF IInv, IndexInv
    <3>5. QED
      BY <2>2, <2>3, <3>2, <3>3, <3>4 DEF ObjectOf
  <2>7. Seen' = [Seen EXCEPT ![t][control[t]] = a]
    BY <2>3, <2>6 DEF Seen
  <2>8. Tls!GetAddress(t, control[t])
    BY <2>1, <2>3, <2>4, <2>5, <2>7 DEF Tls!GetAddress, Seen
  <2>9. QED
    BY <2>3, <2>8 DEF Tls!Next
<1>6. CASE ReturnAddress(t)
  <2>1. /\ pc[t] = "object" /\ array[t][local[t]] # None
        /\ answer' = [answer EXCEPT ![t] = array[t][local[t]]] /\ UNCHANGED <<index, array>>
    BY <1>6 DEF ReturnAddress, Goto
  <2>2. /\ local[t] = index[control[t]] /\ local[t] \in 1..Len(array[t]) /\ control[t] \in Variables
    BY <2>1 DEF IInv, TypeOK, LocalInv
  <2> DEFINE a == array[t][local[t]]
  <2>3. ObjectOf(t, control[t]) = a /\ a \in Addresses
    BY <2>1, <2>2 DEF ObjectOf, IInv, TypeOK, ArrayInv
  <2>4. Seen' = Seen
    BY <2>1, UnchangedSeen DEF Seen
  <2>5. Seen' = [Seen EXCEPT ![t][control[t]] = a]
    BY <2>2, <2>3, <2>4 DEF Seen
  <2>6. Tls!GetAddress(t, control[t])
    BY <2>1, <2>2, <2>3, <2>5 DEF Tls!GetAddress, Seen
  <2>7. QED
    BY <2>2, <2>6 DEF Tls!Next
<1>7. CASE emutls_key_destructor(t)
  <2>1. CASE array[t] # << >> /\ rounds[t] > 0
    BY <1>1, <1>7, <2>1 DEF emutls_key_destructor
  <2>2. CASE ~(array[t] # << >> /\ rounds[t] > 0)
    <3>1. /\ array' = [array EXCEPT ![t] = << >>] /\ index' = index
          /\ answer' = [answer EXCEPT ![t] = None]
      BY <1>7, <2>2 DEF emutls_key_destructor
    <3>2. Len(<< >>) = 0
      BY EmptySeq
    <3>3. array \in [Threads -> Seq(Addresses \cup {None})]
      BY DEF IInv, TypeOK
    <3>4. ASSUME NEW u \in Threads, NEW v \in Variables
          PROVE  ObjectOf(u, v)' = IF u = t THEN None ELSE ObjectOf(u, v)
      BY <3>1, <3>2, <3>3 DEF ObjectOf
    <3>5. Seen' = [Seen EXCEPT ![t] = [v \in Variables |-> None]]
      BY <3>4 DEF Seen
    <3>6. Tls!End(t)
      BY <3>1, <3>5 DEF Tls!End, Seen
    <3>7. QED
      BY <3>6 DEF Tls!Next
  <2>3. QED
    BY <2>1, <2>2
<1>8. QED
  BY <1>2, <1>3, <1>4, <1>5, <1>6, <1>7 DEF Step

\* Emulated thread local storage implements thread local variables
\* (emutls.c:312-400): every thread keeps its own object for each variable.
THEOREM EmutlsImplementsTls == Spec => ImplementsTls
<1>1. Init => Tls!Init
  BY EmptySeq DEF Init, Tls!Init, ObjectOf
<1>2. IInv /\ IInv' /\ [Next]_vars => [Tls!Next]_(Tls!vars)
  <2> SUFFICES ASSUME IInv, IInv', [Next]_vars PROVE [Tls!Next]_(Tls!vars)
    OBVIOUS
  <2>1. CASE Next
    BY <2>1, RefinesStep DEF Next
  <2>2. CASE UNCHANGED vars
    BY <2>2, UnchangedSeen, Stutters DEF vars
  <2>3. QED
    BY <2>1, <2>2
<1>3. QED
  BY <1>1, <1>2, AlwaysIInv, PTL DEF Spec, ImplementsTls, Tls!Spec
=============================================================================
