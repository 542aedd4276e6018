------------------------------- MODULE Emutls -------------------------------
(***************************************************************************)
(* Emulated thread local storage (clib/emutls.c), which is linked into      *)
(* programs where the system has no other. Each variable gets an index when *)
(* a thread first asks for it, each thread an array of objects that grows   *)
(* with the indices and is freed when the thread ends.                      *)
(*                                                                         *)
(* An array is a sequence of addresses, the empty one stands for a thread   *)
(* that has none; None is an object that was not allocated.                 *)
(***************************************************************************)
EXTENDS Integers, Sequences

CONSTANTS
  Threads,
  Variables,    \* the __emutls_control objects
  Addresses,    \* what the allocator may return
  None,         \* the null pointer
  Nobody,       \* no owner of the mutex
  Multiple,     \* arrays have a multiple of this many words (16),
  Header,       \* of which these come before the data (2)
  SkipRounds    \* EMUTLS_SKIP_DESTRUCTOR_ROUNDS

ASSUME EmutlsAssumption ==
  /\ None \notin Addresses /\ Nobody \notin Threads
  /\ Multiple \in Nat \ {0} /\ Header \in Nat /\ SkipRounds \in Nat

VARIABLES
  pc,           \* where each thread is in __emutls_get_address
  control,      \* the variable it asks for
  local,        \* its local `index`
  once,         \* emutls_init has run
  mutex,        \* the owner of emutls_mutex
  num_object,   \* emutls_num_object
  index,        \* object.index of each variable, 0 if it has none
  array,        \* the value of the key in each thread
  rounds,       \* skip_destructor_rounds of each array
  live,         \* the objects allocated and not freed
  answer        \* the address __emutls_get_address returned last

vars == <<pc, control, local, once, mutex, num_object, index, array, rounds, live, answer>>

Locked == {"reread", "assign", "unlock"}
Steps  == {"load", "init", "lock", "array", "object"} \cup Locked

TypeOK ==
  /\ pc \in [Threads -> {"none", "idle", "ending"} \cup Steps]
  /\ control \in [Threads -> Variables]
  /\ local \in [Threads -> Nat]
  /\ once \in BOOLEAN
  /\ mutex \in Threads \cup {Nobody}
  /\ num_object \in Nat
  /\ index \in [Variables -> Nat]
  /\ array \in [Threads -> Seq(Addresses \cup {None})]
  /\ rounds \in [Threads -> Nat]
  /\ live \subseteq Addresses
  /\ answer \in [Threads -> Addresses \cup {None}]

Init ==
  /\ pc = [t \in Threads |-> "none"]
  /\ control \in [Threads -> Variables]
  /\ local = [t \in Threads |-> 0]
  /\ once = FALSE
  /\ mutex = Nobody
  /\ num_object = 0
  /\ index = [v \in Variables |-> 0]
  /\ array = [t \in Threads |-> << >>]
  /\ rounds = [t \in Threads |-> 0]
  /\ live = {}
  /\ answer = [t \in Threads |-> None]

Goto(t, from, to) == pc[t] = from /\ pc' = [pc EXCEPT ![t] = to]

(***************************************************************************)
(* The index of a variable. It is read twice: without the mutex, and again  *)
(* with it.                                                                *)
(***************************************************************************)
LoadIndex(t) ==
  /\ Goto(t, "load", IF index[control[t]] = 0 THEN "init" ELSE "array")
  /\ local' = [local EXCEPT ![t] = index[control[t]]]
  /\ UNCHANGED <<control, once, mutex, num_object, index, array, rounds, live, answer>>

\* As if the index were looked for again, instead of given.
InitAndRetry(t) ==
  /\ Goto(t, "init", "load")
  /\ once' = TRUE
  /\ UNCHANGED <<control, local, mutex, num_object, index, array, rounds, live, answer>>

emutls_init_once(t) ==
  /\ Goto(t, "init", "lock")
  /\ once' = TRUE
  /\ UNCHANGED <<control, local, mutex, num_object, index, array, rounds, live, answer>>

emutls_lock(t) ==
  /\ Goto(t, "lock", "reread")
  /\ mutex = Nobody
  /\ mutex' = t
  /\ UNCHANGED <<control, local, once, num_object, index, array, rounds, live, answer>>

\* As if the index were not read again.
RereadNothing(t) ==
  /\ Goto(t, "reread", "assign")
  /\ UNCHANGED <<control, local, once, mutex, num_object, index, array, rounds, live, answer>>

Reread(t) ==
  /\ Goto(t, "reread", IF index[control[t]] = 0 THEN "assign" ELSE "unlock")
  /\ local' = [local EXCEPT ![t] = index[control[t]]]
  /\ UNCHANGED <<control, once, mutex, num_object, index, array, rounds, live, answer>>

Assign(t) ==
  /\ Goto(t, "assign", "unlock")
  /\ num_object' = num_object + 1
  /\ local' = [local EXCEPT ![t] = num_object + 1]
  /\ index' = [index EXCEPT ![control[t]] = num_object + 1]
  /\ UNCHANGED <<control, once, mutex, array, rounds, live, answer>>

emutls_unlock(t) ==
  /\ Goto(t, "unlock", "array")
  /\ mutex' = Nobody
  /\ UNCHANGED <<control, local, once, num_object, index, array, rounds, live, answer>>

(***************************************************************************)
(* The array of a thread, and the object in it.                            *)
(***************************************************************************)
emutls_new_data_array_size(i) == ((i + Header + Multiple - 1) \div Multiple) * Multiple - Header

\* What was there stays, the rest is set to null.
Resized(data, size) == [i \in 1..size |-> IF i <= Len(data) THEN data[i] ELSE None]

emutls_get_address_array(t) ==
  /\ Goto(t, "array", "object")
  /\ array' = IF local[t] <= Len(array[t]) THEN array
              ELSE [array EXCEPT ![t] = Resized(@, emutls_new_data_array_size(local[t]))]
  /\ rounds' = IF array[t] = << >> THEN [rounds EXCEPT ![t] = SkipRounds] ELSE rounds
  /\ UNCHANGED <<control, local, once, mutex, num_object, index, live, answer>>

emutls_allocate_object(t) ==
  /\ Goto(t, "object", "idle")
  /\ array[t][local[t]] = None
  /\ \E a \in Addresses \ live :
       /\ array' = [array EXCEPT ![t][local[t]] = a]
       /\ live' = live \cup {a}
       /\ answer' = [answer EXCEPT ![t] = a]
  /\ UNCHANGED <<control, local, once, mutex, num_object, index, rounds>>

ReturnAddress(t) ==
  /\ Goto(t, "object", "idle")
  /\ array[t][local[t]] /= None
  /\ answer' = [answer EXCEPT ![t] = array[t][local[t]]]
  /\ UNCHANGED <<control, local, once, mutex, num_object, index, array, rounds, live>>

\* Without memory the thread aborts. In a session that ends the thread; a
\* program ends as a whole, of which there is nothing more to say.
OutOfMemory(t) ==
  /\ pc[t] \in {"array", "object"}
  /\ pc' = [pc EXCEPT ![t] = "ending"]
  /\ UNCHANGED <<control, local, once, mutex, num_object, index, array, rounds, live, answer>>

(***************************************************************************)
(* Threads begin, ask for variables and end.                               *)
(***************************************************************************)
Begin(t) ==
  /\ Goto(t, "none", "idle")
  /\ UNCHANGED <<control, local, once, mutex, num_object, index, array, rounds, live, answer>>

GetAddress(t, v) ==
  /\ Goto(t, "idle", "load")
  /\ control' = [control EXCEPT ![t] = v]
  /\ UNCHANGED <<local, once, mutex, num_object, index, array, rounds, live, answer>>

End(t) ==
  /\ Goto(t, "idle", "ending")
  /\ UNCHANGED <<control, local, once, mutex, num_object, index, array, rounds, live, answer>>

\* As if the last object were forgotten.
ShutdownButLast(data) == {data[i] : i \in 1..Len(data) - 1} \ {None}

emutls_shutdown(data) == {data[i] : i \in 1..Len(data)} \ {None}

\* The destructor of the key is not called for a thread without an array.
emutls_key_destructor(t) ==
  /\ pc[t] = "ending"
  /\ IF array[t] /= << >> /\ rounds[t] > 0
     THEN /\ rounds' = [rounds EXCEPT ![t] = @ - 1]
          /\ UNCHANGED <<pc, array, live, answer>>
     ELSE /\ pc' = [pc EXCEPT ![t] = "none"]
          /\ live' = live \ emutls_shutdown(array[t])
          /\ array' = [array EXCEPT ![t] = << >>]
          /\ answer' = [answer EXCEPT ![t] = None]
          /\ UNCHANGED rounds
  /\ UNCHANGED <<control, local, once, mutex, num_object, index>>

Step(t) ==
  \/ LoadIndex(t) \/ emutls_init_once(t) \/ emutls_lock(t) \/ Reread(t) \/ Assign(t) \/ emutls_unlock(t)
  \/ emutls_get_address_array(t) \/ emutls_allocate_object(t) \/ ReturnAddress(t) \/ OutOfMemory(t)
  \/ emutls_key_destructor(t)

User(t) == Begin(t) \/ End(t) \/ \E v \in Variables : GetAddress(t, v)

Next == \E t \in Threads : Step(t) \/ User(t)

Spec == Init /\ [][Next]_vars

FairSpec == Spec /\ \A t \in Threads : WF_vars(Step(t))

(***************************************************************************)
(* Properties.                                                             *)
(***************************************************************************)
\* The object of a variable in a thread, for the refinement.
ObjectOf(t, v) == IF index[v] \in 1..Len(array[t]) THEN array[t][index[v]] ELSE None

Tls == INSTANCE ThreadLocals WITH object <- [t \in Threads |-> [v \in Variables |-> ObjectOf(t, v)]]

\* However threads race for the indices of variables, and whichever arrays grow
\* meanwhile, a thread gets the same object for a variable until it ends, and no
\* two threads or variables have the same one (emutls.c:312-400).
ImplementsTls == Tls!Spec

\* What is allocated is in the array of a thread that has not ended: a thread
\* that ends leaves nothing behind (emutls.c:100-115, 260-268).
NothingLeaked ==
  live = UNION {emutls_shutdown(array[t]) : t \in {u \in Threads : pc[u] /= "none"}}

\* A thread that asks for a variable gets it, or ends without memory: the mutex
\* is given back by whoever has it (emutls.c:311-325).
AddressReturns == \A t \in Threads : pc[t] = "load" ~> pc[t] \in {"idle", "ending"}
=============================================================================
