---------------------------- MODULE ThreadLocals ----------------------------
(***************************************************************************)
(* What thread local variables promise: a thread that asks for a variable   *)
(* gets an object of its own, and the same one as long as it runs.          *)
(***************************************************************************)
CONSTANTS Threads, Variables, Addresses, None

VARIABLES object,   \* the object of each thread and variable
          answer    \* the address a thread was given last

vars == <<object, answer>>

Init ==
  /\ object = [t \in Threads |-> [v \in Variables |-> None]]
  /\ answer = [t \in Threads |-> None]

InUse == {object[t][v] : t \in Threads, v \in Variables}

GetAddress(t, v) ==
  \E a \in Addresses :
    /\ object[t][v] = a \/ (object[t][v] = None /\ a \notin InUse)
    /\ object' = [object EXCEPT ![t][v] = a]
    /\ answer' = [answer EXCEPT ![t] = a]

End(t) ==
  /\ object' = [object EXCEPT ![t] = [v \in Variables |-> None]]
  /\ answer' = [answer EXCEPT ![t] = None]

Next == \E t \in Threads : End(t) \/ \E v \in Variables : GetAddress(t, v)

Spec == Init /\ [][Next]_vars
=============================================================================
