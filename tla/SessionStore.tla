---------------------------- MODULE SessionStore ----------------------------
(***************************************************************************)
(* What an interactive session promises about its global variables, with   *)
(* no threads and no copies: one store, which declarations extend and which *)
(* an expression reads at its start and has written back when it finishes.  *)
(* An expression that ends in another way may have written back any part.   *)
(***************************************************************************)
CONSTANTS Names, Values, NoValue

VARIABLES mode, store, working

vars == <<mode, store, working>>

Init ==
    /\ mode = "idle"
    /\ store = [v \in Names |-> NoValue]
    /\ working = store

Between == mode \in {"idle", "abandoned"}

\* A new variable, global or not; the expression of its initial value may assign
\* a global one.
Declare ==
    /\ Between
    /\ store' \in [Names -> Values \cup {NoValue}]
    /\ \E v, w \in Names :
          /\ store[v] = NoValue
          /\ w # v => store[w] # NoValue
          /\ \A u \in Names \ {v, w} : store'[u] = store[u]
    /\ working' = store'
    /\ UNCHANGED mode

Begin ==
    /\ Between
    /\ mode' = "busy"
    /\ working' = store
    /\ UNCHANGED store

Assign ==
    /\ mode = "busy"
    /\ \E v \in Names, x \in Values :
          working[v] # NoValue /\ working' = [working EXCEPT ![v] = x]
    /\ UNCHANGED <<mode, store>>

Save ==
    /\ mode = "busy"
    /\ mode' = "saving"
    /\ UNCHANGED <<store, working>>

SaveOne ==
    /\ mode = "saving"
    /\ \E v \in Names : store' = [store EXCEPT ![v] = working[v]]
    /\ UNCHANGED <<mode, working>>

Finish ==
    /\ mode = "saving"
    /\ store = working
    /\ mode' = "idle"
    /\ UNCHANGED <<store, working>>

Abandon ==
    /\ mode \in {"busy", "saving"}
    /\ mode' = "abandoned"
    /\ working' = store
    /\ UNCHANGED store

Next == Declare \/ Begin \/ Assign \/ Save \/ SaveOne \/ Finish \/ Abandon

Spec == Init /\ [][Next]_vars
=============================================================================
