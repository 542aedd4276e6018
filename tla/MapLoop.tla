------------------------------ MODULE MapLoop ------------------------------
(***************************************************************************)
(* A `for` loop over a map or set whose body goes on using the map: the    *)
(* loop keeps a pointer to the current node, and asks for the next one     *)
(* after the body.                                                         *)
(* Source: PrepareIterator, CreateCondition, Iterate and codegen_raw in    *)
(* src/codegen.cc, the iterator methods of struct __map.                   *)
(*                                                                         *)
(* Left out: a body that deletes the element it was given. The loop then   *)
(* goes on from freed memory.                                              *)
(***************************************************************************)
EXTENDS VolvoxMap

VARIABLES
  loop,      \* "out", "cond" or "body"
  side,      \* the child the loop goes to next: "left" for `~in`
  CurIter,   \* the node of the current element
  due,       \* keys in the map since the loop began and not yet visited
  odd        \* whether the number of operations on the map so far is odd; only
             \* counted for the types of small maps, those with loops

loopVars == <<loop, side, CurIter, due>>
allVars  == <<vars, loopVars, odd>>

LoopInit ==
  /\ Init
  /\ loop = "out"
  /\ side = "right"
  /\ CurIter = Nil
  /\ due = {}
  /\ odd = FALSE

\* __min_iterator and __max_iterator.
First(s) ==
  IF tree.root = Nil THEN Nil ELSE Extreme(tree, tree.root, Opp(s))

PrepareIterator(s) ==
  /\ loop = "out" /\ type.loops
  /\ loop' = "cond"
  /\ side' = s
  /\ CurIter' = First(s)
  /\ due' = Present
  /\ UNCHANGED <<vars, odd>>

\* The body gets the key and the value of a node, or the loop ends.
CreateCondition ==
  /\ loop = "cond"
  /\ \/ /\ CurIter # Nil
        /\ loop' = "body"
        /\ due' = due \ {KeyOf(CurIter)}
     \/ /\ CurIter = Nil
        /\ loop' = "out"
        /\ UNCHANGED due
  /\ UNCHANGED <<vars, side, CurIter, odd>>

\* Mutant: the next node is that of the other direction.
NextNodeDown ==
  /\ loop = "body"
  /\ loop' = "cond"
  /\ CurIter' = Iterate(tree, CurIter, "left")
  /\ UNCHANGED <<vars, side, due, odd>>

\* __iter_up and __iter_down at the end of the body.
NextNode ==
  /\ loop = "body"
  /\ loop' = "cond"
  /\ CurIter' = Iterate(tree, CurIter, side)
  /\ UNCHANGED <<vars, side, due, odd>>

Brk ==
  /\ loop = "body"
  /\ loop' = "out"
  /\ due' = {}
  /\ UNCHANGED <<vars, side, CurIter, odd>>

\* The body assigns, inserts or deletes elements.
Body ==
  /\ loop = "body"
  /\ \/ \E k \in type.keys, v \in Values : Assign(k, v)
     \/ \E k \in type.keys : InsertKey(k)
     \/ \E k \in type.keys \ {KeyOf(CurIter)} : DeleteKey(k)
  /\ due' = due \cap Present'
  /\ odd' = ~odd
  /\ UNCHANGED <<type, loop, side, CurIter>>

Outside == loop = "out" /\ Next /\ odd' = (type.loops # odd) /\ UNCHANGED loopVars

LoopNext ==
  \/ Outside
  \/ \E s \in {"left", "right"} : PrepareIterator(s)
  \/ CreateCondition
  \/ Body
  \/ NextNode
  \/ Brk

LoopSpec == LoopInit /\ [][LoopNext]_allVars

-----------------------------------------------------------------------------
(* Properties.                                                             *)

\* Seen through find, every operation does what the same operation of the
\* promised map does: m[k] = v inserts or replaces, insert and delete return
\* whether anything changed, and the count is exact. `odd` makes an operation
\* that wrongly changes nothing a step, too.
ImplementsMap == Abstract!Init /\ [][odd' # odd => OperationsMatch]_allVars

\* The node a loop stands on stays part of the map whatever the body does to
\* the other elements: rotations and the replacement of a deleted node by its
\* neighbour change links, never what a node holds.
IteratorLive == loop = "body" => CurIter \in Linked

\* "iterate over map - keys will be sorted" (doc/Specification.md): each key
\* comes after the one before, in the direction of the loop, so none comes
\* twice, and a loop that is not left early has visited every element that was
\* in the map all the time, although the body inserted and deleted others and
\* the tree was balanced anew under it.
VisitsInOrder ==
  [][/\ loop = "body" /\ loop' = "cond" /\ CurIter' # Nil =>
          IF side = "right" THEN KeyOf(CurIter) < KeyOf(CurIter')
          ELSE KeyOf(CurIter) > KeyOf(CurIter')
     /\ loop = "cond" /\ loop' = "out" => due = {}]_allVars
=============================================================================
