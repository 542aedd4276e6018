----------------------------- MODULE MCMapLoop -----------------------------
(* Maps and sets for TLC: a map of numbers with loops over it, and a set   *)
(* of twelve strings, the fewest for which a deletion rotates twice.       *)
EXTENDS MapLoop

\* Ascending, descending and mixed orders of insertion.
SomeLiterals == {<<1, 2, 3, 4>>, <<4, 3, 2, 1>>, <<3, 1, 2>>, <<2, 1, 3>>}

NumberMap == [keys |-> 1..4, numeric |-> TRUE, value |-> "number", loops |-> TRUE]
StringSet == [keys |-> 1..12, numeric |-> FALSE, value |-> "none", loops |-> FALSE]
BothTypes == {NumberMap, StringSet}

\* The types of the two insertions that go wrong (README).
NumberSets    == {[keys |-> 1..3, numeric |-> TRUE, value |-> "none", loops |-> FALSE]}
Dictionaries == {[keys |-> 1..4, numeric |-> FALSE, value |-> "string", loops |-> TRUE]}
=============================================================================
