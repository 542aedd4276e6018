----------------------------- MODULE MCForLoop -----------------------------
(* Loops over small number types.                                          *)
EXTENDS ForLoop

\* An unsigned and a signed type of three bits, and reals in quarters.
SmallTypes == {[min |-> 0, max |-> 7, one |-> 1], [min |-> -4, max |-> 3, one |-> 1],
               [min |-> -6, max |-> 14, one |-> 4]}
=============================================================================
