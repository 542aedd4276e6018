----------------------------- MODULE MCBranchFlow -----------------------------
(***************************************************************************)
(* Functions of a few declarations, branches and brks. The names are only   *)
(* compared with each other, so they are interchangeable; a family of one   *)
(* name is there for each.                                                  *)
(***************************************************************************)
EXTENDS BranchFlow, TLC

NameSymmetry == Permutations(Names)

Ifs == [kinds |-> {"if"}, elif |-> TRUE, return |-> TRUE, names |-> Names,
        brk |-> 1, tokens |-> 6]

WithLoops(name) ==
  [kinds |-> Kinds, elif |-> TRUE, return |-> FALSE, names |-> {name},
   brk |-> 2, tokens |-> 4]

AllFamilies == {Ifs} \cup {WithLoops(name) : name \in Names}

\* The smallest functions that destroy an object of a loop's body twice.
SmallLoops ==
  {[kinds |-> {"if", "while"}, elif |-> FALSE, return |-> FALSE,
    names |-> {name}, brk |-> 1, tokens |-> 3] : name \in Names}
=============================================================================
