----------------------------- MODULE MCSession -----------------------------
(* A session with a few declarations of two variables.                   *)
EXTENDS Session

MCReturns == {5}
Decl(name, global, constexpr, rhs, ctor, usable, dtor) ==
  [name |-> name, global |-> global, constexpr |-> constexpr, rhs |-> rhs,
   ctor |-> ctor, usable |-> usable, dtor |-> dtor]
MCDeclarations ==
  {Decl("g", TRUE, TRUE, "struct", TRUE, TRUE, TRUE),
   Decl("g", TRUE, TRUE, "struct", TRUE, FALSE, TRUE),
   Decl("h", TRUE, FALSE, "copy", TRUE, TRUE, TRUE),
   Decl("h", FALSE, FALSE, "call", TRUE, TRUE, TRUE),
   Decl("h", TRUE, TRUE, "struct", FALSE, FALSE, FALSE)}
=============================================================================
