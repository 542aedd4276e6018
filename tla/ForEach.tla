------------------------------ MODULE ForEach ------------------------------
(***************************************************************************)
(* What a `for` loop promises: its body is given one element after the     *)
(* other, and its else part runs only if there was none.                   *)
(***************************************************************************)
EXTENDS Sequences

VARIABLES todo,    \* the elements still to come
          now,     \* <<e>> while the body is given e, else empty
          fresh,   \* no body has run
          result   \* "running", "done" or "else"

vars == <<todo, now, fresh, result>>

Init == now = <<>> /\ fresh = TRUE /\ result = "running"

Visit ==
  /\ result = "running" /\ now = <<>> /\ todo # <<>>
  /\ now' = <<Head(todo)>>
  /\ todo' = Tail(todo)
  /\ fresh' = FALSE
  /\ UNCHANGED result

BodyEnds == now # <<>> /\ now' = <<>> /\ UNCHANGED <<todo, fresh, result>>

Brk == now # <<>> /\ now' = <<>> /\ result' = "done" /\ UNCHANGED <<todo, fresh>>

Finish ==
  /\ result = "running" /\ now = <<>> /\ todo = <<>>
  /\ result' = IF fresh THEN "else" ELSE "done"
  /\ UNCHANGED <<todo, now, fresh>>

Next == Visit \/ BodyEnds \/ Brk \/ Finish

\* What is given, in which order; Spec adds that the loop goes on to its end.
Safety == Init /\ [][Next]_vars

Spec == Safety /\ WF_vars(Visit \/ BodyEnds \/ Finish)
=============================================================================
