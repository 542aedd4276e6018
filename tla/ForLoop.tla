------------------------------ MODULE ForLoop ------------------------------
(***************************************************************************)
(* The code of a `for` loop over a number, a range, an array or a vec:     *)
(* the control variable is compared with the last value before it is       *)
(* advanced, so that a loop may end at the largest value of its type.      *)
(* Source: ForExprAST in src/codegen.cc, ParseForExpr in src/parser.cc.    *)
(*                                                                         *)
(* A type is the range of its values and the unit 1 in it. Reals have a    *)
(* unit greater than 1; they neither wrap nor are rounded. An address is   *)
(* counted in elements from the first one. Left out: a body that assigns   *)
(* the control variable of a number loop or changes the vec, a `brk` that  *)
(* leaves several branches, a vec without memory, and the loops Sound      *)
(* names.                                                                  *)
(***************************************************************************)
EXTENDS Integers, Sequences, FiniteSets

CONSTANTS
  Types,    \* number types: [min, max, one]
  MaxSize   \* elements of an array or vec, at most

ASSUME TypesAssumption ==
  \A t \in Types : /\ {t.min, t.max} \subseteq Int
                   /\ t.min <= 0 /\ 0 < t.max
                   /\ t.one \in Nat \ {0}
ASSUME SizeAssumption == MaxSize \in Nat

VARIABLES
  loop,     \* the loop, as written
  pc,
  ctrl,     \* *ValueRef, or *ptr_storage of an array
  limit,    \* the last valid value
  Index,    \* *IndexStore
  val,      \* the element that was copied into the value variable
  copies,   \* constructed copies that are not destroyed
  ran       \* how many bodies were begun

vars == <<loop, pc, ctrl, limit, Index, val, copies, ran>>

Address == [min |-> -1, max |-> MaxSize, one |-> 1]

\* `in 5` counts from 0, as the addresses of an array do; `in 2..5` has both
\* ends. The value variable is declared by the loop, or a reference, or one
\* that exists.
NumberLoops ==
  UNION {[over : {"number", "range"}, type : {t}, low : t.min .. t.max,
          high : t.min .. t.max, descending : BOOLEAN,
          value : {"new"}, object : {FALSE}] : t \in Types}
ArrayLoops ==
  [over : {"array"}, type : {Address}, low : {0}, high : 0 .. MaxSize,
   descending : BOOLEAN, value : {"new", "existing", "reference"},
   object : BOOLEAN]

\* Loops that go wrong: n - 1 is computed before it is compared, an existing
\* variable does not get the element of an array of one and loses the objects
\* it is given, and the first object is copied although there is none.
Sound(l) ==
  /\ l.over = "number" /\ l.type.one = 1 => l.high > l.type.min
  /\ l.over = "array" /\ l.value = "existing" => l.high # 1 /\ ~l.object
  /\ l.over = "array" /\ l.value = "new" /\ l.object => l.high # 0

Loops == {l \in NumberLoops \cup ArrayLoops :
            Sound(l) /\ (l.over # "range" => l.low = 0)}

Init ==
  /\ loop \in Loops
  /\ pc = "prepare"
  /\ ctrl = 0 /\ limit = 0 /\ Index = 0 /\ val = -1 /\ copies = 0 /\ ran = 0

-----------------------------------------------------------------------------
\* Arithmetic in the type of the loop.
Wrap(x) ==
  LET size == loop.type.max - loop.type.min + 1
  IN IF loop.type.one > 1 THEN x
     ELSE IF x > loop.type.max THEN x - size
     ELSE IF x < loop.type.min THEN x + size ELSE x

\* step_half, 0 for integers.
Half == loop.type.one \div 2

Down == loop.descending

Upper == IF loop.over = "range" THEN loop.high ELSE Wrap(loop.high - loop.type.one)

\* The first element is copied before anything is compared, but into an
\* existing variable only if there is another one.
CopiesFirst(first, last) ==
  \/ loop.value = "new"
  \/ loop.value = "existing" /\ (IF Down THEN last < first ELSE first < last)

PrepareIterator ==
  /\ pc = "prepare"
  /\ pc' = "start"
  /\ ctrl'  = IF Down THEN Upper ELSE loop.low
  /\ limit' = IF Down THEN loop.low ELSE Upper
  /\ Index' = IF Down THEN loop.high - 1 ELSE 0
  /\ val'   = IF CopiesFirst(ctrl', limit') THEN ctrl' ELSE val
  /\ copies' = IF loop.object /\ loop.value = "new" THEN 1 ELSE 0
  /\ UNCHANGED <<loop, ran>>

\* Mutant: the comparison at the end allows equality, too.
CreateConditionAllowsLast(at_end) ==
  IF Down THEN ctrl >= limit ELSE ctrl <= limit

CreateCondition(at_end) ==
  IF at_end
  THEN IF Down THEN ctrl > limit + Half ELSE ctrl < limit - Half
  ELSE IF Down THEN ctrl >= limit ELSE ctrl <= limit

Enter ==
  /\ pc = "start"
  /\ \/ CreateCondition(FALSE)  /\ pc' = "body" /\ ran' = 1
     \/ ~CreateCondition(FALSE) /\ pc' = "else" /\ UNCHANGED ran
  /\ UNCHANGED <<loop, ctrl, limit, Index, val, copies>>

BodyEnds ==
  /\ pc = "body"
  /\ pc' = "end"
  /\ UNCHANGED <<loop, ctrl, limit, Index, val, copies, ran>>

\* Mutant: a brk leaves the copy behind.
BrkPastDestructor ==
  /\ pc = "body"
  /\ pc' = "over"
  /\ UNCHANGED <<loop, ctrl, limit, Index, val, copies, ran>>

Brk ==
  /\ pc = "body"
  /\ pc' = "merge"
  /\ UNCHANGED <<loop, ctrl, limit, Index, val, copies, ran>>

CompareAtEnd ==
  /\ pc = "end"
  /\ pc' = IF CreateCondition(TRUE) THEN "iterate" ELSE "merge"
  /\ UNCHANGED <<loop, ctrl, limit, Index, val, copies, ran>>

\* Mutant: the copy of the last element is not destroyed.
IterateKeepsCopy ==
  /\ pc = "iterate"
  /\ pc' = "body"
  /\ ctrl'  = Wrap(IF Down THEN ctrl - loop.type.one ELSE ctrl + loop.type.one)
  /\ Index' = IF Down THEN Index - 1 ELSE Index + 1
  /\ val'   = IF loop.value = "reference" THEN val ELSE ctrl'
  /\ copies' = copies + (IF loop.object /\ loop.value = "new" THEN 1 ELSE 0)
  /\ ran' = ran + 1
  /\ UNCHANGED <<loop, limit>>

\* The old copy is destroyed and the next element copied.
Iterate ==
  /\ pc = "iterate"
  /\ pc' = "body"
  /\ ctrl'  = Wrap(IF Down THEN ctrl - loop.type.one ELSE ctrl + loop.type.one)
  /\ Index' = IF Down THEN Index - 1 ELSE Index + 1
  /\ val'   = IF loop.value = "reference" THEN val ELSE ctrl'
  /\ ran' = ran + 1
  /\ UNCHANGED <<loop, limit, copies>>

Else ==
  /\ pc = "else"
  /\ pc' = "merge"
  /\ UNCHANGED <<loop, ctrl, limit, Index, val, copies, ran>>

\* deferred_val_destructor, behind the loop and its else part.
Merge ==
  /\ pc = "merge"
  /\ pc' = "over"
  /\ copies' = IF loop.object /\ loop.value = "new" THEN copies - 1 ELSE copies
  /\ UNCHANGED <<loop, ctrl, limit, Index, val, ran>>

Step ==
  \/ PrepareIterator
  \/ Enter
  \/ BodyEnds
  \/ CompareAtEnd
  \/ Iterate
  \/ Else
  \/ Merge

Next == Step \/ Brk

\* The body is taken to end.
Spec == Init /\ [][Next]_vars /\ WF_vars(Step)

-----------------------------------------------------------------------------
(* Properties.                                                             *)

\* A real may go beyond the ends that are in its type, a word may not.
Beyond == IF loop.type.one = 1 THEN 0 ELSE loop.type.one

TypeOK ==
  /\ loop \in Loops
  /\ pc \in {"prepare", "start", "body", "end", "iterate", "else", "merge", "over"}
  /\ {ctrl, limit} \subseteq loop.type.min - Beyond .. loop.type.max + Beyond
  /\ val \in Int
  /\ Index \in Int
  /\ copies \in {0, 1}
  /\ ran \in Nat

\* What the language promises: the numbers from one end to the other, in steps
\* of 1; for reals the last one is less than half a step beyond the end, and
\* there is none if the ends are in the wrong order. An element of an array
\* comes with its index.
Promised ==
  LET last  == IF loop.over = "range" THEN loop.high ELSE loop.high - loop.type.one
      first == IF Down THEN last ELSE loop.low
      far   == IF last < loop.low THEN {}
               ELSE {k \in 0 .. last - loop.low + 1 :
                       LET d == k * loop.type.one - (last - loop.low)
                       IN d <= 0 \/ 2 * d < loop.type.one}
      value(i) == IF Down THEN first - (i - 1) * loop.type.one
                  ELSE first + (i - 1) * loop.type.one
  IN [i \in 1 .. Cardinality(far) |->
        IF loop.over = "array" THEN <<value(i), value(i)>> ELSE <<value(i)>>]

\* What the body finds in its variables.
Given == IF loop.over # "array" THEN <<ctrl>>
         ELSE <<IF loop.value = "reference" THEN ctrl ELSE val, Index>>

Abstract == INSTANCE ForEach WITH
  todo   <- SubSeq(Promised, ran + 1, Len(Promised)),
  now    <- IF pc = "body" THEN <<Given>> ELSE <<>>,
  fresh  <- (ran = 0),
  result <- IF pc \in {"merge", "over"} /\ ran > 0 THEN "done"
            ELSE IF pc \in {"else", "merge", "over"} THEN "else" ELSE "running"

\* The loop gives its body the promised elements, each once and in order, with
\* the right index, up to the largest and down to the least value of the type;
\* it runs its else part only instead of the body; and it ends.
ImplementsForEach == Abstract!Spec

\* An advance is one step towards the limit, of reals less than half a step
\* beyond it: no addition wraps around, at no end of any type.
NeverWraps ==
  [][pc = "iterate" =>
       IF Down THEN ctrl' = ctrl - loop.type.one /\ ctrl' > limit - (loop.type.one - Half)
               ELSE ctrl' = ctrl + loop.type.one /\ ctrl' < limit + (loop.type.one - Half)]_vars

\* A loop over objects owns one copy while its body runs, and none when it is
\* over, whether it ended, was left or never ran.
OneCopy ==
  loop.object /\ loop.value = "new" =>
    /\ pc = "body" => copies = 1
    /\ pc = "over" => copies = 0
=============================================================================
