--------------------------- MODULE ForLoopProofs ---------------------------
(***************************************************************************)
(* The control variable of a loop never leaves the range of its type, for  *)
(* any type and any ends: the loop compares before it advances, so the     *)
(* next value is not beyond the limit. Hence no addition wraps. A loop     *)
(* over objects destroys what it copied. And the body is given what the    *)
(* language promises: the loop takes the steps of ForEach.                 *)
(***************************************************************************)
EXTENDS ForLoop, FiniteSetTheorems, SequenceTheorems, TLAPS

\* What Loops says about the loop that is run.
LoopFits ==
  /\ {loop.type.min, loop.type.max} \subseteq Int
  /\ loop.type.one \in Nat \ {0}
  /\ loop.type.min <= 0 /\ 0 <= loop.type.max
  /\ loop.low \in loop.type.min .. loop.type.max
  /\ loop.high \in loop.type.min .. loop.type.max
  /\ loop.over # "range" => loop.low = 0
  /\ loop.type.one = 1 /\ loop.over # "range" => loop.high > loop.type.min

\* The loop knows its last value once it is prepared, and advances only after
\* it has seen that this value is not reached.
Ahead ==
  /\ pc # "prepare" => limit = IF Down THEN loop.low ELSE Upper
  /\ pc = "iterate" => CreateCondition(TRUE)

\* The copy lives from the preparation to the merge.
Owned ==
  copies = IF loop.object /\ loop.value = "new" /\ pc \notin {"prepare", "over"}
           THEN 1 ELSE 0

IInv == TypeOK /\ Ahead /\ Owned

LEMMA LoopsFit == loop \in Loops => LoopFits
<1> SUFFICES ASSUME loop \in Loops PROVE LoopFits
  OBVIOUS
<1>1. CASE loop \in NumberLoops
  <2>1. PICK t \in Types :
          loop \in [over : {"number", "range"}, type : {t}, low : t.min .. t.max,
                    high : t.min .. t.max, descending : BOOLEAN,
                    value : {"new"}, object : {FALSE}]
    BY <1>1 DEF NumberLoops
  <2>2. /\ loop.over \in {"number", "range"} /\ loop.type = t
        /\ loop.low \in t.min .. t.max /\ loop.high \in t.min .. t.max
    BY <2>1
  <2>3. Sound(loop) /\ (loop.over # "range" => loop.low = 0)
    BY DEF Loops
  <2>4. QED
    BY <2>2, <2>3, TypesAssumption DEF LoopFits, Sound
<1>2. CASE loop \in ArrayLoops
  <2>1. /\ loop.over = "array" /\ loop.type = Address
        /\ loop.low = 0 /\ loop.high \in 0 .. MaxSize
    BY <1>2 DEF ArrayLoops
  <2>2. QED
    BY <2>1, SizeAssumption DEF LoopFits, Address
<1>3. QED
  BY <1>1, <1>2 DEF Loops

\* Half a step is less than a step, and nothing for a type whose step is 1.
LEMMA HalfFits ==
  ASSUME LoopFits
  PROVE  /\ Half \in Nat /\ Half < loop.type.one
         /\ loop.type.one = 1 => Half = 0
  BY DEF LoopFits, Half

\* One below the upper end is a value of the type, or of a real one below it.
LEMMA UpperFits ==
  ASSUME LoopFits
  PROVE  /\ Upper \in loop.type.min - Beyond .. loop.type.max
         /\ loop.type.one = 1 => Upper \in loop.type.min .. loop.type.max
<1>1. CASE loop.over = "range"
  BY <1>1 DEF LoopFits, Upper, Beyond
<1>2. CASE loop.over # "range"
  BY <1>2 DEF LoopFits, Upper, Beyond, Wrap
<1>3. QED
  BY <1>1, <1>2

\* A value of the type is not changed.
LEMMA WrapKeeps ==
  ASSUME LoopFits, NEW x \in Int,
         loop.type.one = 1 => x >= loop.type.min /\ x <= loop.type.max
  PROVE  Wrap(x) = x
<1>1. CASE loop.type.one > 1
  BY <1>1 DEF Wrap
<1>2. CASE loop.type.one = 1
  <2>1. ~(x > loop.type.max) /\ ~(x < loop.type.min)
    BY <1>2 DEF LoopFits
  <2>2. QED
    BY <1>2, <2>1 DEF Wrap
<1>3. QED
  BY <1>1, <1>2 DEF LoopFits

LEMMA InitIInv == Init => IInv
<1> SUFFICES ASSUME Init PROVE IInv
  OBVIOUS
<1>1. LoopFits
  BY LoopsFit DEF Init
<1>2. QED
  BY <1>1 DEF Init, IInv, TypeOK, Ahead, Owned, LoopFits, Beyond

\* The next value is one step from a value on the near side of the limit.
LEMMA IterateStays ==
  ASSUME IInv, Iterate
  PROVE  /\ ctrl' \in loop.type.min - Beyond .. loop.type.max + Beyond
         /\ IF Down THEN ctrl' = ctrl - loop.type.one /\ ctrl' > limit - (loop.type.one - Half)
                    ELSE ctrl' = ctrl + loop.type.one /\ ctrl' < limit + (loop.type.one - Half)
<1> DEFINE min == loop.type.min
           max == loop.type.max
           one == loop.type.one
<1>1. LoopFits
  BY LoopsFit DEF IInv, TypeOK
<1>2. /\ min \in Int /\ max \in Int /\ one \in Nat \ {0}
      /\ loop.low \in min .. max
  BY <1>1 DEF LoopFits
<1>3. /\ ctrl \in Int /\ limit \in Int /\ Half \in Nat /\ Half < one
      /\ one = 1 => Half = 0
      /\ ctrl >= min - Beyond /\ ctrl <= max + Beyond
      /\ Beyond = IF one = 1 THEN 0 ELSE one
  BY <1>1, <1>2, HalfFits DEF IInv, TypeOK, Beyond
<1>4. CreateCondition(TRUE) /\ limit = IF Down THEN loop.low ELSE Upper
  BY DEF IInv, Ahead, Iterate
<1>5. CASE Down
  <2>1. ctrl > limit + Half /\ limit >= min
    BY <1>2, <1>4, <1>5 DEF CreateCondition
  <2>2. ctrl - one \in min - Beyond .. max + Beyond
    BY <1>2, <1>3, <2>1
  <2>3. one = 1 => ctrl - one >= min /\ ctrl - one <= max
    BY <1>2, <1>3, <2>1
  <2>4. ctrl' = Wrap(ctrl - one)
    BY <1>5 DEF Iterate
  <2>5. ctrl' = ctrl - one
    <3>1. ctrl - one \in Int
      BY <1>2, <1>3
    <3>2. QED
      BY <1>1, <2>3, <2>4, <3>1, WrapKeeps
  <2>6. ctrl - one > limit - (one - Half)
    BY <1>2, <1>3, <2>1
  <2>7. QED
    BY <1>5, <2>2, <2>5, <2>6
<1>6. CASE ~Down
  <2>1. ctrl < limit - Half /\ limit <= max
    BY <1>1, <1>2, <1>4, <1>6, UpperFits DEF CreateCondition
  <2>2. ctrl + one \in min - Beyond .. max + Beyond
    BY <1>2, <1>3, <2>1
  <2>3. one = 1 => ctrl + one >= min /\ ctrl + one <= max
    BY <1>2, <1>3, <2>1
  <2>4. ctrl' = Wrap(ctrl + one)
    BY <1>6 DEF Iterate
  <2>5. ctrl' = ctrl + one
    <3>1. ctrl + one \in Int
      BY <1>2, <1>3
    <3>2. QED
      BY <1>1, <2>3, <2>4, <3>1, WrapKeeps
  <2>6. ctrl + one < limit + (one - Half)
    BY <1>2, <1>3, <2>1
  <2>7. QED
    BY <1>6, <2>2, <2>5, <2>6
<1>7. QED
  BY <1>5, <1>6

LEMMA NextIInv == IInv /\ [Next]_vars => IInv'
<1> SUFFICES ASSUME IInv, [Next]_vars PROVE IInv'
  OBVIOUS
<1>0. LoopFits
  BY LoopsFit DEF IInv, TypeOK
<1> USE DEF IInv, TypeOK, Ahead, Owned, CreateCondition, Half, Down, Upper, Wrap, Beyond
<1>1. CASE PrepareIterator
  <2>1. loop' = loop /\ pc = "prepare" /\ pc' = "start" /\ ran' = ran
    BY <1>1 DEF PrepareIterator
  <2>2. /\ ctrl' = IF Down THEN Upper ELSE loop.low
        /\ limit' = IF Down THEN loop.low ELSE Upper
    BY <1>1 DEF PrepareIterator
  <2>3. {ctrl', limit'} \subseteq loop.type.min - Beyond .. loop.type.max + Beyond
    <3>1. /\ loop.low \in loop.type.min .. loop.type.max
          /\ loop.type.min \in Int /\ loop.type.max \in Int /\ Beyond \in Nat
          /\ Upper \in loop.type.min - Beyond .. loop.type.max
      BY <1>0, UpperFits DEF LoopFits
    <3>2. QED
      BY <2>2, <3>1
  <2>4. val' \in Int /\ Index' \in Int
    <3>1. ctrl' \in Int /\ loop.high \in Int
      BY <1>0, <2>3 DEF LoopFits
    <3>2. QED
      BY <1>1, <3>1 DEF PrepareIterator
  <2>5. Owned'
    BY <1>1 DEF PrepareIterator
  <2>6. QED
    BY <2>1, <2>2, <2>3, <2>4, <2>5
<1>2. CASE Enter
  BY <1>2 DEF Enter
<1>3. CASE BodyEnds
  BY <1>3 DEF BodyEnds
<1>4. CASE Brk
  BY <1>4 DEF Brk
<1>5. CASE CompareAtEnd
  BY <1>5 DEF CompareAtEnd
<1>6. CASE Iterate
  <2>1. ctrl' \in loop.type.min - Beyond .. loop.type.max + Beyond
    BY <1>6, IterateStays
  <2>2. ctrl' \in Int /\ val' \in Int /\ Index' \in Int
    BY <1>0, <1>6, <2>1 DEF Iterate, LoopFits
  <2>3. /\ loop' = loop /\ limit' = limit /\ copies' = copies
        /\ pc = "iterate" /\ pc' = "body" /\ ran' = ran + 1
    BY <1>6 DEF Iterate
  <2>4. QED
    BY <2>1, <2>2, <2>3
<1>7. CASE Else
  BY <1>7 DEF Else
<1>8. CASE Merge
  BY <1>8 DEF Merge
<1>9. CASE UNCHANGED vars
  BY <1>9 DEF vars
<1>10. QED
  BY <1>1, <1>2, <1>3, <1>4, <1>5, <1>6, <1>7, <1>8, <1>9 DEF Next, Step

LEMMA Invariant == Spec => []IInv
<1>1. Init => IInv
  BY InitIInv
<1>2. IInv /\ [Next]_vars => IInv'
  BY NextIInv
<1>3. QED
  BY <1>1, <1>2, PTL DEF Spec

\* The control variable, the limit and the rest stay in their types.
THEOREM TypeCorrect == Spec => []TypeOK
<1>1. IInv => TypeOK
  BY DEF IInv
<1>2. QED
  BY <1>1, Invariant, PTL

\* Whatever the type and the ends of the loop, ForExprAST::Iterate adds or
\* subtracts one without wrapping around, and does not pass the last value.
THEOREM NoWrap == Spec => NeverWraps
<1>1. IInv /\ [Next]_vars =>
        [pc = "iterate" =>
           IF Down THEN ctrl' = ctrl - loop.type.one /\ ctrl' > limit - (loop.type.one - Half)
                   ELSE ctrl' = ctrl + loop.type.one /\ ctrl' < limit + (loop.type.one - Half)]_vars
  <2>1. IInv /\ Iterate =>
          IF Down THEN ctrl' = ctrl - loop.type.one /\ ctrl' > limit - (loop.type.one - Half)
                  ELSE ctrl' = ctrl + loop.type.one /\ ctrl' < limit + (loop.type.one - Half)
    BY IterateStays
  <2>2. Next /\ pc = "iterate" => Iterate
    BY DEF Next, Step, PrepareIterator, Enter, BodyEnds, Brk, CompareAtEnd, Else, Merge
  <2>3. QED
    BY <2>1, <2>2
<1>2. QED
  BY <1>1, Invariant, PTL DEF Spec, NeverWraps

\* A loop over objects has one copy while its body runs and none behind it,
\* on every way out of it: the destructor of deferred_val_destructor runs once.
THEOREM CopiesDestroyed == Spec => []OneCopy
<1>1. IInv => OneCopy
  BY DEF IInv, Owned, OneCopy
<1>2. QED
  BY <1>1, Invariant, PTL

-----------------------------------------------------------------------------
(* The promised elements.                                                  *)

\* What is promised, in parts: the last value in steps from the first, and the
\* values up to it.
Last  == IF loop.over = "range" THEN loop.high ELSE loop.high - loop.type.one
Reach == Last - loop.low
Within(k) == 2 * (k * loop.type.one - Reach) < loop.type.one
Count == IF Reach < 0 THEN 0 ELSE (2 * Reach + loop.type.one - 1) \div (2 * loop.type.one) + 1
Value(i) == IF Down THEN Last - (i - 1) * loop.type.one
                    ELSE loop.low + (i - 1) * loop.type.one
Element(i) == IF loop.over = "array" THEN <<Value(i), Value(i)>> ELSE <<Value(i)>>

\* How often d fits into a.
LEMMA DivisionFits ==
  ASSUME NEW a \in Nat, NEW d \in Nat \ {0}, NEW k \in Nat
  PROVE  /\ a \div d \in Nat
         /\ k * d <= a <=> k <= a \div d
<1> DEFINE q == a \div d
           r == a % d
<1>1. q \in Nat /\ r \in 0 .. d - 1 /\ a = d * q + r
  BY Z3
<1> HIDE DEF q, r
<1>2. CASE k <= q
  <2>1. PICK e \in Nat : q = k + e
    <3>1. q - k \in Nat /\ q = k + (q - k)
      BY <1>1, <1>2
    <3>2. QED
      BY <3>1
  <2>2. d * q = k * d + d * e /\ d * e >= 0
    BY <2>1
  <2>3. k * d <= a
    BY <1>1, <2>2
  <2>4. QED
    BY <1>1, <1>2, <2>3 DEF q
<1>3. CASE ~(k <= q)
  <2>1. PICK e \in Nat : k = q + 1 + e
    <3>1. k - q - 1 \in Nat /\ k = q + 1 + (k - q - 1)
      BY <1>1, <1>3
    <3>2. QED
      BY <3>1
  <2>2. k * d = d * q + d + d * e /\ d * e >= 0
    BY <1>1, <2>1
  <2>3. ~(k * d <= a)
    BY <1>1, <2>2
  <2>4. QED
    BY <1>1, <1>3, <2>3 DEF q
<1>4. QED
  BY <1>2, <1>3

\* The ends and what is between them are numbers.
LEMMA LoopNumbers ==
  ASSUME LoopFits
  PROVE  /\ loop.type.one \in Nat \ {0} /\ loop.low \in Int /\ loop.high \in Int
         /\ Last \in Int /\ Reach \in Int
BY DEF LoopFits, Last, Reach

\* Which elements there are.
LEMMA CountFits ==
  ASSUME LoopFits
  PROVE  /\ Count \in Nat
         /\ Count = 0 <=> Reach < 0
         /\ Reach >= 0 => \A k \in Nat : Within(k) <=> k < Count
         /\ Reach >= 0 => Count <= Reach + 2
<1> DEFINE one == loop.type.one
           a == 2 * Reach + one - 1
           d == 2 * one
<1>1. one \in Nat \ {0} /\ Reach \in Int
  BY LoopNumbers
<1>2. CASE Reach < 0
  BY <1>1, <1>2 DEF Count
<1>3. CASE Reach >= 0
  <2>1. a \in Nat /\ d \in Nat \ {0}
    BY <1>1, <1>3
  <2>2. Count = a \div d + 1
    BY <1>1, <1>3 DEF Count
  <2>3. \A k \in Nat : Within(k) <=> k * d <= a
    <3> SUFFICES ASSUME NEW k \in Nat PROVE Within(k) <=> k * d <= a
      OBVIOUS
    <3>1. k * one \in Nat /\ k * d = 2 * (k * one)
      BY <1>1
    <3>2. QED
      BY <1>1, <3>1 DEF Within
  <2> HIDE DEF a, d
  <2>4. a \div d \in Nat
    BY <2>1, DivisionFits
  <2>5. \A k \in Nat : Within(k) <=> k < Count
    BY <2>1, <2>2, <2>3, <2>4, DivisionFits
  <2>6. ~ Within(Reach + 2)
    <3>1. (Reach + 2) * one = Reach * one + 2 * one /\ Reach * one >= Reach
      BY <1>1, <1>3
    <3>2. QED
      BY <1>1, <1>3, <3>1 DEF Within
  <2>7. QED
    BY <1>1, <1>3, <2>2, <2>4, <2>5, <2>6
<1>4. QED
  BY <1>1, <1>2, <1>3

\* Promised, element by element.
LEMMA PromisedParts ==
  ASSUME LoopFits
  PROVE  /\ Promised \in Seq(Seq(Int))
         /\ Len(Promised) = Count
         /\ \A i \in 1 .. Count : Promised[i] = Element(i)
<1> DEFINE far == IF Last < loop.low THEN {}
                  ELSE {k \in 0 .. Last - loop.low + 1 :
                          LET x == k * loop.type.one - (Last - loop.low)
                          IN x <= 0 \/ 2 * x < loop.type.one}
<1>1. /\ loop.type.one \in Nat \ {0} /\ loop.low \in Int
      /\ Last \in Int /\ Reach \in Int /\ Reach = Last - loop.low
  BY LoopNumbers DEF Reach
<1>2. Promised = [i \in 1 .. Cardinality(far) |-> Element(i)]
  BY DEF Promised, Element, Value, Last
<1>3. far = 0 .. Count - 1
  <2>1. CASE Reach < 0
    BY <1>1, <2>1, CountFits
  <2>2. CASE Reach >= 0
    <3>1. \A k \in Nat : Within(k) <=> LET x == k * loop.type.one - (Last - loop.low)
                                       IN x <= 0 \/ 2 * x < loop.type.one
      <4> SUFFICES ASSUME NEW k \in Nat
                   PROVE  Within(k) <=> LET x == k * loop.type.one - (Last - loop.low)
                                        IN x <= 0 \/ 2 * x < loop.type.one
        OBVIOUS
      <4>1. k * loop.type.one \in Nat
        BY <1>1
      <4>2. QED
        BY <1>1, <4>1 DEF Within
    <3>2. far = {k \in 0 .. Reach + 1 : Within(k)}
      BY <1>1, <2>2, <3>1
    <3>3. /\ Count \in Nat /\ Count <= Reach + 2
          /\ \A k \in Nat : Within(k) <=> k < Count
      BY <2>2, CountFits
    <3>4. \A k : k \in 0 .. Reach + 1 /\ Within(k) <=> k \in 0 .. Count - 1
      BY <1>1, <2>2, <3>3
    <3>5. QED
      BY <3>2, <3>4
  <2>3. QED
    BY <1>1, <2>1, <2>2
<1> HIDE DEF far
<1>4. Cardinality(far) = Count
  <2>1. Count \in Nat
    BY CountFits
  <2>2. QED
    BY <1>3, <2>1, FS_Interval
<1>5. \A i \in 1 .. Count : Element(i) \in Seq(Int)
  <2> SUFFICES ASSUME NEW i \in 1 .. Count PROVE Element(i) \in Seq(Int)
    OBVIOUS
  <2>1. i \in Int /\ (i - 1) * loop.type.one \in Int
    BY <1>1, CountFits
  <2>2. Value(i) \in Int
    BY <1>1, <2>1 DEF Value
  <2>3. QED
    BY <2>2 DEF Element
<1>6. QED
  BY <1>2, <1>4, <1>5, CountFits

\* Where the loop stands: before the body of element `ran` is over, the control
\* variable has its value, and an array's index and element agree with it.
Standing(i) ==
  /\ ctrl = Value(i)
  /\ loop.over = "array" => Index = Value(i)

VisitInv ==
  /\ ran <= Count
  /\ pc \in {"prepare", "start", "else"} => ran = 0
  /\ pc \in {"body", "end", "iterate"} => ran >= 1 /\ Standing(ran)
  /\ pc = "start" => Standing(1)
  /\ pc = "iterate" => ran < Count
  /\ pc = "else" => Count = 0
  /\ pc \in {"merge", "over"} /\ ran = 0 => Count = 0
  /\ loop.over = "array" /\ loop.value # "reference" =>
       /\ pc = "start" /\ Count > 0 => val = Value(1)
       /\ pc = "body" => val = Value(ran)

\* A number is twice its half, or one more.
LEMMA Halves ==
  ASSUME NEW n \in Nat
  PROVE  n \div 2 \in Nat /\ (n = 2 * (n \div 2) \/ n = 2 * (n \div 2) + 1)
BY Z3

\* The loops over arrays that are modelled.
LEMMA ArrayFits ==
  ASSUME loop \in Loops, loop.over = "array"
  PROVE  /\ loop.type.one = 1 /\ loop.low = 0 /\ loop.high \in Nat
         /\ loop.value \in {"new", "existing", "reference"}
         /\ loop.value = "existing" => loop.high # 1
<1>1. loop \notin NumberLoops
  <2> SUFFICES ASSUME loop \in NumberLoops PROVE FALSE
    OBVIOUS
  <2>1. PICK t \in Types :
          loop \in [over : {"number", "range"}, type : {t}, low : t.min .. t.max,
                    high : t.min .. t.max, descending : BOOLEAN,
                    value : {"new"}, object : {FALSE}]
    BY DEF NumberLoops
  <2>2. QED
    BY <2>1
<1>2. loop \in ArrayLoops /\ Sound(loop)
  BY <1>1 DEF Loops
<1>3. QED
  BY <1>2, SizeAssumption DEF ArrayLoops, Address, Sound

\* The loop knows what is promised to be the last value.
LEMMA UpperIsLast ==
  ASSUME LoopFits
  PROVE  Upper = Last
<1>1. CASE loop.over = "range"
  BY <1>1 DEF Upper, Last
<1>2. CASE loop.over # "range"
  <2>1. loop.high - loop.type.one \in Int
    BY LoopNumbers
  <2>2. loop.type.one = 1 => /\ loop.high - loop.type.one >= loop.type.min
                             /\ loop.high - loop.type.one <= loop.type.max
    BY <1>2 DEF LoopFits
  <2>3. QED
    BY <1>2, <2>1, <2>2, WrapKeeps DEF Upper, Last
<1>3. QED
  BY <1>1, <1>2

\* What the loop compares is whether there is another element.
LEMMA ComparisonFits ==
  ASSUME IInv, VisitInv
  PROVE  /\ pc = "start" => (CreateCondition(FALSE) <=> Count > 0)
         /\ pc = "end" => (CreateCondition(TRUE) <=> ran < Count)
<1> DEFINE one == loop.type.one
<1>1. LoopFits
  BY LoopsFit DEF IInv, TypeOK
<1>2. /\ one \in Nat \ {0} /\ loop.low \in Int /\ Last \in Int /\ Reach = Last - loop.low
      /\ ran \in Nat /\ Count \in Nat
  BY <1>1, LoopNumbers, CountFits DEF Reach, IInv, TypeOK
<1>3. pc # "prepare" => limit = IF Down THEN loop.low ELSE Last
  BY <1>1, UpperIsLast DEF IInv, Ahead
<1>4. ASSUME pc = "start" PROVE CreateCondition(FALSE) <=> Count > 0
  <2>1. ctrl = IF Down THEN Last ELSE loop.low
    BY <1>2, <1>4 DEF VisitInv, Standing, Value
  <2>2. Count = 0 <=> Reach < 0
    BY <1>1, CountFits
  <2>3. QED
    BY <1>2, <1>3, <1>4, <2>1, <2>2 DEF CreateCondition
<1>5. ASSUME pc = "end" PROVE CreateCondition(TRUE) <=> ran < Count
  <2> DEFINE s == (ran - 1) * one
  <2>1. ran >= 1 /\ ran <= Count /\ ctrl = Value(ran)
    BY <1>5 DEF VisitInv, Standing
  <2>2. /\ s \in Int /\ ran * one \in Int /\ ran * one = s + one
        /\ ctrl = IF Down THEN Last - s ELSE loop.low + s
    BY <1>2, <2>1 DEF Value
  <2>3. Half \in Nat /\ (one = 2 * Half \/ one = 2 * Half + 1)
    BY <1>2, Halves DEF Half
  <2>4. Within(ran) <=> 2 * (s + one - Reach) < one
    BY <1>2, <2>2 DEF Within
  <2>5. CreateCondition(TRUE) <=> s < Reach - Half
    <3> HIDE DEF s
    <3> QED
      BY <1>2, <1>3, <1>5, <2>2, <2>3 DEF CreateCondition
  <2>6. 2 * (s + one - Reach) < one <=> s < Reach - Half
    <3> HIDE DEF s, one
    <3> QED
      BY <1>2, <2>2, <2>3
  <2>7. Reach >= 0
    BY <1>1, <1>2, <2>1, CountFits
  <2>8. QED
    BY <1>1, <1>2, <2>4, <2>5, <2>6, <2>7, CountFits
<1>6. QED
  BY <1>4, <1>5

\* For the provers: one factor more.
LEMMA OneMore ==
  ASSUME NEW i \in Int, NEW d \in Int
  PROVE  i * d = (i - 1) * d + d /\ (i - 1) * d \in Int
OBVIOUS

\* One element further is one step further.
LEMMA NextValue ==
  ASSUME LoopFits, NEW i \in Nat
  PROVE  Value(i + 1) = IF Down THEN Value(i) - loop.type.one ELSE Value(i) + loop.type.one
<1> DEFINE one == loop.type.one
<1>1. one \in Int /\ Last \in Int /\ loop.low \in Int
  BY LoopNumbers
<1>2. (i + 1) - 1 = i /\ i * one = (i - 1) * one + one /\ (i - 1) * one \in Int
  <2> HIDE DEF one
  <2> QED
    BY <1>1, OneMore, i \in Int, (i + 1) - 1 = i
<1>3. QED
  BY <1>1, <1>2 DEF Value

\* The first element is at the end the loop begins at.
LEMMA FirstValue ==
  ASSUME LoopFits
  PROVE  Value(1) = IF Down THEN Last ELSE loop.low
BY LoopNumbers DEF Value

\* What is promised does not change.
LEMMA LoopKept ==
  ASSUME loop' = loop
  PROVE  /\ Count' = Count /\ Promised' = Promised
         /\ \A i : Value(i)' = Value(i)
BY DEF Count, Reach, Last, Promised, Value, Down

\* Nothing is given yet.
LEMMA InitVisit == Init => VisitInv
<1> SUFFICES ASSUME Init PROVE VisitInv
  OBVIOUS
<1>1. Count \in Nat
  BY LoopsFit, CountFits DEF Init
<1>2. QED
  BY <1>1 DEF Init, VisitInv

\* The loop is prepared: the first element is at hand, if there is one.
LEMMA PrepareVisit ==
  ASSUME IInv, VisitInv, PrepareIterator
  PROVE  VisitInv'
<1>1. LoopFits /\ loop \in Loops
  BY LoopsFit DEF IInv, TypeOK
<1>2. /\ loop' = loop /\ pc' = "start" /\ ran' = 0 /\ ran' <= Count'
      /\ Count' = Count /\ Value(1)' = Value(1)
  BY LoopKept DEF PrepareIterator, VisitInv
<1>3. ctrl' = Value(1) /\ limit' = IF Down THEN loop.low ELSE Last
  BY <1>1, UpperIsLast, FirstValue DEF PrepareIterator
<1>4. ASSUME loop.over = "array" PROVE Index' = Value(1)
  <2>1. Last = loop.high - 1 /\ loop.low = 0
    BY <1>1, <1>4, ArrayFits DEF Last
  <2>2. QED
    BY <1>1, <2>1, FirstValue DEF PrepareIterator
<1>5. ASSUME loop.over = "array", loop.value # "reference", Count > 0 PROVE val' = Value(1)
  <2>1. /\ Last = loop.high - 1 /\ loop.low = 0 /\ loop.high \in Nat
        /\ loop.value = "new" \/ (loop.value = "existing" /\ loop.high # 1)
    BY <1>1, <1>5, ArrayFits DEF Last
  <2>2. Last >= 0
    BY <1>1, <1>5, <2>1, CountFits DEF Reach
  <2>3. CopiesFirst(ctrl', limit')
    BY <1>1, <1>3, <2>1, <2>2, FirstValue DEF CopiesFirst
  <2>4. QED
    BY <1>3, <2>3 DEF PrepareIterator
<1>6. Standing(1)'
  BY <1>2, <1>3, <1>4 DEF Standing
<1>7. QED
  BY <1>2, <1>5, <1>6 DEF VisitInv

\* The loop advances to the next element.
LEMMA IterateVisit ==
  ASSUME IInv, VisitInv, Iterate
  PROVE  VisitInv'
<1>1. LoopFits /\ loop \in Loops
  BY LoopsFit DEF IInv, TypeOK
<1>2. /\ loop' = loop /\ pc' = "body" /\ ran' = ran + 1 /\ ran \in Nat /\ ran < Count
      /\ Count' = Count /\ \A i : Value(i)' = Value(i)
  BY LoopKept DEF Iterate, VisitInv, IInv, TypeOK
<1>3. Standing(ran)
  BY DEF Iterate, VisitInv
<1>4. ctrl' = Value(ran + 1)
  BY <1>1, <1>2, <1>3, IterateStays, NextValue DEF Standing
<1>5. loop.over = "array" => Index' = Value(ran + 1)
  BY <1>1, <1>2, <1>3, ArrayFits, NextValue DEF Standing, Iterate
<1>6. loop.value # "reference" => val' = Value(ran + 1)
  BY <1>4 DEF Iterate
<1>7. Value(ran)' = Value(ran + 1)
  BY <1>2 DEF Value, Last, Down
<1>8. Standing(ran)'
  BY <1>2, <1>4, <1>5, <1>7 DEF Standing
<1>9. ran' <= Count' /\ ran' >= 1
  BY <1>1, <1>2, CountFits
<1>10. QED
  BY <1>2, <1>6, <1>7, <1>8, <1>9 DEF VisitInv

\* The other steps leave the loop where it stands.
LEMMA NextVisit == IInv /\ VisitInv /\ [Next]_vars => VisitInv'
<1> SUFFICES ASSUME IInv, VisitInv, [Next]_vars PROVE VisitInv'
  OBVIOUS
<1>0. Count \in Nat
  BY LoopsFit, CountFits DEF IInv, TypeOK
<1>1. /\ Count \in Nat /\ ran \in Nat /\ ran <= Count
      /\ pc = "start" => (CreateCondition(FALSE) <=> Count > 0)
      /\ pc = "end" => (CreateCondition(TRUE) <=> ran < Count)
  BY LoopsFit, CountFits, ComparisonFits DEF IInv, TypeOK, VisitInv
<1>2. CASE PrepareIterator
  BY <1>2, PrepareVisit
<1>3. CASE Iterate
  BY <1>3, IterateVisit
<1>4. CASE Enter \/ BodyEnds \/ Brk \/ CompareAtEnd \/ Else \/ Merge \/ UNCHANGED vars
  <2>1. UNCHANGED <<loop, ctrl, Index, val>>
    BY <1>4 DEF Enter, BodyEnds, Brk, CompareAtEnd, Else, Merge, vars
  <2>2. /\ Count' = Count /\ Value(1)' = Value(1)
        /\ ran' = ran => Value(ran)' = Value(ran)
    BY <2>1, LoopKept DEF Value, Last, Down
  <2>3. CASE Enter
    <3>1. /\ pc = "start" /\ ran = 0 /\ Standing(1)
          /\ \/ Count > 0 /\ pc' = "body" /\ ran' = 1
             \/ Count = 0 /\ pc' = "else" /\ ran' = 0
      <4>1. pc = "start" /\ ran = 0 /\ Standing(1)
        BY <2>3 DEF Enter, VisitInv
      <4>2. \/ CreateCondition(FALSE) /\ pc' = "body" /\ ran' = 1
            \/ ~CreateCondition(FALSE) /\ pc' = "else" /\ ran' = ran
        BY <2>3 DEF Enter
      <4>3. CASE CreateCondition(FALSE)
        BY <1>1, <4>1, <4>2, <4>3
      <4>4. CASE ~CreateCondition(FALSE)
        <5>1. ~(Count > 0)
          BY <1>1, <4>1, <4>4, Zenon
        <5>2. Count = 0
          BY <1>0, <5>1
        <5>3. QED
          BY <4>1, <4>2, <4>4, <5>2
      <4>5. QED
        BY <4>3, <4>4
    <3>2. ran' = 1 => Value(ran)' = Value(1)
      BY <2>1 DEF Value, Last, Down
    <3>3. ran' = 1 => Standing(ran)'
      BY <2>1, <3>1, <3>2 DEF Standing
    <3>4. QED
      BY <1>1, <2>1, <2>2, <3>1, <3>2, <3>3 DEF VisitInv
  <2>4. CASE UNCHANGED <<loop, ctrl, limit, Index, val, copies, ran>> /\ (BodyEnds \/ CompareAtEnd)
    <3>1. Standing(ran)' <=> Standing(ran)
      BY <2>1, <2>2, <2>4 DEF Standing
    <3>2. /\ ran' = ran /\ Standing(ran)
          /\ \/ pc = "body" /\ pc' = "end"
             \/ pc = "end" /\ pc' = "iterate" /\ ran < Count
             \/ pc = "end" /\ pc' = "merge"
      BY <1>1, <2>4 DEF BodyEnds, CompareAtEnd, VisitInv
    <3>3. QED
      BY <1>1, <2>1, <2>2, <3>1, <3>2 DEF VisitInv
  <2>5. CASE UNCHANGED <<loop, Index, val, ran>> /\ (Brk \/ Else \/ Merge)
    BY <1>1, <2>2, <2>5 DEF Brk, Else, Merge, VisitInv
  <2>6. CASE UNCHANGED vars
    <3>1. UNCHANGED <<pc, ran>> /\ (Standing(ran)' <=> Standing(ran)) /\ (Standing(1)' <=> Standing(1))
      BY <2>1, <2>2, <2>6 DEF Standing, vars
    <3>2. QED
      BY <2>1, <2>2, <3>1 DEF VisitInv
  <2>7. QED
    BY <1>4, <2>3, <2>4, <2>5, <2>6 DEF BodyEnds, CompareAtEnd, Brk, Else, Merge
<1>5. QED
  BY <1>2, <1>3, <1>4 DEF Next, Step

-----------------------------------------------------------------------------
(* The loop implements ForEach.                                            *)

\* A rest of a sequence that is not empty.
LEMMA RestOf ==
  ASSUME NEW S, NEW s \in Seq(S), NEW k \in Nat, k < Len(s)
  PROVE  LET t == SubSeq(s, k + 1, Len(s))
         IN t # <<>> /\ Head(t) = s[k + 1] /\ Tail(t) = SubSeq(s, k + 2, Len(s))
<1>1. k + 1 \in 1 .. Len(s) /\ Len(s) \in k + 1 .. Len(s) /\ k + 1 + 1 = k + 2
  OBVIOUS
<1>2. \A i \in k + 1 .. Len(s) : s[i] \in S
  OBVIOUS
<1>3. SubSeq(s, k + 1, Len(s)) # <<>>
  <2> DEFINE t == SubSeq(s, k + 1, Len(s))
  <2>1. k + 1 \in Int /\ Len(s) \in Int /\ k + 1 <= Len(s)
    OBVIOUS
  <2>2. Len(t) = IF k + 1 <= Len(s) THEN Len(s) - (k + 1) + 1 ELSE 0
    BY <1>2, <2>1, SubSeqProperties
  <2>3. Len(t) > 0
    BY <2>1, <2>2
  <2>4. Len(<<>>) = 0
    OBVIOUS
  <2> HIDE DEF t
  <2>5. t # <<>>
    BY <2>3, <2>4
  <2>6. QED
    BY <2>5 DEF t
<1>4. QED
  BY <1>1, <1>3, HeadTailOfSubSeq

\* The rest behind the last element.
LEMMA RestOfNone ==
  ASSUME NEW S, NEW s \in Seq(S)
  PROVE  SubSeq(s, Len(s) + 1, Len(s)) = <<>>
OBVIOUS

Todo   == SubSeq(Promised, ran + 1, Len(Promised))
Now    == IF pc = "body" THEN <<Given>> ELSE <<>>
Fresh  == ran = 0
Result == IF pc \in {"merge", "over"} /\ ran > 0 THEN "done"
          ELSE IF pc \in {"else", "merge", "over"} THEN "else" ELSE "running"

\* What is still to come.
LEMMA TodoFits ==
  ASSUME IInv, VisitInv
  PROVE  /\ ran < Count => Todo # <<>> /\ Head(Todo) = Element(ran + 1)
                           /\ Tail(Todo) = SubSeq(Promised, ran + 2, Len(Promised))
         /\ ran = Count => Todo = <<>>
<1>1. LoopFits /\ ran \in Nat
  BY LoopsFit DEF IInv, TypeOK
<1>2. /\ Promised \in Seq(Seq(Int)) /\ Len(Promised) = Count /\ Count \in Nat
      /\ \A i \in 1 .. Count : Promised[i] = Element(i)
  BY <1>1, PromisedParts, CountFits
<1>3. ASSUME ran < Count
      PROVE  Todo # <<>> /\ Head(Todo) = Element(ran + 1)
             /\ Tail(Todo) = SubSeq(Promised, ran + 2, Len(Promised))
  <2>1. ran + 1 \in 1 .. Count
    BY <1>1, <1>2, <1>3
  <2>2. QED
    BY <1>1, <1>2, <1>3, <2>1, RestOf DEF Todo
<1>4. ASSUME ran = Count PROVE Todo = <<>>
  BY <1>2, <1>4, RestOfNone DEF Todo
<1>5. QED
  BY <1>3, <1>4

\* What the body is given is the element whose turn it is.
LEMMA GivenFits ==
  ASSUME IInv, VisitInv, pc = "body"
  PROVE  Given = Element(ran)
<1>1. Standing(ran)
  BY DEF VisitInv
<1>2. CASE loop.over = "array"
  BY <1>1, <1>2 DEF Given, Element, Standing, VisitInv
<1>3. CASE loop.over # "array"
  BY <1>1, <1>3 DEF Given, Element, Standing
<1>4. QED
  BY <1>2, <1>3

\* What has not changed but the place in the code is a step of ForEach, too.
LEMMA Unseen ==
  ASSUME loop' = loop, ran' = ran
  PROVE  Todo' = Todo /\ Fresh' = Fresh
BY LoopKept DEF Todo, Fresh

\* A body begins, the first or a later one.
LEMMA EnterVisits ==
  ASSUME IInv, VisitInv, VisitInv', IInv', ran < Count, ran' = ran + 1, loop' = loop, pc' = "body",
         pc \in {"start", "iterate"}
  PROVE  Abstract!Visit
<1>1. ran \in Nat
  BY DEF IInv, TypeOK
<1>2. Todo # <<>> /\ Head(Todo) = Element(ran + 1)
      /\ Tail(Todo) = SubSeq(Promised, ran + 2, Len(Promised))
  BY TodoFits
<1>3. Todo' = Tail(Todo)
  <2>1. ran' + 1 = ran + 2
    BY <1>1
  <2>2. Todo' = SubSeq(Promised, ran' + 1, Len(Promised))
    BY LoopKept DEF Todo
  <2>3. QED
    BY <1>2, <2>1, <2>2
<1>4. Now' = <<Head(Todo)>>
  <2>1. Given' = Element(ran)'
    BY DEF VisitInv, Standing, Given, Element
  <2>2. Element(ran)' = Element(ran + 1)
    BY DEF Element, Value, Last, Down
  <2>3. QED
    BY <1>2, <2>1, <2>2 DEF Now
<1>5. Now = <<>> /\ Result = "running" /\ Result' = "running"
  BY DEF Now, Result
<1>6. Fresh' = FALSE
  BY <1>1 DEF Fresh
<1>7. QED
  BY <1>2, <1>3, <1>4, <1>5, <1>6 DEF Abstract!Visit, Todo, Now, Fresh, Result

\* Every step of the loop is one of ForEach, or does not matter to it.
LEMMA LoopStep ==
  ASSUME IInv, IInv', VisitInv, VisitInv', [Next]_vars
  PROVE  [Abstract!Next]_(Abstract!vars)
<1>0. LoopFits /\ Count \in Nat /\ ran \in Nat /\ ran <= Count
  BY LoopsFit, CountFits DEF IInv, TypeOK, VisitInv
<1>1. SUFFICES Abstract!Next \/ UNCHANGED <<Todo, Now, Fresh, Result>>
  BY DEF Abstract!vars, Todo, Now, Fresh, Result
<1>2. CASE PrepareIterator
  BY <1>2, Unseen DEF PrepareIterator, Now, Result
<1>3. CASE Enter
  <2>1. CASE CreateCondition(FALSE)
    <3>1. ran' = 1 /\ ran = 0 /\ pc' = "body" /\ loop' = loop /\ pc = "start"
      BY <1>3, <2>1 DEF Enter, VisitInv
    <3>2. Count > 0
      BY <2>1, <3>1, ComparisonFits
    <3>3. Abstract!Visit
      BY <1>0, <3>1, <3>2, EnterVisits
    <3>4. QED
      BY <3>3 DEF Abstract!Next
  <2>2. CASE ~CreateCondition(FALSE)
    <3>1. ran' = ran /\ ran = 0 /\ pc' = "else" /\ loop' = loop /\ pc = "start"
      BY <1>3, <2>2 DEF Enter, VisitInv
    <3>2. Count = 0
      <4>1. ~(Count > 0)
        BY <2>2, <3>1, ComparisonFits
      <4>2. QED
        BY <1>0, <4>1
    <3>3. Todo = <<>> /\ Todo' = Todo /\ Fresh' = Fresh /\ Fresh = TRUE
      BY <3>1, <3>2, TodoFits, Unseen DEF Fresh
    <3>4. Now = <<>> /\ Now' = <<>> /\ Result = "running" /\ Result' = "else"
      BY <3>1 DEF Now, Result
    <3>5. QED
      BY <3>3, <3>4 DEF Abstract!Next, Abstract!Finish, Todo, Now, Fresh, Result
  <2>3. QED
    BY <2>1, <2>2
<1>4. CASE BodyEnds
  <2>1. Todo' = Todo /\ Fresh' = Fresh
    BY <1>4, Unseen DEF BodyEnds
  <2>2. Now # <<>> /\ Now' = <<>> /\ Result' = Result
    BY <1>4 DEF BodyEnds, Now, Result
  <2>3. QED
    BY <2>1, <2>2 DEF Abstract!Next, Abstract!BodyEnds, Todo, Now, Fresh, Result
<1>5. CASE Brk
  <2>1. Todo' = Todo /\ Fresh' = Fresh
    BY <1>5, Unseen DEF Brk
  <2>2. ran' = ran /\ ran > 0 /\ pc = "body" /\ pc' = "merge"
    BY <1>0, <1>5 DEF Brk, VisitInv
  <2>3. Now # <<>> /\ Now' = <<>> /\ Result' = "done"
    BY <2>2 DEF Now, Result
  <2>4. QED
    BY <2>1, <2>3 DEF Abstract!Next, Abstract!Brk, Todo, Now, Fresh, Result
<1>6. CASE CompareAtEnd
  <2>1. Todo' = Todo /\ Fresh' = Fresh /\ ran' = ran /\ pc = "end"
    BY <1>6, Unseen DEF CompareAtEnd
  <2>2. CASE CreateCondition(TRUE)
    BY <1>6, <2>1, <2>2 DEF CompareAtEnd, Now, Result
  <2>3. CASE ~CreateCondition(TRUE)
    <3>1. pc' = "merge"
      BY <1>6, <2>3 DEF CompareAtEnd
    <3>2. ~(ran < Count) /\ ran >= 1
      BY <2>1, <2>3, ComparisonFits DEF VisitInv
    <3>3. ran = Count /\ ran > 0
      BY <1>0, <3>2
    <3>4. Todo = <<>>
      BY <3>3, TodoFits
    <3>5. Fresh = FALSE
      BY <1>0, <3>3 DEF Fresh
    <3>6. Now = <<>> /\ Now' = <<>> /\ Result = "running" /\ Result' = "done"
      BY <2>1, <3>1, <3>3 DEF Now, Result
    <3>7. QED
      BY <2>1, <3>4, <3>5, <3>6 DEF Abstract!Next, Abstract!Finish, Todo, Now, Fresh, Result
  <2>4. QED
    BY <2>2, <2>3
<1>7. CASE Iterate
  <2>1. ran' = ran + 1 /\ loop' = loop /\ pc = "iterate" /\ pc' = "body" /\ ran < Count
    BY <1>7 DEF Iterate, VisitInv
  <2>2. QED
    BY <2>1, EnterVisits DEF Abstract!Next
<1>8. CASE Else
  <2>1. Todo' = Todo /\ Fresh' = Fresh /\ ran' = ran /\ ran = 0
    BY <1>8, Unseen DEF Else, VisitInv
  <2>2. QED
    BY <1>8, <2>1 DEF Else, Now, Result
<1>9. CASE Merge
  BY <1>9, Unseen DEF Merge, Now, Result
<1>10. CASE UNCHANGED vars
  <2>1. Todo' = Todo /\ Fresh' = Fresh
    BY <1>10, Unseen DEF vars
  <2>2. Now' = Now /\ Result' = Result
    BY <1>10 DEF vars, Now, Result, Given
  <2>3. QED
    BY <2>1, <2>2
<1>11. QED
  BY <1>2, <1>3, <1>4, <1>5, <1>6, <1>7, <1>8, <1>9, <1>10 DEF Next, Step

\* The loop that ForExprAST generates gives its body the promised elements, each
\* once, in order and with its index, for any type and the ends of any loop, and
\* runs its else part only if there are none: ImplementsForEach without the
\* fairness with which it also ends.
THEOREM LoopGivesPromised == Spec => Abstract!Safety
<1>1. Init => Abstract!Init
  BY DEF Init, Abstract!Init
<1>2. IInv /\ IInv' /\ VisitInv /\ VisitInv' /\ [Next]_vars => [Abstract!Next]_(Abstract!vars)
  BY LoopStep
<1>3. QED
  BY <1>1, <1>2, InitVisit, NextVisit, Invariant, PTL DEF Spec, Abstract!Safety
=============================================================================
