---------------------------- MODULE BranchProofs ----------------------------
(***************************************************************************)
(* What holds of the code of any function body, of any length and however  *)
(* its branches nest: the branches are laid out one within the other, so   *)
(* that control enters one only at its start, a loop restores the stack it *)
(* was entered with, and a brk leaves as many statements as it has levels. *)
(* Every place control can arrive at finds the variables in scope that the *)
(* parser recorded there, each with its object, and each way out of a      *)
(* branch destroys once what goes out of scope.                            *)
(***************************************************************************)
EXTENDS BranchFlow, FiniteSetTheorems, WellFoundedInduction, TLAPS

-----------------------------------------------------------------------------
(* Types.                                                                  *)

Ops == {"enter", "cond", "decl", "brk", "return", "endthen", "endelse"}

Objects == Names \X Nat
Tables  == UNION {[D -> [slot : Nat, part : Nat]] : D \in SUBSET Names}
Instructions ==
  [op : Ops, branch : Nat, objs : SUBSET Objects, levels : Nat, scope : SUBSET Nat]
Branches ==
  [kind : Kinds, elif : BOOLEAN, start : Nat, else_at : Nat, merge_at : Nat,
   vars : SUBSET Nat, merged_vars : SUBSET Names, has_merge : BOOLEAN]
Opens ==
  [branch : Nat, kind : Kinds, elif : BOOLEAN, part : {"then", "else"},
   brk_part : Nat, max_brk_level : Nat, returned : BOOLEAN,
   then_vars : Tables, then_returned : BOOLEAN, then_brks : Nat]

TypeInv ==
  /\ family \in Families
  /\ parse \in {"body", "close", "done"}
  /\ tokens \in Nat
  /\ open \in Seq(Opens)
  /\ locals_table \in Seq(Tables) /\ Len(locals_table) = Len(open) + 1
  /\ slots \in Nat
  /\ branch \in Seq(Branches)
  /\ code \in Seq(Instructions)
  /\ ended \in BOOLEAN

\* The order of numbers.
Less == {p \in Nat \X Nat : p[1] < p[2]}

\* A set of numbers that has a member has a least one.
LEMMA LeastOf ==
  ASSUME NEW T \in SUBSET Nat, T # {}
  PROVE  \E x \in T : \A y \in T : x <= y
<1>1. Less = OpToRel(<, Nat)
  BY DEF OpToRel, Less
<1>2. PICK x \in T : \A y \in T : ~ (<<y, x>> \in Less)
  BY <1>1, NatLessThanWellFounded, WFMin
<1>3. \A y \in T : x <= y
  <2> TAKE y \in T
  <2>1. <<y, x>> \in Nat \X Nat /\ ~(y < x)
    BY <1>2 DEF Less
  <2>2. QED
    BY <2>1
<1>4. QED
  BY <1>3

\* The names and the storage of a scope.
LEMMA TableFacts ==
  ASSUME NEW t \in Tables
  PROVE  /\ DOMAIN t \in SUBSET Names
         /\ \A n \in DOMAIN t : t[n] \in [slot : Nat, part : Nat]
         /\ Variables(t) \in SUBSET Objects /\ Storage(t) \in SUBSET Nat
<1>1. PICK D \in SUBSET Names : t \in [D -> [slot : Nat, part : Nat]]
  BY DEF Tables
<1>2. DOMAIN t = D /\ \A n \in D : t[n] \in [slot : Nat, part : Nat]
  BY <1>1
<1>3. \A n \in D : t[n].slot \in Nat /\ <<n, t[n].slot>> \in Objects
  BY <1>2 DEF Objects
<1>4. QED
  BY <1>2, <1>3 DEF Variables, Storage

\* A function like that is a scope.
LEMMA TableMade ==
  ASSUME NEW D \in SUBSET Names, NEW t, t = [n \in D |-> t[n]],
         \A n \in D : t[n] \in [slot : Nat, part : Nat]
  PROVE  t \in Tables
<1>1. t \in [D -> [slot : Nat, part : Nat]]
  OBVIOUS
<1>2. QED
  BY <1>1 DEF Tables

\* An empty scope.
LEMMA NoVarsFacts == NoVars \in Tables /\ DOMAIN NoVars = {}
<1>1. NoVars \in [{} -> [slot : Nat, part : Nat]]
  BY DEF NoVars
<1>2. QED
  BY <1>1 DEF Tables

\* What is in scope has storage.
LEMMA InScopeType ==
  ASSUME NEW ts \in Seq(Tables)
  PROVE  InScope(ts) \in SUBSET Nat
<1>1. \A i \in 1 .. Len(ts) : Storage(ts[i]) \in SUBSET Nat
  BY TableFacts
<1>2. QED
  BY <1>1 DEF InScope

\* What is destroyed are names with their storage.
LEMMA DestructType ==
  ASSUME locals_table \in Seq(Tables), NEW b \in 1 .. Len(locals_table)
  PROVE  get_destruct_vars(b) \in SUBSET Objects
<1>1. \A i \in Len(locals_table) - b + 1 .. Len(locals_table) :
        i \in 1 .. Len(locals_table) /\ Variables(locals_table[i]) \in SUBSET Objects
  BY TableFacts
<1>2. QED
  BY <1>1 DEF get_destruct_vars

\* The fields of an instruction.
LEMMA InstructionType ==
  ASSUME NEW op \in Ops, NEW b \in Nat, NEW objs \in SUBSET Objects, NEW levels \in Nat,
         NEW ts \in Seq(Tables)
  PROVE  /\ Instruction(op, b, objs, levels, ts) \in Instructions
         /\ Instruction(op, b, objs, levels, ts).op = op
         /\ Instruction(op, b, objs, levels, ts).branch = b
         /\ Instruction(op, b, objs, levels, ts).objs = objs
         /\ Instruction(op, b, objs, levels, ts).levels = levels
         /\ Instruction(op, b, objs, levels, ts).scope = InScope(ts)
BY InScopeType DEF Instruction, Instructions

\* A brk finds the statement it leaves among those that are open.
LEMMA BrkDepthFits ==
  ASSUME open \in Seq(Opens), NEW levels \in Nat \ {0},
         levels <= Cardinality({i \in 1 .. Depth : syntax_nesting(i) = 1})
  PROVE  /\ BrkDepth(levels) \in 1 .. Depth
         /\ syntax_nesting(Depth - BrkDepth(levels) + 1) = 1
         /\ Cardinality({i \in Depth - BrkDepth(levels) + 1 .. Depth :
                           syntax_nesting(i) = 1}) = levels
<1> DEFINE N(d) == {i \in Depth - d + 1 .. Depth : syntax_nesting(i) = 1}
           T == {d \in 1 .. Depth : Cardinality(N(d)) >= levels}
<1>0. Depth \in Nat
  BY DEF Depth
<1>1. \A d \in 0 .. Depth : IsFiniteSet(N(d)) /\ Cardinality(N(d)) \in Nat
  <2> TAKE d \in 0 .. Depth
  <2>1. IsFiniteSet(Depth - d + 1 .. Depth)
    BY <1>0, FS_Interval
  <2>2. QED
    BY <2>1, FS_Subset, FS_CardinalityType
<1>2. N(0) = {} /\ Cardinality(N(0)) = 0
  <2>1. N(0) = {}
    BY <1>0
  <2>2. QED
    BY <2>1, FS_EmptySet
<1>3. N(Depth) = {i \in 1 .. Depth : syntax_nesting(i) = 1}
  <2>1. Depth - Depth + 1 = 1
    BY <1>0
  <2>2. QED
    BY <2>1
<1>4. Depth # 0
  <2> SUFFICES ASSUME Depth = 0 PROVE FALSE
    OBVIOUS
  <2>1. Cardinality({i \in 1 .. Depth : syntax_nesting(i) = 1}) = 0
    BY <1>2, <1>3
  <2>2. QED
    BY <2>1
<1>5. Depth \in T
  BY <1>0, <1>3, <1>4
<1>6. PICK d \in T : \A e \in T : d <= e
  <2>1. T \in SUBSET Nat
    BY <1>0
  <2>2. QED
    BY <1>5, <2>1, LeastOf
<1>7. d \in 1 .. Depth /\ d - 1 \in 0 .. Depth /\ d - 1 \notin T
  <2>1. d \in 1 .. Depth
    OBVIOUS
  <2>2. d - 1 \in 0 .. Depth /\ ~(d <= d - 1)
    BY <1>0, <2>1
  <2>3. QED
    BY <1>6, <2>1, <2>2
<1>8. Cardinality(N(d)) >= levels /\ Cardinality(N(d - 1)) < levels
  <2>1. CASE d = 1
    <3>1. d - 1 = 0
      BY <2>1
    <3>2. QED
      BY <1>2, <1>6, <3>1
  <2>2. CASE d # 1
    <3>1. d - 1 \in 1 .. Depth
      BY <1>0, <1>7, <2>2
    <3>2. ~(Cardinality(N(d - 1)) >= levels) /\ Cardinality(N(d - 1)) \in Nat
      BY <1>1, <1>7, <3>1
    <3>3. QED
      BY <3>2
  <2>3. QED
    BY <2>1, <2>2
<1>9. /\ syntax_nesting(Depth - d + 1) = 1 => N(d) = N(d - 1) \cup {Depth - d + 1}
      /\ syntax_nesting(Depth - d + 1) # 1 => N(d) = N(d - 1)
  <2>1. Depth - (d - 1) + 1 = Depth - d + 2 /\ Depth - d + 1 <= Depth
    BY <1>0, <1>7
  <2>2. Depth - d + 1 .. Depth = (Depth - (d - 1) + 1 .. Depth) \cup {Depth - d + 1}
    BY <1>0, <1>7, <2>1
  <2>3. QED
    BY <2>2
<1>10. syntax_nesting(Depth - d + 1) = 1 /\ Cardinality(N(d)) = levels
  <2>0. /\ IsFiniteSet(N(d - 1)) /\ Cardinality(N(d - 1)) \in Nat /\ Cardinality(N(d)) \in Nat
        /\ Cardinality(N(d)) >= levels /\ Cardinality(N(d - 1)) < levels
    <3> HIDE DEF N
    <3>1. d \in 0 .. Depth /\ d - 1 \in 0 .. Depth
      BY <1>0, <1>7
    <3>2. QED
      BY <1>1, <1>8, <3>1
  <2> HIDE DEF N, T
  <2>1. syntax_nesting(Depth - d + 1) = 1
    <3> SUFFICES ASSUME syntax_nesting(Depth - d + 1) # 1 PROVE FALSE
      OBVIOUS
    <3>1. Cardinality(N(d)) = Cardinality(N(d - 1))
      BY <1>9
    <3>2. QED
      BY <2>0, <3>1
  <2>2. Cardinality(N(d)) <= Cardinality(N(d - 1)) + 1
    <3>1. N(d) = N(d - 1) \cup {Depth - d + 1}
      BY <1>9, <2>1
    <3>2. Cardinality(N(d)) = IF Depth - d + 1 \in N(d - 1) THEN Cardinality(N(d - 1))
                              ELSE Cardinality(N(d - 1)) + 1
      BY <2>0, <3>1, FS_AddElement
    <3>3. QED
      BY <2>0, <3>2
  <2>3. QED
    BY <2>0, <2>1, <2>2
<1>11. QED
  BY <1>7, <1>10 DEF BrkDepth

-----------------------------------------------------------------------------
(* How the branches are laid out in the code.                              *)

\* Where the body begins.
BodyOf(r) == r.start + (IF r.kind \in {"while", "foreach"} THEN 2 ELSE 1)

\* The branches the parser is in are those without a merge point, the outer
\* ones first. The body of a loop does not return.
OpenInv(br, op) ==
  /\ \A i \in 1 .. Len(op) :
       /\ op[i].branch \in 1 .. Len(br)
       /\ br[op[i].branch].merge_at = 0
       /\ br[op[i].branch].kind = op[i].kind
       /\ br[op[i].branch].elif = op[i].elif
       /\ op[i].part = "then" => br[op[i].branch].else_at = 0
       /\ op[i].part = "else" => br[op[i].branch].else_at > 0
       /\ op[i].kind \in Loops /\ op[i].part = "then" => ~op[i].returned
  /\ \A i, j \in 1 .. Len(op) : i < j => op[i].branch < op[j].branch
  /\ \A b \in 1 .. Len(br) : br[b].merge_at = 0 => \E i \in 1 .. Len(op) : op[i].branch = b

\* The parts of one branch. A loop has something behind its head: the end of
\* its body.
PlacesInv(cd, br) ==
  \A b \in 1 .. Len(br) :
    /\ br[b].start >= 1 /\ BodyOf(br[b]) <= Len(cd) + 1
    /\ cd[br[b].start].op = "enter" /\ cd[br[b].start].branch = b
    /\ br[b].kind \in {"while", "foreach"} =>
         cd[br[b].start + 1].op = "cond" /\ cd[br[b].start + 1].branch = b
    /\ br[b].else_at > 0 =>
         /\ BodyOf(br[b]) <= br[b].else_at /\ br[b].else_at <= Len(cd) + 1
         /\ br[b].kind \in Loops => BodyOf(br[b]) < br[b].else_at
    /\ br[b].merge_at > 0 =>
         /\ BodyOf(br[b]) <= br[b].merge_at /\ br[b].merge_at <= Len(cd) + 1
         /\ br[b].else_at <= br[b].merge_at
         /\ br[b].kind \in Loops => BodyOf(br[b]) < br[b].merge_at

\* A later branch s is behind r, in its first part or in its second one.
Nested(r, s) ==
  \/ r.merge_at > 0 /\ r.merge_at <= s.start
  \/ /\ r.else_at > 0 => s.merge_at > 0 /\ s.merge_at <= r.else_at
     /\ r.merge_at > 0 => s.merge_at > 0 /\ s.merge_at <= r.merge_at
  \/ /\ r.else_at > 0 /\ r.else_at <= s.start
     /\ r.merge_at > 0 => s.merge_at > 0 /\ s.merge_at <= r.merge_at

NestInv(br) ==
  \A b, c \in 1 .. Len(br) : b < c => br[b].start < br[c].start /\ Nested(br[b], br[c])

\* The instructions of a branch are in it.
CodeInv(cd, br) ==
  \A i \in 1 .. Len(cd) :
    LET r == br[cd[i].branch]
    IN cd[i].op \notin {"decl", "return"} =>
         /\ cd[i].branch \in 1 .. Len(br)
         /\ cd[i].op = "enter" => i = r.start
         /\ cd[i].op = "cond" => i = r.start + 1 /\ r.kind \in {"while", "foreach"}
         /\ cd[i].op \in {"brk", "endthen", "endelse"} =>
              r.start < i /\ (r.merge_at > 0 => i < r.merge_at)
         /\ cd[i].op = "endthen" => BodyOf(r) <= i /\ (r.else_at > 0 => i < r.else_at)
         /\ cd[i].op = "endelse" => r.else_at > 0 /\ r.else_at <= i

Structured(cd, br, op) ==
  /\ cd \in Seq(Instructions) /\ br \in Seq(Branches) /\ op \in Seq(Opens)
  /\ OpenInv(br, op) /\ PlacesInv(cd, br) /\ NestInv(br) /\ CodeInv(cd, br)

\* What the code of a part may be extended with.
Fits(x, op) ==
  \/ x.op \in {"decl", "return"}
  \/ \E i \in 1 .. Len(op) :
       /\ x.branch = op[i].branch
       /\ \/ x.op = "brk"
          \/ x.op = "endthen" /\ op[i].part = "then"
          \/ x.op = "endelse" /\ op[i].part = "else"

\* The numbers of a branch.
LEMMA BranchFacts ==
  ASSUME NEW br \in Seq(Branches), NEW b \in 1 .. Len(br)
  PROVE  /\ br[b] \in Branches
         /\ br[b].start \in Nat /\ br[b].else_at \in Nat /\ br[b].merge_at \in Nat
         /\ br[b].kind \in Kinds /\ BodyOf(br[b]) \in Nat /\ br[b].start < BodyOf(br[b])
         /\ br[b].kind \in {"while", "foreach"} => br[b].start + 1 < BodyOf(br[b])
<1>1. br[b] \in Branches
  OBVIOUS
<1>2. QED
  BY <1>1 DEF Branches, BodyOf

\* An instruction is added to the parts that are being parsed.
LEMMA CodeExtended ==
  ASSUME NEW cd, NEW br, NEW op, Structured(cd, br, op), NEW x \in Instructions, Fits(x, op)
  PROVE  Structured(Append(cd, x), br, op)
<1> DEFINE d == Append(cd, x)
<1>1. /\ cd \in Seq(Instructions) /\ br \in Seq(Branches) /\ op \in Seq(Opens)
      /\ OpenInv(br, op) /\ PlacesInv(cd, br) /\ NestInv(br) /\ CodeInv(cd, br)
  BY DEF Structured
<1>2. /\ d \in Seq(Instructions) /\ Len(d) = Len(cd) + 1 /\ Len(cd) \in Nat
      /\ \A i \in 1 .. Len(cd) : d[i] = cd[i]
      /\ d[Len(cd) + 1] = x
  BY <1>1
<1> HIDE DEF d
<1>3. PlacesInv(d, br)
  <2> SUFFICES ASSUME NEW b \in 1 .. Len(br)
               PROVE  PlacesInv(d, br)!(b)
    BY DEF PlacesInv
  <2>1. PlacesInv(cd, br)!(b)
    BY <1>1 DEF PlacesInv
  <2>2. /\ br[b].start \in Nat /\ br[b].else_at \in Nat /\ br[b].merge_at \in Nat
        /\ BodyOf(br[b]) \in Nat /\ br[b].start < BodyOf(br[b])
        /\ br[b].kind \in {"while", "foreach"} => br[b].start + 1 < BodyOf(br[b])
    BY <1>1, BranchFacts
  <2>3. d[br[b].start] = cd[br[b].start]
    BY <1>2, <2>1, <2>2
  <2>4. br[b].kind \in {"while", "foreach"} => d[br[b].start + 1] = cd[br[b].start + 1]
    BY <1>2, <2>1, <2>2
  <2>5. QED
    BY <1>2, <2>1, <2>2, <2>3, <2>4
<1>4. CodeInv(d, br)
  <2> SUFFICES ASSUME NEW i \in 1 .. Len(d)
               PROVE  CodeInv(d, br)!(i)
    BY DEF CodeInv
  <2>1. CASE i # Len(cd) + 1
    <3>1. i \in 1 .. Len(cd) /\ d[i] = cd[i]
      BY <1>2, <2>1
    <3>2. CodeInv(cd, br)!(i)
      BY <1>1, <3>1 DEF CodeInv
    <3>3. QED
      BY <3>1, <3>2
  <2>2. CASE i = Len(cd) + 1
    <3>1. d[i] = x
      BY <1>2, <2>2
    <3>2. CASE x.op \in {"decl", "return"}
      BY <3>1, <3>2
    <3>3. CASE x.op \notin {"decl", "return"}
      <4>1. PICK k \in 1 .. Len(op) :
              /\ x.branch = op[k].branch
              /\ \/ x.op = "brk"
                 \/ x.op = "endthen" /\ op[k].part = "then"
                 \/ x.op = "endelse" /\ op[k].part = "else"
        BY <3>3 DEF Fits
      <4> DEFINE r == br[x.branch]
      <4>2. /\ x.branch \in 1 .. Len(br) /\ r.merge_at = 0
            /\ op[k].part = "then" => r.else_at = 0
            /\ op[k].part = "else" => r.else_at > 0
        BY <1>1, <4>1 DEF OpenInv
      <4>3. /\ BodyOf(r) <= Len(cd) + 1
            /\ r.else_at > 0 => r.else_at <= Len(cd) + 1
        BY <1>1, <4>2 DEF PlacesInv
      <4>4. /\ r.start \in Nat /\ r.else_at \in Nat /\ BodyOf(r) \in Nat /\ r.start < BodyOf(r)
        BY <1>1, <4>2, BranchFacts
      <4> HIDE DEF r
      <4>5. /\ r.start < i /\ ~(r.merge_at > 0)
            /\ x.op = "endthen" => BodyOf(r) <= i /\ ~(r.else_at > 0)
            /\ x.op = "endelse" => r.else_at > 0 /\ r.else_at <= i
        BY <1>2, <2>2, <4>1, <4>2, <4>3, <4>4
      <4>6. QED
        BY <3>1, <4>1, <4>2, <4>5 DEF r
    <3>4. QED
      BY <3>2, <3>3
  <2>3. QED
    BY <2>1, <2>2
<1>5. QED
  BY <1>1, <1>2, <1>3, <1>4 DEF Structured, d

\* A branch is opened at the end of the code.
LEMMA BranchOpened ==
  ASSUME NEW cd, NEW br, NEW op, Structured(cd, br, op),
         NEW d \in Seq(Instructions), NEW r \in Branches, NEW o \in Opens,
         Len(d) >= Len(cd) + 1,
         \A i \in 1 .. Len(cd) : d[i] = cd[i],
         d[Len(cd) + 1].op = "enter", d[Len(cd) + 1].branch = Len(br) + 1,
         r.kind \in {"while", "foreach"} =>
           /\ Len(d) = Len(cd) + 2
           /\ d[Len(cd) + 2].op = "cond" /\ d[Len(cd) + 2].branch = Len(br) + 1,
         r.kind \notin {"while", "foreach"} => Len(d) = Len(cd) + 1,
         r.start = Len(cd) + 1, r.else_at = 0, r.merge_at = 0,
         o.branch = Len(br) + 1, o.kind = r.kind, o.elif = r.elif, o.part = "then", ~o.returned
  PROVE  Structured(d, Append(br, r), Append(op, o))
<1> DEFINE br2 == Append(br, r)
           op2 == Append(op, o)
           new == Len(br) + 1
<1>0. Len(cd) \in Nat /\ Len(d) \in Nat /\ Len(d) >= Len(cd) + 1
  BY DEF Structured
<1>1. /\ cd \in Seq(Instructions) /\ br \in Seq(Branches) /\ op \in Seq(Opens)
      /\ OpenInv(br, op) /\ PlacesInv(cd, br) /\ NestInv(br) /\ CodeInv(cd, br)
  BY DEF Structured
<1>2. /\ Len(cd) \in Nat /\ Len(d) \in Nat /\ Len(br) \in Nat /\ Len(op) \in Nat
      /\ br2 \in Seq(Branches) /\ Len(br2) = new /\ br2[new] = r
      /\ \A b \in 1 .. Len(br) : br2[b] = br[b]
      /\ op2 \in Seq(Opens) /\ Len(op2) = Len(op) + 1 /\ op2[Len(op) + 1] = o
      /\ \A i \in 1 .. Len(op) : op2[i] = op[i]
  BY <1>1
<1>3. /\ r.start \in Nat /\ BodyOf(r) = Len(d) + 1
      /\ r.kind \in {"while", "foreach"} => r.start + 1 = Len(cd) + 2
  BY <1>2 DEF BodyOf
<1> HIDE DEF br2, op2
<1>4. OpenInv(br2, op2)
  <2>1. \A i \in 1 .. Len(op2) : OpenInv(br2, op2)!1!(i)
    <3> SUFFICES ASSUME NEW i \in 1 .. Len(op2) PROVE OpenInv(br2, op2)!1!(i)
      OBVIOUS
    <3>1. CASE i = Len(op) + 1
      <4>1. op2[i] = o /\ o.branch = new /\ br2[new] = r /\ new \in 1 .. Len(br2)
        BY <1>2, <3>1
      <4>2. QED
        BY <4>1
    <3>2. CASE i # Len(op) + 1
      <4>1. i \in 1 .. Len(op) /\ op2[i] = op[i]
        BY <1>2, <3>2
      <4>2. OpenInv(br, op)!1!(i)
        BY <1>1, <4>1 DEF OpenInv
      <4>3. op[i].branch \in 1 .. Len(br2) /\ br2[op[i].branch] = br[op[i].branch]
        BY <1>2, <4>2
      <4>4. QED
        BY <4>1, <4>2, <4>3
    <3>3. QED
      BY <3>1, <3>2
  <2>2. \A i, j \in 1 .. Len(op2) : i < j => op2[i].branch < op2[j].branch
    <3> SUFFICES ASSUME NEW i \in 1 .. Len(op2), NEW j \in 1 .. Len(op2), i < j
                 PROVE  op2[i].branch < op2[j].branch
      OBVIOUS
    <3>1. i \in 1 .. Len(op) /\ op2[i] = op[i] /\ op[i].branch \in 1 .. Len(br)
      BY <1>1, <1>2 DEF OpenInv
    <3>2. CASE j = Len(op) + 1
      BY <1>2, <3>1, <3>2
    <3>3. CASE j # Len(op) + 1
      <4>1. j \in 1 .. Len(op)
        BY <1>2, <3>3
      <4>2. op2[j] = op[j]
        BY <1>2, <4>1
      <4>3. QED
        BY <1>1, <3>1, <4>1, <4>2 DEF OpenInv
    <3>4. QED
      BY <3>2, <3>3
  <2>3. \A b \in 1 .. Len(br2) : br2[b].merge_at = 0 => \E i \in 1 .. Len(op2) : op2[i].branch = b
    <3> SUFFICES ASSUME NEW b \in 1 .. Len(br2), br2[b].merge_at = 0
                 PROVE  \E i \in 1 .. Len(op2) : op2[i].branch = b
      OBVIOUS
    <3>1. CASE b = new
      <4>1. Len(op) + 1 \in 1 .. Len(op2) /\ op2[Len(op) + 1].branch = b
        BY <1>2, <3>1
      <4>2. QED
        BY <4>1
    <3>2. CASE b # new
      <4>1. b \in 1 .. Len(br) /\ br[b].merge_at = 0
        BY <1>2, <3>2
      <4>2. PICK i \in 1 .. Len(op) : op[i].branch = b
        BY <1>1, <4>1 DEF OpenInv
      <4>3. i \in 1 .. Len(op2) /\ op2[i].branch = b
        BY <1>2, <4>2
      <4>4. QED
        BY <4>3
    <3>3. QED
      BY <3>1, <3>2
  <2>4. QED
    BY <2>1, <2>2, <2>3 DEF OpenInv
<1>5. PlacesInv(d, br2)
  <2> SUFFICES ASSUME NEW b \in 1 .. Len(br2) PROVE PlacesInv(d, br2)!(b)
    BY DEF PlacesInv
  <2>1. CASE b = new
    <3>1. br2[b] = r
      BY <1>2, <2>1
    <3>2. QED
      BY <1>2, <1>3, <2>1, <3>1
  <2>2. CASE b # new
    <3>1. b \in 1 .. Len(br) /\ br2[b] = br[b]
      BY <1>2, <2>2
    <3>2. PlacesInv(cd, br)!(b)
      BY <1>1, <3>1 DEF PlacesInv
    <3>3. /\ br[b].start \in Nat /\ br[b].else_at \in Nat /\ br[b].merge_at \in Nat
          /\ BodyOf(br[b]) \in Nat /\ br[b].start < BodyOf(br[b])
          /\ br[b].kind \in {"while", "foreach"} => br[b].start + 1 < BodyOf(br[b])
      BY <1>1, <3>1, BranchFacts
    <3>4. d[br[b].start] = cd[br[b].start]
      BY <1>0, <3>2, <3>3
    <3>5. br[b].kind \in {"while", "foreach"} => d[br[b].start + 1] = cd[br[b].start + 1]
      BY <1>0, <3>2, <3>3
    <3>6. /\ BodyOf(br[b]) <= Len(d) + 1
          /\ br[b].else_at > 0 => br[b].else_at <= Len(d) + 1
          /\ br[b].merge_at > 0 => br[b].merge_at <= Len(d) + 1
      BY <1>0, <3>2, <3>3
    <3>7. PlacesInv(d, br)!(b)
      BY <3>2, <3>4, <3>5, <3>6
    <3>8. QED
      BY <3>1, <3>7
  <2>3. QED
    BY <2>1, <2>2
<1>6. NestInv(br2)
  <2> SUFFICES ASSUME NEW b \in 1 .. Len(br2), NEW c \in 1 .. Len(br2), b < c
               PROVE  br2[b].start < br2[c].start /\ Nested(br2[b], br2[c])
    BY DEF NestInv
  <2>1. b \in 1 .. Len(br) /\ br2[b] = br[b]
    BY <1>2
  <2>2. CASE c = new
    <3>1. br2[c] = r
      BY <1>2, <2>2
    <3>2. PlacesInv(cd, br)!(b)
      BY <1>1, <2>1 DEF PlacesInv
    <3>3. /\ br[b].start \in Nat /\ br[b].else_at \in Nat /\ br[b].merge_at \in Nat
          /\ BodyOf(br[b]) \in Nat /\ br[b].start < BodyOf(br[b])
      BY <1>1, <2>1, BranchFacts
    <3>4. br[b].start < r.start /\ (br[b].merge_at > 0 => br[b].merge_at <= r.start)
          /\ (br[b].else_at > 0 => br[b].else_at <= r.start)
      BY <1>2, <3>2, <3>3
    <3>5. Nested(br[b], r)
      BY <3>4 DEF Nested
    <3>6. QED
      BY <2>1, <3>1, <3>4, <3>5
  <2>3. CASE c # new
    <3>1. c \in 1 .. Len(br) /\ br2[c] = br[c]
      BY <1>2, <2>3
    <3>2. QED
      BY <1>1, <2>1, <3>1 DEF NestInv
  <2>4. QED
    BY <2>2, <2>3
<1>7. CodeInv(d, br2)
  <2> SUFFICES ASSUME NEW i \in 1 .. Len(d) PROVE CodeInv(d, br2)!(i)
    BY DEF CodeInv
  <2>1. CASE i \in 1 .. Len(cd)
    <3>1. CodeInv(cd, br)!(i) /\ d[i] = cd[i]
      BY <1>1, <2>1 DEF CodeInv
    <3>2. cd[i].branch \in 1 .. Len(br) => br2[cd[i].branch] = br[cd[i].branch]
      BY <1>2
    <3>3. Len(br2) >= Len(br)
      BY <1>2
    <3>4. QED
      BY <1>2, <3>1, <3>2, <3>3
  <2>2. CASE i = Len(cd) + 1
    BY <1>2, <2>2
  <2>3. CASE i = Len(cd) + 2 /\ r.kind \in {"while", "foreach"}
    BY <1>2, <1>3, <2>3
  <2>4. QED
    BY <1>2, <2>1, <2>2, <2>3
<1>8. QED
  BY <1>1, <1>2, <1>4, <1>5, <1>6, <1>7 DEF Structured, br2, op2

\* The innermost branch is the last one that has no merge point.
LEMMA InnermostIsLast ==
  ASSUME NEW br, NEW op, br \in Seq(Branches), op \in Seq(Opens), OpenInv(br, op), Len(op) > 0,
         NEW c \in 1 .. Len(br), c > op[Len(op)].branch
  PROVE  br[c].merge_at > 0
<1>1. br[c].merge_at \in Nat /\ Len(op) \in Nat
  BY BranchFacts
<1>2. ASSUME br[c].merge_at = 0 PROVE FALSE
  <2>1. PICK i \in 1 .. Len(op) : op[i].branch = c
    BY <1>2 DEF OpenInv
  <2>2. Len(op) \in 1 .. Len(op) /\ op[Len(op)].branch \in 1 .. Len(br)
    BY <1>1 DEF OpenInv
  <2>3. i < Len(op) => op[i].branch < op[Len(op)].branch
    BY <2>1, <2>2 DEF OpenInv
  <2>4. i = Len(op) \/ i < Len(op)
    BY <1>1
  <2>5. QED
    BY <2>1, <2>2, <2>3, <2>4
<1>3. QED
  BY <1>1, <1>2

\* The innermost branch gets its else part or its merge point at the end of the code.
Placed(cd, s, r) ==
  /\ r.start = s.start /\ r.kind = s.kind /\ r.elif = s.elif
  /\ \/ r.else_at = s.else_at /\ r.merge_at = Len(cd) + 1
     \/ s.else_at = 0 /\ r.else_at = Len(cd) + 1 /\ r.merge_at = 0
  /\ r.kind \in Loops => BodyOf(r) < Len(cd) + 1

\* Where a branch gets its else part or its merge point does not move the others.
LEMMA BranchPlaced ==
  ASSUME NEW cd, NEW br, NEW op, Structured(cd, br, op), Len(op) > 0,
         NEW b, b = op[Len(op)].branch,
         NEW r \in Branches, Placed(cd, br[b], r)
  PROVE  LET br2 == [br EXCEPT ![b] = r]
         IN /\ br2 \in Seq(Branches) /\ Len(br2) = Len(br)
            /\ b \in 1 .. Len(br) /\ br[b].merge_at = 0
            /\ br2[b] = r /\ \A c \in 1 .. Len(br) : c # b => br2[c] = br[c]
            /\ PlacesInv(cd, br2) /\ NestInv(br2) /\ CodeInv(cd, br2)
<1> DEFINE br2 == [br EXCEPT ![b] = r]
<1>1. /\ cd \in Seq(Instructions) /\ br \in Seq(Branches) /\ op \in Seq(Opens)
      /\ OpenInv(br, op) /\ PlacesInv(cd, br) /\ NestInv(br) /\ CodeInv(cd, br)
  BY DEF Structured
<1>2. b \in 1 .. Len(br) /\ br[b].merge_at = 0
  <2>1. Len(op) \in 1 .. Len(op)
    BY <1>1
  <2>2. QED
    BY <1>1, <2>1 DEF OpenInv
<1>3. /\ br2 \in Seq(Branches) /\ Len(br2) = Len(br)
      /\ br2[b] = r /\ \A c \in 1 .. Len(br) : c # b => br2[c] = br[c]
  BY <1>1, <1>2
<1> HIDE DEF br2
<1>4. Len(cd) \in Nat
  BY <1>1
<1>5. /\ br[b].start \in Nat /\ br[b].else_at \in Nat /\ BodyOf(br[b]) \in Nat
      /\ br[b].start < BodyOf(br[b]) /\ BodyOf(r) = BodyOf(br[b])
  BY <1>1, <1>2, BranchFacts DEF BodyOf, Placed
<1>6. /\ r.start = br[b].start /\ r.kind = br[b].kind /\ BodyOf(r) = BodyOf(br[b])
      /\ \/ r.else_at = br[b].else_at /\ r.merge_at = Len(cd) + 1
         \/ br[b].else_at = 0 /\ r.else_at = Len(cd) + 1 /\ r.merge_at = 0
      /\ r.kind \in Loops => BodyOf(r) < Len(cd) + 1
  BY <1>5 DEF Placed
<1>7. PlacesInv(cd, br2)
  <2> SUFFICES ASSUME NEW c \in 1 .. Len(br2) PROVE PlacesInv(cd, br2)!(c)
    BY DEF PlacesInv
  <2>1. c \in 1 .. Len(br) /\ PlacesInv(cd, br)!(c)
    BY <1>1, <1>3 DEF PlacesInv
  <2>2. CASE c # b
    <3>1. br2[c] = br[c]
      BY <1>3, <2>1, <2>2
    <3>2. QED
      BY <2>1, <3>1
  <2>3. CASE c = b
    <3>1. br2[c] = r
      BY <1>3, <2>3
    <3>2. PlacesInv(cd, br)!(b)
      BY <2>1, <2>3
    <3>3. /\ r.start >= 1 /\ BodyOf(r) <= Len(cd) + 1
          /\ cd[r.start].op = "enter" /\ cd[r.start].branch = b
          /\ r.kind \in {"while", "foreach"} =>
               cd[r.start + 1].op = "cond" /\ cd[r.start + 1].branch = b
      BY <1>6, <3>2
    <3>4. /\ r.else_at > 0 =>
               /\ BodyOf(r) <= r.else_at /\ r.else_at <= Len(cd) + 1
               /\ r.kind \in Loops => BodyOf(r) < r.else_at
      BY <1>4, <1>5, <1>6, <3>2, <3>3
    <3>5. /\ r.merge_at > 0 =>
               /\ BodyOf(r) <= r.merge_at /\ r.merge_at <= Len(cd) + 1
               /\ r.else_at <= r.merge_at
               /\ r.kind \in Loops => BodyOf(r) < r.merge_at
      <4>1. r.merge_at > 0 => r.merge_at = Len(cd) + 1
        BY <1>4, <1>6
      <4>2. br[b].else_at > 0 => br[b].else_at <= Len(cd) + 1
        BY <3>2
      <4>3. r.else_at <= Len(cd) + 1
        BY <1>4, <1>5, <1>6, <4>2
      <4>4. QED
        BY <1>4, <1>5, <1>6, <3>3, <4>1, <4>3
    <3>6. QED
      BY <2>3, <3>1, <3>3, <3>4, <3>5
  <2>4. QED
    BY <2>2, <2>3
<1>8. NestInv(br2)
  <2> SUFFICES ASSUME NEW a \in 1 .. Len(br2), NEW c \in 1 .. Len(br2), a < c
               PROVE  br2[a].start < br2[c].start /\ Nested(br2[a], br2[c])
    BY DEF NestInv
  <2>1. a \in 1 .. Len(br) /\ c \in 1 .. Len(br)
    BY <1>3
  <2>2. br[a].start < br[c].start /\ Nested(br[a], br[c])
    BY <1>1, <2>1 DEF NestInv
  <2>3. CASE a # b /\ c # b
    BY <1>3, <2>1, <2>2, <2>3
  <2>4. CASE a # b /\ c = b
    <3>1. br2[a] = br[a] /\ br2[c] = r
      BY <1>3, <2>1, <2>4
    <3>2. Nested(br[a], r)
      BY <1>2, <1>6, <2>2, <2>4 DEF Nested
    <3>3. QED
      BY <1>6, <2>2, <2>4, <3>1, <3>2
  <2>5. CASE a = b
    <3>1. br2[a] = r /\ br2[c] = br[c]
      BY <1>3, <2>1, <2>5
    <3>2. br[c].merge_at > 0
      BY <1>1, <2>1, <2>5, InnermostIsLast
    <3>3. br[c].merge_at <= Len(cd) + 1
      BY <1>1, <2>1, <3>2 DEF PlacesInv
    <3>4. Nested(r, br[c])
      <4>1. CASE r.else_at = br[b].else_at /\ r.merge_at = Len(cd) + 1
        BY <1>2, <2>2, <2>5, <3>2, <3>3, <4>1 DEF Nested
      <4>2. CASE r.else_at = Len(cd) + 1 /\ r.merge_at = 0
        BY <3>2, <3>3, <4>2 DEF Nested
      <4>3. QED
        BY <1>6, <4>1, <4>2
    <3>5. QED
      BY <1>6, <2>2, <2>5, <3>1, <3>4
  <2>6. QED
    BY <2>3, <2>4, <2>5
<1>9. CodeInv(cd, br2)
  <2> SUFFICES ASSUME NEW i \in 1 .. Len(cd) PROVE CodeInv(cd, br2)!(i)
    BY DEF CodeInv
  <2>1. CodeInv(cd, br)!(i)
    BY <1>1 DEF CodeInv
  <2>2. CASE cd[i].op \in {"decl", "return"}
    BY <2>2
  <2>3. CASE cd[i].op \notin {"decl", "return"} /\ cd[i].branch # b
    <3>1. br2[cd[i].branch] = br[cd[i].branch]
      BY <1>3, <2>1, <2>3
    <3>2. QED
      BY <1>3, <2>1, <2>3, <3>1
  <2>4. CASE cd[i].op \notin {"decl", "return"} /\ cd[i].branch = b
    <3>1. br2[b] = r
      BY <1>3
    <3>2. i \in Nat /\ i < Len(cd) + 1
      BY <1>4
    <3>3. QED
      BY <1>3, <1>5, <1>6, <2>1, <2>4, <3>1, <3>2
  <2>5. QED
    BY <2>2, <2>3, <2>4
<1>10. QED
  BY <1>2, <1>3, <1>7, <1>8, <1>9 DEF br2

\* The second part of the innermost branch begins.
LEMMA BranchSplit ==
  ASSUME NEW cd, NEW br, NEW op, Structured(cd, br, op), Len(op) > 0,
         NEW b, b = op[Len(op)].branch,
         NEW r \in Branches, Placed(cd, br[b], r), r.else_at > 0, r.merge_at = 0,
         NEW o \in Opens, o.branch = b, o.kind = r.kind, o.elif = r.elif, o.part = "else"
  PROVE  Structured(cd, [br EXCEPT ![b] = r], [op EXCEPT ![Len(op)] = o])
<1> DEFINE br2 == [br EXCEPT ![b] = r]
           op2 == [op EXCEPT ![Len(op)] = o]
<1>1. cd \in Seq(Instructions) /\ br \in Seq(Branches) /\ op \in Seq(Opens) /\ OpenInv(br, op)
  BY DEF Structured
<1>2. /\ br2 \in Seq(Branches) /\ Len(br2) = Len(br)
      /\ b \in 1 .. Len(br) /\ br[b].merge_at = 0
      /\ br2[b] = r /\ \A c \in 1 .. Len(br) : c # b => br2[c] = br[c]
      /\ PlacesInv(cd, br2) /\ NestInv(br2) /\ CodeInv(cd, br2)
  BY BranchPlaced
<1>3. /\ op2 \in Seq(Opens) /\ Len(op2) = Len(op) /\ Len(op) \in Nat
      /\ op2[Len(op)] = o /\ \A i \in 1 .. Len(op) : i # Len(op) => op2[i] = op[i]
  BY <1>1
<1> HIDE DEF br2, op2
<1>4. \A i \in 1 .. Len(op) : op2[i].branch = op[i].branch
  BY <1>3
<1>5. \A i \in 1 .. Len(op) : i # Len(op) => op[i].branch # b
  <2> SUFFICES ASSUME NEW i \in 1 .. Len(op), i # Len(op) PROVE op[i].branch < b /\ b \in Nat
                                                                /\ op[i].branch \in Nat
    OBVIOUS
  <2>1. Len(op) \in 1 .. Len(op) /\ i < Len(op)
    BY <1>3
  <2>2. QED
    BY <1>1, <1>2, <2>1 DEF OpenInv
<1>6. \A i \in 1 .. Len(op2) : OpenInv(br2, op2)!1!(i)
  <2> SUFFICES ASSUME NEW i \in 1 .. Len(op2) PROVE OpenInv(br2, op2)!1!(i)
    OBVIOUS
  <2>1. CASE i = Len(op)
    <3>1. op2[i] = o /\ br2[o.branch] = r /\ o.branch \in 1 .. Len(br2)
      BY <1>2, <1>3, <2>1
    <3>2. QED
      BY <3>1
  <2>2. CASE i # Len(op)
    <3>1. OpenInv(br, op)!1!(i) /\ op2[i] = op[i] /\ op[i].branch # b
      BY <1>1, <1>3, <1>5, <2>2 DEF OpenInv
    <3>2. br2[op[i].branch] = br[op[i].branch] /\ op[i].branch \in 1 .. Len(br2)
      BY <1>2, <3>1
    <3>3. QED
      BY <3>1, <3>2
  <2>3. QED
    BY <2>1, <2>2
<1>7. \A i, j \in 1 .. Len(op2) : i < j => op2[i].branch < op2[j].branch
  BY <1>1, <1>3, <1>4 DEF OpenInv
<1>8. \A c \in 1 .. Len(br2) : br2[c].merge_at = 0 => \E i \in 1 .. Len(op2) : op2[i].branch = c
  <2> SUFFICES ASSUME NEW c \in 1 .. Len(br), br2[c].merge_at = 0
               PROVE  \E i \in 1 .. Len(op) : op[i].branch = c
    BY <1>2, <1>3, <1>4
  <2>1. br[c].merge_at = 0
    BY <1>2
  <2>2. QED
    BY <1>1, <2>1 DEF OpenInv
<1>9. QED
  BY <1>1, <1>2, <1>3, <1>6, <1>7, <1>8 DEF Structured, OpenInv, br2, op2

\* What stays open when the innermost branch is closed.
WithoutLast(op2, op) ==
  /\ Len(op2) = Len(op) - 1
  /\ \A i \in 1 .. Len(op2) :
       /\ op2[i].branch = op[i].branch /\ op2[i].kind = op[i].kind
       /\ op2[i].elif = op[i].elif /\ op2[i].part = op[i].part
       /\ op2[i].kind \in Loops /\ op2[i].part = "then" => ~op2[i].returned

\* The innermost branch gets its merge point.
LEMMA BranchClosed ==
  ASSUME NEW cd, NEW br, NEW op, Structured(cd, br, op), Len(op) > 0,
         NEW b, b = op[Len(op)].branch,
         NEW r \in Branches, Placed(cd, br[b], r), r.merge_at > 0,
         NEW op2 \in Seq(Opens), WithoutLast(op2, op)
  PROVE  Structured(cd, [br EXCEPT ![b] = r], op2)
<1> DEFINE br2 == [br EXCEPT ![b] = r]
<1>1. /\ cd \in Seq(Instructions) /\ br \in Seq(Branches) /\ op \in Seq(Opens)
      /\ OpenInv(br, op)
  BY DEF Structured
<1>9. /\ Len(op2) = Len(op) - 1
      /\ \A i \in 1 .. Len(op2) : WithoutLast(op2, op)!2!(i)
  BY DEF WithoutLast
<1>2. /\ br2 \in Seq(Branches) /\ Len(br2) = Len(br)
      /\ b \in 1 .. Len(br) /\ br[b].merge_at = 0
      /\ br2[b] = r /\ \A c \in 1 .. Len(br) : c # b => br2[c] = br[c]
      /\ PlacesInv(cd, br2) /\ NestInv(br2) /\ CodeInv(cd, br2)
  BY BranchPlaced
<1>3. /\ Len(op) \in Nat /\ Len(op) \in 1 .. Len(op)
      /\ \A i \in 1 .. Len(op2) : i \in 1 .. Len(op) /\ i < Len(op)
  BY <1>1, <1>9
<1> HIDE DEF br2
<1>4. \A i \in 1 .. Len(op2) : op[i].branch # b
  <2> SUFFICES ASSUME NEW i \in 1 .. Len(op2) PROVE op[i].branch < b /\ b \in Nat
                                                    /\ op[i].branch \in Nat
    OBVIOUS
  <2>1. i \in 1 .. Len(op) /\ i < Len(op)
    BY <1>3
  <2>2. QED
    BY <1>1, <1>2, <1>3, <2>1 DEF OpenInv
<1>5. \A i \in 1 .. Len(op2) : OpenInv(br2, op2)!1!(i)
  <2> SUFFICES ASSUME NEW i \in 1 .. Len(op2) PROVE OpenInv(br2, op2)!1!(i)
    OBVIOUS
  <2>1. OpenInv(br, op)!1!(i) /\ op[i].branch # b
    BY <1>1, <1>3, <1>4, <1>9 DEF OpenInv
  <2>2. br2[op[i].branch] = br[op[i].branch] /\ op[i].branch \in 1 .. Len(br2)
    BY <1>2, <2>1
  <2>3. QED
    BY <1>9, <2>1, <2>2
<1>6. \A i, j \in 1 .. Len(op2) : i < j => op2[i].branch < op2[j].branch
  BY <1>1, <1>3, <1>9 DEF OpenInv
<1>7. \A c \in 1 .. Len(br2) : br2[c].merge_at = 0 => \E i \in 1 .. Len(op2) : op2[i].branch = c
  <2> SUFFICES ASSUME NEW c \in 1 .. Len(br), br2[c].merge_at = 0
               PROVE  \E i \in 1 .. Len(op2) : op2[i].branch = c
    BY <1>2
  <2>1. c # b
    BY <1>2
  <2>2. br[c].merge_at = 0
    BY <1>2, <2>1
  <2>3. PICK i \in 1 .. Len(op) : op[i].branch = c
    BY <1>1, <2>2 DEF OpenInv
  <2>4. i # Len(op)
    BY <2>1, <2>3
  <2>5. i \in 1 .. Len(op2)
    BY <1>3, <1>9, <2>4
  <2>6. QED
    BY <1>9, <2>3, <2>5
<1>8. QED
  BY <1>1, <1>2, <1>5, <1>6, <1>7 DEF Structured, OpenInv, br2

-----------------------------------------------------------------------------
(* The parser keeps that layout.                                           *)

ParseInv == TypeInv /\ Structured(code, branch, open)

\* The innermost branch and its scope.
LEMMA TopFacts ==
  ASSUME TypeInv
  PROVE  /\ Depth = Len(open) /\ Depth \in Nat
         /\ Len(locals_table) = Depth + 1 /\ locals_table[Depth + 1] \in Tables
         /\ Depth > 0 => Depth \in 1 .. Len(open) /\ Top = open[Len(open)] /\ Top \in Opens
<1>1. open \in Seq(Opens) /\ locals_table \in Seq(Tables) /\ Len(locals_table) = Len(open) + 1
  BY DEF TypeInv
<1>2. Depth = Len(open) /\ Len(open) \in Nat
  BY <1>1 DEF Depth
<1>3. Depth + 1 \in 1 .. Len(locals_table)
  BY <1>1, <1>2
<1>4. locals_table[Depth + 1] \in Tables
  BY <1>1, <1>3
<1>5. ASSUME Depth > 0 PROVE Depth \in 1 .. Len(open) /\ Top = open[Len(open)] /\ Top \in Opens
  <2>1. Depth \in 1 .. Len(open)
    BY <1>2, <1>5
  <2>2. open[Depth] \in Opens
    BY <1>1, <2>1
  <2>3. QED
    BY <1>2, <2>1, <2>2 DEF Top
<1>6. QED
  BY <1>1, <1>2, <1>4, <1>5

\* The fields of an open statement.
LEMMA OpensFields ==
  ASSUME NEW o \in Opens
  PROVE  /\ o.branch \in Nat /\ o.kind \in Kinds /\ o.elif \in BOOLEAN
         /\ o.part \in {"then", "else"} /\ o.brk_part \in Nat /\ o.max_brk_level \in Nat
         /\ o.returned \in BOOLEAN /\ o.then_vars \in Tables
         /\ o.then_returned \in BOOLEAN /\ o.then_brks \in Nat
BY DEF Opens

\* The code up to the end of the innermost part.
LEMMA PartEnded ==
  ASSUME ParseInv, Depth > 0
  PROVE  /\ Structured(EndOfPart, branch, open)
         /\ EndOfPart \in Seq(Instructions) /\ Len(EndOfPart) \in Nat
         /\ branch[Top.branch].kind \in Loops =>
              BodyOf(branch[Top.branch]) < Len(EndOfPart) + 1
<1> DEFINE op == IF Top.part = "then" THEN "endthen" ELSE "endelse"
           x == Instruction(op, Top.branch, get_destruct_vars(1), 0, locals_table)
           r == branch[Top.branch]
<1>1. /\ TypeInv /\ Structured(code, branch, open)
      /\ branch \in Seq(Branches) /\ code \in Seq(Instructions) /\ locals_table \in Seq(Tables)
      /\ OpenInv(branch, open) /\ PlacesInv(code, branch)
  BY DEF ParseInv, TypeInv, Structured
<1>2. /\ Depth \in Nat /\ Depth \in 1 .. Len(open) /\ Top = open[Depth] /\ Top \in Opens
      /\ Len(locals_table) = Depth + 1
  BY <1>1, TopFacts DEF Top
<1>3. /\ Top.branch \in 1 .. Len(branch) /\ Top.branch \in Nat
      /\ r.kind = Top.kind
      /\ Top.part = "then" => r.else_at = 0
      /\ Top.part = "else" => r.else_at > 0
      /\ Top.kind \in Loops /\ Top.part = "then" => ~Top.returned
      /\ Top.part \in {"then", "else"}
  BY <1>1, <1>2, OpensFields DEF OpenInv
<1>4. BodyOf(r) <= Len(code) + 1 /\ (r.else_at > 0 =>
        r.else_at <= Len(code) + 1 /\ (r.kind \in Loops => BodyOf(r) < r.else_at))
  BY <1>1, <1>3 DEF PlacesInv
<1>5. BodyOf(r) \in Nat /\ r.else_at \in Nat /\ Len(code) \in Nat
  BY <1>1, <1>3, BranchFacts
<1>6. x \in Instructions /\ x.op = op /\ x.branch = Top.branch
  <2>1. 1 \in 1 .. Len(locals_table)
    BY <1>2
  <2>2. get_destruct_vars(1) \in SUBSET Objects
    BY <1>1, <2>1, DestructType
  <2>3. op \in Ops
    BY DEF Ops
  <2>4. QED
    BY <1>1, <1>3, <2>2, <2>3, InstructionType
<1>7. Fits(x, open)
  BY <1>2, <1>3, <1>6 DEF Fits
<1> HIDE DEF x, r
<1>8. CASE Top.returned
  <2>1. EndOfPart = code
    BY <1>8 DEF EndOfPart
  <2>2. Top.kind \in Loops => BodyOf(r) < Len(code) + 1
    BY <1>3, <1>4, <1>5, <1>8
  <2>3. QED
    BY <1>1, <1>3, <1>5, <2>1, <2>2 DEF r
<1>9. CASE ~Top.returned
  <2>1. EndOfPart = Append(code, x)
    BY <1>9 DEF EndOfPart, x
  <2>2. Structured(Append(code, x), branch, open)
    BY <1>1, <1>6, <1>7, CodeExtended
  <2>3. Append(code, x) \in Seq(Instructions) /\ Len(Append(code, x)) = Len(code) + 1
    BY <1>1, <1>6
  <2>4. QED
    BY <1>4, <1>5, <2>1, <2>2, <2>3 DEF r
<1>10. QED
  BY <1>8, <1>9

\* The innermost of the branches whose second part is parsed.
LEMMA InnermostElse ==
  ASSUME TypeInv, NEW E \in SUBSET (1 .. Depth), E # {}
  PROVE  \E i \in E : \A j \in E : j <= i
<1> DEFINE T == {k \in Nat : Depth - k \in E}
<1>1. Depth \in Nat
  BY TopFacts
<1>2. PICK i \in E : TRUE
  OBVIOUS
<1>3. Depth - i \in T
  BY <1>1
<1>4. T \in SUBSET Nat /\ T # {}
  BY <1>3
<1>5. PICK k \in T : \A l \in T : k <= l
  BY <1>4, LeastOf
<1>6. \A j \in E : j <= Depth - k
  <2> TAKE j \in E
  <2>1. j \in Nat /\ Depth - j \in Nat /\ Depth - (Depth - j) = j
    BY <1>1
  <2>2. Depth - j \in T
    BY <2>1
  <2> HIDE DEF T
  <2>3. k <= Depth - j
    BY <1>5, <2>2
  <2>4. k \in Nat
    BY <1>4
  <2>5. QED
    BY <1>1, <2>1, <2>3, <2>4
<1>7. QED
  BY <1>5, <1>6

\* A variable gets storage.
LEMMA StorageOfType ==
  ASSUME TypeInv, NEW n
  PROVE  StorageOf(n) \in Nat
<1> DEFINE E == {i \in 1 .. Depth : open[i].part = "else"}
<1>1. IfWhileVarTable \in Tables
  <2>1. CASE E = {}
    BY <2>1, NoVarsFacts DEF IfWhileVarTable
  <2>2. CASE E # {}
    <3>1. Depth \in Nat /\ Depth = Len(open) /\ open \in Seq(Opens)
      BY TopFacts DEF TypeInv
    <3>2. \E i \in E : \A j \in E : j <= i
      BY <2>2, InnermostElse
    <3>3. (CHOOSE i \in E : \A j \in E : j <= i) \in E
      BY <3>2
    <3>4. \A i \in E : open[i].then_vars \in Tables
      BY <3>1, OpensFields
    <3>5. QED
      BY <2>2, <3>3, <3>4 DEF IfWhileVarTable
  <2>3. QED
    BY <2>1, <2>2
<1>2. \A m \in DOMAIN IfWhileVarTable : IfWhileVarTable[m].slot \in Nat
  BY <1>1, TableFacts
<1>3. slots \in Nat
  BY DEF TypeInv
<1>4. QED
  BY <1>2, <1>3 DEF StorageOf

\* A declaration adds an instruction and a name to the innermost scope.
LEMMA DeclareKeeps ==
  ASSUME ParseInv, NEW n \in Names, Declare(n), UNCHANGED family
  PROVE  ParseInv'
<1> DEFINE s == StorageOf(n)
           v == [slot |-> s, part |-> IF Depth = 0 THEN 0 ELSE Top.brk_part]
           t == locals_table[Depth + 1]
           x == Instruction("decl", 0, {<<n, s>>}, 0, locals_table)
           D == DOMAIN t \cup {n}
           t2 == [m \in D |-> IF m = n THEN v ELSE t[m]]
<1>1. /\ TypeInv /\ Structured(code, branch, open)
      /\ code \in Seq(Instructions) /\ locals_table \in Seq(Tables)
  BY DEF ParseInv, TypeInv
<1>2. /\ tokens \in Nat /\ tokens > 0 /\ tokens' = tokens - 1
      /\ UNCHANGED <<parse, open, branch, ended, family>>
      /\ locals_table' = [locals_table EXCEPT ![Depth + 1] = t2]
      /\ code' = Append(code, x)
      /\ slots' = IF s > slots THEN s ELSE slots
  BY <1>1 DEF Declare, UseToken, TypeInv
<1>3. s \in Nat
  BY <1>1, StorageOfType
<1>4. v \in [slot : Nat, part : Nat]
  <2>1. Depth # 0 => Top.brk_part \in Nat
    BY <1>1, TopFacts, OpensFields
  <2>2. QED
    BY <1>3, <2>1
<1> HIDE DEF s, v
<1>5. t2 \in Tables
  <2>1. DOMAIN t \in SUBSET Names /\ \A m \in DOMAIN t : t[m] \in [slot : Nat, part : Nat]
    BY <1>1, TopFacts, TableFacts
  <2>2. D \in SUBSET Names
    BY <2>1
  <2>3. \A m \in D : t2[m] \in [slot : Nat, part : Nat]
    BY <1>4, <2>1
  <2> HIDE DEF D
  <2>4. t2 = [m \in D |-> t2[m]]
    OBVIOUS
  <2> HIDE DEF t2
  <2>5. QED
    BY <2>2, <2>3, <2>4, TableMade
<1>6. x \in Instructions /\ x.op = "decl"
  <2>1. {<<n, s>>} \in SUBSET Objects /\ "decl" \in Ops /\ 0 \in Nat
    BY <1>3 DEF Objects, Ops
  <2> DEFINE objs == {<<n, s>>}
  <2>2. objs \in SUBSET Objects
    BY <2>1
  <2> HIDE DEF objs
  <2>3. /\ Instruction("decl", 0, objs, 0, locals_table) \in Instructions
        /\ Instruction("decl", 0, objs, 0, locals_table).op = "decl"
    BY <1>1, <2>1, <2>2, InstructionType
  <2>4. QED
    BY <2>3 DEF objs
<1> HIDE DEF t2, x
<1>7. Structured(code', branch', open')
  BY <1>1, <1>2, <1>6, CodeExtended DEF Fits
<1>8. locals_table' \in Seq(Tables) /\ Len(locals_table') = Len(open') + 1
  <2>1. Len(locals_table) = Len(open) + 1
    BY <1>1 DEF TypeInv
  <2>2. Depth = Len(open) /\ Len(open) \in Nat /\ open' = open
    BY <1>1, <1>2, TopFacts
  <2>3. QED
    BY <1>1, <1>2, <1>5, <2>1, <2>2
<1>9. TypeInv'
  <2>1. slots' \in Nat /\ tokens' \in Nat
    BY <1>1, <1>2, <1>3 DEF TypeInv
  <2>2. code' \in Seq(Instructions)
    BY <1>1, <1>2, <1>6
  <2>3. QED
    BY <1>1, <1>2, <1>8, <2>1, <2>2 DEF TypeInv
<1>10. QED
  BY <1>7, <1>9 DEF ParseInv

\* What a branch begins with.
LEMMA RecordTypes ==
  ASSUME branch \in Seq(Branches), NEW kind \in Kinds, NEW elif \in BOOLEAN, NEW start \in Nat
  PROVE  /\ NewBranch(kind, elif, start) \in Branches
         /\ NewBranch(kind, elif, start).kind = kind
         /\ NewBranch(kind, elif, start).elif = elif
         /\ NewBranch(kind, elif, start).start = start
         /\ NewBranch(kind, elif, start).else_at = 0
         /\ NewBranch(kind, elif, start).merge_at = 0
         /\ OpenRecord(kind, elif) \in Opens
         /\ OpenRecord(kind, elif).branch = Len(branch) + 1
         /\ OpenRecord(kind, elif).kind = kind
         /\ OpenRecord(kind, elif).elif = elif
         /\ OpenRecord(kind, elif).part = "then"
         /\ OpenRecord(kind, elif).returned = FALSE
<1>1. Len(branch) + 1 \in Nat
  OBVIOUS
<1>2. NewBranch(kind, elif, start) \in Branches
  BY DEF NewBranch, Branches
<1>3. OpenRecord(kind, elif) \in Opens
  BY <1>1, NoVarsFacts DEF OpenRecord, Opens
<1>4. QED
  BY <1>2, <1>3 DEF NewBranch, OpenRecord

\* Two pieces of code, one behind the other.
LEMMA Joined ==
  ASSUME NEW S, NEW s \in Seq(S), NEW t \in Seq(S)
  PROVE  /\ s \o t \in Seq(S) /\ Len(s \o t) = Len(s) + Len(t)
         /\ \A i \in 1 .. Len(s) : (s \o t)[i] = s[i]
         /\ \A i \in 1 .. Len(t) : (s \o t)[Len(s) + i] = t[i]
OBVIOUS

\* The head of a branch has one or two instructions.
LEMMA OneOrTwo ==
  ASSUME NEW S, NEW e \in S, NEW c \in S
  PROVE  /\ <<e>> \o <<c>> \in Seq(S) /\ Len(<<e>> \o <<c>>) = 2
         /\ (<<e>> \o <<c>>)[1] = e /\ (<<e>> \o <<c>>)[2] = c
         /\ <<e>> \o <<>> \in Seq(S) /\ Len(<<e>> \o <<>>) = 1
         /\ (<<e>> \o <<>>)[1] = e
<1>1. <<e>> \in Seq(S) /\ Len(<<e>>) = 1 /\ <<e>>[1] = e
  OBVIOUS
<1>2. <<c>> \in Seq(S) /\ Len(<<c>>) = 1 /\ <<c>>[1] = c
  OBVIOUS
<1>3. <<>> \in Seq(S) /\ Len(<<>>) = 0
  OBVIOUS
<1>4. QED
  BY <1>1, <1>2, <1>3

\* A branch begins with its head.
LEMMA BranchBegun ==
  ASSUME NEW br, NEW op, NEW cd, Structured(cd, br, op), NEW kind \in Kinds, NEW elif \in BOOLEAN,
         NEW ts \in Seq(Tables), NEW r \in Branches, NEW o \in Opens,
         r.kind = kind, r.elif = elif, r.start = Len(cd) + 1, r.else_at = 0, r.merge_at = 0,
         o.branch = Len(br) + 1, o.kind = kind, o.elif = elif, o.part = "then", ~o.returned
  PROVE  /\ Structured(cd \o HeadOf(kind, Len(br) + 1, ts), Append(br, r), Append(op, o))
         /\ cd \o HeadOf(kind, Len(br) + 1, ts) \in Seq(Instructions)
<1> DEFINE b == Len(br) + 1
           e == Instruction("enter", b, {}, 0, ts)
           c == Instruction("cond", b, {}, 0, ts)
           d == cd \o HeadOf(kind, b, ts)
<1>1. br \in Seq(Branches) /\ cd \in Seq(Instructions)
  BY DEF Structured
<1>2. b \in Nat /\ 0 \in Nat /\ {} \in SUBSET Objects /\ "enter" \in Ops /\ "cond" \in Ops
  BY <1>1 DEF Ops
<1> HIDE DEF b
<1>3. e \in Instructions /\ e.op = "enter" /\ e.branch = b
  BY <1>2, InstructionType
<1>4. c \in Instructions /\ c.op = "cond" /\ c.branch = b
  BY <1>2, InstructionType
<1> DEFINE h == HeadOf(kind, b, ts)
<1>5. kind \in {"while", "foreach"} => h = <<e>> \o <<c>>
  BY DEF HeadOf
<1>6. kind \notin {"while", "foreach"} => h = <<e>> \o <<>>
  BY DEF HeadOf
<1>10. d = cd \o h
  OBVIOUS
<1> HIDE DEF d, e, c, h
<1>7. CASE kind \in {"while", "foreach"}
  <2>0. h \in Seq(Instructions) /\ Len(h) = 2 /\ h[1] = e /\ h[2] = c
    <3> DEFINE g == <<e>> \o <<c>>
    <3>0. e \in Instructions /\ c \in Instructions
      BY <1>3, <1>4
    <3>1. g \in Seq(Instructions) /\ Len(g) = 2 /\ g[1] = e /\ g[2] = c
      <4>1. g \in Seq(Instructions)
        BY <3>0
      <4>2. g[2] = c
        BY <3>0
      <4>3. Len(g) = 2 /\ g[1] = e
        BY <3>0
      <4>4. QED
        BY <4>1, <4>2, <4>3
    <3>2. h = g
      BY <1>5, <1>7
    <3> HIDE DEF g
    <3>3. QED
      BY <3>1, <3>2
  <2>9. /\ d \in Seq(Instructions) /\ Len(d) = Len(cd) + Len(h)
        /\ \A i \in 1 .. Len(cd) : d[i] = cd[i]
        /\ \A i \in 1 .. Len(h) : d[Len(cd) + i] = h[i]
    <3>1. cd \in Seq(Instructions) /\ h \in Seq(Instructions)
      BY <1>1, <2>0
    <3>2. cd \o h \in Seq(Instructions) /\ Len(cd \o h) = Len(cd) + Len(h)
      BY <3>1
    <3>3. \A i \in 1 .. Len(cd) : (cd \o h)[i] = cd[i]
      BY <3>1, Joined
    <3>4. \A i \in 1 .. Len(h) : (cd \o h)[Len(cd) + i] = h[i]
      BY <3>1, Joined
    <3>5. QED
      BY <1>10, <3>2, <3>3, <3>4
  <2>1. /\ d \in Seq(Instructions) /\ Len(d) = Len(cd) + 2
        /\ \A i \in 1 .. Len(cd) : d[i] = cd[i]
        /\ d[Len(cd) + 1] = e /\ d[Len(cd) + 2] = c
    BY <2>0, <2>9
  <2>2. Len(d) >= Len(cd) + 1
    BY <1>1, <2>1
  <2>3. Structured(d, Append(br, r), Append(op, o))
    BY <1>3, <1>4, <1>7, <2>1, <2>2, BranchOpened DEF b
  <2>4. QED
    BY <2>1, <2>3 DEF d, b
<1>8. CASE kind \notin {"while", "foreach"}
  <2>0. h \in Seq(Instructions) /\ Len(h) = 1 /\ h[1] = e
    <3> DEFINE g == <<e>> \o <<>>
    <3>1. g \in Seq(Instructions) /\ Len(g) = 1 /\ g[1] = e
      BY <1>3, <1>4, OneOrTwo, Zenon
    <3>2. h = g
      BY <1>6, <1>8
    <3> HIDE DEF g
    <3>3. QED
      BY <3>1, <3>2
  <2>9. /\ d \in Seq(Instructions) /\ Len(d) = Len(cd) + Len(h)
        /\ \A i \in 1 .. Len(cd) : d[i] = cd[i]
        /\ \A i \in 1 .. Len(h) : d[Len(cd) + i] = h[i]
    <3>1. cd \in Seq(Instructions) /\ h \in Seq(Instructions)
      BY <1>1, <2>0
    <3>2. cd \o h \in Seq(Instructions) /\ Len(cd \o h) = Len(cd) + Len(h)
      BY <3>1
    <3>3. \A i \in 1 .. Len(cd) : (cd \o h)[i] = cd[i]
      BY <3>1, Joined
    <3>4. \A i \in 1 .. Len(h) : (cd \o h)[Len(cd) + i] = h[i]
      BY <3>1, Joined
    <3>5. QED
      BY <1>10, <3>2, <3>3, <3>4
  <2>1. /\ d \in Seq(Instructions) /\ Len(d) = Len(cd) + 1
        /\ \A i \in 1 .. Len(cd) : d[i] = cd[i]
        /\ d[Len(cd) + 1] = e
    BY <2>0, <2>9
  <2>2. Len(d) >= Len(cd) + 1
    BY <1>1, <2>1
  <2>3. Structured(d, Append(br, r), Append(op, o))
    BY <1>3, <1>8, <2>1, <2>2, BranchOpened DEF b
  <2>4. QED
    BY <2>1, <2>3 DEF d, b
<1>9. QED
  BY <1>7, <1>8

\* The parser's steps keep the layout: a branch begins,
LEMMA OpenBranchKeeps ==
  ASSUME ParseInv, NEW kind \in Kinds, OpenBranch(kind), UNCHANGED family
  PROVE  ParseInv'
<1> DEFINE r == NewBranch(kind, FALSE, Len(code) + 1)
           o == OpenRecord(kind, FALSE)
<1>1. /\ TypeInv /\ Structured(code, branch, open)
      /\ code \in Seq(Instructions) /\ locals_table \in Seq(Tables)
      /\ branch \in Seq(Branches) /\ open \in Seq(Opens)
      /\ Len(locals_table) = Len(open) + 1 /\ tokens \in Nat
  BY DEF ParseInv, TypeInv
<1>2. /\ tokens > 0 /\ tokens' = tokens - 1
      /\ open' = Append(open, o)
      /\ locals_table' = Append(locals_table, NoVars)
      /\ branch' = Append(branch, r)
      /\ code' = code \o HeadOf(kind, Len(branch) + 1, locals_table)
      /\ UNCHANGED <<parse, slots, ended, family>>
  BY DEF OpenBranch, UseToken
<1>3. /\ r \in Branches /\ r.kind = kind /\ r.elif = FALSE /\ r.start = Len(code) + 1
      /\ r.else_at = 0 /\ r.merge_at = 0
      /\ o \in Opens /\ o.branch = Len(branch) + 1 /\ o.kind = kind /\ o.elif = FALSE
      /\ o.part = "then" /\ ~o.returned
  <2>1. Len(code) + 1 \in Nat /\ FALSE \in BOOLEAN
    BY <1>1
  <2>2. /\ r \in Branches /\ r.kind = kind /\ r.elif = FALSE /\ r.start = Len(code) + 1
        /\ r.else_at = 0 /\ r.merge_at = 0
    <3>1. r \in Branches /\ r.kind = kind
      BY <1>1, <2>1, RecordTypes, Zenon
    <3>2. r.elif = FALSE
      BY <1>1, <2>1, RecordTypes, Zenon
    <3>3. r.start = Len(code) + 1
      BY <1>1, <2>1, RecordTypes, Zenon
    <3>4. r.else_at = 0 /\ r.merge_at = 0
      BY DEF NewBranch
    <3>5. QED
      BY <3>1, <3>2, <3>3, <3>4
  <2>3. /\ o \in Opens /\ o.branch = Len(branch) + 1 /\ o.kind = kind /\ o.elif = FALSE
        /\ o.part = "then" /\ o.returned = FALSE
    BY <1>1, <2>1, RecordTypes, Zenon
  <2> HIDE DEF r, o
  <2>4. QED
    BY <2>2, <2>3
<1> HIDE DEF r, o
<1>4. Structured(code', branch', open') /\ code' \in Seq(Instructions)
  BY <1>1, <1>2, <1>3, BranchBegun
<1>5. TypeInv'
  BY <1>1, <1>2, <1>3, <1>4, NoVarsFacts DEF TypeInv
<1>6. QED
  BY <1>4, <1>5 DEF ParseInv

\* A step that adds an instruction and changes no more than what the parser
\* notes of the innermost branch.
LEMMA InstructionAdded ==
  ASSUME ParseInv, Depth > 0, NEW x \in Instructions, Fits(x, open), code' = Append(code, x),
         NEW o \in Opens, open' = [open EXCEPT ![Depth] = o],
         o.branch = Top.branch, o.kind = Top.kind, o.elif = Top.elif, o.part = Top.part,
         o.returned => Top.returned \/ MayReturn(Top),
         UNCHANGED <<family, parse, locals_table, slots, branch, ended>>, tokens' \in Nat
  PROVE  ParseInv'
<1>1. /\ TypeInv /\ Structured(code, branch, open)
      /\ code \in Seq(Instructions) /\ locals_table \in Seq(Tables)
      /\ branch \in Seq(Branches) /\ open \in Seq(Opens)
      /\ Len(locals_table) = Len(open) + 1
  BY DEF ParseInv, TypeInv
<1>2. Depth \in 1 .. Len(open) /\ Top = open[Depth]
  BY <1>1, TopFacts DEF Top
<1>3. Structured(code', branch, open)
  BY <1>1, CodeExtended
<1>4. /\ open' \in Seq(Opens) /\ Len(open') = Len(open) /\ open'[Depth] = o
      /\ \A i \in 1 .. Len(open) : i # Depth => open'[i] = open[i]
  BY <1>1, <1>2
<1>5. OpenInv(branch, open)
  BY <1>1 DEF Structured
<1>6. \A i \in 1 .. Len(open) : open'[i].branch = open[i].branch
  BY <1>2, <1>4
<1>7. \A i \in 1 .. Len(open') : OpenInv(branch, open')!1!(i)
  <2> SUFFICES ASSUME NEW i \in 1 .. Len(open') PROVE OpenInv(branch, open')!1!(i)
    OBVIOUS
  <2>1. OpenInv(branch, open)!1!(i)
    BY <1>4, <1>5 DEF OpenInv
  <2>2. CASE i = Depth
    <3>1. Top.kind \in Loops /\ Top.part = "then" => ~MayReturn(Top)
      BY DEF MayReturn, Loops
    <3>2. QED
      BY <1>2, <1>4, <2>1, <2>2, <3>1
  <2>3. CASE i # Depth
    BY <1>4, <2>1, <2>3
  <2>4. QED
    BY <2>2, <2>3
<1>8. OpenInv(branch, open')
  BY <1>4, <1>5, <1>6, <1>7 DEF OpenInv
<1>9. Structured(code', branch', open')
  BY <1>3, <1>4, <1>8 DEF Structured
<1>10. TypeInv'
  <2>1. code' \in Seq(Instructions)
    BY <1>1
  <2>2. QED
    BY <1>1, <1>4, <2>1 DEF TypeInv
<1>11. QED
  BY <1>9, <1>10 DEF ParseInv

\* brk,
LEMMA BrkKeeps ==
  ASSUME ParseInv, NEW levels \in Nat \ {0}, Brk(levels), UNCHANGED family
  PROVE  ParseInv'
<1> DEFINE d == BrkDepth(levels)
           i == Depth - d + 1
           objs == get_destruct_vars(d)
           x == Instruction("brk", open[i].branch, objs, levels, locals_table)
           o == [Top EXCEPT !.brk_part = @ + 1, !.max_brk_level = IF @ < d THEN d ELSE @]
<1>1. /\ TypeInv /\ locals_table \in Seq(Tables) /\ open \in Seq(Opens)
      /\ Len(locals_table) = Len(open) + 1 /\ tokens \in Nat
  BY DEF ParseInv, TypeInv
<1>2. /\ tokens > 0 /\ tokens' = tokens - 1
      /\ levels <= Cardinality({k \in 1 .. Depth : syntax_nesting(k) = 1})
      /\ code' = Append(code, x)
      /\ open' = [open EXCEPT ![Depth].brk_part = @ + 1,
                              ![Depth].max_brk_level = IF @ < d THEN d ELSE @]
      /\ UNCHANGED <<parse, locals_table, slots, branch, ended, family>>
  BY DEF Brk, UseToken
<1>3. d \in 1 .. Depth
  BY <1>1, <1>2, BrkDepthFits
<1>4. /\ Depth = Len(open) /\ Depth \in Nat /\ Depth > 0 /\ i \in 1 .. Len(open)
      /\ d \in 1 .. Len(locals_table) /\ d \in Nat
  BY <1>1, <1>3, TopFacts
<1> HIDE DEF d
<1>5. Depth \in 1 .. Len(open) /\ Top = open[Depth] /\ Top \in Opens
  BY <1>1, <1>4, TopFacts DEF Top
<1>6. open[i] \in Opens /\ open[i].branch \in Nat
  BY <1>1, <1>4, OpensFields
<1>7. x \in Instructions /\ x.op = "brk" /\ x.branch = open[i].branch
  <2>1. objs \in SUBSET Objects /\ "brk" \in Ops
    BY <1>1, <1>4, DestructType DEF Ops
  <2> HIDE DEF objs, i
  <2>2. QED
    BY <1>1, <1>6, <2>1, InstructionType
<1>8. Fits(x, open)
  BY <1>4, <1>7 DEF Fits
<1>9. open' = [open EXCEPT ![Depth] = o]
  BY <1>1, <1>2, <1>5
<1>10. /\ o \in Opens /\ o.branch = Top.branch /\ o.kind = Top.kind /\ o.elif = Top.elif
       /\ o.part = Top.part /\ o.returned = Top.returned
  <2> DEFINE m == IF Top.max_brk_level < d THEN d ELSE Top.max_brk_level
             p == Top.brk_part + 1
  <2>1. m \in Nat /\ p \in Nat
    BY <1>4, <1>5, OpensFields
  <2>2. o = [Top EXCEPT !.brk_part = p, !.max_brk_level = m]
    BY <1>5 DEF Opens
  <2> HIDE DEF m, p, o
  <2>3. o \in Opens
    BY <1>5, <2>1, <2>2 DEF Opens
  <2>4. QED
    BY <1>5, <2>2, <2>3 DEF Opens
<1>11. Top.returned = FALSE
  BY <1>4, <1>5, OpensFields DEF Brk, Parsing
<1>12. tokens' \in Nat
  BY <1>1, <1>2
<1> HIDE DEF o, x, i
<1>13. o.returned => Top.returned \/ MayReturn(Top)
  BY <1>10
<1>14. QED
  BY <1>2, <1>4, <1>7, <1>8, <1>9, <1>10, <1>12, <1>13, InstructionAdded

\* return,
LEMMA ReturnKeeps ==
  ASSUME ParseInv, Return, UNCHANGED family
  PROVE  ParseInv'
<1> DEFINE objs == get_destruct_vars(Len(locals_table))
           x == Instruction("return", 0, objs, 0, locals_table)
           o == [Top EXCEPT !.returned = TRUE]
<1>1. /\ TypeInv /\ locals_table \in Seq(Tables) /\ open \in Seq(Opens)
      /\ Len(locals_table) = Len(open) + 1 /\ tokens \in Nat
  BY DEF ParseInv, TypeInv
<1>2. /\ tokens > 0 /\ tokens' = tokens - 1 /\ Depth > 0 /\ MayReturn(Top)
      /\ code' = Append(code, x)
      /\ open' = [open EXCEPT ![Depth].returned = TRUE]
      /\ UNCHANGED <<parse, locals_table, slots, branch, ended, family>>
  BY DEF Return, UseToken
<1>3. /\ Depth \in 1 .. Len(open) /\ Top = open[Depth] /\ Top \in Opens
  BY <1>1, <1>2, TopFacts DEF Top
<1>4. x \in Instructions /\ x.op = "return"
  <2>1. Len(locals_table) \in 1 .. Len(locals_table)
    BY <1>1
  <2>2. objs \in SUBSET Objects /\ "return" \in Ops /\ 0 \in Nat
    BY <1>1, <2>1, DestructType DEF Ops
  <2> HIDE DEF objs
  <2>3. /\ Instruction("return", 0, objs, 0, locals_table) \in Instructions
        /\ Instruction("return", 0, objs, 0, locals_table).op = "return"
    BY <1>1, <2>2, InstructionType
  <2>4. QED
    BY <2>3
<1>5. Fits(x, open)
  BY <1>4 DEF Fits
<1>6. open' = [open EXCEPT ![Depth] = o]
  BY <1>1, <1>2, <1>3
<1>7. /\ o \in Opens /\ o.branch = Top.branch /\ o.kind = Top.kind /\ o.elif = Top.elif
      /\ o.part = Top.part
  BY <1>3 DEF Opens
<1>8. tokens' \in Nat
  BY <1>1, <1>2
<1> HIDE DEF o, x
<1>9. QED
  BY <1>2, <1>4, <1>5, <1>6, <1>7, <1>8, InstructionAdded

\* the end of the body,
LEMMA EndOfBodyKeeps ==
  ASSUME ParseInv, EndOfBody, UNCHANGED family
  PROVE  ParseInv'
<1> DEFINE objs == get_destruct_vars(1)
           x == Instruction("return", 0, objs, 0, locals_table)
<1>1. /\ TypeInv /\ Structured(code, branch, open)
      /\ locals_table \in Seq(Tables) /\ open \in Seq(Opens) /\ code \in Seq(Instructions)
      /\ Len(locals_table) = Len(open) + 1
  BY DEF ParseInv, TypeInv
<1>2. /\ code' = IF ended THEN code ELSE Append(code, x)
      /\ parse' = "done"
      /\ UNCHANGED <<tokens, open, locals_table, slots, branch, ended, family>>
  BY DEF EndOfBody
<1>3. x \in Instructions /\ x.op = "return"
  <2>1. 1 \in 1 .. Len(locals_table)
    BY <1>1
  <2>2. objs \in SUBSET Objects /\ "return" \in Ops /\ 0 \in Nat
    BY <1>1, <2>1, DestructType DEF Ops
  <2> HIDE DEF objs
  <2>3. /\ Instruction("return", 0, objs, 0, locals_table) \in Instructions
        /\ Instruction("return", 0, objs, 0, locals_table).op = "return"
    BY <1>1, <2>2, InstructionType
  <2>4. QED
    BY <2>3
<1>4. Fits(x, open)
  BY <1>3 DEF Fits
<1> HIDE DEF x
<1>5. Structured(code', branch, open) /\ code' \in Seq(Instructions)
  <2>1. CASE ended
    BY <1>1, <1>2, <2>1
  <2>2. CASE ~ended
    <3>1. code' = Append(code, x)
      BY <1>2, <2>2
    <3>2. QED
      BY <1>1, <1>3, <1>4, <3>1, CodeExtended
  <2>3. QED
    BY <2>1, <2>2
<1>6. Structured(code', branch', open')
  BY <1>2, <1>5
<1>7. TypeInv'
  BY <1>1, <1>2, <1>5 DEF TypeInv
<1>8. QED
  BY <1>6, <1>7 DEF ParseInv

\* What Else and Elif do to the innermost branch.
LEMMA ElseBegun ==
  ASSUME ParseInv, Depth > 0, Top.part = "then"
  PROVE  /\ ElsePart \in Opens
         /\ Structured(EndOfPart, [branch EXCEPT ![Top.branch] = BeginElse(branch[Top.branch])],
                       [open EXCEPT ![Depth] = ElsePart])
         /\ Top.branch \in 1 .. Len(branch)
         /\ BeginElse(branch[Top.branch]) \in Branches
<1> DEFINE b == Top.branch
           s == branch[b]
           r == BeginElse(s)
           o == ElsePart
           t == locals_table[Depth + 1]
<1>1. /\ TypeInv /\ Structured(code, branch, open) /\ OpenInv(branch, open)
      /\ branch \in Seq(Branches) /\ open \in Seq(Opens)
  BY DEF ParseInv, TypeInv, Structured
<1>2. /\ Depth = Len(open) /\ Depth \in Nat /\ Depth \in 1 .. Len(open)
      /\ Top = open[Len(open)] /\ Top \in Opens /\ t \in Tables
  BY <1>1, TopFacts
<1>3. /\ b \in 1 .. Len(branch) /\ s.merge_at = 0 /\ s.else_at = 0
      /\ s.kind = Top.kind /\ s.elif = Top.elif
  BY <1>1, <1>2 DEF OpenInv
<1>4. s \in Branches
  BY <1>1, <1>3
<1>5. /\ Structured(EndOfPart, branch, open) /\ Len(EndOfPart) \in Nat
      /\ s.kind \in Loops => BodyOf(s) < Len(EndOfPart) + 1
  BY PartEnded
<1>6. Storage(t) \in SUBSET Nat
  BY <1>2, TableFacts
<1>7. o \in Opens
  <2>1. o = [Top EXCEPT !.part = "else", !.brk_part = 0, !.returned = FALSE,
                        !.then_vars = t, !.then_returned = Top.returned,
                        !.then_brks = Top.brk_part]
    BY DEF ElsePart
  <2> HIDE DEF t
  <2>2. Top.returned \in BOOLEAN /\ Top.brk_part \in Nat
    BY <1>2, OpensFields
  <2>3. QED
    BY <1>2, <2>1, <2>2 DEF Opens
<1>8. o.branch = b /\ o.kind = Top.kind /\ o.elif = Top.elif /\ o.part = "else"
  BY <1>2 DEF ElsePart, Opens
<1>9. r \in Branches
  <2> DEFINE e == Len(EndOfPart) + 1
             w == Storage(t)
  <2>1. r = [s EXCEPT !.else_at = e, !.vars = w]
    BY DEF BeginElse
  <2>2. e \in Nat
    BY <1>5
  <2> HIDE DEF e, w, s, r
  <2>3. w \in SUBSET Nat
    BY <1>6 DEF w
  <2>4. QED
    BY <1>4, <2>1, <2>2, <2>3 DEF Branches
<1>10. /\ r.start = s.start /\ r.kind = s.kind /\ r.elif = s.elif
       /\ r.else_at = Len(EndOfPart) + 1 /\ r.merge_at = s.merge_at
  BY <1>4 DEF BeginElse, Branches
<1> HIDE DEF r, o, s
<1>11. BodyOf(r) = BodyOf(s)
  BY <1>10 DEF BodyOf
<1>12. Placed(EndOfPart, s, r) /\ r.else_at > 0 /\ r.merge_at = 0
  BY <1>3, <1>5, <1>10, <1>11 DEF Placed
<1>13. Structured(EndOfPart, [branch EXCEPT ![b] = r], [open EXCEPT ![Len(open)] = o])
  <2>1. Len(open) > 0
    BY <1>2
  <2>2. o.kind = r.kind /\ o.elif = r.elif
    BY <1>3, <1>8, <1>10
  <2>3. QED
    BY <1>2, <1>5, <1>7, <1>8, <1>9, <1>12, <2>1, <2>2, BranchSplit DEF s
<1>14. QED
  BY <1>2, <1>3, <1>7, <1>9, <1>13 DEF r, o, s

\* else,
LEMMA ElseKeeps ==
  ASSUME ParseInv, Else, UNCHANGED family
  PROVE  ParseInv'
<1>1. /\ TypeInv /\ locals_table \in Seq(Tables) /\ open \in Seq(Opens)
      /\ branch \in Seq(Branches)
      /\ Len(locals_table) = Len(open) + 1 /\ tokens \in Nat
  BY DEF ParseInv, TypeInv
<1>2. /\ tokens > 0 /\ tokens' = tokens - 1 /\ Depth > 0 /\ Top.part = "then"
      /\ open' = [open EXCEPT ![Depth] = ElsePart]
      /\ locals_table' = [locals_table EXCEPT ![Depth + 1] = NoVars]
      /\ branch' = [branch EXCEPT ![Top.branch] = BeginElse(branch[Top.branch])]
      /\ code' = EndOfPart
      /\ UNCHANGED <<parse, slots, ended, family>>
  BY DEF Else, UseToken
<1>3. Depth = Len(open) /\ Depth \in 1 .. Len(open)
  BY <1>1, <1>2, TopFacts
<1>4. /\ Structured(code', branch', open') /\ ElsePart \in Opens
      /\ Top.branch \in 1 .. Len(branch) /\ BeginElse(branch[Top.branch]) \in Branches
  BY <1>2, ElseBegun
<1>5. code' \in Seq(Instructions)
  BY <1>2, PartEnded
<1>6. locals_table' \in Seq(Tables) /\ Len(locals_table') = Len(open') + 1
  BY <1>1, <1>2, <1>3, NoVarsFacts
<1>7. open' \in Seq(Opens) /\ branch' \in Seq(Branches)
  BY <1>4 DEF Structured
<1>8. TypeInv'
  BY <1>1, <1>2, <1>5, <1>6, <1>7 DEF TypeInv
<1>9. QED
  BY <1>4, <1>8 DEF ParseInv

\* elif, which is an else part with a branch in it,
LEMMA ElifKeeps ==
  ASSUME ParseInv, Elif, UNCHANGED family
  PROVE  ParseInv'
<1> DEFINE br == [branch EXCEPT ![Top.branch] = BeginElse(branch[Top.branch])]
           op == [open EXCEPT ![Depth] = ElsePart]
           ts == SubSeq(locals_table, 1, Depth)
           lt == [locals_table EXCEPT ![Depth + 1] = NoVars]
           r == NewBranch("if", TRUE, Len(EndOfPart) + 1)
           o == OpenRecord("if", TRUE)
<1>1. /\ TypeInv /\ locals_table \in Seq(Tables) /\ open \in Seq(Opens)
      /\ branch \in Seq(Branches)
      /\ Len(locals_table) = Len(open) + 1 /\ tokens \in Nat
  BY DEF ParseInv, TypeInv
<1>2. /\ tokens > 0 /\ tokens' = tokens - 1 /\ Depth > 0 /\ Top.part = "then"
      /\ open' = Append(op, o)
      /\ locals_table' = Append(lt, NoVars)
      /\ branch' = Append(br, r)
      /\ code' = EndOfPart \o HeadOf("if", Len(branch) + 1, ts)
      /\ UNCHANGED <<parse, slots, ended, family>>
  BY DEF Elif, UseToken
<1>3. Depth = Len(open) /\ Depth \in 1 .. Len(open)
  BY <1>1, <1>2, TopFacts
<1>4. Structured(EndOfPart, br, op) /\ ElsePart \in Opens /\ Top.branch \in 1 .. Len(branch)
      /\ BeginElse(branch[Top.branch]) \in Branches
  BY <1>2, ElseBegun
<1>5. Len(EndOfPart) \in Nat
  BY <1>2, PartEnded
<1>6. Len(br) = Len(branch) /\ Len(op) = Len(open) /\ op \in Seq(Opens) /\ br \in Seq(Branches)
  BY <1>1, <1>3, <1>4
<1>7. ts \in Seq(Tables)
  BY <1>1, <1>3
<1>8. lt \in Seq(Tables) /\ Len(lt) = Len(open) + 1
  BY <1>1, <1>3, NoVarsFacts
<1>9. /\ r \in Branches /\ r.kind = "if" /\ r.elif = TRUE /\ r.start = Len(EndOfPart) + 1
      /\ r.else_at = 0 /\ r.merge_at = 0
  <2>1. "if" \in Kinds /\ TRUE \in BOOLEAN /\ Len(EndOfPart) + 1 \in Nat
    BY <1>5 DEF Kinds
  <2>2. r \in Branches
    BY <1>1, <2>1, RecordTypes
  <2>3. QED
    BY <2>2 DEF NewBranch
<1>10. /\ o \in Opens /\ o.branch = Len(branch) + 1 /\ o.kind = "if" /\ o.elif = TRUE
       /\ o.part = "then" /\ o.returned = FALSE
  <2>1. "if" \in Kinds /\ TRUE \in BOOLEAN /\ 0 \in Nat
    BY DEF Kinds
  <2>2. o \in Opens
    BY <1>1, <2>1, RecordTypes
  <2>3. QED
    BY <2>2 DEF OpenRecord
<1> HIDE DEF br, op, ts, lt, r, o
<1>11. Structured(code', branch', open') /\ code' \in Seq(Instructions)
  <2>1. "if" \in Kinds /\ TRUE \in BOOLEAN /\ ~o.returned /\ o.branch = Len(br) + 1
    BY <1>6, <1>10 DEF Kinds
  <2>2. QED
    BY <1>2, <1>4, <1>6, <1>7, <1>9, <1>10, <2>1, BranchBegun
<1>12. locals_table' \in Seq(Tables) /\ Len(locals_table') = Len(open') + 1
  BY <1>1, <1>2, <1>6, <1>8, <1>10, NoVarsFacts
<1>13. open' \in Seq(Opens) /\ branch' \in Seq(Branches)
  BY <1>11 DEF Structured
<1>14. TypeInv'
  BY <1>1, <1>2, <1>11, <1>12, <1>13 DEF TypeInv
<1>15. QED
  BY <1>11, <1>14 DEF ParseInv

\* The scope a branch is merged into.
LEMMA MergedTypes ==
  ASSUME TypeInv, Depth > 0
  PROVE  /\ MergedVars \in SUBSET Names
         /\ \A t \in Tables : MergeInto(t) \in Tables
<1> DEFINE table == locals_table[Depth + 1]
           first == {n \in DOMAIN table : table[n].part = 0}
           then == Top.then_vars
           from == IF Top.kind = "repeat" THEN table ELSE then
           part == IF Depth = 1 THEN 0 ELSE open[Depth - 1].brk_part
<1>1. /\ Depth \in 1 .. Len(open) /\ Top \in Opens /\ table \in Tables /\ then \in Tables
      /\ open \in Seq(Opens) /\ Depth \in Nat
  BY TopFacts, OpensFields DEF TypeInv
<1>2. /\ DOMAIN table \in SUBSET Names /\ DOMAIN then \in SUBSET Names
      /\ \A n \in DOMAIN table : table[n].slot \in Nat
      /\ \A n \in DOMAIN then : then[n].slot \in Nat
  BY <1>1, TableFacts
<1>3. /\ MergedVars \subseteq DOMAIN from
      /\ MergedVars \in SUBSET Names
  <2>1. CASE Top.kind = "repeat"
    <3>1. MergedVars = first /\ from = table
      BY <2>1 DEF MergedVars
    <3>2. QED
      BY <1>2, <3>1
  <2>2. CASE Top.kind # "repeat" /\ Top.part = "else"
    <3>1. MergedVars = {n \in first \cap DOMAIN then : then[n].part = 0} /\ from = then
      BY <2>2 DEF MergedVars
    <3>2. QED
      BY <1>2, <3>1
  <2>3. CASE Top.kind # "repeat" /\ Top.part # "else"
    <3>1. MergedVars = {}
      BY <2>3 DEF MergedVars
    <3>2. QED
      BY <3>1
  <2>4. QED
    BY <2>1, <2>2, <2>3
<1>4. part \in Nat
  <2>1. CASE Depth = 1
    BY <2>1
  <2>2. CASE Depth # 1
    <3>1. Depth - 1 \in 1 .. Len(open)
      BY <1>1, <2>2
    <3>2. open[Depth - 1] \in Opens
      BY <1>1, <3>1
    <3>3. QED
      BY <2>2, <3>2, OpensFields
  <2>3. QED
    BY <2>1, <2>2
<1>5. \A n \in DOMAIN from : from[n].slot \in Nat
  <2>1. from = table \/ from = then
    OBVIOUS
  <2>2. QED
    BY <1>2, <2>1
<1>6. \A t \in Tables : MergeInto(t) \in Tables
  <2> TAKE t \in Tables
  <2> DEFINE D == DOMAIN t \cup MergedVars
             m == [n \in D |-> IF n \in DOMAIN t THEN t[n]
                               ELSE [slot |-> from[n].slot, part |-> part]]
  <2>1. MergeInto(t) = m
    BY DEF MergeInto
  <2>2. DOMAIN t \in SUBSET Names /\ \A n \in DOMAIN t : t[n] \in [slot : Nat, part : Nat]
    BY TableFacts
  <2>3. D \in SUBSET Names
    BY <1>3, <2>2
  <2> HIDE DEF from, part
  <2>4. \A n \in D : m[n] \in [slot : Nat, part : Nat]
    BY <1>3, <1>4, <1>5, <2>2
  <2> HIDE DEF D
  <2>5. m = [n \in D |-> m[n]]
    OBVIOUS
  <2> HIDE DEF m
  <2>6. QED
    BY <2>1, <2>3, <2>4, <2>5, TableMade
<1>7. QED
  BY <1>3, <1>6

\* and the end of a branch.
LEMMA EndKeeps ==
  ASSUME ParseInv, EndBranch, UNCHANGED family
  PROVE  ParseInv'
<1> DEFINE b == Top.branch
           s == branch[b]
           vs == IF Top.part = "then" THEN Storage(locals_table[Depth + 1]) ELSE s.vars
           m == Len(EndOfPart) + 1
           h == ~always_return
           r == [s EXCEPT !.merge_at = m, !.vars = vs, !.merged_vars = MergedVars,
                          !.has_merge = h]
<1>1. /\ TypeInv /\ Structured(code, branch, open) /\ OpenInv(branch, open)
      /\ locals_table \in Seq(Tables) /\ open \in Seq(Opens) /\ branch \in Seq(Branches)
      /\ Len(locals_table) = Len(open) + 1 /\ tokens \in Nat
  BY DEF ParseInv, TypeInv, Structured
<1>2. /\ Depth > 0 /\ CanClose
      /\ open' = IF Depth = 1 THEN <<>>
                 ELSE [SubSeq(open, 1, Depth - 1) EXCEPT ![Depth - 1] = Handed(@)]
      /\ locals_table' = [SubSeq(locals_table, 1, Depth) EXCEPT ![Depth] = MergeInto(@)]
      /\ code' = EndOfPart
      /\ ended' = (Depth = 1 /\ PartReturned)
      /\ parse' = IF Top.elif THEN "close" ELSE "body"
      /\ UNCHANGED <<tokens, slots, family>>
  BY DEF EndBranch
<1>14. branch' = [branch EXCEPT ![Top.branch] = r]
  <2>1. branch' = [branch EXCEPT ![Top.branch] = Merge(branch[Top.branch])]
    BY DEF EndBranch
  <2>2. QED
    BY <2>1 DEF Merge
<1>3. /\ Depth = Len(open) /\ Depth \in Nat /\ Depth \in 1 .. Len(open)
      /\ Top = open[Len(open)] /\ Top \in Opens /\ locals_table[Depth + 1] \in Tables
  BY <1>1, <1>2, TopFacts
<1>4. b \in 1 .. Len(branch) /\ s.merge_at = 0 /\ s \in Branches
  BY <1>1, <1>3 DEF OpenInv
<1>5. /\ Structured(EndOfPart, branch, open) /\ Len(EndOfPart) \in Nat
      /\ EndOfPart \in Seq(Instructions)
      /\ s.kind \in Loops => BodyOf(s) < Len(EndOfPart) + 1
  BY <1>2, PartEnded
<1>6. r \in Branches
  <2>1. vs \in SUBSET Nat
    BY <1>3, <1>4, TableFacts DEF Branches
  <2>2. m \in Nat /\ MergedVars \in SUBSET Names /\ h \in BOOLEAN
    BY <1>1, <1>2, <1>5, MergedTypes
  <2> HIDE DEF vs, m, h, s
  <2>3. QED
    BY <1>4, <2>1, <2>2 DEF Branches
<1>7. /\ r.start = s.start /\ r.kind = s.kind /\ r.elif = s.elif /\ r.else_at = s.else_at
      /\ r.merge_at = m
  BY <1>4 DEF Branches
<1> HIDE DEF r, s, vs, h
<1>8. Placed(EndOfPart, s, r) /\ r.merge_at > 0
  <2>1. BodyOf(r) = BodyOf(s)
    BY <1>7 DEF BodyOf
  <2>2. QED
    BY <1>5, <1>7, <2>1 DEF Placed
<1>9. open' \in Seq(Opens) /\ WithoutLast(open', open)
  <2> SUFFICES open' \in Seq(Opens) /\ WithoutLast(open', open)!1 /\ WithoutLast(open', open)!2
    BY DEF WithoutLast
  <2>1. CASE Depth = 1
    <3>1. open' = <<>>
      BY <1>2, <2>1
    <3>2. Len(open') = 0 /\ open' \in Seq(Opens)
      BY <3>1
    <3>3. QED
      BY <1>3, <2>1, <3>2
  <2>2. CASE Depth # 1
    <3> DEFINE q == SubSeq(open, 1, Depth - 1)
               o == open[Depth - 1]
               w == IF o.max_brk_level < LevelsLeft THEN LevelsLeft ELSE o.max_brk_level
               g == [o EXCEPT !.max_brk_level = w, !.returned = PartReturned]
    <3>1. /\ q \in Seq(Opens) /\ Len(q) = Depth - 1
          /\ \A i \in 1 .. Depth - 1 : q[i] = open[i]
      BY <1>1, <1>3
    <3>2. Depth - 1 \in 1 .. Len(open) /\ Depth - 1 \in 1 .. Len(q) /\ Depth > 1
      BY <1>3, <2>2, <3>1
    <3>3. open' = [q EXCEPT ![Depth - 1] = Handed(@)]
      BY <1>2, <2>2
    <3>4. Handed(o) = g
      BY DEF Handed
    <3>5. o \in Opens
      BY <1>1, <3>2
    <3>6. g \in Opens /\ g.branch = o.branch /\ g.kind = o.kind /\ g.elif = o.elif
          /\ g.part = o.part
      <4>1. w \in Nat
        <5>1. LevelsLeft \in Nat
          BY <1>3, OpensFields DEF LevelsLeft
        <5>2. QED
          BY <3>5, <5>1, OpensFields
      <4>2. PartReturned \in BOOLEAN
        BY DEF PartReturned, always_return, BothReturn
      <4> DEFINE p == PartReturned
      <4> HIDE DEF w, p, o
      <4>3. [o EXCEPT !.max_brk_level = w, !.returned = p] \in Opens
        BY <3>5, <4>1, <4>2 DEF Opens, p
      <4>4. QED
        BY <3>5, <4>3 DEF Opens, p
    <3>7. g.returned <=> PartReturned
      BY <3>5 DEF Opens
    <3>8. PartReturned => MayReturn(o)
      BY <1>2, <3>2 DEF CanClose
    <3>9. o.kind \in Loops /\ o.part = "then" => ~MayReturn(o)
      BY DEF MayReturn, Loops
    <3>10. /\ open' \in Seq(Opens) /\ Len(open') = Depth - 1
           /\ open'[Depth - 1] = g
           /\ \A i \in 1 .. Depth - 1 : i # Depth - 1 => open'[i] = open[i]
      <4> HIDE DEF g, q, o
      <4>1. q[Depth - 1] = o
        BY <3>1, <3>2 DEF o
      <4>2. open' = [q EXCEPT ![Depth - 1] = g]
        BY <3>2, <3>3, <3>4, <4>1
      <4>3. QED
        BY <3>1, <3>2, <3>6, <4>2
    <3> HIDE DEF g, q, w
    <3>11. ASSUME NEW i \in 1 .. Len(open')
           PROVE /\ open'[i].branch = open[i].branch /\ open'[i].kind = open[i].kind
                 /\ open'[i].elif = open[i].elif /\ open'[i].part = open[i].part
                 /\ open'[i].kind \in Loops /\ open'[i].part = "then" => ~open'[i].returned
      <4>1. CASE i = Depth - 1
        <5>1. open'[i] = g /\ open[i] = o
          BY <3>10, <4>1
        <5>2. QED
          BY <3>6, <3>7, <3>8, <3>9, <5>1
      <4>2. CASE i # Depth - 1
        <5>1. i \in 1 .. Len(open) /\ open'[i] = open[i]
          BY <1>3, <3>10, <4>2
        <5>2. open[i].kind \in Loops /\ open[i].part = "then" => ~open[i].returned
          BY <1>1, <5>1 DEF OpenInv
        <5>3. QED
          BY <5>1, <5>2
      <4>3. QED
        BY <4>1, <4>2
    <3>12. QED
      BY <1>3, <3>10, <3>11
  <2>3. QED
    BY <2>1, <2>2
<1>10. Structured(code', branch', open')
  <2>1. Len(open) > 0
    BY <1>3
  <2>2. Placed(EndOfPart, branch[b], r) /\ r.merge_at > 0 /\ b = open[Len(open)].branch
    BY <1>3, <1>8 DEF s
  <2> HIDE DEF b
  <2>3. Structured(EndOfPart, [branch EXCEPT ![b] = r], open')
    BY <1>5, <1>6, <1>9, <2>1, <2>2, BranchClosed, Zenon
  <2>4. QED
    BY <1>2, <1>14, <2>3 DEF b
<1>11. locals_table' \in Seq(Tables) /\ Len(locals_table') = Len(open') + 1
  <2> DEFINE q == SubSeq(locals_table, 1, Depth)
  <2>1. q \in Seq(Tables) /\ Len(q) = Depth /\ Depth \in 1 .. Len(q)
    BY <1>1, <1>3
  <2>2. MergeInto(q[Depth]) \in Tables
    BY <1>1, <1>2, <2>1, MergedTypes
  <2>3. locals_table' = [q EXCEPT ![Depth] = MergeInto(q[Depth])]
    BY <1>2
  <2> HIDE DEF q
  <2>4. locals_table' \in Seq(Tables) /\ Len(locals_table') = Depth
    BY <2>1, <2>2, <2>3
  <2>5. QED
    BY <1>3, <1>9, <2>4 DEF WithoutLast
<1>12. TypeInv'
  <2>1. parse' \in {"body", "close", "done"}
    BY <1>2
  <2>2. ended' \in BOOLEAN
    BY <1>2
  <2>3. branch' \in Seq(Branches) /\ code' \in Seq(Instructions)
    BY <1>10 DEF Structured
  <2>4. QED
    BY <1>1, <1>2, <1>9, <1>11, <2>1, <2>2, <2>3 DEF TypeInv
<1>13. QED
  BY <1>10, <1>12 DEF ParseInv

\* Every step of the parser keeps the layout.
LEMMA ParseKeeps ==
  ASSUME ParseInv, Parse
  PROVE  ParseInv'
<1>1. /\ family \in Families /\ UNCHANGED family
      /\ family.names \in SUBSET Names /\ family.kinds \in SUBSET Kinds /\ family.brk \in Nat
  BY FamiliesAssumption DEF Parse, ParseInv, TypeInv
<1>2. CASE \E n \in family.names : Declare(n)
  BY <1>1, <1>2, DeclareKeeps
<1>3. CASE \E kind \in family.kinds : OpenBranch(kind)
  BY <1>1, <1>3, OpenBranchKeeps
<1>4. CASE \E levels \in 1 .. family.brk : Brk(levels)
  BY <1>1, <1>4, BrkKeeps
<1>5. CASE Return
  BY <1>1, <1>5, ReturnKeeps
<1>6. CASE Else
  BY <1>1, <1>6, ElseKeeps
<1>7. CASE Elif
  BY <1>1, <1>7, ElifKeeps
<1>8. CASE End \/ EndElif \/ Until
  <2>1. EndBranch /\ Depth > 0
    BY <1>8 DEF End, EndElif, Until, EndBranch
  <2>2. QED
    BY <1>1, <2>1, EndKeeps
<1>9. CASE EndOfBody
  BY <1>1, <1>9, EndOfBodyKeeps
<1>10. QED
  BY <1>2, <1>3, <1>4, <1>5, <1>6, <1>7, <1>8, <1>9 DEF Parse

\* A function without code has that layout.
LEMMA ParseStarts == ParseInit => ParseInv
<1> SUFFICES ASSUME ParseInit PROVE ParseInv
  OBVIOUS
<1>1. TypeInv
  <2>1. family \in Families /\ family.tokens \in Nat
    BY FamiliesAssumption DEF ParseInit
  <2>2. locals_table \in Seq(Tables) /\ Len(locals_table) = 1
    BY NoVarsFacts DEF ParseInit
  <2>3. /\ open \in Seq(Opens) /\ Len(open) = 0
        /\ branch \in Seq(Branches) /\ Len(branch) = 0
        /\ code \in Seq(Instructions) /\ Len(code) = 0
    BY DEF ParseInit
  <2>4. /\ parse \in {"body", "close", "done"} /\ tokens = family.tokens
        /\ slots \in Nat /\ ended \in BOOLEAN
    BY DEF ParseInit
  <2>5. QED
    BY <2>1, <2>2, <2>3, <2>4 DEF TypeInv
<1>2. Len(open) = 0 /\ Len(branch) = 0 /\ Len(code) = 0
  BY DEF ParseInit
<1>3. OpenInv(branch, open) /\ PlacesInv(code, branch) /\ NestInv(branch) /\ CodeInv(code, branch)
  BY <1>2 DEF OpenInv, PlacesInv, NestInv, CodeInv
<1>4. QED
  BY <1>1, <1>3 DEF ParseInv, TypeInv, Structured

-----------------------------------------------------------------------------
(* Control in that layout.                                                 *)

IsLoop(b)  == branch[b].kind \in Loops
HasCond(b) == branch[b].kind \in {"while", "foreach"}

\* Where the first part of a branch ends.
ThenEnd(b) == IF branch[b].else_at > 0 THEN branch[b].else_at ELSE branch[b].merge_at
InBody(b)  == branch[b].start < pc /\ pc < ThenEnd(b)

\* The stack pointer a loop has saved is the one it was entered with, once its
\* condition has been asked for the first time.
Restorable(b) ==
  /\ \/ saved[b] = entered[b] /\ (HasCond(b) /\ pc = branch[b].start + 1 => mustsave[b] = 0)
     \/ HasCond(b) /\ pc = branch[b].start + 1 /\ mustsave[b] = 2 /\ sp = entered[b]
  /\ pc = BodyAt(b) => sp = entered[b]

StackInv == \A b \in 1 .. Len(branch) : IsLoop(b) /\ InBody(b) => Restorable(b)

RunInv ==
  parse = "done" =>
    /\ pc \in Nat
    /\ \A b \in 1 .. Len(branch) : branch[b].merge_at > 0
    /\ DOMAIN saved = 1 .. Len(branch) /\ DOMAIN entered = 1 .. Len(branch)
    /\ DOMAIN mustsave = 1 .. Len(branch)
    /\ StackInv

\* Where an instruction may lead to.
Leads(q) ==
  LET b == Here.branch
  IN \/ Here.op \in {"decl", "brk"} /\ q = pc + 1
     \/ Here.op \notin {"decl", "return"} /\ q = branch[b].merge_at
     \/ Here.op \in {"enter", "cond"} /\ branch[b].else_at > 0 /\ q = branch[b].else_at
     \/ Here.op \in {"enter", "cond", "endthen"} /\ q = BodyAt(b)
     \/ Here.op \in {"enter", "endthen"} /\ HasCond(b) /\ q = branch[b].start + 1

\* A finished function.
Compiled ==
  /\ Structured(code, branch, open)
  /\ \A b \in 1 .. Len(branch) : branch[b].merge_at > 0

\* The places of a branch of a finished function.
LEMMA Layout ==
  ASSUME Compiled, NEW b \in 1 .. Len(branch)
  PROVE  /\ branch[b].start \in Nat /\ branch[b].else_at \in Nat /\ branch[b].merge_at \in Nat
         /\ BodyAt(b) \in Nat /\ Len(code) \in Nat
         /\ branch[b].start >= 1 /\ branch[b].start < BodyAt(b)
         /\ HasCond(b) => BodyAt(b) = branch[b].start + 2
         /\ ~HasCond(b) => BodyAt(b) = branch[b].start + 1
         /\ BodyAt(b) <= branch[b].merge_at
         /\ branch[b].else_at > 0 => BodyAt(b) <= branch[b].else_at
         /\ branch[b].else_at <= branch[b].merge_at
         /\ ThenEnd(b) \in Nat /\ ThenEnd(b) <= branch[b].merge_at
         /\ IsLoop(b) => BodyAt(b) < ThenEnd(b)
         /\ code[branch[b].start].op = "enter" /\ code[branch[b].start].branch = b
         /\ HasCond(b) => /\ code[branch[b].start + 1].op = "cond"
                          /\ code[branch[b].start + 1].branch = b
<1>1. /\ branch \in Seq(Branches) /\ PlacesInv(code, branch)!(b) /\ branch[b].merge_at > 0
      /\ code \in Seq(Instructions)
  BY DEF Compiled, Structured, PlacesInv
<1>2. /\ branch[b].start \in Nat /\ branch[b].else_at \in Nat /\ branch[b].merge_at \in Nat
      /\ BodyOf(branch[b]) \in Nat /\ branch[b].start < BodyOf(branch[b])
  BY <1>1, BranchFacts
<1>3. BodyOf(branch[b]) = BodyAt(b)
  BY DEF BodyOf, BodyAt
<1>4. /\ HasCond(b) => BodyAt(b) = branch[b].start + 2
      /\ ~HasCond(b) => BodyAt(b) = branch[b].start + 1
  BY <1>2 DEF BodyAt, HasCond
<1>5. /\ BodyAt(b) <= branch[b].merge_at /\ branch[b].start >= 1
      /\ branch[b].else_at > 0 => BodyAt(b) <= branch[b].else_at
      /\ branch[b].else_at <= branch[b].merge_at
      /\ IsLoop(b) => /\ BodyAt(b) < branch[b].merge_at
                      /\ branch[b].else_at > 0 => BodyAt(b) < branch[b].else_at
  BY <1>1, <1>3 DEF IsLoop
<1>6. /\ ThenEnd(b) \in Nat /\ ThenEnd(b) <= branch[b].merge_at
      /\ IsLoop(b) => BodyAt(b) < ThenEnd(b)
  BY <1>2, <1>5 DEF ThenEnd
<1>7. /\ code[branch[b].start].op = "enter" /\ code[branch[b].start].branch = b
      /\ HasCond(b) => /\ code[branch[b].start + 1].op = "cond"
                       /\ code[branch[b].start + 1].branch = b
  BY <1>1 DEF HasCond
<1>8. QED
  BY <1>1, <1>2, <1>3, <1>4, <1>5, <1>6, <1>7

\* A later branch is behind an earlier one, in its first or in its second part.
LEMMA Inner ==
  ASSUME Compiled, NEW b \in 1 .. Len(branch), NEW c \in 1 .. Len(branch), b < c
  PROVE  /\ BodyAt(b) <= branch[c].start
         /\ \/ branch[b].merge_at <= branch[c].start
            \/ branch[c].merge_at <= ThenEnd(b)
            \/ /\ branch[b].else_at > 0 /\ branch[b].else_at <= branch[c].start
               /\ branch[c].merge_at <= branch[b].merge_at
<1>1. branch[b].start < branch[c].start /\ Nested(branch[b], branch[c])
  BY DEF Compiled, Structured, NestInv
<1>2. branch[b].merge_at > 0 /\ branch[c].merge_at > 0
  BY DEF Compiled
<1>3. BodyAt(b) <= branch[c].start
  <2>1. HasCond(b) => branch[c].start # branch[b].start + 1
    BY Layout
  <2>2. /\ branch[b].start \in Nat /\ branch[c].start \in Nat
        /\ HasCond(b) => BodyAt(b) = branch[b].start + 2
        /\ ~HasCond(b) => BodyAt(b) = branch[b].start + 1
    BY Layout
  <2>3. QED
    BY <1>1, <2>1, <2>2
<1>4. QED
  BY <1>1, <1>2, <1>3 DEF Nested, ThenEnd

\* An instruction is in its branch.
LEMMA HereFacts ==
  ASSUME Compiled, Running, Here.op \notin {"decl", "return"}
  PROVE  /\ Here.branch \in 1 .. Len(branch)
         /\ Here.op = "enter" => pc = branch[Here.branch].start
         /\ Here.op = "cond" => pc = branch[Here.branch].start + 1 /\ HasCond(Here.branch)
         /\ branch[Here.branch].start <= pc /\ pc < branch[Here.branch].merge_at
         /\ Here.op = "endthen" => BodyAt(Here.branch) <= pc /\ pc < ThenEnd(Here.branch)
         /\ Here.op \in {"enter", "cond"} => pc < BodyAt(Here.branch)
<1> DEFINE b == Here.branch
<1>0. pc \in 1 .. Len(code) /\ Here = code[pc] /\ pc \in Nat
  <2>1. Len(code) \in Nat
    BY DEF Compiled, Structured
  <2>2. QED
    BY <2>1 DEF Running, Here
<1>1. CodeInv(code, branch)!(pc) /\ Here \in Instructions
  BY <1>0 DEF Compiled, Structured, CodeInv
<1>2. Here.op \in Ops
  BY <1>1 DEF Instructions
<1>3. /\ b \in 1 .. Len(branch) /\ branch[b].merge_at > 0
      /\ Here.op = "enter" => pc = branch[b].start
      /\ Here.op = "cond" => pc = branch[b].start + 1 /\ HasCond(b)
      /\ Here.op \in {"brk", "endthen", "endelse"} =>
           branch[b].start < pc /\ (branch[b].merge_at > 0 => pc < branch[b].merge_at)
      /\ Here.op = "endthen" =>
           BodyAt(b) <= pc /\ (branch[b].else_at > 0 => pc < branch[b].else_at)
  <2>1. BodyOf(branch[b]) = BodyAt(b)
    BY DEF BodyOf, BodyAt
  <2>2. QED
    BY <1>0, <1>1, <2>1 DEF HasCond, Compiled
<1> HIDE DEF b
<1>4. /\ branch[b].start \in Nat /\ branch[b].merge_at \in Nat /\ BodyAt(b) \in Nat
      /\ branch[b].start < BodyAt(b) /\ BodyAt(b) <= branch[b].merge_at
      /\ HasCond(b) => BodyAt(b) = branch[b].start + 2
  BY <1>3, Layout
<1>5. Here.op \in {"enter", "cond"} => branch[b].start <= pc /\ pc < BodyAt(b)
  BY <1>0, <1>3, <1>4
<1>6. branch[b].start <= pc /\ pc < branch[b].merge_at
  <2>1. CASE Here.op \in {"enter", "cond"}
    BY <1>0, <1>4, <1>5, <2>1
  <2>2. CASE Here.op \in {"brk", "endthen", "endelse"}
    BY <1>0, <1>3, <1>4, <2>2
  <2>3. QED
    BY <1>2, <2>1, <2>2 DEF Ops
<1>7. Here.op = "endthen" => pc < ThenEnd(b)
  BY <1>0, <1>3, <1>4 DEF ThenEnd
<1>8. QED
  BY <1>3, <1>5, <1>6, <1>7 DEF b

\* Control enters the body of a loop from its head only, and the head and the
\* start of the body from the loop's own instructions.
LEMMA OneWayIn ==
  ASSUME Compiled, Running, NEW q \in Nat, Leads(q), NEW b \in 1 .. Len(branch), IsLoop(b),
         branch[b].start < q, q < ThenEnd(b)
  PROVE  /\ pc = branch[b].start \/ InBody(b)
         /\ q <= BodyAt(b) => Here.branch = b /\ Here.op \in {"enter", "cond", "endthen"}
<1> DEFINE c == Here.branch
<1>0. pc \in Nat /\ Here = code[pc] /\ pc \in 1 .. Len(code)
  BY DEF Running, Here, Compiled, Structured
<1>1. /\ branch[b].start \in Nat /\ branch[b].merge_at \in Nat /\ BodyAt(b) \in Nat
      /\ ThenEnd(b) \in Nat /\ branch[b].start < BodyAt(b) /\ BodyAt(b) < ThenEnd(b)
      /\ ThenEnd(b) <= branch[b].merge_at
      /\ branch[b].else_at > 0 => ThenEnd(b) = branch[b].else_at
      /\ branch[b].else_at = 0 => ThenEnd(b) = branch[b].merge_at
      /\ branch[b].else_at \in Nat
  BY Layout DEF ThenEnd
<1>2. CASE Here.op \in {"decl", "brk"} /\ q = pc + 1
  <2>1. pc # branch[b].start /\ (HasCond(b) => pc # branch[b].start + 1)
    BY <1>0, <1>2, Layout
  <2>2. /\ HasCond(b) => BodyAt(b) = branch[b].start + 2
        /\ ~HasCond(b) => BodyAt(b) = branch[b].start + 1
    BY Layout
  <2>3. pc >= BodyAt(b) /\ pc < ThenEnd(b)
    BY <1>0, <1>1, <1>2, <2>1, <2>2
  <2>4. QED
    BY <1>0, <1>1, <1>2, <2>3 DEF InBody
<1>3. CASE Here.op \notin {"decl", "return"} /\ ~(Here.op \in {"decl", "brk"} /\ q = pc + 1)
  <2>1. /\ c \in 1 .. Len(branch)
        /\ branch[c].start <= pc /\ pc < branch[c].merge_at
        /\ Here.op = "endthen" => BodyAt(c) <= pc /\ pc < ThenEnd(c)
        /\ Here.op \in {"enter", "cond"} => pc < BodyAt(c)
        /\ Here.op = "enter" => pc = branch[c].start
    BY <1>3, HereFacts
  <2>2. \/ q = branch[c].merge_at
        \/ Here.op \in {"enter", "cond"} /\ branch[c].else_at > 0 /\ q = branch[c].else_at
        \/ Here.op \in {"enter", "cond", "endthen"} /\ q = BodyAt(c)
        \/ Here.op \in {"enter", "endthen"} /\ HasCond(c) /\ q = branch[c].start + 1
    BY <1>3 DEF Leads
  <2> HIDE DEF c
  <2>3. /\ branch[c].start \in Nat /\ branch[c].merge_at \in Nat /\ BodyAt(c) \in Nat
        /\ branch[c].else_at \in Nat /\ ThenEnd(c) \in Nat
        /\ branch[c].start < BodyAt(c) /\ BodyAt(c) <= branch[c].merge_at
        /\ branch[c].else_at > 0 => BodyAt(c) <= branch[c].else_at
        /\ branch[c].else_at <= branch[c].merge_at
        /\ ThenEnd(c) <= branch[c].merge_at
        /\ HasCond(c) => BodyAt(c) = branch[c].start + 2
    BY <2>1, Layout
  <2>4. branch[c].start < q /\ q <= branch[c].merge_at
    BY <2>2, <2>3
  <2>5. CASE c = b
    <3>1. q # branch[b].merge_at /\ ~(branch[b].else_at > 0 /\ q = branch[b].else_at)
      BY <1>1
    <3>2. Here.op \in {"enter", "cond", "endthen"}
      BY <2>2, <2>5, <3>1
    <3>3. Here.op \in {"enter", "cond"} => pc < ThenEnd(b)
      BY <1>0, <1>1, <2>1, <2>5
    <3>4. branch[b].start <= pc /\ pc < ThenEnd(b)
      BY <2>1, <2>5, <3>2, <3>3
    <3>5. QED
      BY <1>0, <1>1, <2>5, <3>2, <3>4 DEF InBody, c
  <2>6. CASE c < b
    <3>1. /\ BodyAt(c) <= branch[b].start
          /\ \/ branch[c].merge_at <= branch[b].start
             \/ branch[b].merge_at <= ThenEnd(c)
             \/ /\ branch[c].else_at > 0 /\ branch[c].else_at <= branch[b].start
                /\ branch[b].merge_at <= branch[c].merge_at
      BY <2>1, <2>6, Inner
    <3>2. \/ branch[c].else_at > 0 /\ ThenEnd(c) = branch[c].else_at
          \/ branch[c].else_at = 0 /\ ThenEnd(c) = branch[c].merge_at
      BY <2>3 DEF ThenEnd
    <3>3. \/ q = branch[c].merge_at
          \/ branch[c].else_at > 0 /\ q = branch[c].else_at
          \/ q <= BodyAt(c)
      BY <2>2, <2>3
    <3>4. q < branch[b].merge_at
      BY <1>1
    <3>5. CASE branch[c].merge_at <= branch[b].start
      BY <1>1, <2>3, <2>4, <3>5
    <3>6. CASE branch[b].merge_at <= ThenEnd(c)
      BY <1>1, <2>3, <3>1, <3>2, <3>3, <3>4, <3>6
    <3>7. CASE branch[c].else_at <= branch[b].start /\ branch[b].merge_at <= branch[c].merge_at
      BY <1>1, <2>3, <3>1, <3>3, <3>4, <3>7
    <3>8. QED
      BY <3>1, <3>5, <3>6, <3>7
  <2>7. CASE b < c
    <3>1. /\ BodyAt(b) <= branch[c].start
          /\ \/ branch[b].merge_at <= branch[c].start
             \/ branch[c].merge_at <= ThenEnd(b)
             \/ /\ branch[b].else_at > 0 /\ branch[b].else_at <= branch[c].start
                /\ branch[c].merge_at <= branch[b].merge_at
      BY <2>1, <2>7, Inner
    <3>2. branch[c].merge_at <= ThenEnd(b)
      BY <1>1, <2>3, <2>4, <3>1
    <3>3. branch[b].start < pc /\ pc < ThenEnd(b) /\ ~(q <= BodyAt(b))
      BY <1>0, <1>1, <2>1, <2>3, <2>4, <3>1, <3>2
    <3>4. QED
      BY <3>3 DEF InBody
  <2>8. QED
    BY <2>1, <2>5, <2>6, <2>7
<1>4. QED
  BY <1>2, <1>3 DEF Leads

\* What an instruction leads to is a place in the code.
LEMMA LeadsToCode ==
  ASSUME Compiled, Running, NEW q, Leads(q)
  PROVE  q \in Nat
<1> DEFINE b == Here.branch
<1>1. pc \in Nat
  BY DEF Running, Compiled, Structured
<1>2. CASE Here.op \in {"decl", "brk"} /\ q = pc + 1
  BY <1>1, <1>2
<1>3. CASE ~(Here.op \in {"decl", "brk"} /\ q = pc + 1)
  <2>1. Here.op \notin {"decl", "return"}
    BY <1>3 DEF Leads
  <2>2. b \in 1 .. Len(branch)
    BY <2>1, HereFacts
  <2>3. branch[b].start \in Nat /\ branch[b].else_at \in Nat /\ branch[b].merge_at \in Nat
        /\ BodyAt(b) \in Nat
    BY <2>2, Layout
  <2>4. \/ q = branch[b].merge_at \/ q = branch[b].else_at
        \/ q = BodyAt(b) \/ q = branch[b].start + 1
    BY <1>3 DEF Leads
  <2>5. QED
    BY <2>3, <2>4
<1>4. QED
  BY <1>2, <1>3

\* An instruction leaves the invariant of the loops it does not belong to.
LEMMA StackStep ==
  ASSUME Compiled, Running, StackInv, UNCHANGED parseVars, Leads(pc'),
         \A b \in 1 .. Len(branch) :
           b # Here.branch \/ Here.op \notin {"enter", "cond", "endthen"} =>
             saved'[b] = saved[b] /\ entered'[b] = entered[b],
         \A b \in 1 .. Len(branch) :
           b = Here.branch /\ Here.op \in {"enter", "cond", "endthen"} /\ IsLoop(b)
             /\ InBody(b)' => Restorable(b)'
  PROVE  StackInv'
<1>0. UNCHANGED <<branch, code>>
  BY DEF parseVars
<1> SUFFICES ASSUME NEW b \in 1 .. Len(branch), IsLoop(b), InBody(b)'
             PROVE  Restorable(b)'
  BY <1>0 DEF StackInv, IsLoop
<1>1. CASE Here.branch = b /\ Here.op \in {"enter", "cond", "endthen"}
  BY <1>1
<1>2. CASE ~(Here.branch = b /\ Here.op \in {"enter", "cond", "endthen"})
  <2>1. saved'[b] = saved[b] /\ entered'[b] = entered[b]
    BY <1>2
  <2>2. branch[b].start < pc' /\ pc' < ThenEnd(b)
    BY <1>0 DEF InBody, ThenEnd
  <2>3. pc' \in Nat
    BY LeadsToCode
  <2>4. (pc = branch[b].start \/ InBody(b)) /\ ~(pc' <= BodyAt(b))
    BY <1>2, <2>2, <2>3, OneWayIn
  <2>5. /\ code[branch[b].start].op = "enter" /\ code[branch[b].start].branch = b
        /\ HasCond(b) => /\ code[branch[b].start + 1].op = "cond"
                         /\ code[branch[b].start + 1].branch = b
    BY Layout
  <2>6. pc # branch[b].start /\ ~(HasCond(b) /\ pc = branch[b].start + 1)
    BY <1>2, <2>5 DEF Here
  <2>7. saved[b] = entered[b]
    BY <2>4, <2>6 DEF StackInv, Restorable
  <2>8. /\ branch[b].start \in Nat /\ BodyAt(b) \in Nat
        /\ HasCond(b) => BodyAt(b) = branch[b].start + 2
    BY Layout
  <2>9. pc' # BodyAt(b) /\ ~(HasCond(b) /\ pc' = branch[b].start + 1)
    BY <2>3, <2>4, <2>8
  <2>10. BodyAt(b)' = BodyAt(b) /\ (HasCond(b)' <=> HasCond(b))
    BY <1>0 DEF BodyAt, HasCond
  <2>11. QED
    BY <1>0, <2>1, <2>7, <2>9, <2>10 DEF Restorable
<1>3. QED
  BY <1>1, <1>2

\* What is assumed of a step of a finished function.
Stepping ==
  /\ parse = "done" /\ RunInv /\ Compiled /\ Running

\* A step changes nothing of the function.
LEMMA SteppingFacts ==
  ASSUME Stepping, UNCHANGED parseVars
  PROVE  /\ UNCHANGED <<parse, branch, code>>
         /\ StackInv
         /\ \A b \in 1 .. Len(branch) : branch[b].merge_at > 0
         /\ DOMAIN saved = 1 .. Len(branch) /\ DOMAIN entered = 1 .. Len(branch)
         /\ DOMAIN mustsave = 1 .. Len(branch)
         /\ \A b : /\ BodyAt(b)' = BodyAt(b) /\ ThenEnd(b)' = ThenEnd(b)
                   /\ HasCond(b)' <=> HasCond(b)
BY DEF Stepping, RunInv, parseVars, BodyAt, HasCond, ThenEnd

\* A step to the instruction an instruction leads to.
LEMMA RunStep ==
  ASSUME Stepping, UNCHANGED parseVars, Leads(pc'), StackInv',
         DOMAIN saved' = DOMAIN saved, DOMAIN entered' = DOMAIN entered,
         DOMAIN mustsave' = DOMAIN mustsave
  PROVE  RunInv'
<1>1. pc' \in Nat
  BY LeadsToCode DEF Stepping
<1>2. QED
  BY <1>1, SteppingFacts DEF RunInv

\* The instructions that leave the stack pointers alone.
LEMMA PlainStep ==
  ASSUME Stepping, UNCHANGED parseVars, Leads(pc'), UNCHANGED loopVars,
         Here.op \in {"enter", "cond", "endthen"} => ~IsLoop(Here.branch)
  PROVE  RunInv'
<1>1. UNCHANGED <<saved, entered, mustsave>>
  BY DEF loopVars
<1>2. StackInv'
  BY <1>1, SteppingFacts, StackStep DEF Stepping
<1>3. QED
  BY <1>1, <1>2, RunStep

\* The instructions keep the invariant: declarations and brk,
LEMMA DeclBrkStep ==
  ASSUME Stepping, RunDecl \/ RunBrk
  PROVE  RunInv'
<1>1. UNCHANGED parseVars /\ UNCHANGED loopVars
  BY DEF RunDecl, RunBrk
<1>2. Here.op \in {"decl", "brk"}
  BY DEF RunDecl, RunBrk, At, Here
<1>3. pc' = pc + 1 \/ (Here.op = "brk" /\ pc' = branch[Here.branch].merge_at)
  BY DEF RunDecl, RunBrk, At, Here, B
<1>4. Leads(pc')
  BY <1>2, <1>3 DEF Leads
<1>5. QED
  BY <1>1, <1>2, <1>4, PlainStep

\* the ends of ifs and of else parts,
LEMMA EndIfStep ==
  ASSUME Stepping, EndIf \/ EndForElse
  PROVE  RunInv'
<1>1. UNCHANGED parseVars /\ UNCHANGED loopVars /\ pc' = branch[Here.branch].merge_at
  BY DEF EndIf, EndForElse, B
<1>2. \/ Here.op = "endelse"
      \/ Here.op = "endthen" /\ branch[Here.branch].kind = "if"
  BY DEF EndIf, EndForElse, At, Here, B
<1>3. Leads(pc')
  BY <1>1, <1>2 DEF Leads
<1>4. Here.op \in {"enter", "cond", "endthen"} => ~IsLoop(Here.branch)
  BY <1>2 DEF IsLoop, Loops
<1>5. QED
  BY <1>1, <1>3, <1>4, PlainStep

\* return,
LEMMA ReturnStep ==
  ASSUME Stepping, HandleReturn
  PROVE  RunInv'
<1>1. UNCHANGED parseVars /\ UNCHANGED loopVars /\ pc' = 0
  BY DEF HandleReturn
<1>2. UNCHANGED <<saved, entered, mustsave>>
  BY <1>1 DEF loopVars
<1>3. StackInv'
  <2> SUFFICES ASSUME NEW b \in 1 .. Len(branch), InBody(b)' PROVE FALSE
    BY <1>1, SteppingFacts DEF StackInv
  <2>1. branch[b].start < pc' /\ branch[b].start \in Nat
    BY <1>1, SteppingFacts, Layout DEF InBody, Stepping
  <2>2. QED
    BY <1>1, <2>1
<1>4. QED
  BY <1>1, <1>2, <1>3, SteppingFacts DEF RunInv

\* The instructions of the loops themselves.
LEMMA EnterStep ==
  ASSUME Stepping, EnterIf \/ EnterRepeat \/ EnterWhile
  PROVE  RunInv'
<1> DEFINE c == Here.branch
<1>1. /\ UNCHANGED parseVars /\ sp' = sp /\ entered' = [entered EXCEPT ![c] = sp]
      /\ Here.op = "enter" /\ c \in 1 .. Len(branch)
  <2>1. Here.op = "enter"
    BY DEF EnterIf, EnterRepeat, EnterWhile, At, Here
  <2>2. c \in 1 .. Len(branch)
    BY <2>1, HereFacts DEF Stepping
  <2>3. QED
    BY <2>1, <2>2 DEF EnterIf, EnterRepeat, EnterWhile, Entering
<1>2. \/ pc' = BodyAt(c)
      \/ branch[c].else_at > 0 /\ pc' = branch[c].else_at
      \/ branch[c].else_at \in Nat /\ pc' = ThenEnd(c)
      \/ HasCond(c) /\ pc' = branch[c].start + 1
  <2>1. pc = branch[c].start /\ branch[c].else_at \in Nat
    BY <1>1, HereFacts, Layout DEF Stepping
  <2>2. CASE EnterIf
    BY <2>1, <2>2 DEF EnterIf, First, ToElse, HasElse, B, ThenEnd
  <2>3. CASE EnterRepeat
    BY <2>3 DEF EnterRepeat, First
  <2>4. CASE EnterWhile
    BY <2>1, <2>4 DEF EnterWhile, B, HasCond
  <2>5. QED
    BY <2>2, <2>3, <2>4
<1>3. /\ DOMAIN saved' = DOMAIN saved /\ DOMAIN entered' = DOMAIN entered
      /\ DOMAIN mustsave' = DOMAIN mustsave
      /\ \A b \in 1 .. Len(branch) : b # c => saved'[b] = saved[b] /\ entered'[b] = entered[b]
  <2>1. saved' = saved \/ saved' = [saved EXCEPT ![c] = sp]
    BY DEF EnterIf, EnterRepeat, EnterWhile, SaveStack
  <2>2. mustsave' = mustsave \/ mustsave' = [mustsave EXCEPT ![c] = 2]
    BY DEF EnterIf, EnterRepeat, EnterWhile
  <2>3. QED
    BY <1>1, <2>1, <2>2, SteppingFacts
<1>4. Leads(pc')
  BY <1>1, <1>2 DEF Leads, ThenEnd
<1>5. /\ entered'[c] = sp
      /\ IsLoop(c) /\ pc' = BodyAt(c) => saved'[c] = sp
      /\ HasCond(c) /\ pc' = branch[c].start + 1 => mustsave'[c] = 2
  <2>1. entered'[c] = sp
    BY <1>1, SteppingFacts
  <2>2. BodyAt(c) # branch[c].start + 1 \/ ~HasCond(c)
    BY <1>1, Layout DEF Stepping
  <2>3. CASE EnterWhile
    <3>1. mustsave' = [mustsave EXCEPT ![c] = 2] /\ pc' = pc + 1
      BY <2>3 DEF EnterWhile
    <3>2. pc = branch[c].start /\ HasCond(c)
      BY <1>1, <2>3, HereFacts DEF Stepping, EnterWhile, B, HasCond
    <3>3. QED
      BY <1>1, <2>1, <2>2, <3>1, <3>2, SteppingFacts
  <2>4. CASE EnterRepeat
    <3>1. saved' = [saved EXCEPT ![c] = sp] /\ ~HasCond(c)
      BY <2>4 DEF EnterRepeat, SaveStack, B, HasCond
    <3>2. QED
      BY <1>1, <2>1, <3>1, SteppingFacts
  <2>5. CASE EnterIf
    <3>1. ~HasCond(c)
      BY <2>5 DEF EnterIf, B, HasCond
    <3>2. IsLoop(c) => branch[c].kind = "for"
      BY <2>5 DEF EnterIf, B, IsLoop, Loops
    <3>3. IsLoop(c) => BodyAt(c) < ThenEnd(c) /\ BodyAt(c) \in Nat /\ ThenEnd(c) \in Nat
      BY <1>1, Layout DEF Stepping
    <3>4. branch[c].kind = "for" /\ pc' = BodyAt(c) /\ IsLoop(c) =>
            saved' = [saved EXCEPT ![c] = sp]
      <4>1. SUFFICES ASSUME branch[c].kind = "for", pc' = BodyAt(c), IsLoop(c)
                     PROVE  saved' = [saved EXCEPT ![c] = sp]
        OBVIOUS
      <4>2. pc' # ThenEnd(c)
        BY <3>3, <4>1
      <4>3. branch[c].else_at \in Nat
        BY <1>1, Layout DEF Stepping
      <4>4. ~ToElse
        BY <4>2, <4>3 DEF ToElse, HasElse, B, ThenEnd
      <4>5. QED
        BY <2>5, <4>1, <4>4 DEF EnterIf, SaveStack, B
    <3>5. QED
      BY <1>1, <2>1, <3>1, <3>2, <3>4, SteppingFacts
  <2>6. QED
    BY <2>3, <2>4, <2>5
<1> HIDE DEF c
<1>6. ASSUME NEW b \in 1 .. Len(branch), b = c, IsLoop(b), InBody(b)'
      PROVE  Restorable(b)'
  <2>1. /\ BodyAt(b)' = BodyAt(b) /\ (HasCond(b)' <=> HasCond(b)) /\ ThenEnd(b)' = ThenEnd(b)
        /\ branch' = branch
    BY <1>1, SteppingFacts
  <2>2. pc' < ThenEnd(b) /\ ThenEnd(b) \in Nat
    BY <1>1, <1>6, <2>1, Layout DEF InBody, Stepping
  <2>3. branch[b].else_at > 0 => ThenEnd(b) = branch[b].else_at
    BY DEF ThenEnd
  <2>4. pc' = BodyAt(b) \/ (HasCond(b) /\ pc' = branch[b].start + 1)
    <3>1. pc' # ThenEnd(b)
      BY <2>2
    <3>2. \/ pc' = BodyAt(b)
          \/ branch[b].else_at > 0 /\ pc' = branch[b].else_at
          \/ pc' = ThenEnd(b)
          \/ HasCond(b) /\ pc' = branch[b].start + 1
      <4>1. b = c
        BY <1>6
      <4>2. QED
        BY <1>2, <4>1
    <3>3. QED
      BY <2>3, <3>1, <3>2
  <2>5. HasCond(b) => BodyAt(b) # branch[b].start + 1
    BY <1>1, Layout DEF Stepping
  <2>6. CASE pc' = BodyAt(b)
    <3>1. saved'[b] = entered'[b] /\ sp' = entered'[b]
      BY <1>1, <1>5, <1>6, <2>6
    <3>2. ~(HasCond(b) /\ pc' = branch[b].start + 1)
      BY <2>5, <2>6
    <3>3. QED
      BY <2>1, <3>1, <3>2 DEF Restorable
  <2>7. CASE HasCond(b) /\ pc' = branch[b].start + 1
    <3>1. mustsave'[b] = 2 /\ sp' = entered'[b]
      BY <1>1, <1>5, <1>6, <2>7
    <3>2. QED
      BY <2>1, <2>7, <3>1 DEF Restorable
  <2>8. QED
    BY <2>4, <2>6, <2>7
<1>7. StackInv'
  BY <1>1, <1>3, <1>4, <1>6, SteppingFacts, StackStep DEF Stepping, c
<1>8. QED
  BY <1>1, <1>3, <1>4, <1>7, RunStep

\* the condition of a loop,
LEMMA CondStep ==
  ASSUME Stepping, Cond
  PROVE  RunInv'
<1> DEFINE c == Here.branch
<1>1. /\ UNCHANGED parseVars /\ entered' = entered /\ mustsave' = mustsave
      /\ Here.op = "cond" /\ c \in 1 .. Len(branch)
      /\ pc = branch[c].start + 1 /\ HasCond(c)
  <2>1. Here.op = "cond"
    BY DEF Cond, At, Here
  <2>2. c \in 1 .. Len(branch) /\ pc = branch[c].start + 1 /\ HasCond(c)
    BY <2>1, HereFacts DEF Stepping
  <2>3. QED
    BY <2>1, <2>2 DEF Cond
<1>2. \/ pc' = BodyAt(c) /\ mustsave[c] = 2 /\ sp' = sp /\ saved' = [saved EXCEPT ![c] = sp]
      \/ pc' = BodyAt(c) /\ mustsave[c] = 0 /\ sp' = saved[c] /\ saved' = saved
      \/ branch[c].else_at > 0 /\ pc' = branch[c].else_at /\ saved' = saved
      \/ branch[c].else_at = 0 /\ pc' = branch[c].merge_at /\ saved' = saved
      \/ pc' = branch[c].merge_at /\ saved' = saved
  <2>1. branch[c].else_at \in Nat
    BY <1>1, Layout DEF Stepping
  <2>2. QED
    BY <2>1 DEF Cond, ToBody, First, ToElse, HasElse, SaveStack, RestoreStack, B
<1>3. /\ DOMAIN saved' = DOMAIN saved
      /\ \A b \in 1 .. Len(branch) : b # c => saved'[b] = saved[b]
  BY <1>1, <1>2, SteppingFacts
<1>4. Leads(pc')
  BY <1>1, <1>2 DEF Leads
<1>5. /\ branch[c].start \in Nat /\ branch[c].start < pc
      /\ pc # BodyAt(c)
      /\ IsLoop(c) => pc < ThenEnd(c)
      /\ ThenEnd(c) \in Nat /\ ThenEnd(c) <= branch[c].merge_at /\ branch[c].merge_at \in Nat
  BY <1>1, Layout DEF Stepping
<1>6. IsLoop(c) => \/ mustsave[c] = 0 /\ saved[c] = entered[c]
                   \/ mustsave[c] = 2 /\ sp = entered[c]
  BY <1>1, <1>5, SteppingFacts DEF StackInv, Restorable, InBody
<1>7. IsLoop(c) /\ pc' = BodyAt(c) => saved'[c] = entered'[c] /\ sp' = entered'[c]
  <2> SUFFICES ASSUME IsLoop(c), pc' = BodyAt(c)
               PROVE  saved'[c] = entered'[c] /\ sp' = entered'[c]
    OBVIOUS
  <2>1. BodyAt(c) < ThenEnd(c) /\ BodyAt(c) \in Nat
    BY <1>1, Layout DEF Stepping
  <2>2. branch[c].else_at > 0 => ThenEnd(c) = branch[c].else_at
    BY DEF ThenEnd
  <2>3. pc' # branch[c].merge_at /\ ~(branch[c].else_at > 0 /\ pc' = branch[c].else_at)
    BY <1>5, <2>1, <2>2
  <2>4. CASE mustsave[c] = 2 /\ sp' = sp /\ saved' = [saved EXCEPT ![c] = sp]
    BY <1>1, <1>6, <2>4, SteppingFacts
  <2>5. CASE mustsave[c] = 0 /\ sp' = saved[c] /\ saved' = saved
    BY <1>1, <1>6, <2>5
  <2>6. QED
    BY <1>2, <2>3, <2>4, <2>5
<1> HIDE DEF c
<1>8. ASSUME NEW b \in 1 .. Len(branch), b = c, IsLoop(b), InBody(b)'
      PROVE  Restorable(b)'
  <2>1. /\ BodyAt(b)' = BodyAt(b) /\ (HasCond(b)' <=> HasCond(b)) /\ ThenEnd(b)' = ThenEnd(b)
        /\ branch' = branch
    BY <1>1, SteppingFacts
  <2>2. pc' < ThenEnd(b) /\ ThenEnd(b) \in Nat /\ ThenEnd(b) <= branch[b].merge_at
        /\ branch[b].merge_at \in Nat
    BY <1>5, <1>8, <2>1 DEF InBody
  <2>3. branch[b].else_at > 0 => ThenEnd(b) = branch[b].else_at
    BY DEF ThenEnd
  <2>4. pc' # branch[b].merge_at /\ ~(branch[b].else_at > 0 /\ pc' = branch[b].else_at)
    BY <2>2, <2>3
  <2>5. pc' = BodyAt(b)
    BY <1>2, <1>8, <2>4
  <2>6. BodyAt(b) # branch[b].start + 1
    BY <1>1, <1>5, <1>8
  <2>7. saved'[b] = entered'[b] /\ sp' = entered'[b]
    BY <1>7, <1>8, <2>5
  <2>8. QED
    BY <2>1, <2>5, <2>6, <2>7 DEF Restorable
<1>9. StackInv'
  BY <1>1, <1>3, <1>4, <1>8, SteppingFacts, StackStep DEF Stepping, c
<1>10. QED
  BY <1>1, <1>3, <1>4, <1>9, RunStep

\* and the end of its body, where it is run again.
LEMMA EndLoopStep ==
  ASSUME Stepping, EndWhile \/ EndRepeat \/ EndFor
  PROVE  RunInv'
<1> DEFINE c == Here.branch
<1>1. /\ UNCHANGED parseVars /\ entered' = entered /\ saved' = saved
      /\ Here.op = "endthen" /\ c \in 1 .. Len(branch)
      /\ BodyAt(c) <= pc /\ pc < ThenEnd(c) /\ pc \in Nat
  <2>1. Here.op = "endthen"
    BY DEF EndWhile, EndRepeat, EndFor, At, Here
  <2>2. c \in 1 .. Len(branch) /\ BodyAt(c) <= pc /\ pc < ThenEnd(c)
    BY <2>1, HereFacts DEF Stepping
  <2>3. pc \in Nat
    BY DEF Stepping, RunInv
  <2>4. QED
    BY <2>1, <2>2, <2>3 DEF EndWhile, EndRepeat, EndFor
<1>2. \/ HasCond(c) /\ pc' = branch[c].start + 1 /\ mustsave' = [mustsave EXCEPT ![c] = 0]
      \/ ~HasCond(c) /\ pc' = BodyAt(c) /\ sp' = saved[c] /\ mustsave' = mustsave
      \/ ~HasCond(c) /\ pc' = branch[c].merge_at /\ mustsave' = mustsave
  <2>1. CASE EndWhile
    BY <2>1 DEF EndWhile, B, HasCond
  <2>2. CASE EndRepeat
    BY <2>2 DEF EndRepeat, B, HasCond, ToBody, First, RestoreStack
  <2>3. CASE EndFor
    BY <2>3 DEF EndFor, B, HasCond, ToBody, First, RestoreStack
  <2>4. QED
    BY <2>1, <2>2, <2>3
<1>3. DOMAIN mustsave' = DOMAIN mustsave
  BY <1>2
<1>4. Leads(pc')
  BY <1>1, <1>2 DEF Leads
<1>5. /\ branch[c].start \in Nat /\ branch[c].start < pc /\ BodyAt(c) \in Nat
      /\ HasCond(c) => BodyAt(c) = branch[c].start + 2
      /\ branch[c].start < BodyAt(c)
      /\ ThenEnd(c) \in Nat /\ ThenEnd(c) <= branch[c].merge_at /\ branch[c].merge_at \in Nat
  <2>1. /\ branch[c].start \in Nat /\ BodyAt(c) \in Nat
        /\ HasCond(c) => BodyAt(c) = branch[c].start + 2
        /\ branch[c].start < BodyAt(c)
        /\ ThenEnd(c) \in Nat /\ ThenEnd(c) <= branch[c].merge_at /\ branch[c].merge_at \in Nat
    BY <1>1, Layout DEF Stepping
  <2>2. QED
    BY <1>1, <2>1
<1>6. IsLoop(c) => saved[c] = entered[c]
  <2>1. InBody(c)
    BY <1>1, <1>5 DEF InBody
  <2>2. ~(HasCond(c) /\ pc = branch[c].start + 1)
    BY <1>1, <1>5
  <2>3. QED
    BY <1>1, <2>1, <2>2, SteppingFacts DEF StackInv, Restorable
<1> HIDE DEF c
<1>7. ASSUME NEW b \in 1 .. Len(branch), b = c, IsLoop(b), InBody(b)'
      PROVE  Restorable(b)'
  <2>1. /\ BodyAt(b)' = BodyAt(b) /\ (HasCond(b)' <=> HasCond(b)) /\ ThenEnd(b)' = ThenEnd(b)
        /\ branch' = branch
    BY <1>1, SteppingFacts
  <2>2. pc' # branch[b].merge_at
    <3>1. pc' < ThenEnd(b)
      BY <2>1, <1>7 DEF InBody
    <3>2. QED
      BY <1>5, <1>7, <3>1
  <2>3. saved'[b] = entered'[b] /\ saved[b] = entered'[b]
    BY <1>1, <1>6, <1>7
  <2>4. CASE HasCond(b) /\ pc' = branch[b].start + 1 /\ mustsave' = [mustsave EXCEPT ![c] = 0]
    <3>1. mustsave'[b] = 0 /\ pc' # BodyAt(b)
      BY <1>5, <1>7, <2>4, SteppingFacts, <1>1
    <3>2. QED
      BY <2>1, <2>3, <3>1 DEF Restorable
  <2>5. CASE ~HasCond(b) /\ pc' = BodyAt(b) /\ sp' = saved[c]
    <3>1. sp' = entered'[b]
      BY <1>7, <2>3, <2>5
    <3>2. QED
      BY <2>1, <2>3, <2>5, <3>1 DEF Restorable
  <2>6. QED
    BY <1>2, <1>7, <2>2, <2>4, <2>5
<1>8. StackInv'
  BY <1>1, <1>4, <1>7, SteppingFacts, StackStep DEF Stepping, c
<1>9. QED
  BY <1>1, <1>3, <1>4, <1>8, RunStep

-----------------------------------------------------------------------------
(* The invariant.                                                          *)

BranchInv ==
  /\ ParseInv
  /\ parse = "done" => Len(open) = 0
  /\ RunInv

\* At the end of the body no branch is open, so that all have a merge point.
LEMMA DoneCompiled ==
  ASSUME ParseInv, parse = "done" => Len(open) = 0, parse = "done"
  PROVE  Compiled
<1>1. Structured(code, branch, open) /\ OpenInv(branch, open) /\ branch \in Seq(Branches)
  BY DEF ParseInv, Structured
<1>2. \A b \in 1 .. Len(branch) : branch[b].merge_at # 0
  BY <1>1 DEF OpenInv
<1>3. \A b \in 1 .. Len(branch) : branch[b].merge_at \in Nat
  BY <1>1, BranchFacts
<1>4. QED
  BY <1>1, <1>2, <1>3 DEF Compiled

\* The run begins when the parser is done.
LEMMA CallStep ==
  ASSUME BranchInv, Call
  PROVE  BranchInv'
<1>1. ParseInv'
  BY ParseKeeps DEF BranchInv, Call
<1>2. ASSUME parse' = "done" PROVE Len(open') = 0
  <2>1. EndOfBody
    <3>1. parse # "done" /\ Parse
      BY DEF Call
    <3>2. QED
      BY <1>2, <3>1 DEF Parse, Declare, OpenBranch, Brk, Return, Else, Elif, End, EndElif,
                        Until, EndBranch
  <2>2. QED
    BY <2>1 DEF EndOfBody, Depth
<1>3. ASSUME parse' = "done" PROVE RunInv'
  <2>1. /\ OpenInv(branch', open') /\ PlacesInv(code', branch') /\ branch' \in Seq(Branches)
        /\ Len(open') = 0
    BY <1>1, <1>2, <1>3 DEF ParseInv, Structured
  <2>2. /\ pc' = 1
        /\ DOMAIN saved' = 1 .. Len(branch') /\ DOMAIN entered' = 1 .. Len(branch')
        /\ DOMAIN mustsave' = 1 .. Len(branch')
    BY <1>3 DEF Call
  <2>3. \A b \in 1 .. Len(branch') : branch'[b].start >= 1 /\ branch'[b].start \in Nat
    BY <2>1, BranchFacts DEF PlacesInv
  <2>6. \A b \in 1 .. Len(branch') : branch'[b].merge_at > 0
    <3>1. \A b \in 1 .. Len(branch') : branch'[b].merge_at # 0
      BY <2>1 DEF OpenInv
    <3>2. \A b \in 1 .. Len(branch') : branch'[b].merge_at \in Nat
      BY <2>1, BranchFacts
    <3>3. QED
      BY <3>1, <3>2
  <2>4. StackInv'
    BY <2>2, <2>3 DEF StackInv, InBody
  <2>5. QED
    BY <2>2, <2>4, <2>6 DEF RunInv
<1>4. QED
  BY <1>1, <1>2, <1>3 DEF BranchInv, RunInv

\* The invariant holds at the start and is kept by every step.
LEMMA BranchInit == Init => BranchInv
<1> SUFFICES ASSUME Init PROVE BranchInv
  OBVIOUS
<1>1. ParseInv
  BY ParseStarts DEF Init
<1>2. parse = "body"
  BY DEF Init, ParseInit
<1>3. QED
  BY <1>1, <1>2 DEF BranchInv, RunInv

\* Every step keeps the layout and the invariant of the loops.
LEMMA BranchNext ==
  ASSUME BranchInv, [Next]_vars
  PROVE  BranchInv'
<1>1. CASE UNCHANGED vars
  <2>1. UNCHANGED <<parseVars, pc, sp, loopVars>>
    BY <1>1 DEF vars
  <2>2. /\ UNCHANGED <<family, parse, tokens, open, locals_table, slots, branch, code, ended>>
        /\ UNCHANGED <<pc, sp, mustsave, saved, entered>>
    BY <2>1 DEF parseVars, loopVars
  <2>3. ParseInv'
    BY <2>2 DEF BranchInv, ParseInv, TypeInv
  <2>4. RunInv'
    BY <2>2 DEF BranchInv, RunInv, StackInv, Restorable, IsLoop, InBody, HasCond, ThenEnd, BodyAt
  <2>5. QED
    BY <2>2, <2>3, <2>4 DEF BranchInv
<1>2. CASE Call
  BY <1>2, CallStep
<1>3. CASE /\ ~Call
           /\ Next
  <2>1. /\ Running /\ UNCHANGED parseVars
    BY <1>3 DEF Next, RunDecl, EnterIf, EnterRepeat, EnterWhile, Entering, Cond, RunBrk, EndIf,
                EndWhile, EndRepeat, EndFor, EndForElse, HandleReturn, At
  <2>2. /\ UNCHANGED <<family, parse, tokens, open, locals_table, slots, branch, code, ended>>
    BY <2>1 DEF parseVars
  <2>3. parse = "done"
    BY <2>1 DEF Running
  <2>4. Stepping
    BY <2>1, <2>3, DoneCompiled DEF Stepping, BranchInv
  <2>5. RunInv'
    BY <1>3, <2>4, DeclBrkStep, EndIfStep, ReturnStep, EnterStep, CondStep, EndLoopStep DEF Next
  <2>6. ParseInv'
    BY <2>2 DEF BranchInv, ParseInv, TypeInv
  <2>7. QED
    BY <2>2, <2>5, <2>6 DEF BranchInv
<1>4. QED
  BY <1>1, <1>2, <1>3

\* In every function, of any length and nesting, the code of each branch lies
\* within that of its parent, and a running loop has saved the stack pointer it
\* was entered with (ParseIfExpr and ParseElse, createCondBranch).
THEOREM BranchInvHolds == Spec => []BranchInv
<1>1. Init => BranchInv
  BY BranchInit
<1>2. BranchInv /\ [Next]_vars => BranchInv'
  BY BranchNext
<1>3. QED
  BY <1>1, <1>2, PTL DEF Spec

\* Each run of a loop's body starts with the stack of the first one, whatever
\* loops, early exits and temporaries are nested in it (the stacksave and
\* stackrestore of BranchExprAST::codegen_raw).
THEOREM StackAlwaysRestored == Spec => []StackRestored
<1>1. BranchInv => StackRestored
  <2> SUFFICES ASSUME BranchInv, NEW b \in 1 .. Len(branch), Running, pc = BodyAt(b),
                      branch[b].kind \in Loops
               PROVE  sp = entered[b]
    BY DEF StackRestored
  <2>1. parse = "done"
    BY DEF Running
  <2>2. Compiled
    BY <2>1, DoneCompiled DEF BranchInv
  <2>3. IsLoop(b) /\ InBody(b)
    BY <2>2, Layout DEF IsLoop, InBody
  <2>4. QED
    BY <2>1, <2>3 DEF BranchInv, RunInv, StackInv, Restorable
<1>2. QED
  BY <1>1, BranchInvHolds, PTL

-----------------------------------------------------------------------------
(* A brk leaves as many statements as it has levels.                       *)

\* A for loop hands no levels up, and a branch whose parts both return has no
\* merge point: functions with return have no brk of several levels.
SingleBrksWithReturn == \A f \in Families : f.return => f.brk <= 1

Brks(cd) == {i \in 1 .. Len(cd) : cd[i].op = "brk"}

\* The statements instruction i is in, from branch c on.
StatementsFrom(br, c, i) ==
  {b \in 1 .. Len(br) :
     /\ c <= b /\ ~br[b].elif /\ br[b].start < i
     /\ br[b].merge_at = 0 \/ i < br[b].merge_at}

Counted(cd, br, i) ==
  /\ ~br[cd[i].branch].elif
  /\ Cardinality(StatementsFrom(br, cd[i].branch, i)) = cd[i].levels

CountInv(cd, br) == \A i \in Brks(cd) : Counted(cd, br, i)

\* The merge points of the branches around the one a brk leaves are behind it.
Enclosed(cd, br, i, b) ==
  b < cd[i].branch /\ br[b].merge_at > 0 /\ i < br[b].merge_at =>
    /\ br[cd[i].branch].merge_at > 0
    /\ br[cd[i].branch].merge_at < br[b].merge_at

StrictInv(cd, br) == \A i \in Brks(cd) : \A b \in 1 .. Len(br) : Enclosed(cd, br, i, b)

\* Only a function with return has parts that return.
FamilyInv(op, ret) ==
  \A k \in 1 .. Len(op) :
    /\ op[k].elif => op[k].kind = "if"
    /\ op[k].returned => ret

\* The j-th open branch, or the elif in it that ends first, is still left by a brk.
StillLeft(op, j, k) ==
  /\ k \in j .. Len(op) /\ k - j + 1 <= op[k].max_brk_level
  /\ \A m \in j + 1 .. k : op[m].elif

LevelsInv(cd, op) ==
  \A i \in Brks(cd) : \A j \in 1 .. Len(op) :
    cd[i].branch = op[j].branch => \E k \in 1 .. Len(op) : StillLeft(op, j, k)

\* Behind the merge point of a brk the part goes on.
GoesOnInv(cd, br, op) ==
  \A i \in Brks(cd) :
    br[cd[i].branch].merge_at = Len(cd) + 1 /\ Len(op) > 0 => ~op[Len(op)].returned

BrkInv(cd, br, op, ret) ==
  /\ CountInv(cd, br) /\ StrictInv(cd, br) /\ FamilyInv(op, ret)
  /\ ret => LevelsInv(cd, op)
  /\ GoesOnInv(cd, br, op)

\* What every step but that of a brk and the end of a branch does: the code
\* grows, and branches are added behind the others.
Grown(cd, br, op, cd2, br2, op2) ==
  /\ cd2 \in Seq(Instructions) /\ br2 \in Seq(Branches) /\ op2 \in Seq(Opens)
  /\ Len(cd2) >= Len(cd) /\ \A i \in 1 .. Len(cd) : cd2[i] = cd[i]
  /\ Len(br2) >= Len(br)
  /\ \A b \in 1 .. Len(br) : /\ br2[b].elif = br[b].elif
                             /\ br2[b].start = br[b].start
                             /\ br2[b].merge_at = br[b].merge_at
  /\ \A b \in Len(br) + 1 .. Len(br2) : br2[b].start > Len(cd) /\ br2[b].merge_at = 0
  /\ Len(op2) >= Len(op)
  /\ \A k \in 1 .. Len(op) : /\ op2[k].branch = op[k].branch
                             /\ op2[k].elif = op[k].elif
                             /\ op2[k].max_brk_level >= op[k].max_brk_level
  /\ \A k \in Len(op) + 1 .. Len(op2) : op2[k].branch > Len(br)

\* Where a brk and the branch it leaves are.
LEMMA BrkFacts ==
  ASSUME NEW cd, NEW br, NEW op, Structured(cd, br, op), NEW i \in Brks(cd)
  PROVE  /\ i \in 1 .. Len(cd) /\ Len(cd) \in Nat
         /\ cd[i].branch \in 1 .. Len(br) /\ cd[i].branch \in Nat
         /\ br[cd[i].branch].start \in Nat /\ br[cd[i].branch].merge_at \in Nat
         /\ br[cd[i].branch].start < i
         /\ br[cd[i].branch].merge_at > 0 => i < br[cd[i].branch].merge_at
         /\ br[cd[i].branch].merge_at <= Len(cd) + 1
<1>1. /\ cd \in Seq(Instructions) /\ br \in Seq(Branches)
      /\ PlacesInv(cd, br) /\ CodeInv(cd, br)
  BY DEF Structured
<1>2. i \in 1 .. Len(cd) /\ cd[i].op = "brk" /\ Len(cd) \in Nat
  BY <1>1 DEF Brks
<1>3. /\ cd[i].branch \in 1 .. Len(br)
      /\ br[cd[i].branch].start < i
      /\ br[cd[i].branch].merge_at > 0 => i < br[cd[i].branch].merge_at
  BY <1>1, <1>2 DEF CodeInv
<1>4. br[cd[i].branch].start \in Nat /\ br[cd[i].branch].merge_at \in Nat
  BY <1>1, <1>3, BranchFacts
<1>5. br[cd[i].branch].merge_at > 0 => br[cd[i].branch].merge_at <= Len(cd) + 1
  BY <1>1, <1>3 DEF PlacesInv
<1>6. QED
  BY <1>1, <1>2, <1>3, <1>4, <1>5

\* What is said of a brk stays true while the code grows.
LEMMA BrkStays ==
  ASSUME NEW cd, NEW br, NEW op, NEW cd2, NEW br2, NEW op2,
         Structured(cd, br, op), Grown(cd, br, op, cd2, br2, op2), NEW i \in Brks(cd)
  PROVE  /\ i \in Brks(cd2) /\ cd2[i] = cd[i]
         /\ Counted(cd, br, i) => Counted(cd2, br2, i)
         /\ (\A b \in 1 .. Len(br) : Enclosed(cd, br, i, b)) =>
              \A b \in 1 .. Len(br2) : Enclosed(cd2, br2, i, b)
<1> DEFINE c == cd[i].branch
<1>1. /\ i \in 1 .. Len(cd) /\ Len(cd) \in Nat /\ c \in 1 .. Len(br) /\ c \in Nat
      /\ br \in Seq(Branches) /\ Len(br) \in Nat
  BY BrkFacts DEF Structured
<1>2. /\ cd2 \in Seq(Instructions) /\ br2 \in Seq(Branches) /\ Len(cd2) \in Nat
      /\ Len(br2) \in Nat
      /\ Len(cd2) >= Len(cd) /\ cd2[i] = cd[i]
      /\ Len(br2) >= Len(br)
      /\ \A b \in 1 .. Len(br) : /\ br2[b].elif = br[b].elif
                                 /\ br2[b].start = br[b].start
                                 /\ br2[b].merge_at = br[b].merge_at
      /\ \A b \in Len(br) + 1 .. Len(br2) : br2[b].start > Len(cd) /\ br2[b].merge_at = 0
  BY <1>1 DEF Grown
<1>3. i \in Brks(cd2)
  BY <1>1, <1>2 DEF Brks
<1>4. \A b \in 1 .. Len(br2) : b \in 1 .. Len(br) \/ b \in Len(br) + 1 .. Len(br2)
  BY <1>1, <1>2
<1>5. 1 .. Len(br) \subseteq 1 .. Len(br2)
  BY <1>1, <1>2
<1>6. StatementsFrom(br2, c, i) = StatementsFrom(br, c, i)
  <2>1. \A b \in Len(br) + 1 .. Len(br2) : ~(br2[b].start < i)
    <3> TAKE b \in Len(br) + 1 .. Len(br2)
    <3>1. b \in 1 .. Len(br2)
      BY <1>1, <1>2
    <3>2. br2[b].start \in Nat
      BY <1>2, <3>1, BranchFacts
    <3>3. QED
      BY <1>1, <1>2, <3>2
  <2>2. StatementsFrom(br2, c, i) \subseteq StatementsFrom(br, c, i)
    BY <1>2, <1>4, <2>1 DEF StatementsFrom
  <2>3. StatementsFrom(br, c, i) \subseteq StatementsFrom(br2, c, i)
    BY <1>2, <1>5 DEF StatementsFrom
  <2>4. QED
    BY <2>2, <2>3
<1>7. ASSUME Counted(cd, br, i) PROVE Counted(cd2, br2, i)
  <2>1. /\ ~br[c].elif /\ Cardinality(StatementsFrom(br, c, i)) = cd[i].levels
    BY <1>7 DEF Counted
  <2>2. ~br2[c].elif
    BY <1>1, <1>2, <2>1
  <2>3. Cardinality(StatementsFrom(br2, c, i)) = cd[i].levels
    BY <1>6, <2>1
  <2>4. cd2[i].branch = c /\ cd2[i].levels = cd[i].levels
    BY <1>2
  <2> HIDE DEF c
  <2>5. QED
    BY <2>2, <2>3, <2>4 DEF Counted
<1>8. ASSUME \A b \in 1 .. Len(br) : Enclosed(cd, br, i, b), NEW b \in 1 .. Len(br2)
      PROVE  Enclosed(cd2, br2, i, b)
  <2>1. CASE b \in 1 .. Len(br)
    <3>1. Enclosed(cd, br, i, b)
      BY <1>8, <2>1
    <3>2. /\ br2[b].merge_at = br[b].merge_at /\ br2[c].merge_at = br[c].merge_at
          /\ cd2[i].branch = c
      BY <1>1, <1>2, <2>1
    <3>3. QED
      BY <3>1, <3>2 DEF Enclosed
  <2>2. CASE b \in Len(br) + 1 .. Len(br2)
    <3>1. br2[b].merge_at = 0
      BY <1>2, <2>2
    <3>2. QED
      BY <3>1 DEF Enclosed
  <2>3. QED
    BY <1>4, <2>1, <2>2
<1>9. QED
  BY <1>2, <1>3, <1>7, <1>8

\* Steps that add no brk keep the invariant.
LEMMA GrownKeeps ==
  ASSUME NEW cd, NEW br, NEW op, NEW cd2, NEW br2, NEW op2, NEW ret \in BOOLEAN,
         Structured(cd, br, op), BrkInv(cd, br, op, ret),
         Grown(cd, br, op, cd2, br2, op2),
         \A i \in Len(cd) + 1 .. Len(cd2) : cd2[i].op # "brk",
         FamilyInv(op2, ret),
         Len(cd2) > Len(cd) \/ Len(op2) = 0 \/ ~op2[Len(op2)].returned
  PROVE  BrkInv(cd2, br2, op2, ret)
<1>1. /\ cd2 \in Seq(Instructions) /\ Len(cd2) \in Nat /\ Len(cd) \in Nat
      /\ Len(cd2) >= Len(cd) /\ \A i \in 1 .. Len(cd) : cd2[i] = cd[i]
      /\ Len(op) \in Nat /\ Len(op2) \in Nat /\ Len(op2) >= Len(op)
      /\ op \in Seq(Opens) /\ op2 \in Seq(Opens) /\ Len(br) \in Nat
      /\ \A k \in 1 .. Len(op) : /\ op2[k].branch = op[k].branch
                                 /\ op2[k].elif = op[k].elif
                                 /\ op2[k].max_brk_level >= op[k].max_brk_level
      /\ \A k \in Len(op) + 1 .. Len(op2) : op2[k].branch > Len(br)
  BY DEF Grown, Structured
<1>2. \A i \in Brks(cd2) : i \in Brks(cd) /\ cd2[i] = cd[i]
  <2> TAKE i \in Brks(cd2)
  <2>1. i \in 1 .. Len(cd2) /\ cd2[i].op = "brk"
    BY DEF Brks
  <2>2. i \in 1 .. Len(cd)
    BY <1>1, <2>1
  <2>3. QED
    BY <1>1, <2>1, <2>2 DEF Brks
<1>3. CountInv(cd2, br2) /\ StrictInv(cd2, br2)
  BY <1>2, BrkStays DEF BrkInv, CountInv, StrictInv
<1>4. ASSUME ret PROVE LevelsInv(cd2, op2)
  <2> SUFFICES ASSUME NEW i \in Brks(cd2), NEW j \in 1 .. Len(op2),
                      cd2[i].branch = op2[j].branch
               PROVE  \E k \in 1 .. Len(op2) : StillLeft(op2, j, k)
    BY DEF LevelsInv
  <2>1. i \in Brks(cd) /\ cd2[i] = cd[i]
    BY <1>2
  <2>2. cd[i].branch \in 1 .. Len(br)
    BY <2>1, BrkFacts
  <2>3. j \in 1 .. Len(op)
    BY <1>1, <2>1, <2>2
  <2>4. cd[i].branch = op[j].branch
    BY <1>1, <2>1, <2>3
  <2>5. PICK k \in 1 .. Len(op) : StillLeft(op, j, k)
    BY <1>4, <2>1, <2>3, <2>4 DEF BrkInv, LevelsInv
  <2>6. /\ k \in j .. Len(op) /\ k - j + 1 <= op[k].max_brk_level
        /\ \A m \in j + 1 .. k : op[m].elif
    BY <2>5 DEF StillLeft
  <2>7. op[k].max_brk_level \in Nat /\ op2[k].max_brk_level \in Nat
    <3>1. k \in 1 .. Len(op2)
      BY <1>1
    <3>2. op[k] \in Opens /\ op2[k] \in Opens
      BY <1>1, <3>1
    <3>3. QED
      BY <3>2, OpensFields
  <2>8. k - j + 1 <= op2[k].max_brk_level
    BY <1>1, <2>3, <2>6, <2>7
  <2>9. \A m \in j + 1 .. k : op2[m].elif
    <3> TAKE m \in j + 1 .. k
    <3>1. m \in 1 .. Len(op) /\ op[m].elif
      BY <1>1, <2>3, <2>6
    <3>2. QED
      BY <1>1, <3>1
  <2>10. k \in 1 .. Len(op2) /\ k \in j .. Len(op2)
    BY <1>1, <2>3, <2>6
  <2>11. QED
    BY <2>8, <2>9, <2>10 DEF StillLeft
<1>5. GoesOnInv(cd2, br2, op2)
  <2> SUFFICES ASSUME NEW i \in Brks(cd2), br2[cd2[i].branch].merge_at = Len(cd2) + 1,
                      Len(op2) > 0
               PROVE  ~op2[Len(op2)].returned
    BY DEF GoesOnInv
  <2>1. i \in Brks(cd) /\ cd2[i] = cd[i]
    BY <1>2
  <2>2. /\ cd[i].branch \in 1 .. Len(br) /\ br[cd[i].branch].merge_at <= Len(cd) + 1
        /\ br[cd[i].branch].merge_at \in Nat
    BY <2>1, BrkFacts
  <2>3. br2[cd[i].branch].merge_at = br[cd[i].branch].merge_at
    BY <2>2 DEF Grown
  <2>4. ~(Len(cd2) > Len(cd))
    BY <1>1, <2>1, <2>2, <2>3
  <2>5. QED
    BY <2>4
<1>6. QED
  BY <1>3, <1>4, <1>5 DEF BrkInv

\* The statements that are open, from the q-th branch on.
OpenStatements(op, q) == {k \in q .. Len(op) : ~op[k].elif}

\* A brk is added, which leaves the q-th open branch and all in it.
LEMMA BrkCounted ==
  ASSUME NEW cd, NEW br, NEW op, Structured(cd, br, op), NEW q \in 1 .. Len(op)
  PROVE  /\ IsFiniteSet(OpenStatements(op, q))
         /\ Cardinality(StatementsFrom(br, op[q].branch, Len(cd) + 1)) =
              Cardinality(OpenStatements(op, q))
<1> DEFINE K == {k \in q .. Len(op) : ~op[k].elif}
           S == StatementsFrom(br, op[q].branch, Len(cd) + 1)
           f == [k \in K |-> op[k].branch]
<1>1. /\ br \in Seq(Branches) /\ op \in Seq(Opens) /\ cd \in Seq(Instructions)
      /\ OpenInv(br, op) /\ PlacesInv(cd, br)
      /\ Len(op) \in Nat /\ Len(br) \in Nat /\ Len(cd) \in Nat
  BY DEF Structured
<1>2. IsFiniteSet(K)
  <2>1. IsFiniteSet(q .. Len(op))
    BY <1>1, FS_Interval
  <2>2. K \in SUBSET (q .. Len(op))
    OBVIOUS
  <2>3. QED
    BY <2>1, <2>2, FS_Subset
<1>3. \A i, j \in 1 .. Len(op) : i < j => op[i].branch < op[j].branch
  BY <1>1 DEF OpenInv
<1>4. \A k \in 1 .. Len(op) : /\ op[k].branch \in 1 .. Len(br) /\ op[k].branch \in Nat
                              /\ br[op[k].branch].merge_at = 0
                              /\ br[op[k].branch].elif = op[k].elif
  BY <1>1 DEF OpenInv
<1>5. \A k \in K : f[k] \in S
  <2> TAKE k \in K
  <2>1. k \in 1 .. Len(op) /\ ~op[k].elif /\ q <= k
    BY <1>1
  <2>2. op[q].branch <= op[k].branch
    <3>1. q = k \/ q < k
      BY <2>1
    <3>2. CASE q = k
      BY <1>4, <3>2
    <3>3. CASE q < k
      BY <1>3, <1>4, <2>1, <3>3
    <3>4. QED
      BY <3>1, <3>2, <3>3
  <2>3. br[op[k].branch].start < Len(cd) + 1
    <3>1. op[k].branch \in 1 .. Len(br)
      BY <1>4, <2>1
    <3>2. BodyOf(br[op[k].branch]) <= Len(cd) + 1
      BY <1>1, <3>1 DEF PlacesInv
    <3>3. QED
      BY <1>1, <3>1, <3>2, BranchFacts
  <2>4. op[k].branch \in S
    BY <1>4, <2>1, <2>2, <2>3 DEF StatementsFrom
  <2>5. QED
    BY <2>4
<1>6. \A b \in S : \E k \in K : f[k] = b
  <2> TAKE b \in S
  <2>1. /\ b \in 1 .. Len(br) /\ op[q].branch <= b /\ ~br[b].elif
        /\ br[b].merge_at = 0 \/ Len(cd) + 1 < br[b].merge_at
    BY DEF StatementsFrom
  <2>2. br[b].merge_at \in Nat
    BY <1>1, <2>1, BranchFacts
  <2>3. br[b].merge_at > 0 => br[b].merge_at <= Len(cd) + 1
    BY <1>1, <2>1 DEF PlacesInv
  <2>4. br[b].merge_at = 0
    BY <1>1, <2>1, <2>2, <2>3
  <2>5. PICK k \in 1 .. Len(op) : op[k].branch = b
    BY <1>1, <2>1, <2>4 DEF OpenInv
  <2>6. ~op[k].elif
    BY <1>4, <2>1, <2>5
  <2>7. ~(k < q)
    BY <1>3, <1>4, <2>1, <2>5
  <2>8. k \in K
    BY <1>1, <2>6, <2>7
  <2>9. QED
    BY <2>5, <2>8
<1>7. f \in Bijection(K, S)
  <2>1. f \in [K -> S]
    BY <1>5
  <2>2. \A i, j \in K : f[i] = f[j] => i = j
    <3> TAKE i, j \in K
    <3>1. i \in 1 .. Len(op) /\ j \in 1 .. Len(op) /\ i \in Nat /\ j \in Nat
      BY <1>1
    <3>2. i < j => op[i].branch # op[j].branch
      BY <1>3, <1>4, <3>1
    <3>3. j < i => op[i].branch # op[j].branch
      BY <1>3, <1>4, <3>1
    <3>4. f[i] = op[i].branch /\ f[j] = op[j].branch
      OBVIOUS
    <3>5. QED
      BY <3>1, <3>2, <3>3, <3>4
  <2> HIDE DEF f, K, S
  <2>3. QED
    BY <1>6, <2>1, <2>2 DEF Bijection, Injection, Surjection, IsInjective
<1>8. ExistsBijection(K, S)
  BY <1>7 DEF ExistsBijection
<1>9. Cardinality(S) = Cardinality(K)
  BY <1>2, <1>8, FS_Bijection
<1>10. K = OpenStatements(op, q)
  BY DEF OpenStatements
<1>11. QED
  BY <1>2, <1>9, <1>10

\* A set of one member.
LEMMA OnlyMember ==
  ASSUME NEW S, IsFiniteSet(S), Cardinality(S) = 1, NEW x \in S
  PROVE  \A y \in S : y = x
<1>1. PICK z : S = {z}
  BY FS_Singleton
<1>2. QED
  BY <1>1

\* A brk is added to the code.
LEMMA BrkAdded ==
  ASSUME NEW cd, NEW br, NEW op, NEW ret \in BOOLEAN,
         Structured(cd, br, op), BrkInv(cd, br, op, ret),
         NEW q \in 1 .. Len(op), ~op[q].elif,
         NEW x \in Instructions, x.op = "brk", x.branch = op[q].branch,
         x.levels = Cardinality(OpenStatements(op, q)),
         ret => x.levels = 1,
         NEW op2, Grown(cd, br, op, Append(cd, x), br, op2), Len(op2) = Len(op),
         op2[Len(op2)].max_brk_level >= Len(op) - q + 1,
         FamilyInv(op2, ret)
  PROVE  BrkInv(Append(cd, x), br, op2, ret)
<1> DEFINE cd2 == Append(cd, x)
           new == Len(cd) + 1
<1>1. /\ cd \in Seq(Instructions) /\ br \in Seq(Branches) /\ op \in Seq(Opens)
      /\ OpenInv(br, op) /\ PlacesInv(cd, br)
      /\ Len(cd) \in Nat /\ Len(op) \in Nat /\ Len(br) \in Nat
      /\ op2 \in Seq(Opens)
  BY DEF Structured, Grown
<1>2. /\ cd2 \in Seq(Instructions) /\ Len(cd2) = new /\ cd2[new] = x
      /\ \A i \in 1 .. Len(cd) : cd2[i] = cd[i]
  BY <1>1
<1>3. \A k \in 1 .. Len(op) : /\ op2[k].branch = op[k].branch
                              /\ op2[k].elif = op[k].elif
                              /\ op2[k].max_brk_level >= op[k].max_brk_level
                              /\ op2[k].max_brk_level \in Nat
                              /\ op[k].max_brk_level \in Nat
  <2> TAKE k \in 1 .. Len(op)
  <2>1. op2[k] \in Opens /\ op[k] \in Opens
    BY <1>1
  <2>2. QED
    BY <2>1, OpensFields DEF Grown
<1> HIDE DEF cd2
<1>4. \A i \in Brks(cd2) : (i \in Brks(cd) /\ cd2[i] = cd[i]) \/ (i = new /\ cd2[i] = x)
  <2> TAKE i \in Brks(cd2)
  <2>1. i \in 1 .. Len(cd2) /\ cd2[i].op = "brk"
    BY DEF Brks
  <2>2. i \in 1 .. Len(cd) \/ i = new
    BY <1>1, <1>2, <2>1
  <2>3. QED
    BY <1>2, <2>1, <2>2 DEF Brks
<1>5. /\ op[q].branch \in 1 .. Len(br) /\ br[op[q].branch].merge_at = 0
      /\ ~br[op[q].branch].elif
  BY <1>1 DEF OpenInv
<1>6. \A b \in 1 .. Len(br) : br[b].merge_at \in Nat /\ br[b].merge_at <= new
  <2> TAKE b \in 1 .. Len(br)
  <2>1. br[b].merge_at \in Nat
    BY <1>1, BranchFacts
  <2>2. br[b].merge_at > 0 => br[b].merge_at <= new
    BY <1>1 DEF PlacesInv
  <2>3. QED
    BY <1>1, <2>1, <2>2
<1>7. CountInv(cd2, br)
  <2> SUFFICES ASSUME NEW i \in Brks(cd2) PROVE Counted(cd2, br, i)
    BY DEF CountInv
  <2>1. CASE i \in Brks(cd)
    BY <2>1, BrkStays DEF BrkInv, CountInv, cd2
  <2>2. CASE i = new /\ cd2[i] = x
    <3>1. Cardinality(StatementsFrom(br, x.branch, new)) = x.levels
      <4> DEFINE n == Cardinality(OpenStatements(op, q))
      <4>1. Cardinality(StatementsFrom(br, op[q].branch, new)) = n
        BY BrkCounted
      <4>2. x.levels = n
        OBVIOUS
      <4> HIDE DEF n, new
      <4>3. QED
        BY <4>1, <4>2
    <3> HIDE DEF new
    <3>2. QED
      BY <1>5, <2>2, <3>1 DEF Counted
  <2>3. QED
    BY <1>4, <2>1, <2>2
<1>8. StrictInv(cd2, br)
  <2> SUFFICES ASSUME NEW i \in Brks(cd2), NEW b \in 1 .. Len(br)
               PROVE  Enclosed(cd2, br, i, b)
    BY DEF StrictInv
  <2>1. CASE i \in Brks(cd)
    BY <2>1, BrkStays DEF BrkInv, StrictInv, cd2
  <2>2. CASE i = new /\ cd2[i] = x
    <3>1. ~(i < br[b].merge_at)
      BY <1>1, <1>6, <2>2
    <3>2. QED
      BY <3>1 DEF Enclosed
  <2>3. QED
    BY <1>4, <2>1, <2>2
<1>9. ASSUME ret PROVE LevelsInv(cd2, op2)
  <2> SUFFICES ASSUME NEW i \in Brks(cd2), NEW j \in 1 .. Len(op2),
                      cd2[i].branch = op2[j].branch
               PROVE  \E k \in 1 .. Len(op2) : StillLeft(op2, j, k)
    BY DEF LevelsInv
  <2>0. j \in 1 .. Len(op) /\ op2[j].branch = op[j].branch
    BY <1>3
  <2>1. CASE i \in Brks(cd) /\ cd2[i] = cd[i]
    <3>1. PICK k \in 1 .. Len(op) : StillLeft(op, j, k)
      BY <1>9, <2>0, <2>1 DEF BrkInv, LevelsInv
    <3>2. /\ k \in j .. Len(op) /\ k - j + 1 <= op[k].max_brk_level
          /\ \A m \in j + 1 .. k : op[m].elif
      BY <3>1 DEF StillLeft
    <3>3. k - j + 1 <= op2[k].max_brk_level
      BY <1>1, <1>3, <2>0, <3>2
    <3>4. \A m \in j + 1 .. k : op2[m].elif
      <4> TAKE m \in j + 1 .. k
      <4>1. m \in 1 .. Len(op) /\ op[m].elif
        BY <1>1, <2>0, <3>2
      <4>2. QED
        BY <1>3, <4>1
    <3>5. QED
      BY <3>2, <3>3, <3>4 DEF StillLeft
  <2>2. CASE i = new /\ cd2[i] = x
    <3>1. j = q
      <4>1. \A m, n \in 1 .. Len(op) : m < n => op[m].branch < op[n].branch
        BY <1>1 DEF OpenInv
      <4>2. op[j].branch \in Nat /\ op[q].branch \in Nat /\ op[j].branch = op[q].branch
        BY <1>1, <2>0, <2>2, OpensFields
      <4>3. ~(j < q) /\ ~(q < j)
        BY <2>0, <4>1, <4>2
      <4>4. QED
        BY <1>1, <2>0, <4>3
    <3> DEFINE K == OpenStatements(op, q)
    <3>2. IsFiniteSet(K) /\ Cardinality(K) = 1 /\ q \in K
      <4>1. q \in K
        BY <1>1 DEF OpenStatements
      <4>2. QED
        BY <1>9, <4>1, BrkCounted
    <3>3. \A k \in K : k = q
      <4> HIDE DEF K
      <4>1. QED
        BY <3>2, OnlyMember
    <3>4. \A m \in q + 1 .. Len(op) : op2[m].elif
      <4> TAKE m \in q + 1 .. Len(op)
      <4>1. m \in 1 .. Len(op) /\ m \in q .. Len(op) /\ m # q
        BY <1>1
      <4>2. op[m].elif
        BY <3>3, <4>1 DEF OpenStatements
      <4>3. QED
        BY <1>3, <4>1, <4>2
    <3>5. Len(op) \in 1 .. Len(op2) /\ Len(op) \in q .. Len(op2)
      BY <1>1
    <3>6. StillLeft(op2, q, Len(op))
      BY <3>4, <3>5 DEF StillLeft
    <3>7. QED
      BY <3>1, <3>5, <3>6
  <2>3. QED
    BY <1>4, <2>1, <2>2
<1>10. GoesOnInv(cd2, br, op2)
  <2> SUFFICES ASSUME NEW i \in Brks(cd2) PROVE br[cd2[i].branch].merge_at # Len(cd2) + 1
    BY DEF GoesOnInv
  <2>1. cd2[i].branch \in 1 .. Len(br)
    <3>1. CASE i \in Brks(cd) /\ cd2[i] = cd[i]
      BY <3>1, BrkFacts
    <3>2. CASE i = new /\ cd2[i] = x
      BY <1>5, <3>2
    <3>3. QED
      BY <1>4, <3>1, <3>2
  <2>2. br[cd2[i].branch].merge_at \in Nat /\ br[cd2[i].branch].merge_at <= new
    BY <1>6, <2>1
  <2>3. QED
    BY <1>1, <1>2, <2>2
<1>11. QED
  BY <1>7, <1>8, <1>9, <1>10 DEF BrkInv, cd2

\* The statements in front of the innermost one.
LEMMA BeforeLast ==
  ASSUME NEW n \in Nat, NEW j \in 1 .. n, NEW k \in j .. n, k # n
  PROVE  k \in j .. n - 1 /\ k \in 1 .. n - 1
OBVIOUS

\* What the end of the innermost branch leaves open: the enclosing branch is
\* handed the levels left, and has returned if both parts have.
HandedUp(op2, op) ==
  LET top == op[Len(op)]
      up  == op2[Len(op2)]
  IN /\ op2 \in Seq(Opens) /\ Len(op2) = Len(op) - 1
     /\ \A k \in 1 .. Len(op2) : /\ op2[k].branch = op[k].branch
                                 /\ op2[k].elif = op[k].elif
                                 /\ op2[k].kind = op[k].kind
                                 /\ op2[k].max_brk_level >= op[k].max_brk_level
     /\ \A k \in 1 .. Len(op2) - 1 : op2[k].returned <=> op[k].returned
     /\ Len(op2) > 0 =>
          /\ up.returned => top.returned /\ (top.elif \/ top.max_brk_level = 0)
          /\ top.kind = "if" => up.max_brk_level >= top.max_brk_level - 1

\* The end of a part adds an instruction unless the part has returned.
PartEnds(cd, op, cd2) ==
  /\ \A i \in Len(cd) + 1 .. Len(cd2) : cd2[i].op # "brk"
  /\ op[Len(op)].returned => Len(cd2) = Len(cd)
  /\ ~op[Len(op)].returned => Len(cd2) = Len(cd) + 1

\* The innermost branch gets its merge point.
LEMMA BranchEnded ==
  ASSUME NEW cd, NEW br, NEW op, NEW ret \in BOOLEAN,
         Structured(cd, br, op), BrkInv(cd, br, op, ret), Len(op) > 0,
         NEW cd2, Grown(cd, br, op, cd2, br, op),
         PartEnds(cd, op, cd2),
         NEW r \in Branches, r.merge_at = Len(cd2) + 1,
         r.start = br[op[Len(op)].branch].start, r.elif = br[op[Len(op)].branch].elif,
         NEW op2, HandedUp(op2, op)
  PROVE  BrkInv(cd2, [br EXCEPT ![op[Len(op)].branch] = r], op2, ret)
<1> DEFINE top == op[Len(op)]
           b == top.branch
           br2 == [br EXCEPT ![b] = r]
<1>1. /\ cd \in Seq(Instructions) /\ br \in Seq(Branches) /\ op \in Seq(Opens)
      /\ OpenInv(br, op) /\ PlacesInv(cd, br)
      /\ Len(cd) \in Nat /\ Len(op) \in Nat /\ Len(br) \in Nat
      /\ CountInv(cd, br) /\ StrictInv(cd, br) /\ FamilyInv(op, ret)
      /\ ret => LevelsInv(cd, op)
      /\ GoesOnInv(cd, br, op)
  BY DEF Structured, BrkInv
<1>2. /\ cd2 \in Seq(Instructions) /\ Len(cd2) \in Nat /\ Len(cd2) >= Len(cd)
      /\ \A i \in 1 .. Len(cd) : cd2[i] = cd[i]
  BY DEF Grown
<1>3. Len(op) \in 1 .. Len(op) /\ top \in Opens
  BY <1>1
<1>4. /\ b \in 1 .. Len(br) /\ b \in Nat /\ br[b].merge_at = 0 /\ br[b].elif = top.elif
      /\ br[b].kind = top.kind
  BY <1>1, <1>3 DEF OpenInv
<1>5. /\ op2 \in Seq(Opens) /\ Len(op2) = Len(op) - 1 /\ Len(op2) \in Nat
      /\ \A k \in 1 .. Len(op2) : /\ op2[k].branch = op[k].branch
                                  /\ op2[k].elif = op[k].elif
                                  /\ op2[k].kind = op[k].kind
                                  /\ op2[k].max_brk_level >= op[k].max_brk_level
      /\ \A k \in 1 .. Len(op2) - 1 : op2[k].returned <=> op[k].returned
      /\ Len(op2) > 0 =>
           /\ op2[Len(op2)].returned => top.returned /\ (top.elif \/ top.max_brk_level = 0)
           /\ top.kind = "if" => op2[Len(op2)].max_brk_level >= top.max_brk_level - 1
  BY <1>1, <1>3 DEF HandedUp
<1>6. /\ br2 \in Seq(Branches) /\ Len(br2) = Len(br) /\ br2[b] = r
      /\ \A c \in 1 .. Len(br) : c # b => br2[c] = br[c]
  BY <1>1, <1>4
<1>7. /\ top.returned => Len(cd2) = Len(cd)
      /\ ~top.returned => Len(cd2) = Len(cd) + 1
      /\ r.merge_at = Len(cd2) + 1 /\ r.start = br[b].start /\ r.elif = br[b].elif
      /\ \A i \in Len(cd) + 1 .. Len(cd2) : cd2[i].op # "brk"
  BY DEF PartEnds
<1> HIDE DEF br2
<1>8. \A i \in Brks(cd2) : i \in Brks(cd) /\ cd2[i] = cd[i] /\ i \in 1 .. Len(cd)
  <2> TAKE i \in Brks(cd2)
  <2>1. i \in 1 .. Len(cd2) /\ cd2[i].op = "brk"
    BY DEF Brks
  <2>2. i \in 1 .. Len(cd)
    BY <1>1, <1>2, <1>7, <2>1
  <2>3. QED
    BY <1>2, <2>1, <2>2 DEF Brks
<1>9. \A c \in 1 .. Len(br) : /\ br2[c].elif = br[c].elif /\ br2[c].start = br[c].start
                              /\ c # b => br2[c].merge_at = br[c].merge_at
  BY <1>6, <1>7
<1>10. \A c \in 1 .. Len(br) : br[c].merge_at \in Nat /\ br[c].merge_at <= Len(cd) + 1
  <2> TAKE c \in 1 .. Len(br)
  <2>1. br[c].merge_at \in Nat
    BY <1>1, BranchFacts
  <2>2. br[c].merge_at > 0 => br[c].merge_at <= Len(cd) + 1
    BY <1>1 DEF PlacesInv
  <2>3. QED
    BY <1>1, <2>1, <2>2
\* Where a part has returned, no brk leads.
<1>11. ASSUME NEW i \in Brks(cd2), NEW c, c = cd[i].branch, br[c].merge_at > 0
       PROVE  br[c].merge_at < Len(cd2) + 1
  <2>1. i \in Brks(cd) /\ cd[i].branch \in 1 .. Len(br)
    BY <1>8, BrkFacts
  <2>2. br[c].merge_at \in Nat /\ br[c].merge_at <= Len(cd) + 1
    BY <1>10, <1>11, <2>1
  <2>3. CASE top.returned
    <3>1. br[c].merge_at # Len(cd) + 1
      BY <1>1, <1>11, <2>1, <2>3 DEF GoesOnInv
    <3>2. QED
      BY <1>1, <1>7, <2>2, <2>3, <3>1
  <2>4. CASE ~top.returned
    BY <1>1, <1>7, <2>2, <2>4
  <2>5. QED
    BY <2>3, <2>4
<1>12. CountInv(cd2, br2)
  <2> SUFFICES ASSUME NEW i \in Brks(cd2) PROVE Counted(cd2, br2, i)
    BY DEF CountInv
  <2> DEFINE c == cd[i].branch
  <2>1. /\ i \in Brks(cd) /\ cd2[i] = cd[i] /\ i \in 1 .. Len(cd) /\ c \in 1 .. Len(br)
    BY <1>8, BrkFacts
  <2>2. ~br[c].elif /\ Cardinality(StatementsFrom(br, c, i)) = cd[i].levels
    BY <1>1, <2>1 DEF CountInv, Counted
  <2>3. i < Len(cd2) + 1
    BY <1>1, <1>2, <2>1
  <2>4. StatementsFrom(br2, c, i) = StatementsFrom(br, c, i)
    <3>1. \A a \in 1 .. Len(br) : (br2[a].merge_at = 0 \/ i < br2[a].merge_at) <=>
                                  (br[a].merge_at = 0 \/ i < br[a].merge_at)
      <4> TAKE a \in 1 .. Len(br)
      <4>1. CASE a = b
        BY <1>4, <1>6, <1>7, <2>3, <4>1
      <4>2. CASE a # b
        BY <1>9, <4>2
      <4>3. QED
        BY <4>1, <4>2
    <3> HIDE DEF c
    <3>2. QED
      BY <1>6, <1>9, <3>1 DEF StatementsFrom
  <2>5. QED
    BY <1>9, <2>1, <2>2, <2>4 DEF Counted
<1>13. StrictInv(cd2, br2)
  <2> SUFFICES ASSUME NEW i \in Brks(cd2), NEW a \in 1 .. Len(br2),
                      a < cd[i].branch, br2[a].merge_at > 0, i < br2[a].merge_at
               PROVE  /\ br2[cd[i].branch].merge_at > 0
                      /\ br2[cd[i].branch].merge_at < br2[a].merge_at
    BY <1>8 DEF StrictInv, Enclosed
  <2> DEFINE c == cd[i].branch
  <2>1. /\ i \in Brks(cd) /\ c \in 1 .. Len(br) /\ a \in 1 .. Len(br) /\ a < c
        /\ c \in Nat /\ a \in Nat
    BY <1>6, <1>8, BrkFacts
  <2>2. CASE a = b
    <3>1. br[c].merge_at > 0 /\ c # b
      BY <1>1, <2>1, <2>2, InnermostIsLast
    <3>2. br[c].merge_at < Len(cd2) + 1
      BY <1>11, <3>1
    <3>3. br2[c].merge_at = br[c].merge_at /\ br2[a].merge_at = Len(cd2) + 1
      BY <1>6, <1>7, <1>9, <2>1, <2>2, <3>1
    <3>4. QED
      BY <3>1, <3>2, <3>3
  <2>3. CASE a # b
    <3>1. br2[a].merge_at = br[a].merge_at
      BY <1>9, <2>1, <2>3
    <3>2. Enclosed(cd, br, i, a)
      BY <1>1, <2>1 DEF StrictInv
    <3>3. br[c].merge_at > 0 /\ br[c].merge_at < br[a].merge_at
      BY <2>1, <3>1, <3>2 DEF Enclosed
    <3>4. c # b
      BY <1>4, <3>3
    <3>5. br2[c].merge_at = br[c].merge_at
      BY <1>9, <2>1, <3>4
    <3>6. QED
      BY <3>1, <3>3, <3>5
  <2>4. QED
    BY <2>2, <2>3
<1>14. FamilyInv(op2, ret)
  <2> SUFFICES ASSUME NEW k \in 1 .. Len(op2)
               PROVE  (op2[k].elif => op2[k].kind = "if") /\ (op2[k].returned => ret)
    BY DEF FamilyInv
  <2>1. k \in 1 .. Len(op) /\ op2[k].elif = op[k].elif /\ op2[k].kind = op[k].kind
    BY <1>1, <1>5
  <2>2. op[k].elif => op[k].kind = "if"
    BY <1>1, <2>1 DEF FamilyInv
  <2>3. ASSUME op2[k].returned PROVE ret
    <3>1. CASE k = Len(op2)
      <4>1. top.returned
        BY <1>5, <2>3, <3>1
      <4>2. QED
        BY <1>1, <1>3, <4>1 DEF FamilyInv
    <3>2. CASE k # Len(op2)
      <4>1. k \in 1 .. Len(op2) - 1
        BY <1>5, <3>2
      <4>2. op[k].returned
        BY <1>5, <2>3, <4>1
      <4>3. QED
        BY <1>1, <2>1, <4>2 DEF FamilyInv
    <3>3. QED
      BY <3>1, <3>2
  <2>4. QED
    BY <2>1, <2>2, <2>3
<1>15. ASSUME ret PROVE LevelsInv(cd2, op2)
  <2> SUFFICES ASSUME NEW i \in Brks(cd2), NEW j \in 1 .. Len(op2),
                      cd2[i].branch = op2[j].branch
               PROVE  \E k \in 1 .. Len(op2) : StillLeft(op2, j, k)
    BY DEF LevelsInv
  <2>1. /\ i \in Brks(cd) /\ cd2[i] = cd[i] /\ j \in 1 .. Len(op) /\ op2[j].branch = op[j].branch
    BY <1>1, <1>5, <1>8
  <2>2. PICK k \in 1 .. Len(op) : StillLeft(op, j, k)
    BY <1>1, <1>15, <2>1 DEF LevelsInv
  <2>3. /\ k \in j .. Len(op) /\ k - j + 1 <= op[k].max_brk_level
        /\ \A m \in j + 1 .. k : op[m].elif
    BY <2>2 DEF StillLeft
  <2>4. \A m \in 1 .. Len(op2) : /\ op2[m].max_brk_level \in Nat /\ op[m].max_brk_level \in Nat
    <3> TAKE m \in 1 .. Len(op2)
    <3>1. op2[m] \in Opens /\ op[m] \in Opens
      BY <1>1, <1>5
    <3>2. QED
      BY <3>1, OpensFields
  <2>5. CASE k # Len(op)
    <3>1. k \in 1 .. Len(op2) /\ k \in j .. Len(op2)
      <4>1. Len(op2) = Len(op) - 1 /\ Len(op) \in Nat
        BY <1>1, <1>5
      <4>2. k \in j .. Len(op) /\ k \in 1 .. Len(op) /\ j \in 1 .. Len(op)
        BY <2>1, <2>3
      <4>3. k \in j .. Len(op) - 1 /\ k \in 1 .. Len(op) - 1
        BY <2>5, <4>1, <4>2, BeforeLast
      <4>4. QED
        BY <4>1, <4>3
    <3>2. k - j + 1 <= op2[k].max_brk_level
      <4>1. op2[k].max_brk_level >= op[k].max_brk_level /\ k - j + 1 <= op[k].max_brk_level
        BY <1>5, <2>3, <3>1
      <4>2. op2[k].max_brk_level \in Nat /\ op[k].max_brk_level \in Nat /\ k \in Nat /\ j \in Nat
        BY <2>4, <3>1
      <4>3. QED
        BY <4>1, <4>2
    <3>3. \A m \in j + 1 .. k : op2[m].elif
      <4> TAKE m \in j + 1 .. k
      <4>1. m \in 1 .. Len(op2) /\ op[m].elif
        BY <1>5, <2>1, <2>3, <3>1
      <4>2. QED
        BY <1>5, <4>1
    <3>4. QED
      BY <3>1, <3>2, <3>3 DEF StillLeft
  <2>6. CASE k = Len(op)
    <3> DEFINE l == Len(op2)
    <3>1. l \in 1 .. Len(op2) /\ l \in j .. Len(op2) /\ l = k - 1 /\ l > 0
      BY <1>1, <1>5, <2>6
    <3>2. top.elif
      <4>1. k \in j + 1 .. k
        BY <1>1, <1>5, <2>1, <3>1
      <4>2. QED
        BY <2>3, <2>6, <4>1
    <3>3. top.kind = "if"
      BY <1>1, <1>3, <3>2 DEF FamilyInv
    <3>4. op2[l].max_brk_level >= top.max_brk_level - 1
      BY <1>5, <3>1, <3>3
    <3>5. l - j + 1 <= op2[l].max_brk_level
      <4>1. top.max_brk_level \in Nat
        BY <1>3, OpensFields
      <4>2. k - j + 1 <= top.max_brk_level
        BY <2>3, <2>6
      <4>3. op2[l].max_brk_level \in Nat
        BY <2>4, <3>1
      <4> HIDE DEF l, top
      <4>4. QED
        BY <2>1, <3>1, <3>4, <4>1, <4>2, <4>3
    <3>6. \A m \in j + 1 .. l : op2[m].elif
      <4> TAKE m \in j + 1 .. l
      <4>1. m \in 1 .. Len(op2) /\ op[m].elif
        BY <1>5, <2>1, <2>3, <3>1
      <4>2. QED
        BY <1>5, <4>1
    <3>7. QED
      BY <3>1, <3>5, <3>6 DEF StillLeft
  <2>7. QED
    BY <2>5, <2>6
<1>16. GoesOnInv(cd2, br2, op2)
  <2> SUFFICES ASSUME NEW i \in Brks(cd2), br2[cd2[i].branch].merge_at = Len(cd2) + 1,
                      Len(op2) > 0
               PROVE  ~op2[Len(op2)].returned
    BY DEF GoesOnInv
  <2> DEFINE c == cd[i].branch
  <2>1. i \in Brks(cd) /\ cd2[i] = cd[i] /\ c \in 1 .. Len(br)
    BY <1>8, BrkFacts
  <2>2. CASE c # b
    <3>1. br[c].merge_at = Len(cd2) + 1
      BY <1>9, <2>1, <2>2
    <3>2. br[c].merge_at > 0 /\ ~(br[c].merge_at < Len(cd2) + 1)
      BY <1>2, <3>1
    <3>3. QED
      BY <1>11, <3>2
  <2>3. CASE c = b
    <3> SUFFICES ASSUME op2[Len(op2)].returned PROVE FALSE
      OBVIOUS
    <3>1. ~top.elif
      BY <1>1, <1>4, <2>1, <2>3 DEF CountInv, Counted
    <3>2. top.returned /\ top.max_brk_level = 0
      BY <1>5, <3>1
    <3>3. ret
      BY <1>1, <1>3, <3>2 DEF FamilyInv
    <3>4. PICK k \in 1 .. Len(op) : StillLeft(op, Len(op), k)
      BY <1>1, <1>3, <2>1, <2>3, <3>3 DEF LevelsInv
    <3>5. k = Len(op) /\ k - Len(op) + 1 <= op[k].max_brk_level
      BY <1>1, <3>4 DEF StillLeft
    <3>6. QED
      BY <1>1, <3>2, <3>5
  <2>4. QED
    BY <2>2, <2>3
<1>17. QED
  BY <1>12, <1>13, <1>14, <1>15, <1>16 DEF BrkInv, br2

\* The code grows and nothing else changes.
LEMMA CodeGrows ==
  ASSUME NEW cd, NEW br, NEW op, Structured(cd, br, op),
         NEW cd2 \in Seq(Instructions), Len(cd2) >= Len(cd),
         \A i \in 1 .. Len(cd) : cd2[i] = cd[i]
  PROVE  Grown(cd, br, op, cd2, br, op)
<1>1. br \in Seq(Branches) /\ op \in Seq(Opens) /\ Len(br) \in Nat /\ Len(op) \in Nat
  BY DEF Structured
<1>2. \A k \in 1 .. Len(op) : op[k].max_brk_level \in Nat
  <2> TAKE k \in 1 .. Len(op)
  <2>1. op[k] \in Opens
    BY <1>1
  <2>2. QED
    BY <2>1, OpensFields
<1>3. QED
  BY <1>1, <1>2 DEF Grown

\* An instruction at the end.
LEMMA AppendFacts ==
  ASSUME NEW cd \in Seq(Instructions), NEW x \in Instructions
  PROVE  /\ Append(cd, x) \in Seq(Instructions) /\ Len(Append(cd, x)) = Len(cd) + 1
         /\ Len(cd) \in Nat /\ Len(Append(cd, x)) >= Len(cd)
         /\ \A i \in 1 .. Len(cd) : Append(cd, x)[i] = cd[i]
         /\ \A i \in Len(cd) + 1 .. Len(Append(cd, x)) : Append(cd, x)[i] = x
<1>1. /\ Append(cd, x) \in Seq(Instructions) /\ Len(Append(cd, x)) = Len(cd) + 1
      /\ Len(cd) \in Nat /\ Append(cd, x)[Len(cd) + 1] = x
      /\ \A i \in 1 .. Len(cd) : Append(cd, x)[i] = cd[i]
  OBVIOUS
<1>2. \A i \in Len(cd) + 1 .. Len(cd) + 1 : i = Len(cd) + 1
  BY <1>1
<1>3. QED
  BY <1>1, <1>2

\* The code grows by instructions that are no brk.
Longer(cd, d) ==
  /\ d \in Seq(Instructions) /\ Len(d) > Len(cd) /\ Len(cd) \in Nat
  /\ \A i \in 1 .. Len(cd) : d[i] = cd[i]
  /\ \A i \in Len(cd) + 1 .. Len(d) : d[i].op # "brk"

\* The head of a branch has no brk.
LEMMA HeadFacts ==
  ASSUME NEW cd \in Seq(Instructions), NEW kind, NEW b \in Nat, NEW ts \in Seq(Tables)
  PROVE  Longer(cd, cd \o HeadOf(kind, b, ts))
<1> DEFINE e == Instruction("enter", b, {}, 0, ts)
           c == Instruction("cond", b, {}, 0, ts)
           h == HeadOf(kind, b, ts)
           d == cd \o h
<1>0. d = cd \o h
  OBVIOUS
<1>1. 0 \in Nat /\ {} \in SUBSET Objects /\ "enter" \in Ops /\ "cond" \in Ops
  BY DEF Ops
<1>2. e \in Instructions /\ e.op = "enter"
  BY <1>1, InstructionType
<1>3. c \in Instructions /\ c.op = "cond"
  BY <1>1, InstructionType
<1>4. /\ kind \in {"while", "foreach"} => h = <<e>> \o <<c>>
      /\ kind \notin {"while", "foreach"} => h = <<e>> \o <<>>
  BY DEF HeadOf
<1> HIDE DEF e, c, h, d
<1>5. /\ <<e>> \o <<c>> \in Seq(Instructions) /\ Len(<<e>> \o <<c>>) = 2
      /\ (<<e>> \o <<c>>)[1] = e /\ (<<e>> \o <<c>>)[2] = c
      /\ <<e>> \o <<>> \in Seq(Instructions) /\ Len(<<e>> \o <<>>) = 1
      /\ (<<e>> \o <<>>)[1] = e
  BY <1>2, <1>3, OneOrTwo, Zenon
<1> DEFINE two == <<e>> \o <<c>>
           one == <<e>> \o <<>>
<1>6. h = two \/ h = one
  BY <1>4
<1>7. /\ two \in Seq(Instructions) /\ Len(two) = 2 /\ two[1] = e /\ two[2] = c
      /\ one \in Seq(Instructions) /\ Len(one) = 1 /\ one[1] = e
  BY <1>5
<1> HIDE DEF two, one
<1>8. h \in Seq(Instructions) /\ Len(h) > 0 /\ Len(h) \in Nat
  <2>1. CASE h = two
    <3>1. h \in Seq(Instructions)
      BY <1>7, <2>1
    <3>2. Len(h) = 2
      BY <1>7, <2>1
    <3>3. QED
      BY <3>1, <3>2
  <2>2. CASE h = one
    BY <1>7, <2>2
  <2>3. QED
    BY <1>6, <2>1, <2>2
<1>9. \A i \in 1 .. Len(h) : h[i].op # "brk"
  <2>1. CASE h = two
    <3>1. \A i \in 1 .. 2 : i = 1 \/ i = 2
      OBVIOUS
    <3>2. QED
      BY <1>2, <1>3, <1>7, <2>1, <3>1
  <2>2. CASE h = one
    <3>1. \A i \in 1 .. 1 : i = 1
      OBVIOUS
    <3>2. QED
      BY <1>2, <1>7, <2>2, <3>1
  <2>3. QED
    BY <1>6, <2>1, <2>2
<1>10. /\ d \in Seq(Instructions) /\ Len(d) = Len(cd) + Len(h) /\ Len(cd) \in Nat
  BY <1>0, <1>8
<1>11. \A i \in 1 .. Len(cd) : d[i] = cd[i]
  BY <1>0, <1>8, Joined
<1>12. \A i \in 1 .. Len(h) : d[Len(cd) + i] = h[i]
  BY <1>0, <1>8, Joined
<1>13. \A i \in Len(cd) + 1 .. Len(d) : d[i].op # "brk"
  <2> TAKE i \in Len(cd) + 1 .. Len(d)
  <2>1. i - Len(cd) \in 1 .. Len(h) /\ Len(cd) + (i - Len(cd)) = i
    BY <1>8, <1>10
  <2>2. d[i] = h[i - Len(cd)]
    BY <1>12, <2>1
  <2>3. QED
    BY <1>9, <2>1, <2>2
<1>14. Len(d) > Len(cd)
  <2>1. Len(h) > 0 /\ Len(h) \in Nat
    BY <1>8
  <2>2. Len(d) = Len(cd) + Len(h) /\ Len(cd) \in Nat
    BY <1>10
  <2>3. QED
    BY <2>1, <2>2
<1>15. QED
  BY <1>10, <1>11, <1>13, <1>14 DEF Longer, d, h

\* The end of a part adds at most one instruction, which is no brk.
LEMMA EndOfPartGrows ==
  ASSUME ParseInv, Depth > 0
  PROVE  /\ Grown(code, branch, open, EndOfPart, branch, open)
         /\ \A i \in Len(code) + 1 .. Len(EndOfPart) : EndOfPart[i].op # "brk"
         /\ Top.returned => Len(EndOfPart) = Len(code)
         /\ ~Top.returned => Len(EndOfPart) = Len(code) + 1
         /\ Len(code) \in Nat
<1> DEFINE op == IF Top.part = "then" THEN "endthen" ELSE "endelse"
           x == Instruction(op, Top.branch, get_destruct_vars(1), 0, locals_table)
<1>1. /\ TypeInv /\ Structured(code, branch, open) /\ code \in Seq(Instructions)
      /\ locals_table \in Seq(Tables) /\ Len(code) \in Nat
  BY DEF ParseInv, TypeInv
<1>2. x \in Instructions /\ x.op = op
  <2>1. Top.branch \in Nat /\ 1 \in 1 .. Len(locals_table)
    BY <1>1, TopFacts, OpensFields
  <2>2. get_destruct_vars(1) \in SUBSET Objects
    BY <1>1, <2>1, DestructType
  <2>3. op \in Ops
    BY DEF Ops
  <2>4. QED
    BY <1>1, <2>1, <2>2, <2>3, InstructionType
<1>3. x.op # "brk"
  <2>1. op # "brk"
    OBVIOUS
  <2> HIDE DEF x, op
  <2>2. QED
    BY <1>2, <2>1
<1> HIDE DEF x, op
<1>4. CASE Top.returned
  <2>1. EndOfPart = code
    BY <1>4 DEF EndOfPart
  <2>2. Grown(code, branch, open, code, branch, open)
    BY <1>1, CodeGrows
  <2>3. QED
    BY <1>1, <1>4, <2>1, <2>2
<1>5. CASE ~Top.returned
  <2>1. EndOfPart = Append(code, x)
    BY <1>5 DEF EndOfPart, x, op
  <2>2. /\ Append(code, x) \in Seq(Instructions) /\ Len(Append(code, x)) = Len(code) + 1
        /\ Len(Append(code, x)) >= Len(code)
        /\ \A i \in 1 .. Len(code) : Append(code, x)[i] = code[i]
        /\ \A i \in Len(code) + 1 .. Len(Append(code, x)) : Append(code, x)[i] = x
    BY <1>1, <1>2, AppendFacts
  <2>3. Grown(code, branch, open, Append(code, x), branch, open)
    BY <1>1, <2>2, CodeGrows
  <2>4. QED
    BY <1>1, <1>3, <1>5, <2>1, <2>2, <2>3
<1>6. QED
  BY <1>4, <1>5

-----------------------------------------------------------------------------
(* The parser keeps that.                                                  *)

BreakInv == BrkInv(code, branch, open, family.return)

\* What the invariant of the breaks says of a function being parsed.
LEMMA BreakFacts ==
  ASSUME ParseInv, BreakInv
  PROVE  /\ family.return \in BOOLEAN
         /\ TypeInv /\ Structured(code, branch, open)
         /\ BrkInv(code, branch, open, family.return)
         /\ FamilyInv(open, family.return)
         /\ code \in Seq(Instructions) /\ branch \in Seq(Branches) /\ open \in Seq(Opens)
         /\ Len(code) \in Nat /\ Len(branch) \in Nat /\ Len(open) \in Nat
         /\ Depth = Len(open) /\ locals_table \in Seq(Tables)
         /\ Len(locals_table) = Len(open) + 1
<1>1. TypeInv /\ Structured(code, branch, open)
  BY DEF ParseInv
<1>2. family \in Families
  BY <1>1 DEF TypeInv
<1>3. family.return \in BOOLEAN
  BY <1>2, FamiliesAssumption
<1>4. QED
  BY <1>1, <1>3 DEF TypeInv, BreakInv, BrkInv, Depth

\* A declaration and the end of the body add an instruction or nothing.
LEMMA DeclareBreaks ==
  ASSUME ParseInv, BreakInv, NEW n \in Names, Declare(n), UNCHANGED family
  PROVE  BreakInv'
<1> DEFINE s == StorageOf(n)
           objs == {<<n, s>>}
           x == Instruction("decl", 0, objs, 0, locals_table)
<1>1. /\ code' = Append(code, x) /\ UNCHANGED <<open, branch, family>>
  BY DEF Declare
<1>2. x \in Instructions /\ x.op = "decl"
  <2>1. s \in Nat
    BY StorageOfType DEF ParseInv
  <2> HIDE DEF s
  <2>2. objs \in SUBSET Objects /\ "decl" \in Ops /\ 0 \in Nat
    BY <2>1 DEF Objects, Ops
  <2> HIDE DEF objs
  <2>3. QED
    BY <2>2, BreakFacts, InstructionType
<1> HIDE DEF x
<1>3. /\ code' \in Seq(Instructions) /\ Len(code') > Len(code) /\ Len(code') >= Len(code)
      /\ \A i \in 1 .. Len(code) : code'[i] = code[i]
      /\ \A i \in Len(code) + 1 .. Len(code') : code'[i].op # "brk"
  BY <1>1, <1>2, BreakFacts, AppendFacts
<1>4. Grown(code, branch, open, code', branch, open)
  BY <1>3, BreakFacts, CodeGrows
<1>5. BrkInv(code', branch, open, family.return)
  BY <1>3, <1>4, BreakFacts, GrownKeeps
<1>6. QED
  BY <1>1, <1>5 DEF BreakInv

\* The steps of the parser keep the invariant of the breaks: the end of the body,
LEMMA EndOfBodyBreaks ==
  ASSUME ParseInv, BreakInv, EndOfBody, UNCHANGED family
  PROVE  BreakInv'
<1> DEFINE objs == get_destruct_vars(1)
           x == Instruction("return", 0, objs, 0, locals_table)
<1>1. /\ code' = IF ended THEN code ELSE Append(code, x)
      /\ UNCHANGED <<open, branch, family>> /\ Len(open) = 0
  BY DEF EndOfBody, Depth
<1>2. x \in Instructions /\ x.op = "return"
  <2>1. 1 \in 1 .. Len(locals_table)
    BY BreakFacts
  <2>2. objs \in SUBSET Objects /\ "return" \in Ops /\ 0 \in Nat
    BY <2>1, BreakFacts, DestructType DEF Ops
  <2> HIDE DEF objs
  <2>3. QED
    BY <2>2, BreakFacts, InstructionType
<1> HIDE DEF x
<1>3. /\ code' \in Seq(Instructions) /\ Len(code') >= Len(code)
      /\ \A i \in 1 .. Len(code) : code'[i] = code[i]
      /\ \A i \in Len(code) + 1 .. Len(code') : code'[i].op # "brk"
  <2>1. CASE ended
    BY <1>1, <2>1, BreakFacts
  <2>2. CASE ~ended
    <3>1. code' = Append(code, x)
      BY <1>1, <2>2
    <3>2. QED
      BY <1>2, <3>1, BreakFacts, AppendFacts
  <2>3. QED
    BY <2>1, <2>2
<1>4. Grown(code, branch, open, code', branch, open)
  BY <1>3, BreakFacts, CodeGrows
<1>5. BrkInv(code', branch, open, family.return)
  BY <1>1, <1>3, <1>4, BreakFacts, GrownKeeps
<1>6. QED
  BY <1>1, <1>5 DEF BreakInv

\* The innermost branch changes in what the parser notes of it.
LEMMA TopGrows ==
  ASSUME NEW cd, NEW br, NEW op, NEW cd2, Structured(cd, br, op), Len(op) > 0,
         Grown(cd, br, op, cd2, br, op),
         NEW o \in Opens, o.branch = op[Len(op)].branch, o.elif = op[Len(op)].elif,
         o.max_brk_level >= op[Len(op)].max_brk_level
  PROVE  Grown(cd, br, op, cd2, br, [op EXCEPT ![Len(op)] = o])
<1>1. op \in Seq(Opens) /\ Len(op) \in Nat /\ Len(op) \in 1 .. Len(op)
  BY DEF Structured
<1> DEFINE op2 == [op EXCEPT ![Len(op)] = o]
<1>2. /\ op2 \in Seq(Opens) /\ Len(op2) = Len(op) /\ op2[Len(op)] = o
      /\ \A k \in 1 .. Len(op) : k # Len(op) => op2[k] = op[k]
  BY <1>1
<1> HIDE DEF op2
<1>3. \A k \in 1 .. Len(op) : /\ op2[k].branch = op[k].branch
                              /\ op2[k].elif = op[k].elif
                              /\ op2[k].max_brk_level >= op[k].max_brk_level
  <2> TAKE k \in 1 .. Len(op)
  <2>1. CASE k = Len(op)
    BY <1>2, <2>1
  <2>2. CASE k # Len(op)
    <3>1. op2[k] = op[k]
      BY <1>2, <2>2
    <3>2. QED
      BY <3>1 DEF Grown
  <2>3. QED
    BY <2>1, <2>2
<1>4. QED
  BY <1>1, <1>2, <1>3 DEF Grown, op2

\* a return,
LEMMA ReturnBreaks ==
  ASSUME ParseInv, BreakInv, Return, UNCHANGED family
  PROVE  BreakInv'
<1> DEFINE objs == get_destruct_vars(Len(locals_table))
           x == Instruction("return", 0, objs, 0, locals_table)
           o == [Top EXCEPT !.returned = TRUE]
           op2 == [open EXCEPT ![Len(open)] = o]
<1>1. /\ code' = Append(code, x) /\ UNCHANGED <<branch, family>>
      /\ family.return /\ Depth > 0
      /\ open' = [open EXCEPT ![Depth].returned = TRUE]
  BY DEF Return
<1>2. /\ Depth \in 1 .. Len(open) /\ Top = open[Len(open)] /\ Top \in Opens /\ Len(open) > 0
      /\ Depth = Len(open)
  BY <1>1, BreakFacts, TopFacts
<1>3. open' = op2
  BY <1>1, <1>2, BreakFacts
<1>4. x \in Instructions /\ x.op = "return"
  <2>1. Len(locals_table) \in 1 .. Len(locals_table)
    BY BreakFacts
  <2>2. objs \in SUBSET Objects /\ "return" \in Ops /\ 0 \in Nat
    BY <2>1, BreakFacts, DestructType DEF Ops
  <2> HIDE DEF objs
  <2>3. QED
    BY <2>2, BreakFacts, InstructionType
<1>5. /\ o \in Opens /\ o.branch = Top.branch /\ o.elif = Top.elif /\ o.kind = Top.kind
      /\ o.max_brk_level = Top.max_brk_level /\ o.max_brk_level \in Nat
  BY <1>2 DEF Opens
<1> HIDE DEF x, o
<1>6. /\ code' \in Seq(Instructions) /\ Len(code') > Len(code) /\ Len(code') >= Len(code)
      /\ \A i \in 1 .. Len(code) : code'[i] = code[i]
      /\ \A i \in Len(code) + 1 .. Len(code') : code'[i].op # "brk"
  BY <1>1, <1>4, BreakFacts, AppendFacts
<1>7. Grown(code, branch, open, code', branch, op2)
  <2>1. Grown(code, branch, open, code', branch, open)
    BY <1>6, BreakFacts, CodeGrows
  <2>2. o.max_brk_level >= open[Len(open)].max_brk_level
    BY <1>2, <1>5
  <2>3. QED
    BY <1>2, <1>5, <2>1, <2>2, BreakFacts, TopGrows
<1>8. FamilyInv(op2, family.return)
  <2> SUFFICES ASSUME NEW k \in 1 .. Len(op2) PROVE op2[k].elif => op2[k].kind = "if"
    BY <1>1 DEF FamilyInv
  <2>1. k \in 1 .. Len(open) /\ (open[k].elif => open[k].kind = "if")
    BY <1>5, BreakFacts DEF FamilyInv
  <2>2. op2[k] = IF k = Len(open) THEN o ELSE open[k]
    BY <1>2, <2>1, BreakFacts
  <2>3. CASE k = Len(open)
    BY <1>2, <1>5, <2>1, <2>2, <2>3
  <2>4. CASE k # Len(open)
    BY <2>1, <2>2, <2>4
  <2>5. QED
    BY <2>3, <2>4
<1> HIDE DEF op2
<1>9. BrkInv(code', branch, op2, family.return)
  BY <1>6, <1>7, <1>8, BreakFacts, GrownKeeps
<1>10. QED
  BY <1>1, <1>3, <1>9 DEF BreakInv

\* A branch is added to code that may have grown already.
LEMMA BranchAppended ==
  ASSUME NEW cd, NEW br, NEW op, NEW cd1, NEW br1, NEW op1, NEW cd2, NEW ret \in BOOLEAN,
         Structured(cd, br, op), Grown(cd, br, op, cd1, br1, op1), FamilyInv(op1, ret),
         Len(br1) = Len(br), Len(op1) = Len(op),
         cd2 \in Seq(Instructions), Len(cd2) >= Len(cd1),
         \A i \in 1 .. Len(cd1) : cd2[i] = cd1[i],
         NEW r \in Branches, r.start = Len(cd1) + 1, r.merge_at = 0,
         NEW o \in Opens, o.branch = Len(br) + 1, o.elif => o.kind = "if", ~o.returned
  PROVE  /\ Grown(cd, br, op, cd2, Append(br1, r), Append(op1, o))
         /\ FamilyInv(Append(op1, o), ret)
<1> DEFINE br2 == Append(br1, r)
           op2 == Append(op1, o)
<1>1. /\ Len(cd) \in Nat /\ Len(br) \in Nat /\ Len(op) \in Nat
  BY DEF Structured
<1>2. /\ cd1 \in Seq(Instructions) /\ br1 \in Seq(Branches) /\ op1 \in Seq(Opens)
      /\ Len(cd1) >= Len(cd) /\ \A i \in 1 .. Len(cd) : cd1[i] = cd[i]
      /\ \A b \in 1 .. Len(br) : /\ br1[b].elif = br[b].elif
                                 /\ br1[b].start = br[b].start
                                 /\ br1[b].merge_at = br[b].merge_at
      /\ \A k \in 1 .. Len(op) : /\ op1[k].branch = op[k].branch
                                 /\ op1[k].elif = op[k].elif
                                 /\ op1[k].max_brk_level >= op[k].max_brk_level
  BY DEF Grown
<1>3. Len(cd1) \in Nat /\ Len(cd2) \in Nat
  BY <1>2
<1>4. /\ br2 \in Seq(Branches) /\ Len(br2) = Len(br) + 1
      /\ br2[Len(br) + 1] = r /\ \A b \in 1 .. Len(br) : br2[b] = br1[b]
  BY <1>1, <1>2
<1>5. /\ op2 \in Seq(Opens) /\ Len(op2) = Len(op) + 1
      /\ op2[Len(op) + 1] = o /\ \A k \in 1 .. Len(op) : op2[k] = op1[k]
  BY <1>1, <1>2
<1> HIDE DEF br2, op2
<1>6. \A b \in Len(br) + 1 .. Len(br2) : br2[b].start > Len(cd) /\ br2[b].merge_at = 0
  <2> TAKE b \in Len(br) + 1 .. Len(br2)
  <2>1. b = Len(br) + 1
    BY <1>1, <1>4
  <2>2. br2[b] = r
    BY <1>4, <2>1
  <2>3. Len(cd1) + 1 > Len(cd)
    BY <1>1, <1>2, <1>3
  <2>4. QED
    BY <2>2, <2>3
<1>7. \A k \in Len(op) + 1 .. Len(op2) : op2[k].branch > Len(br)
  <2> TAKE k \in Len(op) + 1 .. Len(op2)
  <2>1. k = Len(op) + 1
    BY <1>1, <1>5
  <2>2. QED
    BY <1>1, <1>5, <2>1
<1>8. Len(cd2) >= Len(cd) /\ \A i \in 1 .. Len(cd) : cd2[i] = cd[i]
  BY <1>1, <1>2, <1>3
<1>9. Len(br2) >= Len(br) /\ Len(op2) >= Len(op)
  BY <1>1, <1>4, <1>5
<1>10. Grown(cd, br, op, cd2, br2, op2)
  BY <1>2, <1>4, <1>5, <1>6, <1>7, <1>8, <1>9 DEF Grown
<1>11. FamilyInv(op2, ret)
  <2> SUFFICES ASSUME NEW k \in 1 .. Len(op2)
               PROVE  (op2[k].elif => op2[k].kind = "if") /\ (op2[k].returned => ret)
    BY DEF FamilyInv
  <2>1. CASE k = Len(op) + 1
    BY <1>5, <2>1
  <2>2. CASE k # Len(op) + 1
    <3>1. k \in 1 .. Len(op) /\ op2[k] = op1[k]
      BY <1>1, <1>5, <2>2
    <3>2. QED
      BY <3>1 DEF FamilyInv
  <2>3. QED
    BY <2>1, <2>2
<1>12. QED
  BY <1>10, <1>11 DEF br2, op2

\* a branch,
LEMMA OpenBranchBreaks ==
  ASSUME ParseInv, BreakInv, NEW kind \in Kinds, OpenBranch(kind), UNCHANGED family
  PROVE  BreakInv'
<1> DEFINE r == NewBranch(kind, FALSE, Len(code) + 1)
           o == OpenRecord(kind, FALSE)
<1>1. /\ open' = Append(open, o) /\ branch' = Append(branch, r) /\ UNCHANGED family
      /\ code' = code \o HeadOf(kind, Len(branch) + 1, locals_table)
  BY DEF OpenBranch
<1>2. r \in Branches /\ r.start = Len(code) + 1 /\ r.merge_at = 0
  <2>1. Len(code) + 1 \in Nat /\ FALSE \in BOOLEAN
    BY BreakFacts
  <2>2. r \in Branches
    BY <2>1, BreakFacts, RecordTypes
  <2>3. QED
    BY <2>2 DEF NewBranch
<1>3. o \in Opens /\ o.branch = Len(branch) + 1 /\ ~o.elif /\ ~o.returned
  <2>1. Len(code) + 1 \in Nat /\ FALSE \in BOOLEAN
    BY BreakFacts
  <2>2. o \in Opens
    BY <2>1, BreakFacts, RecordTypes
  <2>3. QED
    BY <2>2 DEF OpenRecord
<1> HIDE DEF r, o
<1>4. /\ code' \in Seq(Instructions) /\ Len(code') > Len(code)
      /\ \A i \in 1 .. Len(code) : code'[i] = code[i]
      /\ \A i \in Len(code) + 1 .. Len(code') : code'[i].op # "brk"
  <2>1. Len(branch) + 1 \in Nat /\ code \in Seq(Instructions) /\ locals_table \in Seq(Tables)
    BY BreakFacts
  <2>2. Longer(code, code')
    BY <1>1, <2>1, HeadFacts
  <2>3. QED
    BY <2>2 DEF Longer
<1>5. Len(code') >= Len(code)
  BY <1>4, BreakFacts
<1>6. Grown(code, branch, open, code, branch, open)
  BY BreakFacts, CodeGrows
<1>7. /\ Grown(code, branch, open, code', Append(branch, r), Append(open, o))
      /\ FamilyInv(Append(open, o), family.return)
  BY <1>2, <1>3, <1>4, <1>5, <1>6, BreakFacts, BranchAppended
<1>8. BrkInv(code', Append(branch, r), Append(open, o), family.return)
  BY <1>4, <1>7, BreakFacts, GrownKeeps
<1>9. QED
  BY <1>1, <1>8 DEF BreakInv

\* The else part begins.
LEMMA PartGrows ==
  ASSUME ParseInv, BreakInv, Depth > 0, Top.part = "then"
  PROVE  LET br1 == [branch EXCEPT ![Top.branch] = BeginElse(branch[Top.branch])]
             op1 == [open EXCEPT ![Depth] = ElsePart]
         IN /\ Grown(code, branch, open, EndOfPart, br1, op1)
            /\ FamilyInv(op1, family.return)
            /\ Len(br1) = Len(branch) /\ Len(op1) = Len(open)
            /\ op1[Len(op1)].returned = FALSE
<1> DEFINE b == Top.branch
           s == branch[b]
           r == BeginElse(s)
           o == ElsePart
           br1 == [branch EXCEPT ![b] = r]
           op1 == [open EXCEPT ![Depth] = o]
<1>1. /\ Depth \in 1 .. Len(open) /\ Top = open[Len(open)] /\ Top \in Opens /\ Len(open) > 0
      /\ Depth = Len(open)
  BY BreakFacts, TopFacts
<1>2. o \in Opens /\ b \in 1 .. Len(branch) /\ r \in Branches
  BY ElseBegun
<1>3. s \in Branches
  BY <1>2, BreakFacts
<1>4. r.start = s.start /\ r.elif = s.elif /\ r.merge_at = s.merge_at
  BY <1>3 DEF BeginElse, Branches
<1>5. /\ o.branch = Top.branch /\ o.elif = Top.elif /\ o.kind = Top.kind
      /\ o.max_brk_level = Top.max_brk_level /\ o.max_brk_level \in Nat /\ o.returned = FALSE
  BY <1>1 DEF ElsePart, Opens
<1> HIDE DEF r, o, s
<1>6. Grown(code, branch, open, EndOfPart, branch, op1)
  <2>1. Grown(code, branch, open, EndOfPart, branch, open)
    BY EndOfPartGrows
  <2>2. o.max_brk_level >= open[Len(open)].max_brk_level
    BY <1>1, <1>5
  <2>3. Grown(code, branch, open, EndOfPart, branch, [open EXCEPT ![Len(open)] = o])
    BY <1>1, <1>2, <1>5, <2>1, <2>2, BreakFacts, TopGrows
  <2>4. QED
    BY <1>1, <2>3
<1>7. /\ br1 \in Seq(Branches) /\ Len(br1) = Len(branch) /\ br1[b] = r
      /\ \A c \in 1 .. Len(branch) : c # b => br1[c] = branch[c]
  BY <1>2, BreakFacts
<1>8. /\ op1 \in Seq(Opens) /\ Len(op1) = Len(open) /\ op1[Len(open)] = o
      /\ \A k \in 1 .. Len(open) : k # Len(open) => op1[k] = open[k]
  BY <1>1, <1>2, BreakFacts
<1> HIDE DEF br1, op1
<1>9. \A c \in 1 .. Len(branch) : /\ br1[c].elif = branch[c].elif
                                  /\ br1[c].start = branch[c].start
                                  /\ br1[c].merge_at = branch[c].merge_at
  BY <1>4, <1>7 DEF s
<1>10. \A c \in Len(branch) + 1 .. Len(br1) :
         br1[c].start > Len(code) /\ br1[c].merge_at = 0
  BY <1>7, BreakFacts
<1>11. Grown(code, branch, open, EndOfPart, br1, op1)
  <2>1. Len(br1) >= Len(branch)
    BY <1>7, BreakFacts
  <2>2. QED
    BY <1>6, <1>7, <1>9, <1>10, <2>1 DEF Grown
<1>12. FamilyInv(op1, family.return)
  <2> SUFFICES ASSUME NEW k \in 1 .. Len(op1)
               PROVE  (op1[k].elif => op1[k].kind = "if") /\ (op1[k].returned => family.return)
    BY DEF FamilyInv
  <2>1. /\ k \in 1 .. Len(open) /\ (open[k].elif => open[k].kind = "if")
        /\ (open[k].returned => family.return)
    BY <1>8, BreakFacts DEF FamilyInv
  <2>2. CASE k = Len(open)
    BY <1>1, <1>5, <1>8, <2>1, <2>2
  <2>3. CASE k # Len(open)
    <3>1. op1[k] = open[k]
      BY <1>8, <2>1, <2>3
    <3>2. QED
      BY <2>1, <3>1
  <2>4. QED
    BY <2>2, <2>3
<1>13. op1[Len(op1)].returned = FALSE
  BY <1>5, <1>8
<1>14. QED
  BY <1>7, <1>8, <1>11, <1>12, <1>13 DEF br1, op1, r, o, s

\* an else part,
LEMMA ElseBreaks ==
  ASSUME ParseInv, BreakInv, Else, UNCHANGED family
  PROVE  BreakInv'
<1>1. /\ Depth > 0 /\ Top.part = "then" /\ UNCHANGED family
      /\ open' = [open EXCEPT ![Depth] = ElsePart]
      /\ branch' = [branch EXCEPT ![Top.branch] = BeginElse(branch[Top.branch])]
      /\ code' = EndOfPart
  BY DEF Else
<1>2. /\ Grown(code, branch, open, code', branch', open')
      /\ FamilyInv(open', family.return) /\ open'[Len(open')].returned = FALSE
  BY <1>1, PartGrows
<1>3. \A i \in Len(code) + 1 .. Len(code') : code'[i].op # "brk"
  BY <1>1, EndOfPartGrows
<1>4. ~open'[Len(open')].returned
  BY <1>2
<1>5. BrkInv(code', branch', open', family.return)
  BY <1>2, <1>3, <1>4, BreakFacts, GrownKeeps
<1>6. QED
  BY <1>1, <1>5 DEF BreakInv

\* an elif,
LEMMA ElifBreaks ==
  ASSUME ParseInv, BreakInv, Elif, UNCHANGED family
  PROVE  BreakInv'
<1> DEFINE br1 == [branch EXCEPT ![Top.branch] = BeginElse(branch[Top.branch])]
           op1 == [open EXCEPT ![Depth] = ElsePart]
           ts == SubSeq(locals_table, 1, Depth)
           r == NewBranch("if", TRUE, Len(EndOfPart) + 1)
           o == OpenRecord("if", TRUE)
<1>1. /\ Depth > 0 /\ Top.part = "then" /\ UNCHANGED family
      /\ open' = Append(op1, o)
      /\ branch' = Append(br1, r)
      /\ code' = EndOfPart \o HeadOf("if", Len(branch) + 1, ts)
  BY DEF Elif
<1>2. /\ Grown(code, branch, open, EndOfPart, br1, op1)
      /\ FamilyInv(op1, family.return)
      /\ Len(br1) = Len(branch) /\ Len(op1) = Len(open)
  BY <1>1, PartGrows
<1>3. ts \in Seq(Tables) /\ Len(branch) + 1 \in Nat
  BY BreakFacts
<1>4. EndOfPart \in Seq(Instructions) /\ Len(EndOfPart) \in Nat
  BY <1>1, PartEnded
<1>5. /\ r \in Branches /\ r.start = Len(EndOfPart) + 1 /\ r.merge_at = 0
      /\ o \in Opens /\ o.branch = Len(branch) + 1 /\ o.kind = "if" /\ ~o.returned
  <2>1. "if" \in Kinds /\ TRUE \in BOOLEAN /\ Len(EndOfPart) + 1 \in Nat
    BY <1>4 DEF Kinds
  <2>2. r \in Branches /\ o \in Opens
    BY <2>1, BreakFacts, RecordTypes
  <2>3. QED
    BY <2>2 DEF NewBranch, OpenRecord
<1> HIDE DEF br1, op1, ts, r, o
<1>6. Longer(EndOfPart, code')
  BY <1>1, <1>3, <1>4, HeadFacts
<1>7. /\ code' \in Seq(Instructions) /\ Len(code') > Len(EndOfPart)
      /\ Len(code') >= Len(EndOfPart)
      /\ \A i \in 1 .. Len(EndOfPart) : code'[i] = EndOfPart[i]
      /\ \A i \in Len(EndOfPart) + 1 .. Len(code') : code'[i].op # "brk"
  BY <1>6 DEF Longer
<1>8. /\ Grown(code, branch, open, code', branch', open')
      /\ FamilyInv(open', family.return)
  <2>1. o.elif => o.kind = "if"
    BY <1>5
  <2>2. family.return \in BOOLEAN /\ Structured(code, branch, open)
    BY BreakFacts
  <2>3. /\ Grown(code, branch, open, code', Append(br1, r), Append(op1, o))
        /\ FamilyInv(Append(op1, o), family.return)
    BY <1>2, <1>5, <1>7, <2>1, <2>2, BranchAppended
  <2>4. QED
    BY <1>1, <2>3
<1>9. Len(EndOfPart) >= Len(code)
  BY <1>2 DEF Grown
<1>10. \A i \in Len(code) + 1 .. Len(code') : code'[i].op # "brk"
  <2> TAKE i \in Len(code) + 1 .. Len(code')
  <2>1. i \in Len(code) + 1 .. Len(EndOfPart) \/ i \in Len(EndOfPart) + 1 .. Len(code')
    BY <1>4, <1>7, BreakFacts
  <2>2. CASE i \in Len(code) + 1 .. Len(EndOfPart)
    <3>1. EndOfPart[i].op # "brk"
      BY <1>1, <2>2, EndOfPartGrows
    <3>2. i \in 1 .. Len(EndOfPart)
      BY <2>2, BreakFacts
    <3>3. QED
      BY <1>7, <3>1, <3>2
  <2>3. QED
    BY <1>7, <2>1, <2>2
<1>11. Len(code') > Len(code)
  BY <1>4, <1>7, <1>9, BreakFacts
<1>12. BrkInv(code', branch', open', family.return)
  BY <1>8, <1>10, <1>11, BreakFacts, GrownKeeps
<1>13. QED
  BY <1>1, <1>12 DEF BreakInv

\* a brk,
LEMMA BrkBreaks ==
  ASSUME SingleBrksWithReturn, ParseInv, BreakInv, NEW levels \in 1 .. family.brk, Brk(levels),
         UNCHANGED family
  PROVE  BreakInv'
<1> DEFINE d == BrkDepth(levels)
           q == Depth - d + 1
           objs == get_destruct_vars(d)
           x == Instruction("brk", open[q].branch, objs, levels, locals_table)
           m == IF Top.max_brk_level < d THEN d ELSE Top.max_brk_level
           p == Top.brk_part + 1
           o == [Top EXCEPT !.brk_part = p, !.max_brk_level = m]
           op2 == [open EXCEPT ![Len(open)] = o]
<1>0. family \in Families /\ family.brk \in Nat /\ levels \in Nat \ {0}
  <2>1. family \in Families
    BY DEF ParseInv, TypeInv
  <2>2. family.brk \in Nat
    BY <2>1, FamiliesAssumption
  <2>3. QED
    BY <2>1, <2>2
<1>1. /\ levels <= Cardinality({k \in 1 .. Depth : syntax_nesting(k) = 1})
      /\ code' = Append(code, x)
      /\ open' = [open EXCEPT ![Depth].brk_part = @ + 1,
                              ![Depth].max_brk_level = IF @ < d THEN d ELSE @]
      /\ UNCHANGED <<branch, family>>
      /\ Depth > 0 => ~Top.returned
  BY DEF Brk, Parsing
<1>2. /\ d \in 1 .. Depth /\ syntax_nesting(Depth - d + 1) = 1
      /\ Cardinality({k \in Depth - d + 1 .. Depth : syntax_nesting(k) = 1}) = levels
  BY <1>0, <1>1, BreakFacts, BrkDepthFits
<1> DEFINE S == {k \in Depth - d + 1 .. Depth : syntax_nesting(k) = 1}
<1>3. S = OpenStatements(open, Depth - d + 1)
  BY BreakFacts DEF OpenStatements, syntax_nesting
<1>4. Cardinality(OpenStatements(open, Depth - d + 1)) = levels
  <2>1. Cardinality(S) = levels
    BY <1>2
  <2> HIDE DEF S
  <2>2. QED
    BY <1>3, <2>1
<1>5. ~open[Depth - d + 1].elif
  BY <1>2 DEF syntax_nesting
<1> HIDE DEF d, S
<1>6. /\ q \in 1 .. Len(open) /\ d \in 1 .. Len(locals_table) /\ d \in Nat /\ Depth > 0
      /\ Len(open) - q + 1 = d
  BY <1>2, BreakFacts
<1>7. ~open[q].elif /\ levels = Cardinality(OpenStatements(open, q))
  BY <1>4, <1>5
<1> HIDE DEF q
<1>8. /\ Depth \in 1 .. Len(open) /\ Top = open[Len(open)] /\ Top \in Opens /\ Len(open) > 0
      /\ Depth = Len(open)
  BY <1>6, BreakFacts, TopFacts
<1>9. /\ x \in Instructions /\ x.op = "brk" /\ x.branch = open[q].branch /\ x.levels = levels
  <2>1. objs \in SUBSET Objects /\ "brk" \in Ops
    BY <1>6, BreakFacts, DestructType DEF Ops
  <2>2. open[q] \in Opens
    BY <1>6, BreakFacts
  <2>3. open[q].branch \in Nat
    BY <2>2, OpensFields
  <2> HIDE DEF objs
  <2>4. QED
    BY <1>0, <2>1, <2>3, BreakFacts, InstructionType
<1>10. open' = op2
  BY <1>1, <1>8, BreakFacts
<1>11. /\ Top.max_brk_level \in Nat /\ m \in Nat /\ p \in Nat /\ m >= d
       /\ m >= Top.max_brk_level
  BY <1>6, <1>8, OpensFields
<1> HIDE DEF m, p
<1>12. /\ o \in Opens /\ o.branch = Top.branch /\ o.elif = Top.elif /\ o.kind = Top.kind
       /\ o.max_brk_level = m
       /\ o.returned <=> Top.returned
  BY <1>8, <1>11 DEF Opens
<1> HIDE DEF x, o
<1>13. Grown(code, branch, open, Append(code, x), branch, op2)
  <2>1. /\ Append(code, x) \in Seq(Instructions) /\ Len(Append(code, x)) >= Len(code)
        /\ \A i \in 1 .. Len(code) : Append(code, x)[i] = code[i]
    BY <1>9, BreakFacts, AppendFacts
  <2>2. Grown(code, branch, open, Append(code, x), branch, open)
    BY <2>1, BreakFacts, CodeGrows
  <2>3. o.max_brk_level >= open[Len(open)].max_brk_level
    BY <1>8, <1>11, <1>12
  <2>4. QED
    BY <1>8, <1>12, <2>2, <2>3, BreakFacts, TopGrows
<1>14. /\ Len(op2) = Len(open) /\ op2[Len(open)] = o
       /\ \A k \in 1 .. Len(open) : k # Len(open) => op2[k] = open[k]
  BY <1>8, <1>12, BreakFacts
<1> HIDE DEF op2
<1>15. FamilyInv(op2, family.return)
  <2> SUFFICES ASSUME NEW k \in 1 .. Len(op2)
               PROVE  (op2[k].elif => op2[k].kind = "if") /\ (op2[k].returned => family.return)
    BY DEF FamilyInv
  <2>1. /\ k \in 1 .. Len(open) /\ (open[k].elif => open[k].kind = "if")
        /\ (open[k].returned => family.return)
    BY <1>14, BreakFacts DEF FamilyInv
  <2>2. CASE k = Len(open)
    BY <1>8, <1>12, <1>14, <2>1, <2>2
  <2>3. CASE k # Len(open)
    <3>1. op2[k] = open[k]
      BY <1>14, <2>1, <2>3
    <3>2. QED
      BY <2>1, <3>1
  <2>4. QED
    BY <2>2, <2>3
<1>16. family.return => x.levels = 1
  <2>1. family.return => family.brk <= 1
    BY <1>0 DEF SingleBrksWithReturn
  <2>2. family.return => levels = 1
    BY <1>0, <2>1
  <2>3. QED
    BY <1>9, <2>2
<1>17. op2[Len(op2)].max_brk_level >= Len(open) - q + 1
  BY <1>6, <1>11, <1>12, <1>14
<1>18. x.levels = Cardinality(OpenStatements(open, q))
  BY <1>7, <1>9
<1>19. BrkInv(Append(code, x), branch, op2, family.return)
  BY <1>6, <1>7, <1>9, <1>13, <1>14, <1>15, <1>16, <1>17, <1>18, BreakFacts, BrkAdded
<1>20. QED
  BY <1>1, <1>10, <1>19 DEF BreakInv

\* and the end of a branch.
LEMMA EndBreaks ==
  ASSUME ParseInv, BreakInv, EndBranch, UNCHANGED family
  PROVE  BreakInv'
<1> DEFINE r == Merge(branch[Top.branch])
<1>1. /\ Depth > 0 /\ UNCHANGED family
      /\ open' = IF Depth = 1 THEN <<>>
                 ELSE [SubSeq(open, 1, Depth - 1) EXCEPT ![Depth - 1] = Handed(@)]
      /\ code' = EndOfPart
      /\ branch' = [branch EXCEPT ![Top.branch] = r]
  BY DEF EndBranch
<1>2. /\ Depth \in 1 .. Len(open) /\ Top = open[Len(open)] /\ Top \in Opens /\ Len(open) > 0
      /\ Depth = Len(open) /\ Depth \in Nat
  BY <1>1, BreakFacts, TopFacts
<1>3. Top.branch \in 1 .. Len(branch) /\ branch[Top.branch] \in Branches
  <2>1. OpenInv(branch, open)
    BY BreakFacts DEF Structured
  <2>2. QED
    BY <1>2, <2>1, BreakFacts DEF OpenInv
<1>4. /\ r.start = branch[Top.branch].start /\ r.elif = branch[Top.branch].elif
      /\ r.merge_at = Len(EndOfPart) + 1
  BY <1>3 DEF Merge, Branches
<1>5. r \in Branches
  <2> DEFINE vs == IF Top.part = "then" THEN Storage(locals_table[Depth + 1])
                   ELSE branch[Top.branch].vars
             n == Len(EndOfPart) + 1
             h == ~always_return
             s == branch[Top.branch]
  <2>1. r = [s EXCEPT !.merge_at = n, !.vars = vs, !.merged_vars = MergedVars,
                      !.has_merge = h]
    BY DEF Merge
  <2>2. vs \in SUBSET Nat
    <3>1. locals_table[Depth + 1] \in Tables
      BY BreakFacts, TopFacts
    <3>2. Storage(locals_table[Depth + 1]) \in SUBSET Nat
      BY <3>1, TableFacts
    <3>3. branch[Top.branch].vars \in SUBSET Nat
      BY <1>3 DEF Branches
    <3>4. QED
      BY <3>2, <3>3
  <2>3. n \in Nat /\ MergedVars \in SUBSET Names /\ h \in BOOLEAN
    BY <1>1, PartEnded, MergedTypes, BreakFacts
  <2>4. s \in Branches
    BY <1>3
  <2> HIDE DEF vs, n, h, s, r
  <2>5. QED
    BY <2>1, <2>2, <2>3, <2>4 DEF Branches
<1> HIDE DEF r
<1>6. HandedUp(open', open)
  <2>1. CASE Depth = 1
    <3>1. open' = <<>> /\ Len(open') = 0 /\ open' \in Seq(Opens)
      BY <1>1, <2>1
    <3>2. QED
      BY <1>2, <2>1, <3>1 DEF HandedUp
  <2>2. CASE Depth # 1
    <3> DEFINE l == Depth - 1
               s == SubSeq(open, 1, l)
               o == open[l]
               w == IF o.max_brk_level < LevelsLeft THEN LevelsLeft ELSE o.max_brk_level
               g == [o EXCEPT !.max_brk_level = w, !.returned = PartReturned]
    <3>1. l \in 1 .. Len(open) /\ l \in Nat /\ l > 0 /\ Len(open) - 1 = l
      BY <1>2, <2>2
    <3>2. /\ s \in Seq(Opens) /\ Len(s) = l /\ l \in 1 .. Len(s)
          /\ \A k \in 1 .. l : s[k] = open[k]
      BY <1>2, <3>1, BreakFacts
    <3>3. o \in Opens /\ o.max_brk_level \in Nat
      <4>1. o \in Opens
        BY <3>1, BreakFacts
      <4>2. QED
        BY <4>1, OpensFields
    <3>4. open' = [s EXCEPT ![l] = Handed(@)]
      BY <1>1, <2>2
    <3>5. Handed(o) = g
      BY DEF Handed
    <3>6. LevelsLeft \in Nat /\ (Top.kind = "if" => LevelsLeft >= Top.max_brk_level - 1)
      <4>1. Top.max_brk_level \in Nat
        BY <1>2, OpensFields
      <4>2. QED
        BY <4>1 DEF LevelsLeft
    <3>7. PartReturned \in BOOLEAN
      BY DEF PartReturned, always_return, BothReturn
    <3>8. w \in Nat /\ w >= o.max_brk_level /\ w >= LevelsLeft
      BY <3>3, <3>6
    <3> HIDE DEF w, o
    <3>9. /\ g \in Opens /\ g.branch = o.branch /\ g.kind = o.kind /\ g.elif = o.elif
          /\ g.max_brk_level = w
      <4> DEFINE p == PartReturned
      <4>1. p \in BOOLEAN
        BY <3>7
      <4> HIDE DEF p
      <4>2. /\ [o EXCEPT !.max_brk_level = w, !.returned = p] \in Opens
            /\ [o EXCEPT !.max_brk_level = w, !.returned = p].branch = o.branch
            /\ [o EXCEPT !.max_brk_level = w, !.returned = p].kind = o.kind
            /\ [o EXCEPT !.max_brk_level = w, !.returned = p].elif = o.elif
            /\ [o EXCEPT !.max_brk_level = w, !.returned = p].max_brk_level = w
        BY <3>3, <3>8, <4>1 DEF Opens
      <4>3. QED
        BY <4>2 DEF p
    <3>10. g.returned <=> PartReturned
      BY <3>3 DEF Opens
    <3> HIDE DEF g, s, l
    <3>11. s[l] = o
      BY <3>1, <3>2 DEF o
    <3>12. open' = [s EXCEPT ![l] = g]
      BY <3>2, <3>4, <3>5, <3>11
    <3>13. /\ open' \in Seq(Opens) /\ Len(open') = l /\ open'[l] = g
           /\ \A k \in 1 .. l : k # l => open'[k] = open[k]
      BY <3>2, <3>9, <3>12
    <3>14. PartReturned => Top.returned /\ (Top.elif \/ Top.max_brk_level = 0)
      BY DEF PartReturned, always_return, BothReturn
    <3>15. \A k \in 1 .. Len(open') : /\ open'[k].branch = open[k].branch
                                      /\ open'[k].elif = open[k].elif
                                      /\ open'[k].kind = open[k].kind
                                      /\ open'[k].max_brk_level >= open[k].max_brk_level
      <4> TAKE k \in 1 .. Len(open')
      <4>1. CASE k = l
        BY <3>8, <3>9, <3>13, <4>1 DEF o
      <4>2. CASE k # l
        <5>1. open'[k] = open[k] /\ k \in 1 .. Len(open)
          BY <3>1, <3>13, <4>2
        <5>2. open[k].max_brk_level \in Nat
          <6>1. open[k] \in Opens
            BY <5>1, BreakFacts
          <6>2. QED
            BY <6>1, OpensFields
        <5>3. QED
          BY <5>1, <5>2
      <4>3. QED
        BY <4>1, <4>2
    <3>16. \A k \in 1 .. Len(open') - 1 : open'[k].returned <=> open[k].returned
      <4> TAKE k \in 1 .. Len(open') - 1
      <4>1. k \in 1 .. l /\ k # l
        BY <3>1, <3>13
      <4>2. open'[k] = open[k]
        BY <3>13, <4>1
      <4>3. QED
        BY <4>2
    <3>17. open'[Len(open')].returned => Top.returned /\ (Top.elif \/ Top.max_brk_level = 0)
      BY <3>10, <3>13, <3>14
    <3>18. Top.kind = "if" => open'[Len(open')].max_brk_level >= Top.max_brk_level - 1
      <4>1. Top.max_brk_level \in Nat
        BY <1>2, OpensFields
      <4>2. open'[Len(open')].max_brk_level = w
        BY <3>9, <3>13
      <4>3. QED
        BY <3>6, <3>8, <4>1, <4>2
    <3>19. Len(open') = Len(open) - 1
      BY <3>1, <3>13
    <3>20. QED
      BY <1>2, <3>13, <3>15, <3>16, <3>17, <3>18, <3>19 DEF HandedUp
  <2>3. QED
    BY <2>1, <2>2
<1>7. Grown(code, branch, open, EndOfPart, branch, open) /\ PartEnds(code, open, EndOfPart)
  BY <1>1, <1>2, EndOfPartGrows DEF PartEnds
<1>8. BrkInv(EndOfPart, [branch EXCEPT ![open[Len(open)].branch] = r], open', family.return)
  <2>1. /\ r.start = branch[open[Len(open)].branch].start
        /\ r.elif = branch[open[Len(open)].branch].elif
    BY <1>2, <1>4
  <2>2. /\ family.return \in BOOLEAN /\ Structured(code, branch, open)
        /\ BrkInv(code, branch, open, family.return)
    BY BreakFacts
  <2>3. Len(open) > 0 /\ r.merge_at = Len(EndOfPart) + 1
    BY <1>2, <1>4
  <2>4. QED
    BY <1>5, <1>6, <1>7, <2>1, <2>2, <2>3, BranchEnded
<1>9. QED
  BY <1>1, <1>2, <1>8 DEF BreakInv

\* Every step of the parser keeps the invariant.
LEMMA ParseBreaks ==
  ASSUME SingleBrksWithReturn, ParseInv, BreakInv, Parse
  PROVE  BreakInv'
<1>1. /\ family \in Families /\ UNCHANGED family
      /\ family.names \in SUBSET Names /\ family.kinds \in SUBSET Kinds
  BY FamiliesAssumption DEF Parse, ParseInv, TypeInv
<1>2. CASE \E n \in family.names : Declare(n)
  BY <1>1, <1>2, DeclareBreaks
<1>3. CASE \E kind \in family.kinds : OpenBranch(kind)
  BY <1>1, <1>3, OpenBranchBreaks
<1>4. CASE \E levels \in 1 .. family.brk : Brk(levels)
  BY <1>1, <1>4, BrkBreaks
<1>5. CASE Return
  BY <1>1, <1>5, ReturnBreaks
<1>6. CASE Else
  BY <1>1, <1>6, ElseBreaks
<1>7. CASE Elif
  BY <1>1, <1>7, ElifBreaks
<1>8. CASE End \/ EndElif \/ Until
  <2>1. EndBranch
    BY <1>8 DEF End, EndElif, Until
  <2>2. QED
    BY <1>1, <2>1, EndBreaks
<1>9. CASE EndOfBody
  BY <1>1, <1>9, EndOfBodyBreaks
<1>10. QED
  BY <1>2, <1>3, <1>4, <1>5, <1>6, <1>7, <1>8, <1>9 DEF Parse

\* A function without code has no brk.
LEMMA BreakInit == Init => BreakInv
<1> SUFFICES ASSUME Init PROVE BreakInv
  OBVIOUS
<1>1. Len(open) = 0 /\ Len(code) = 0
  BY DEF Init, ParseInit
<1>2. \A i : i \notin Brks(code)
  BY <1>1 DEF Brks
<1>3. /\ CountInv(code, branch) /\ StrictInv(code, branch) /\ LevelsInv(code, open)
      /\ GoesOnInv(code, branch, open)
  BY <1>2 DEF CountInv, StrictInv, LevelsInv, GoesOnInv
<1>4. FamilyInv(open, family.return)
  BY <1>1 DEF FamilyInv
<1>5. QED
  BY <1>3, <1>4 DEF BreakInv, BrkInv

\* Every step keeps the invariant of the breaks.
LEMMA BreakNext ==
  ASSUME SingleBrksWithReturn, BranchInv, BreakInv, [Next]_vars
  PROVE  BreakInv'
<1>1. CASE UNCHANGED <<family, open, branch, code>>
  BY <1>1 DEF BreakInv
<1>2. CASE Call
  BY <1>2, ParseBreaks DEF Call, BranchInv
<1>3. CASE UNCHANGED vars
  <2>1. UNCHANGED parseVars
    BY <1>3 DEF vars
  <2>2. QED
    BY <1>1, <2>1 DEF parseVars
<1>4. CASE ~Call /\ Next
  <2>1. UNCHANGED parseVars
    BY <1>4 DEF Next, RunDecl, EnterIf, EnterRepeat, EnterWhile, Entering, Cond, RunBrk, EndIf,
                EndWhile, EndRepeat, EndFor, EndForElse, HandleReturn
  <2>2. QED
    BY <1>1, <2>1 DEF parseVars
<1>5. QED
  BY <1>2, <1>3, <1>4

\* A brk that is taken leaves the statements from its branch on, and those only.
LEMMA StatementsLeft ==
  ASSUME Compiled, Running, StrictInv(code, branch), Here.op = "brk",
         ~branch[Here.branch].elif, NEW q, q = branch[Here.branch].merge_at
  PROVE  Statements(pc) \ Statements(q) = StatementsFrom(branch, Here.branch, pc)
<1> DEFINE c == Here.branch
<1>1. /\ Structured(code, branch, open) /\ branch \in Seq(Branches) /\ Len(branch) \in Nat
      /\ pc \in 1 .. Len(code) /\ Here = code[pc]
  BY DEF Compiled, Structured, Running, Here
<1>2. pc \in Brks(code)
  BY <1>1 DEF Brks
<1>3. /\ c \in 1 .. Len(branch) /\ c \in Nat /\ branch[c].start < pc /\ pc < q
      /\ branch[c].start \in Nat /\ q \in Nat /\ pc \in Nat
  <2>1. branch[c].merge_at > 0
    BY <1>1, <1>2, BrkFacts DEF Compiled
  <2>2. QED
    BY <1>1, <1>2, <2>1, BrkFacts
<1>4. \A b \in 1 .. Len(branch) :
        branch[b].start \in Nat /\ branch[b].merge_at \in Nat /\ branch[b].merge_at > 0
  BY <1>1, BranchFacts DEF Compiled
<1> HIDE DEF c
\* Those around it go on,
<1>5. ASSUME NEW b \in 1 .. Len(branch), b < c, pc < branch[b].merge_at
      PROVE  branch[b].start < q /\ q < branch[b].merge_at
  <2>1. Enclosed(code, branch, pc, b)
    BY <1>2 DEF StrictInv
  <2>2. q < branch[b].merge_at
    BY <1>1, <1>4, <1>5, <2>1 DEF Enclosed, c
  <2>3. branch[b].start < branch[c].start
    BY <1>3, <1>5 DEF Compiled, Structured, NestInv
  <2>4. QED
    BY <1>3, <1>4, <2>2, <2>3
\* and those in it end with it.
<1>6. ASSUME NEW b \in 1 .. Len(branch), c <= b, branch[b].start < pc, pc < branch[b].merge_at
      PROVE  ~(q < branch[b].merge_at)
  <2>1. CASE b = c
    BY <1>3, <2>1 DEF c
  <2>2. CASE b # c
    <3>1. c < b
      BY <1>3, <1>6, <2>2
    <3>2. branch[c].start < branch[b].start /\ Nested(branch[c], branch[b])
      BY <1>3, <3>1 DEF Compiled, Structured, NestInv
    <3>3. q = branch[c].merge_at /\ branch[c].merge_at > 0
      BY <1>3, <1>4 DEF c
    <3>4. ~(q <= branch[b].start)
      BY <1>3, <1>4, <1>6
    <3>5. branch[b].merge_at <= q
      BY <3>2, <3>3, <3>4 DEF Nested
    <3>6. QED
      BY <1>3, <1>4, <3>5
  <2>3. QED
    BY <2>1, <2>2
\* The branch of the brk begins before it, as does every branch it is in.
<1>7. \A b \in 1 .. Len(branch) : branch[b].start = pc => FALSE
  <2> TAKE b \in 1 .. Len(branch)
  <2>1. code[branch[b].start].op = "enter"
    BY <1>1 DEF Structured, PlacesInv
  <2>2. code[pc].op # "enter"
    BY <1>1
  <2>3. QED
    BY <2>1, <2>2
<1>8. \A b \in 1 .. Len(branch) :
        (b \in Statements(pc) /\ b \notin Statements(q)) <=>
        (b \in StatementsFrom(branch, c, pc))
  <2> TAKE b \in 1 .. Len(branch)
  <2>1. b \in Statements(pc) <=>
          ~branch[b].elif /\ branch[b].start <= pc /\ pc < branch[b].merge_at
    BY DEF Statements
  <2>2. b \in Statements(q) <=>
          ~branch[b].elif /\ branch[b].start <= q /\ q < branch[b].merge_at
    BY DEF Statements
  <2>3. b \in StatementsFrom(branch, c, pc) <=>
          c <= b /\ ~branch[b].elif /\ branch[b].start < pc /\ pc < branch[b].merge_at
    BY <1>4 DEF StatementsFrom
  <2>4. branch[b].start <= pc <=> branch[b].start < pc
    BY <1>3, <1>4, <1>7
  <2>5. CASE b < c
    <3>1. ~(c <= b)
      BY <1>3, <2>5
    <3>2. pc < branch[b].merge_at => branch[b].start <= q /\ q < branch[b].merge_at
      BY <1>3, <1>4, <1>5, <2>5
    <3>3. QED
      BY <2>1, <2>2, <2>3, <3>1, <3>2
  <2>6. CASE c <= b
    <3>1. branch[b].start < pc /\ pc < branch[b].merge_at => ~(q < branch[b].merge_at)
      BY <1>6, <2>6
    <3>2. QED
      BY <2>1, <2>2, <2>3, <2>4, <2>6, <3>1
  <2>7. QED
    BY <1>3, <2>5, <2>6
<1>9. /\ Statements(pc) \subseteq 1 .. Len(branch)
      /\ StatementsFrom(branch, c, pc) \subseteq 1 .. Len(branch)
  BY DEF Statements, StatementsFrom
<1>10. Statements(pc) \ Statements(q) = StatementsFrom(branch, c, pc)
  BY <1>8, <1>9
<1>11. QED
  BY <1>10 DEF c

\* A brk repeated n times leaves n statements, in every function in which a brk
\* of several levels and a return do not meet (syntax_nesting and get_merge_bb).
THEOREM BreaksLeave ==
  ASSUME SingleBrksWithReturn
  PROVE  Spec => BreakLeaves
<1>1. Init => BreakInv
  BY BreakInit
<1>2. BranchInv /\ BreakInv /\ [Next]_vars => BreakInv'
  BY BreakNext
<1>3. BranchInv /\ BreakInv /\ [Next]_vars =>
        [At("brk") /\ pc' # pc + 1 =>
           Cardinality(Statements(pc) \ Statements(pc')) = Here.levels]_vars
  <2> SUFFICES ASSUME BranchInv, BreakInv, Next, At("brk"), pc' # pc + 1
               PROVE  Cardinality(Statements(pc) \ Statements(pc')) = Here.levels
    OBVIOUS
  <2>1. Running /\ Here.op = "brk" /\ Here = code[pc] /\ parse = "done"
    BY DEF At, Running, Here
  <2>2. pc' = branch[Here.branch].merge_at
    BY <2>1 DEF Next, Call, RunDecl, EnterIf, EnterRepeat, EnterWhile, Entering, Cond, RunBrk,
                EndIf, EndWhile, EndRepeat, EndFor, EndForElse, HandleReturn, At, Here, B
  <2>3. Compiled
    BY <2>1, DoneCompiled DEF BranchInv
  <2>4. pc \in Brks(code)
    BY <2>1, <2>3 DEF Brks, Running, Compiled, Structured
  <2>5. /\ ~branch[Here.branch].elif /\ StrictInv(code, branch)
        /\ Cardinality(StatementsFrom(branch, Here.branch, pc)) = Here.levels
    BY <2>1, <2>4 DEF BreakInv, BrkInv, CountInv, Counted
  <2>6. Statements(pc) \ Statements(pc') = StatementsFrom(branch, Here.branch, pc)
    BY <2>1, <2>2, <2>3, <2>5, StatementsLeft
  <2>7. QED
    BY <2>5, <2>6
<1>4. QED
  BY <1>1, <1>2, <1>3, BranchInvHolds, PTL DEF Spec, BreakLeaves
-----------------------------------------------------------------------------
(* What is in scope where control arrives.                                 *)

Leaving == {"brk", "endthen", "endelse"}
Single(cd) == \A i \in 1 .. Len(cd) : cd[i].levels <= 1

\* The storage of some variables.
Pieces(objs) == {v[2] : v \in objs}

\* The part of them that a branch merges.
Kept(objs, r) == {v \in objs : v[1] \in r.merged_vars}

\* The storage in the k outermost scopes.
UpTo(ts, k) == UNION {Storage(ts[i]) : i \in 1 .. k}

\* What is in scope around branch b.
Around(cd, br, b) == cd[br[b].start].scope

\* Control may arrive at p, with S in scope. Behind the code that is where the
\* next instruction will be, unless nothing leads there (dead).
Finds(cd, ts, dead, p, S) ==
  \/ p \in 1 .. Len(cd) /\ cd[p].scope = S
  \/ p = Len(cd) + 1 /\ ~dead /\ InScope(ts) = S

InstructionInv(cd, br, ts, dead, i) ==
  LET x == cd[i]
      S == Pieces(x.objs)
  IN /\ x.op = "decl" => S \cap x.scope = {} /\ Finds(cd, ts, dead, i + 1, x.scope \cup S)
     /\ x.op = "brk" => Finds(cd, ts, dead, i + 1, x.scope)
     /\ x.op = "return" => S = x.scope
     /\ x.op \in Leaving =>
          /\ x.scope = Around(cd, br, x.branch) \cup S
          /\ S \cap Around(cd, br, x.branch) = {}
          /\ \A v, w \in x.objs : v[1] = w[1] <=> v[2] = w[2]

MergeInv(cd, br, ts, dead, i) ==
  LET x == cd[i]
      r == br[x.branch]
  IN x.op \in Leaving /\ r.merge_at > 0 =>
       Finds(cd, ts, dead, r.merge_at, Around(cd, br, x.branch) \cup Pieces(Kept(x.objs, r)))

PlaceInv(cd, br, ts, dead, b) ==
  LET r == br[b]
      S == Around(cd, br, b)
  IN /\ Finds(cd, ts, dead, BodyOf(r), S)
     /\ r.kind \in {"while", "foreach"} => Finds(cd, ts, dead, r.start + 1, S)
     /\ r.else_at > 0 => Finds(cd, ts, dead, r.else_at, S)
     /\ r.merge_at > 0 /\ r.else_at = 0 /\ r.kind # "repeat" =>
          Finds(cd, ts, dead, r.merge_at, S)
     /\ r.vars \cap S = {}

FlowInv(cd, br, ts, dead) ==
  /\ \A i \in 1 .. Len(cd) : InstructionInv(cd, br, ts, dead, i) /\ MergeInv(cd, br, ts, dead, i)
  /\ \A b \in 1 .. Len(br) : PlaceInv(cd, br, ts, dead, b)

\* What was ever declared: each piece of storage is one name's.
Given(cd) == UNION {cd[i].objs : i \in {j \in 1 .. Len(cd) : cd[j].op = "decl"}}

\* No two scopes have a name in common.
DeclaredInv(cd, op, ts, n) ==
  /\ \A v, w \in Given(cd) : v[2] = w[2] => v[1] = w[1]
  /\ \A v \in Given(cd) : v[2] <= n
  /\ \A i \in 1 .. Len(ts) : Variables(ts[i]) \subseteq Given(cd)
  /\ \A k \in 1 .. Len(op) : Variables(op[k].then_vars) \subseteq Given(cd)
  /\ \A i, j \in 1 .. Len(ts) : i # j => DOMAIN ts[i] \cap DOMAIN ts[j] = {}

\* Branch j is the innermost of the k outermost ones whose second part is parsed.
Governs(op, j, k) ==
  /\ j \in 1 .. k /\ op[j].part = "else"
  /\ \A m \in j + 1 .. k : op[m].part = "then"

SameSlots(t, u) == \A n \in DOMAIN t \cap DOMAIN u : t[n].slot = u[n].slot

\* A name has the storage it has in the first part.
SlotInv(op, ts) ==
  \A k \in 1 .. Len(op), j \in 1 .. Len(op) :
    /\ Governs(op, j, k) => SameSlots(ts[k + 1], op[j].then_vars)
    /\ Governs(op, j, k - 1) /\ op[k].part = "else" =>
         SameSlots(op[k].then_vars, op[j].then_vars)

AroundInv(cd, br, op, ts) ==
  \A k \in 1 .. Len(op) : Around(cd, br, op[k].branch) = UpTo(ts, k)

\* The part of the k-th open branch that instruction i is in, and its names.
PartStart(br, o) == IF o.part = "then" THEN br[o.branch].start ELSE br[o.branch].else_at
PartOf(br, op, ts, k, i) ==
  IF op[k].part = "else" /\ i < br[op[k].branch].else_at THEN op[k].then_vars ELSE ts[k + 1]

\* Instruction i leads out of the k-th open branch.
LeadsOut(cd, br, op, k, i) ==
  /\ cd[i].op \in Leaving
  /\ cd[i].branch <= op[k].branch /\ br[op[k].branch].start < i

\* What is declared before the first brk is declared at each way out.
FirstInv(cd, br, op, ts) ==
  \A k \in 1 .. Len(op), i \in 1 .. Len(cd) :
    LeadsOut(cd, br, op, k, i) =>
      LET t == PartOf(br, op, ts, k, i)
      IN \A n \in DOMAIN t : t[n].part = 0 => <<n, t[n].slot>> \in cd[i].objs

\* An elif is all there is in its part. What the parser notes of a part.
ElifInv(br, op, ts) ==
  \A k \in 1 .. Len(op) :
    /\ op[k].elif =>
         /\ op[k].kind = "if" /\ k > 1 /\ op[k - 1].part = "else"
         /\ br[op[k - 1].branch].else_at = br[op[k].branch].start
         /\ DOMAIN ts[k] = {}
    /\ op[k].kind \in Loops => ~op[k].then_returned
    /\ op[k].kind = "repeat" => op[k].part = "then"

NoBrkInv(cd, br, op, body) ==
  \A k \in 1 .. Len(op), i \in 1 .. Len(cd) :
    LeadsOut(cd, br, op, k, i) /\ PartStart(br, op[k]) <= i /\ op[k].brk_part = 0 =>
      IF k < Len(op) THEN op[k + 1].elif ELSE ~body

\* Only the ways out of an elif lead out of another branch, too.
OutInv(cd, br) ==
  \A c \in 1 .. Len(br), i \in 1 .. Len(cd) :
    /\ ~br[c].elif /\ cd[i].op \in Leaving
    /\ br[c].start < i /\ (br[c].merge_at > 0 => i < br[c].merge_at)
    => c <= cd[i].branch

\* What leads to the merge point of an open branch: the end of a part that has not
\* returned, when the part is parsed (over: also the innermost one), and brk,
\* which is noted.
EndInv(cd, op, over) ==
  \A k \in 1 .. Len(op), i \in 1 .. Len(cd) :
    cd[i].op \in Leaving /\ cd[i].branch = op[k].branch =>
      /\ cd[i].op = "endelse" => over /\ k = Len(op) /\ op[k].part = "else" /\ ~op[k].returned
      /\ cd[i].op = "endthen" =>
           \/ op[k].part = "else" /\ ~op[k].then_returned
           \/ over /\ k = Len(op) /\ op[k].part = "then" /\ ~op[k].returned
      /\ cd[i].op = "brk" =>
           /\ ~op[k].elif
           /\ \E j \in k .. Len(op) :
                /\ op[j].max_brk_level >= j - k + 1
                /\ \A m \in k + 1 .. j : op[m].elif

Dead == IF Depth > 0 THEN Top.returned ELSE ended

ScopeFacts(cd, br, op, ts, n, dead, body) ==
  /\ FlowInv(cd, br, ts, dead)
  /\ DeclaredInv(cd, op, ts, n)
  /\ SlotInv(op, ts)
  /\ AroundInv(cd, br, op, ts)
  /\ FirstInv(cd, br, op, ts)
  /\ ElifInv(br, op, ts)
  /\ NoBrkInv(cd, br, op, body)
  /\ OutInv(cd, br)

ScopeInv ==
  Single(code) =>
    /\ ScopeFacts(code, branch, open, locals_table, slots, Dead, parse = "body")
    /\ EndInv(code, open, FALSE)
    /\ parse = "close" => Depth > 0 /\ Top.part = "else"

\* The objects alive.
AliveInv ==
  /\ parse # "done" => alive = {} /\ twice = {} /\ lost = {} /\ pc = 0
  /\ Single(code) /\ Running =>
       /\ Here.scope \subseteq alive
       /\ NoLoops => alive = Here.scope
       /\ Here.op = "cond" /\ mustsave[Here.branch] = 0 =>
            LET p == B.merge_at IN p <= Len(code) => code[p].scope \subseteq alive
  /\ Single(code) /\ NoLoops => twice = {} /\ lost = {}

-----------------------------------------------------------------------------
(* Scopes and their storage.                                               *)

\* A set of variables and their storage.
LEMMA PiecesOf == \A t : Pieces(Variables(t)) = Storage(t)
<1> TAKE t
<1>1. ASSUME NEW s \in Storage(t) PROVE s \in Pieces(Variables(t))
  <2>1. PICK n \in DOMAIN t : s = t[n].slot
    BY DEF Storage
  <2>2. <<n, s>> \in Variables(t) /\ <<n, s>>[2] = s
    BY <2>1 DEF Variables
  <2>3. QED
    BY <2>2 DEF Pieces
<1>2. ASSUME NEW s \in Pieces(Variables(t)) PROVE s \in Storage(t)
  <2>1. PICK v \in Variables(t) : s = v[2]
    BY DEF Pieces
  <2>2. PICK n \in DOMAIN t : v = <<n, t[n].slot>>
    BY DEF Variables
  <2>3. QED
    BY <2>1, <2>2 DEF Storage
<1>3. QED
  BY <1>1, <1>2

\* All scopes, and the ones around the innermost of some.
LEMMA UpToFacts ==
  ASSUME NEW ts \in Seq(Tables)
  PROVE  /\ InScope(ts) = UpTo(ts, Len(ts))
         /\ \A k \in Nat : UpTo(ts, k + 1) = UpTo(ts, k) \cup Storage(ts[k + 1])
<1>1. InScope(ts) = UpTo(ts, Len(ts))
  BY DEF InScope, UpTo
<1>2. ASSUME NEW k \in Nat
      PROVE  UpTo(ts, k + 1) = UpTo(ts, k) \cup Storage(ts[k + 1])
  <2>1. 1 .. k + 1 = (1 .. k) \cup {k + 1}
    OBVIOUS
  <2>2. QED
    BY <2>1 DEF UpTo
<1>3. QED
  BY <1>1, <1>2

\* The outer scopes of two lists of scopes that begin alike.
LEMMA UpToSame ==
  ASSUME NEW ts, NEW us, NEW k \in Nat, \A i \in 1 .. k : us[i] = ts[i]
  PROVE  UpTo(us, k) = UpTo(ts, k)
BY DEF UpTo

\* The innermost scope is left out.
LEMMA UpToFront ==
  ASSUME NEW ts \in Seq(Tables), NEW k \in 0 .. Len(ts)
  PROVE  InScope(SubSeq(ts, 1, k)) = UpTo(ts, k)
<1> DEFINE us == SubSeq(ts, 1, k)
<1>1. us \in Seq(Tables) /\ Len(us) = k /\ k \in Nat
  OBVIOUS
<1>2. \A i \in 1 .. k : us[i] = ts[i]
  OBVIOUS
<1> HIDE DEF us
<1>3. UpTo(us, k) = UpTo(ts, k)
  BY <1>1, <1>2, UpToSame
<1>4. InScope(us) = UpTo(us, Len(us))
  BY <1>1, UpToFacts
<1>5. QED
  BY <1>1, <1>3, <1>4 DEF us

\* A new scope has nothing in it.
LEMMA ScopeOpened ==
  ASSUME NEW ts \in Seq(Tables)
  PROVE  /\ Append(ts, NoVars) \in Seq(Tables) /\ InScope(Append(ts, NoVars)) = InScope(ts)
         /\ \A k \in 0 .. Len(ts) : UpTo(Append(ts, NoVars), k) = UpTo(ts, k)
<1> DEFINE us == Append(ts, NoVars)
<1>1. us \in Seq(Tables) /\ Len(us) = Len(ts) + 1 /\ us[Len(ts) + 1] = NoVars
      /\ \A i \in 1 .. Len(ts) : us[i] = ts[i]
  BY NoVarsFacts
<1>2. Len(ts) \in Nat
  OBVIOUS
<1> HIDE DEF us
<1>3. \A k \in 0 .. Len(ts) : UpTo(us, k) = UpTo(ts, k)
  <2> TAKE k \in 0 .. Len(ts)
  <2>1. k \in Nat /\ \A i \in 1 .. k : us[i] = ts[i]
    BY <1>1, <1>2
  <2>2. QED
    BY <2>1, UpToSame
<1>4. Storage(NoVars) = {}
  BY NoVarsFacts DEF Storage
<1>5. UpTo(us, Len(ts) + 1) = UpTo(us, Len(ts)) \cup Storage(us[Len(ts) + 1])
  BY <1>1, <1>2, UpToFacts
<1>6. InScope(us) = UpTo(us, Len(us)) /\ InScope(ts) = UpTo(ts, Len(ts))
  BY <1>1, UpToFacts
<1>7. Len(ts) \in 0 .. Len(ts)
  BY <1>2
<1>8. InScope(us) = InScope(ts)
  BY <1>1, <1>3, <1>4, <1>5, <1>6, <1>7
<1>9. QED
  BY <1>1, <1>3, <1>8 DEF us

\* What a way out of the d innermost scopes destroys is what is in scope but
\* for what is in the scopes around them.
LEMMA DestructScope ==
  ASSUME locals_table \in Seq(Tables), NEW d \in 0 .. Len(locals_table)
  PROVE  /\ InScope(locals_table) =
              UpTo(locals_table, Len(locals_table) - d) \cup Pieces(get_destruct_vars(d))
         /\ \A i \in Len(locals_table) - d + 1 .. Len(locals_table) :
              Variables(locals_table[i]) \subseteq get_destruct_vars(d)
         /\ \A v \in get_destruct_vars(d) :
              \E i \in Len(locals_table) - d + 1 .. Len(locals_table) :
                v \in Variables(locals_table[i])
<1> DEFINE ts == locals_table
           n == Len(ts)
           T(i) == Storage(ts[i])
<1>1. n \in Nat
  OBVIOUS
<1>2. 1 .. n = (1 .. n - d) \cup (n - d + 1 .. n)
  BY <1>1
<1>3. InScope(ts) = UNION {T(i) : i \in 1 .. n}
  BY DEF InScope
<1>4. UpTo(ts, n - d) = UNION {T(i) : i \in 1 .. n - d}
  BY DEF UpTo
<1>5. Pieces(get_destruct_vars(d)) = UNION {T(i) : i \in n - d + 1 .. n}
  <2>1. get_destruct_vars(d) = UNION {Variables(ts[i]) : i \in n - d + 1 .. n}
    BY DEF get_destruct_vars
  <2>2. Pieces(UNION {Variables(ts[i]) : i \in n - d + 1 .. n})
          = UNION {Pieces(Variables(ts[i])) : i \in n - d + 1 .. n}
    BY DEF Pieces
  <2>3. QED
    BY <2>1, <2>2, PiecesOf
<1>6. InScope(ts) = UpTo(ts, n - d) \cup Pieces(get_destruct_vars(d))
  BY <1>2, <1>3, <1>4, <1>5
<1>7. QED
  BY <1>6 DEF get_destruct_vars

\* Different names, different storage: scopes share neither.
LEMMA ScopesApart ==
  ASSUME NEW cd, NEW op, NEW n, NEW ts \in Seq(Tables), DeclaredInv(cd, op, ts, n),
         NEW i \in 1 .. Len(ts), NEW j \in 1 .. Len(ts),
         NEW v \in Variables(ts[i]), NEW w \in Variables(ts[j]), v[1] = w[1] \/ v[2] = w[2]
  PROVE  v = w
<1>1. v \in Given(cd) /\ w \in Given(cd)
  BY DEF DeclaredInv
<1>2. v[1] = w[1]
  BY <1>1 DEF DeclaredInv
<1>3. /\ v = <<v[1], ts[i][v[1]].slot>> /\ v[1] \in DOMAIN ts[i]
      /\ w = <<w[1], ts[j][w[1]].slot>> /\ w[1] \in DOMAIN ts[j]
  BY DEF Variables
<1>4. i = j
  BY <1>2, <1>3 DEF DeclaredInv
<1>5. QED
  BY <1>2, <1>3, <1>4

\* What a way out destroys is nothing of the scopes it leads to.
LEMMA DestructApart ==
  ASSUME NEW cd, NEW op, NEW n, locals_table \in Seq(Tables),
         DeclaredInv(cd, op, locals_table, n), NEW d \in 0 .. Len(locals_table)
  PROVE  /\ Pieces(get_destruct_vars(d)) \cap UpTo(locals_table, Len(locals_table) - d) = {}
         /\ \A v, w \in get_destruct_vars(d) : v[1] = w[1] <=> v[2] = w[2]
<1> DEFINE ts == locals_table
           m == Len(ts)
<1>1. m \in Nat
  OBVIOUS
<1>2. \A v \in get_destruct_vars(d) : \E i \in m - d + 1 .. m : v \in Variables(ts[i])
  BY DestructScope
<1>3. \A i \in m - d + 1 .. m : i \in 1 .. m
  BY <1>1
<1>4. \A i \in 1 .. m - d : i \in 1 .. m /\ ~(i \in m - d + 1 .. m)
  BY <1>1
<1>5. \A v, w \in get_destruct_vars(d) : v[1] = w[1] <=> v[2] = w[2]
  <2> TAKE v, w \in get_destruct_vars(d)
  <2>1. PICK i \in m - d + 1 .. m : v \in Variables(ts[i])
    BY <1>2
  <2>2. PICK j \in m - d + 1 .. m : w \in Variables(ts[j])
    BY <1>2
  <2>3. i \in 1 .. m /\ j \in 1 .. m
    BY <1>3
  <2>4. v[1] = w[1] \/ v[2] = w[2] => v = w
    BY <2>1, <2>2, <2>3, ScopesApart
  <2>5. QED
    BY <2>4
<1>6. ASSUME NEW s \in Pieces(get_destruct_vars(d)), s \in UpTo(ts, m - d) PROVE FALSE
  <2>1. PICK v \in get_destruct_vars(d) : v[2] = s
    BY <1>6 DEF Pieces
  <2>2. PICK i \in m - d + 1 .. m : v \in Variables(ts[i])
    BY <1>2
  <2>3. PICK j \in 1 .. m - d : s \in Storage(ts[j])
    BY <1>6 DEF UpTo
  <2>4. PICK w \in Variables(ts[j]) : w[2] = s
    BY <2>3, PiecesOf DEF Pieces
  <2>5. i \in 1 .. m /\ j \in 1 .. m /\ i # j
    BY <1>3, <1>4
  <2>6. v = w
    BY <2>1, <2>2, <2>4, <2>5, ScopesApart
  <2>7. v[1] \in DOMAIN ts[i] /\ w[1] \in DOMAIN ts[j]
    BY <2>2, <2>4 DEF Variables
  <2>8. QED
    BY <2>5, <2>6, <2>7 DEF DeclaredInv
<1>7. QED
  BY <1>5, <1>6

-----------------------------------------------------------------------------
(* The code grows.                                                         *)

\* Code that goes on where the code so far ends: what led there finds what was
\* in scope.
Continues(cd, ts, dead, cd2) ==
  /\ cd \in Seq(Instructions) /\ cd2 \in Seq(Instructions) /\ Len(cd) <= Len(cd2)
  /\ \A i \in 1 .. Len(cd) : cd2[i] = cd[i]
  /\ dead \/ (Len(cd) < Len(cd2) /\ cd2[Len(cd) + 1].scope = InScope(ts))

\* What control finds at a place stays as it is.
LEMMA FindsKept ==
  ASSUME NEW cd, NEW ts, NEW dead, NEW cd2, Continues(cd, ts, dead, cd2),
         NEW ts2, NEW dead2, NEW p, NEW S, Finds(cd, ts, dead, p, S)
  PROVE  Finds(cd2, ts2, dead2, p, S)
<1>1. Len(cd) \in Nat /\ Len(cd2) \in Nat
  BY DEF Continues
<1>2. CASE p \in 1 .. Len(cd) /\ cd[p].scope = S
  BY <1>1, <1>2 DEF Continues, Finds
<1>3. CASE p = Len(cd) + 1 /\ ~dead /\ InScope(ts) = S
  <2>1. p \in 1 .. Len(cd2) /\ cd2[p].scope = S
    BY <1>1, <1>3 DEF Continues
  <2>2. QED
    BY <2>1 DEF Finds
<1>4. QED
  BY <1>2, <1>3 DEF Finds

\* What is around a branch is fixed where it begins.
LEMMA AroundKept ==
  ASSUME NEW cd, NEW ts, NEW dead, NEW cd2, Continues(cd, ts, dead, cd2),
         NEW br, NEW br2, PlacesInv(cd, br), br \in Seq(Branches),
         NEW b \in 1 .. Len(br), br2[b].start = br[b].start
  PROVE  Around(cd2, br2, b) = Around(cd, br, b)
<1>1. br[b].start \in Nat /\ BodyOf(br[b]) \in Nat /\ br[b].start < BodyOf(br[b])
  BY BranchFacts
<1>2. br[b].start >= 1 /\ BodyOf(br[b]) <= Len(cd) + 1 /\ Len(cd) \in Nat
  BY DEF PlacesInv, Continues
<1>3. br[b].start \in 1 .. Len(cd)
  BY <1>1, <1>2
<1>4. QED
  BY <1>3 DEF Around, Continues

\* The branch of a way out.
LEMMA LeavingBranch ==
  ASSUME NEW cd, NEW br, CodeInv(cd, br), NEW i \in 1 .. Len(cd), cd[i].op \in Leaving
  PROVE  cd[i].branch \in 1 .. Len(br)
BY DEF CodeInv, Leaving

\* The other branches stay as they are.
OthersSame(br, br2, c) ==
  /\ br \in Seq(Branches) /\ br2 \in Seq(Branches) /\ Len(br) <= Len(br2)
  /\ \A b \in 1 .. Len(br) : br2[b].start = br[b].start /\ (b # c => br2[b] = br[b])

\* The code goes on, a branch c ends or is split, another one may begin.
LEMMA FlowKept ==
  ASSUME NEW cd, NEW br, NEW op, NEW ts, NEW dead, Structured(cd, br, op),
         FlowInv(cd, br, ts, dead),
         NEW cd2, NEW br2, NEW ts2, NEW dead2, NEW c,
         Continues(cd, ts, dead, cd2), OthersSame(br, br2, c),
         \A i \in Len(cd) + 1 .. Len(cd2) : InstructionInv(cd2, br2, ts2, dead2, i),
         \A i \in 1 .. Len(cd2) :
           i > Len(cd) \/ cd2[i].branch = c => MergeInv(cd2, br2, ts2, dead2, i),
         \A b \in 1 .. Len(br2) : b > Len(br) \/ b = c => PlaceInv(cd2, br2, ts2, dead2, b)
  PROVE  FlowInv(cd2, br2, ts2, dead2)
<1>1. /\ PlacesInv(cd, br) /\ CodeInv(cd, br) /\ br \in Seq(Branches)
  BY DEF Structured
<1>2. Len(cd) \in Nat /\ Len(cd2) \in Nat /\ Len(br) \in Nat /\ Len(br2) \in Nat
      /\ Len(br) <= Len(br2) /\ Len(cd) <= Len(cd2)
      /\ \A i \in 1 .. Len(cd) : cd2[i] = cd[i]
  BY DEF Continues, OthersSame
<1>3. \A b \in 1 .. Len(br) : Around(cd2, br2, b) = Around(cd, br, b)
  BY <1>1, AroundKept DEF OthersSame
<1>4. \A p, S : Finds(cd, ts, dead, p, S) => Finds(cd2, ts2, dead2, p, S)
  BY FindsKept
<1>5. ASSUME NEW i \in 1 .. Len(cd2) PROVE InstructionInv(cd2, br2, ts2, dead2, i)
  <2>1. CASE i \in 1 .. Len(cd)
    <3>1. InstructionInv(cd, br, ts, dead, i) /\ cd2[i] = cd[i]
      BY <1>2, <2>1 DEF FlowInv
    <3>2. cd[i].op \in Leaving => Around(cd2, br2, cd[i].branch) = Around(cd, br, cd[i].branch)
      BY <1>1, <1>3, <2>1, LeavingBranch
    <3>3. QED
      BY <1>4, <3>1, <3>2 DEF InstructionInv
  <2>2. CASE i \notin 1 .. Len(cd)
    <3>1. i \in Len(cd) + 1 .. Len(cd2)
      BY <1>2, <2>2
    <3>2. QED
      BY <3>1
  <2>3. QED
    BY <2>1, <2>2
<1>6. ASSUME NEW i \in 1 .. Len(cd2) PROVE MergeInv(cd2, br2, ts2, dead2, i)
  <2>1. CASE i \in 1 .. Len(cd) /\ cd2[i].branch # c
    <3>1. MergeInv(cd, br, ts, dead, i) /\ cd2[i] = cd[i]
      BY <1>2, <2>1 DEF FlowInv
    <3>2. cd[i].op \in Leaving =>
            /\ Around(cd2, br2, cd[i].branch) = Around(cd, br, cd[i].branch)
            /\ br2[cd[i].branch] = br[cd[i].branch]
      BY <1>1, <1>3, <2>1, <3>1, LeavingBranch DEF OthersSame
    <3>3. QED
      BY <1>4, <3>1, <3>2 DEF MergeInv
  <2>2. CASE ~(i \in 1 .. Len(cd) /\ cd2[i].branch # c)
    <3>1. i > Len(cd) \/ cd2[i].branch = c
      BY <1>2, <2>2
    <3>2. QED
      BY <3>1
  <2>3. QED
    BY <2>1, <2>2
<1>7. ASSUME NEW b \in 1 .. Len(br2) PROVE PlaceInv(cd2, br2, ts2, dead2, b)
  <2>1. CASE b \in 1 .. Len(br) /\ b # c
    <3>1. PlaceInv(cd, br, ts, dead, b) /\ br2[b] = br[b]
      BY <2>1 DEF FlowInv, OthersSame
    <3>2. Around(cd2, br2, b) = Around(cd, br, b)
      BY <1>3, <2>1
    <3>3. QED
      BY <1>4, <3>1, <3>2 DEF PlaceInv
  <2>2. CASE ~(b \in 1 .. Len(br) /\ b # c)
    <3>1. b > Len(br) \/ b = c
      BY <1>2, <2>2
    <3>2. QED
      BY <3>1
  <2>3. QED
    BY <2>1, <2>2
<1>8. QED
  BY <1>5, <1>6, <1>7 DEF FlowInv

-----------------------------------------------------------------------------
(* An instruction is added.                                                *)

\* The parser notes something of the parts it is in.
SameParts(op, op2) ==
  /\ Len(op2) = Len(op)
  /\ \A k \in 1 .. Len(op) :
       /\ op2[k].branch = op[k].branch /\ op2[k].kind = op[k].kind /\ op2[k].elif = op[k].elif
       /\ op2[k].part = op[k].part /\ op2[k].then_vars = op[k].then_vars
       /\ op2[k].then_returned = op[k].then_returned
       /\ op2[k].brk_part = 0 => op[k].brk_part = 0

\* What is asked of the instruction added to cd, which is not a declaration.
Extends(cd, br, op, ts, dead, body) ==
  LET i == Len(cd)
      x == cd[i]
  IN /\ x.op # "decl" /\ x.scope = InScope(ts)
     /\ x.op \in Leaving => \E k \in 1 .. Len(op) : x.branch = op[k].branch
     /\ InstructionInv(cd, br, ts, dead, i)
     /\ \A k \in 1 .. Len(op) :
          LeadsOut(cd, br, op, k, i) =>
            /\ Variables(ts[k + 1]) \subseteq x.objs
            /\ op[k].brk_part = 0 => IF k < Len(op) THEN op[k + 1].elif ELSE ~body
     /\ \A c \in 1 .. Len(br) : OutInv(cd, br)!(c, i)

\* The last instruction is new.
Longer1(cd, cd2) ==
  /\ cd \in Seq(Instructions) /\ cd2 \in Seq(Instructions) /\ Len(cd2) = Len(cd) + 1
  /\ \A i \in 1 .. Len(cd) : cd2[i] = cd[i]

\* An instruction that does not declare anything leaves what was declared.
LEMMA GivenSame ==
  ASSUME NEW cd, NEW cd2, Longer1(cd, cd2), cd2[Len(cd2)].op # "decl"
  PROVE  Given(cd2) = Given(cd)
<1>1. Len(cd) \in Nat /\ Len(cd2) = Len(cd) + 1
  BY DEF Longer1
<1>2. {j \in 1 .. Len(cd2) : cd2[j].op = "decl"} = {j \in 1 .. Len(cd) : cd[j].op = "decl"}
  BY <1>1 DEF Longer1
<1>3. QED
  BY <1>2 DEF Given, Longer1

\* The invariant of the scopes stays as it is.
LEMMA FactsExtended ==
  ASSUME NEW cd, NEW br, NEW op \in Seq(Opens), NEW ts, NEW n, NEW dead, NEW body \in BOOLEAN,
         Structured(cd, br, op), ScopeFacts(cd, br, op, ts, n, dead, body), ~dead,
         NEW cd2, Longer1(cd, cd2), NEW op2, SameParts(op, op2),
         NEW dead2, NEW body2 \in BOOLEAN, body2 => body,
         Extends(cd2, br, op2, ts, dead2, body2)
  PROVE  ScopeFacts(cd2, br, op2, ts, n, dead2, body2)
<1>1. /\ Len(cd) \in Nat /\ Len(cd2) = Len(cd) + 1 /\ Len(op) \in Nat /\ Len(op2) = Len(op)
      /\ br \in Seq(Branches) /\ PlacesInv(cd, br) /\ CodeInv(cd, br) /\ OpenInv(br, op)
  BY DEF Longer1, SameParts, Structured
<1>2. Continues(cd, ts, dead, cd2)
  BY <1>1 DEF Continues, Longer1, Extends
<1>3. \A i \in 1 .. Len(cd2) : i \in 1 .. Len(cd) \/ i = Len(cd2)
  BY <1>1
<1>4. FlowInv(cd2, br, ts, dead2)
  <2>1. OthersSame(br, br, 0)
    BY <1>1 DEF OthersSame
  <2>2. \A i \in Len(cd) + 1 .. Len(cd2) : InstructionInv(cd2, br, ts, dead2, i)
    BY <1>1 DEF Extends
  <2>3. ASSUME NEW i \in 1 .. Len(cd2), i > Len(cd) \/ cd2[i].branch = 0
        PROVE  MergeInv(cd2, br, ts, dead2, i)
    <3>1. CASE i = Len(cd2)
      <4>1. cd2[i].op \in Leaving => br[cd2[i].branch].merge_at = 0
        BY <1>1, <3>1 DEF Extends, OpenInv, SameParts
      <4>2. QED
        BY <4>1 DEF MergeInv
    <3>2. CASE i # Len(cd2)
      <4>1. i \in 1 .. Len(cd) /\ cd2[i] = cd[i] /\ cd[i].branch = 0
        BY <1>1, <1>3, <2>3, <3>2 DEF Longer1
      <4>2. cd[i].op \notin Leaving
        <5>1. cd[i].op \in Leaving => cd[i].branch \in 1 .. Len(br)
          BY <1>1, <4>1, LeavingBranch
        <5>2. QED
          BY <4>1, <5>1
      <4>3. QED
        BY <4>1, <4>2 DEF MergeInv
    <3>3. QED
      BY <3>1, <3>2
  <2>4. \A b \in 1 .. Len(br) : ~(b > Len(br) \/ b = 0)
    BY <1>1
  <2>5. FlowInv(cd, br, ts, dead)
    BY DEF ScopeFacts
  <2>6. QED
    BY <1>2, <2>1, <2>2, <2>3, <2>4, <2>5, FlowKept
<1>5. DeclaredInv(cd2, op2, ts, n)
  <2>1. Given(cd2) = Given(cd)
    BY GivenSame DEF Extends
  <2>2. DeclaredInv(cd, op, ts, n)
    BY DEF ScopeFacts
  <2>3. QED
    BY <1>1, <2>1, <2>2 DEF DeclaredInv, SameParts
<1>6. SlotInv(op2, ts)
  <2>1. SlotInv(op, ts)
    BY DEF ScopeFacts
  <2>2. ASSUME NEW j \in 1 .. Len(op), NEW k \in 0 .. Len(op) PROVE Governs(op2, j, k) => Governs(op, j, k)
    BY <1>1 DEF Governs, SameParts
  <2>3. QED
    <3> SUFFICES ASSUME NEW k \in 1 .. Len(op), NEW j \in 1 .. Len(op) PROVE SlotInv(op2, ts)!(k, j)
      BY <1>1 DEF SlotInv
    <3>1. SlotInv(op, ts)!(k, j)
      BY <2>1 DEF SlotInv
    <3>2. k \in 0 .. Len(op) /\ k - 1 \in 0 .. Len(op)
      BY <1>1
    <3>3. op2[j].then_vars = op[j].then_vars /\ op2[k].then_vars = op[k].then_vars /\ op2[k].part = op[k].part
      BY DEF SameParts
    <3>4. QED
      BY <2>2, <3>1, <3>2, <3>3
<1>7. AroundInv(cd2, br, op2, ts)
  <2>1. \A k \in 1 .. Len(op) : op[k].branch \in 1 .. Len(br) /\ op2[k].branch = op[k].branch
    BY <1>1 DEF OpenInv, SameParts
  <2>2. \A b \in 1 .. Len(br) : Around(cd2, br, b) = Around(cd, br, b)
    BY <1>1, <1>2, AroundKept
  <2>3. AroundInv(cd, br, op, ts)
    BY DEF ScopeFacts
  <2>4. QED
    BY <1>1, <2>1, <2>2, <2>3 DEF AroundInv
<1>8. ASSUME NEW k \in 1 .. Len(op), NEW i \in 1 .. Len(cd)
      PROVE  LeadsOut(cd2, br, op2, k, i) => LeadsOut(cd, br, op, k, i)
  <2>1. cd2[i] = cd[i] /\ op2[k].branch = op[k].branch
    BY DEF Longer1, SameParts
  <2>2. QED
    BY <2>1 DEF LeadsOut
<1>9. FirstInv(cd2, br, op2, ts)
  <2> SUFFICES ASSUME NEW k \in 1 .. Len(op), NEW i \in 1 .. Len(cd2),
                      LeadsOut(cd2, br, op2, k, i)
               PROVE  LET t == PartOf(br, op2, ts, k, i)
                      IN \A m \in DOMAIN t : t[m].part = 0 => <<m, t[m].slot>> \in cd2[i].objs
    BY <1>1 DEF FirstInv
  <2>1. PartOf(br, op2, ts, k, i) = PartOf(br, op, ts, k, i)
    BY DEF PartOf, SameParts
  <2>2. CASE i \in 1 .. Len(cd)
    <3>1. LeadsOut(cd, br, op, k, i) /\ cd2[i] = cd[i]
      BY <1>8, <2>2 DEF Longer1
    <3>2. FirstInv(cd, br, op, ts)
      BY DEF ScopeFacts
    <3>3. QED
      BY <2>1, <2>2, <3>1, <3>2 DEF FirstInv
  <2>3. CASE i = Len(cd2)
    <3>1. Variables(ts[k + 1]) \subseteq cd2[i].objs
      BY <1>1, <2>3 DEF Extends
    <3>2. ~(op[k].part = "else" /\ i < br[op[k].branch].else_at)
      <4>1. op[k].branch \in 1 .. Len(br)
        BY <1>1 DEF OpenInv
      <4>2. br[op[k].branch].else_at \in Nat
        BY <1>1, <4>1, BranchFacts
      <4>3. op[k].part = "else" => br[op[k].branch].else_at <= Len(cd) + 1
        BY <1>1, <4>1 DEF PlacesInv, OpenInv
      <4>4. QED
        BY <1>1, <2>3, <4>2, <4>3
    <3>3. PartOf(br, op2, ts, k, i) = ts[k + 1]
      BY <2>1, <3>2 DEF PartOf
    <3>4. QED
      BY <3>1, <3>3 DEF Variables
  <2>4. QED
    BY <1>3, <2>2, <2>3
<1>10. ElifInv(br, op2, ts)
  <2>1. ElifInv(br, op, ts)
    BY DEF ScopeFacts
  <2> SUFFICES ASSUME NEW k \in 1 .. Len(op) PROVE ElifInv(br, op2, ts)!(k)
    BY <1>1 DEF ElifInv
  <2>2. ElifInv(br, op, ts)!(k)
    BY <2>1 DEF ElifInv
  <2>3. k > 1 => k - 1 \in 1 .. Len(op)
    BY <1>1
  <2>4. QED
    BY <2>2, <2>3 DEF SameParts
<1>11. NoBrkInv(cd2, br, op2, body2)
  <2> SUFFICES ASSUME NEW k \in 1 .. Len(op), NEW i \in 1 .. Len(cd2),
                      LeadsOut(cd2, br, op2, k, i), PartStart(br, op2[k]) <= i, op2[k].brk_part = 0
               PROVE  IF k < Len(op2) THEN op2[k + 1].elif ELSE ~body2
    BY <1>1 DEF NoBrkInv
  <2>1. CASE i \in 1 .. Len(cd)
    <3>0. PartStart(br, op2[k]) = PartStart(br, op[k])
      BY DEF PartStart, SameParts
    <3>1. LeadsOut(cd, br, op, k, i) /\ PartStart(br, op[k]) <= i
      BY <1>8, <2>1, <3>0
    <3>2. op[k].brk_part = 0 /\ (k < Len(op) => op2[k + 1].elif = op[k + 1].elif)
      BY <1>1 DEF SameParts
    <3>3. NoBrkInv(cd, br, op, body)
      BY DEF ScopeFacts
    <3>4. QED
      BY <1>1, <2>1, <3>1, <3>2, <3>3 DEF NoBrkInv
  <2>2. CASE i = Len(cd2)
    BY <1>1, <2>2 DEF Extends
  <2>3. QED
    BY <1>3, <2>1, <2>2
<1>12. OutInv(cd2, br)
  <2>1. OutInv(cd, br)
    BY DEF ScopeFacts
  <2> SUFFICES ASSUME NEW c \in 1 .. Len(br), NEW i \in 1 .. Len(cd2) PROVE OutInv(cd2, br)!(c, i)
    BY DEF OutInv
  <2>2. CASE i \in 1 .. Len(cd)
    BY <2>1, <2>2 DEF OutInv, Longer1
  <2>3. CASE i = Len(cd2)
    BY <2>3 DEF Extends
  <2>4. QED
    BY <1>3, <2>2, <2>3
<1>13. QED
  BY <1>4, <1>5, <1>6, <1>7, <1>9, <1>10, <1>11, <1>12 DEF ScopeFacts

\* A way out of the d innermost branches, of which all but the outermost are elifs.
LEMMA WayOut ==
  ASSUME ParseInv, NEW n, NEW dead, NEW body,
         ScopeFacts(code, branch, open, locals_table, n, dead, body),
         NEW d \in 1 .. Depth, \A m \in Depth - d + 2 .. Depth : open[m].elif,
         NEW way \in Leaving, NEW levels \in Nat,
         NEW cd2, cd2 = Append(code, Instruction(way, open[Depth - d + 1].branch,
                                                 get_destruct_vars(d), levels, locals_table)),
         NEW op2, SameParts(open, op2), NEW dead2, way = "brk" => ~dead2,
         NEW body2, body2 => op2[Depth].brk_part > 0
  PROVE  Longer1(code, cd2) /\ Extends(cd2, branch, op2, locals_table, dead2, body2)
<1> DEFINE q == Depth - d + 1
           b == open[q].branch
           x == Instruction(way, b, get_destruct_vars(d), levels, locals_table)
           i == Len(code) + 1
<1>1. /\ TypeInv /\ Structured(code, branch, open)
      /\ code \in Seq(Instructions) /\ branch \in Seq(Branches) /\ open \in Seq(Opens)
      /\ locals_table \in Seq(Tables) /\ Len(locals_table) = Len(open) + 1
  BY DEF ParseInv, TypeInv
<1>2. OpenInv(branch, open) /\ PlacesInv(code, branch)
  BY <1>1 DEF Structured
<1>3. Depth = Len(open) /\ Depth \in Nat /\ Len(code) \in Nat
  BY <1>1 DEF Depth
<1>4. q \in 1 .. Len(open) /\ d \in 1 .. Len(locals_table) /\ d \in 0 .. Len(locals_table)
      /\ Len(locals_table) - d = q
  BY <1>1, <1>3
<1>5. b \in 1 .. Len(branch) /\ b \in Nat /\ branch[b].merge_at = 0
  BY <1>2, <1>4 DEF OpenInv
<1>6. /\ x \in Instructions /\ x.op = way /\ x.branch = b /\ x.objs = get_destruct_vars(d)
      /\ x.scope = InScope(locals_table)
  <2>1. get_destruct_vars(d) \in SUBSET Objects
    BY <1>1, <1>4, DestructType
  <2>2. way \in Ops
    BY DEF Leaving, Ops
  <2>3. QED
    BY <1>1, <1>5, <2>1, <2>2, InstructionType
<1> HIDE DEF x
<1>7. cd2 = Append(code, x)
  BY DEF x
<1>8. Longer1(code, cd2) /\ Len(cd2) = i /\ cd2[i] = x
  BY <1>1, <1>6, <1>7 DEF Longer1
<1>9. Around(cd2, branch, b) = Around(code, branch, b)
  <2>1. PICK z : Continues(code, locals_table, z, cd2)
    <3>1. Continues(code, locals_table, TRUE, cd2)
      BY <1>1, <1>3, <1>8 DEF Continues, Longer1
    <3>2. QED
      BY <3>1
  <2> HIDE DEF b
  <2>2. QED
    BY <1>1, <1>2, <1>5, <2>1, AroundKept
<1>10. Around(code, branch, b) = UpTo(locals_table, q)
  BY <1>4 DEF ScopeFacts, AroundInv
<1>11. InstructionInv(cd2, branch, locals_table, dead2, i)
  <2>1. x.op = "brk" => Finds(cd2, locals_table, dead2, i + 1, x.scope)
    BY <1>6, <1>8 DEF Finds
  <2>2. x.scope = Around(cd2, branch, x.branch) \cup Pieces(x.objs)
    BY <1>1, <1>4, <1>6, <1>9, <1>10, DestructScope
  <2>3. DeclaredInv(code, open, locals_table, n)
    BY DEF ScopeFacts
  <2>4. Pieces(x.objs) \cap Around(cd2, branch, x.branch) = {}
    BY <1>1, <1>4, <1>6, <1>9, <1>10, <2>3, DestructApart
  <2>5. \A v, w \in x.objs : v[1] = w[1] <=> v[2] = w[2]
    BY <1>1, <1>4, <1>6, <2>3, DestructApart
  <2>6. x.op # "decl" /\ x.op # "return"
    BY <1>6 DEF Leaving
  <2>7. QED
    BY <1>8, <2>1, <2>2, <2>4, <2>5, <2>6 DEF InstructionInv
<1>12. ASSUME NEW k \in 1 .. Len(open), LeadsOut(cd2, branch, op2, k, i)
       PROVE  /\ Variables(locals_table[k + 1]) \subseteq x.objs
              /\ op2[k].brk_part = 0 => IF k < Len(open) THEN op2[k + 1].elif ELSE ~body2
  <2>1. b <= open[k].branch
    BY <1>6, <1>8, <1>12 DEF LeadsOut, SameParts
  <2>2. k >= q
    <3>1. k < q => open[k].branch < b
      BY <1>2, <1>4 DEF OpenInv
    <3>2. open[k].branch \in Nat /\ b \in Nat
      BY <1>2, <1>5 DEF OpenInv
    <3>3. QED
      BY <1>4, <2>1, <3>1, <3>2
  <2>3. k + 1 \in Len(locals_table) - d + 1 .. Len(locals_table)
    BY <1>1, <1>3, <1>4, <2>2
  <2>4. Variables(locals_table[k + 1]) \subseteq x.objs
    <3>1. \A m \in Len(locals_table) - d + 1 .. Len(locals_table) :
            Variables(locals_table[m]) \subseteq get_destruct_vars(d)
      BY <1>1, <1>4, DestructScope
    <3>2. QED
      BY <1>6, <2>3, <3>1
  <2>5. CASE k < Len(open)
    <3>1. k + 1 \in Depth - d + 2 .. Depth /\ k + 1 \in 1 .. Len(open)
      BY <1>3, <1>4, <2>2, <2>5
    <3>2. op2[k + 1].elif
      BY <3>1 DEF SameParts
    <3>3. QED
      BY <2>4, <2>5, <3>2
  <2>6. CASE ~(k < Len(open))
    <3>1. k = Depth
      BY <1>3, <2>6
    <3>2. op2[k].brk_part = 0 => ~body2
      BY <3>1
    <3>3. QED
      BY <2>4, <2>6, <3>2
  <2>7. QED
    BY <2>5, <2>6
<1>13. ASSUME NEW c \in 1 .. Len(branch), ~branch[c].elif,
              branch[c].merge_at > 0 => i < branch[c].merge_at
       PROVE  c <= b
  <2>1. branch[c].merge_at \in Nat
    BY <1>1, BranchFacts
  <2>2. branch[c].merge_at > 0 => branch[c].merge_at <= Len(code) + 1
    BY <1>2 DEF PlacesInv
  <2>3. branch[c].merge_at = 0
    BY <1>3, <1>13, <2>1, <2>2
  <2>4. PICK j \in 1 .. Len(open) : open[j].branch = c
    BY <1>2, <2>3 DEF OpenInv
  <2>5. ~open[j].elif
    BY <1>2, <1>13, <2>4 DEF OpenInv
  <2>6. j <= q
    BY <1>3, <1>4, <2>5
  <2>7. j < q => c < b
    BY <1>2, <1>4, <2>4 DEF OpenInv
  <2>8. j = q => c = b
    BY <2>4
  <2>9. c \in Nat
    BY <1>1
  <2>10. QED
    BY <1>4, <1>5, <2>6, <2>7, <2>8, <2>9
<1>14. Extends(cd2, branch, op2, locals_table, dead2, body2)
  <2>1. x.op # "decl" /\ x.scope = InScope(locals_table)
    BY <1>6 DEF Leaving
  <2>2. q \in 1 .. Len(op2) /\ x.branch = op2[q].branch
    BY <1>4, <1>6 DEF SameParts
  <2>3. Len(op2) = Len(open)
    BY DEF SameParts
  <2>4. \A c \in 1 .. Len(branch) : OutInv(cd2, branch)!(c, i)
    BY <1>6, <1>8, <1>13
  <2>5. QED
    BY <1>8, <1>11, <1>12, <2>1, <2>2, <2>3, <2>4 DEF Extends
<1>15. QED
  BY <1>8, <1>14

\* A part ends: nothing leads behind its last instruction but what comes next.
LEMMA PartEndedFacts ==
  ASSUME ParseInv, Depth > 0, NEW n, NEW body \in BOOLEAN,
         ScopeFacts(code, branch, open, locals_table, n, Dead, body), EndInv(code, open, FALSE),
         NEW yes \in BOOLEAN, yes, NEW no \in BOOLEAN, ~no
  PROVE  /\ ScopeFacts(EndOfPart, branch, open, locals_table, n, yes, no)
         /\ EndInv(EndOfPart, open, yes)
<1>1. /\ TypeInv /\ Structured(code, branch, open)
      /\ code \in Seq(Instructions) /\ branch \in Seq(Branches) /\ open \in Seq(Opens)
      /\ locals_table \in Seq(Tables) /\ Len(locals_table) = Len(open) + 1
  BY DEF ParseInv, TypeInv
<1>2. /\ Depth = Len(open) /\ Depth \in 1 .. Len(open) /\ Top = open[Depth] /\ Top \in Opens
      /\ Len(code) \in Nat
  BY <1>1, TopFacts DEF Top
<1>3. Top.returned \in BOOLEAN /\ Dead = Top.returned
  BY <1>2, OpensFields DEF Dead
<1>4. CASE Top.returned
  <2>1. EndOfPart = code /\ Dead = yes
    BY <1>3, <1>4 DEF EndOfPart
  <2>2. NoBrkInv(code, branch, open, no)
    BY DEF ScopeFacts, NoBrkInv
  <2>3. ScopeFacts(code, branch, open, locals_table, n, yes, no)
    BY <2>1, <2>2 DEF ScopeFacts
  <2>4. EndInv(code, open, yes)
    BY DEF EndInv
  <2>5. QED
    BY <2>1, <2>3, <2>4
<1>5. CASE ~Top.returned
  <2> DEFINE way == IF Top.part = "then" THEN "endthen" ELSE "endelse"
             x == Instruction(way, Top.branch, get_destruct_vars(1), 0, locals_table)
  <2>1. EndOfPart = Append(code, x)
    BY <1>5 DEF EndOfPart
  <2>2. way \in Leaving /\ way # "brk" /\ 1 \in 1 .. Depth /\ 0 \in Nat
        /\ Depth - 1 + 1 = Depth /\ ~(\E m \in Depth - 1 + 2 .. Depth : TRUE)
    BY <1>2 DEF Leaving
  <2>3. x = Instruction(way, open[Depth - 1 + 1].branch, get_destruct_vars(1), 0, locals_table)
    BY <1>2, <2>2
  <2>4. x.op = way /\ x.branch = Top.branch
    BY DEF Instruction
  <2>5. SameParts(open, open)
    BY DEF SameParts
  <2> HIDE DEF way, x
  <2>6. /\ Longer1(code, EndOfPart)
        /\ Extends(EndOfPart, branch, open, locals_table, yes, no)
    BY <2>1, <2>2, <2>3, <2>5, WayOut
  <2>7. ScopeFacts(EndOfPart, branch, open, locals_table, n, yes, no)
    BY <1>1, <1>3, <1>5, <2>5, <2>6, FactsExtended
  <2>8. EndInv(EndOfPart, open, yes)
    <3> SUFFICES ASSUME NEW k \in 1 .. Len(open), NEW i \in 1 .. Len(EndOfPart),
                        EndOfPart[i].op \in Leaving, EndOfPart[i].branch = open[k].branch
                 PROVE  EndInv(EndOfPart, open, yes)!(k, i)!2
      BY DEF EndInv
    <3>1. CASE i \in 1 .. Len(code)
      <4>1. EndOfPart[i] = code[i]
        BY <2>6, <3>1 DEF Longer1
      <4>2. EndInv(code, open, FALSE)!(k, i)!2
        BY <3>1, <4>1 DEF EndInv
      <4>3. QED
        BY <4>1, <4>2
    <3>2. CASE i \notin 1 .. Len(code)
      <4>1. Len(EndOfPart) = Len(code) + 1 /\ i = Len(code) + 1
        BY <1>2, <2>6, <3>2 DEF Longer1
      <4>2. EndOfPart[i] = x
        BY <1>1, <2>1, <4>1
      <4>3. k = Depth
        <5>1. OpenInv(branch, open)
          BY <1>1 DEF Structured
        <5>2. open[k].branch = open[Depth].branch
          BY <1>2, <2>4, <4>2
        <5>3. /\ k < Depth => open[k].branch < open[Depth].branch
              /\ open[k].branch \in Nat
          BY <1>2, <5>1 DEF OpenInv
        <5>4. QED
          BY <1>2, <5>2, <5>3
      <4>4. Top.part \in {"then", "else"}
        BY <1>2, OpensFields
      <4>5. QED
        BY <1>2, <1>5, <2>4, <4>2, <4>3, <4>4 DEF way
    <3>3. QED
      BY <3>1, <3>2
  <2>9. QED
    BY <2>7, <2>8
<1>6. QED
  BY <1>3, <1>4, <1>5

-----------------------------------------------------------------------------
(* The parser keeps the invariant of the scopes.                           *)

\* What the invariant of the parser says of its state.
LEMMA ScopeStart ==
  ASSUME ParseInv
  PROVE  /\ TypeInv /\ Structured(code, branch, open) /\ OpenInv(branch, open)
         /\ PlacesInv(code, branch) /\ CodeInv(code, branch) /\ NestInv(branch)
         /\ code \in Seq(Instructions) /\ branch \in Seq(Branches) /\ open \in Seq(Opens)
         /\ locals_table \in Seq(Tables) /\ Len(locals_table) = Len(open) + 1
         /\ Len(code) \in Nat /\ Len(branch) \in Nat /\ Len(open) \in Nat /\ Depth = Len(open)
         /\ Depth > 0 => /\ Depth \in 1 .. Len(open) /\ Top = open[Depth] /\ Top \in Opens
         /\ Dead \in BOOLEAN /\ slots \in Nat /\ (parse = "body") \in BOOLEAN
<1>1. /\ TypeInv /\ Structured(code, branch, open)
      /\ code \in Seq(Instructions) /\ branch \in Seq(Branches) /\ open \in Seq(Opens)
      /\ locals_table \in Seq(Tables) /\ Len(locals_table) = Len(open) + 1
      /\ slots \in Nat /\ ended \in BOOLEAN
  BY DEF ParseInv, TypeInv
<1>2. OpenInv(branch, open) /\ PlacesInv(code, branch) /\ CodeInv(code, branch) /\ NestInv(branch)
  BY <1>1 DEF Structured
<1>3. Len(code) \in Nat /\ Len(branch) \in Nat /\ Len(open) \in Nat /\ Depth = Len(open)
  BY <1>1, TopFacts
<1>4. Depth > 0 => /\ Depth \in 1 .. Len(open) /\ Top = open[Depth] /\ Top \in Opens
  BY <1>1, TopFacts DEF Top
<1>5. Dead \in BOOLEAN
  BY <1>1, <1>4, OpensFields DEF Dead
<1>6. QED
  BY <1>1, <1>2, <1>3, <1>4, <1>5

\* Functions whose brk all leave one statement are built of such.
LEMMA SingleBefore ==
  ASSUME NEW cd, NEW cd2, Single(cd2), Len(cd) \in Nat, Len(cd2) \in Nat, Len(cd) <= Len(cd2),
         \A i \in 1 .. Len(cd) : cd2[i] = cd[i]
  PROVE  Single(cd)
<1> SUFFICES ASSUME NEW i \in 1 .. Len(cd) PROVE cd[i].levels <= 1
  BY DEF Single
<1>1. i \in 1 .. Len(cd2) /\ cd2[i] = cd[i]
  OBVIOUS
<1>2. QED
  BY <1>1 DEF Single

\* An instruction is noted that leaves an open branch.
Noted(cd, op) ==
  \A k \in 1 .. Len(op) :
    cd[Len(cd)].op \in Leaving /\ cd[Len(cd)].branch = op[k].branch =>
      /\ cd[Len(cd)].op = "brk" /\ ~op[k].elif
      /\ \E j \in k .. Len(op) : /\ op[j].max_brk_level >= j - k + 1
                                 /\ \A m \in k + 1 .. j : op[m].elif

\* What the parser notes only grows.
LevelsGrow(op, op2) ==
  \A k \in 1 .. Len(op) :
    /\ op[k].max_brk_level \in Nat /\ op2[k].max_brk_level \in Nat
    /\ op2[k].max_brk_level >= op[k].max_brk_level

\* An instruction the notes of the parser cover (Noted) is added: what leads to the
\* merge point of an open branch is still noted.
LEMMA EndKept ==
  ASSUME NEW cd, NEW op, EndInv(cd, op, FALSE), NEW cd2, Longer1(cd, cd2),
         NEW op2, SameParts(op, op2), Len(op) \in Nat, LevelsGrow(op, op2), Noted(cd2, op2)
  PROVE  EndInv(cd2, op2, FALSE)
<1> SUFFICES ASSUME NEW k \in 1 .. Len(op2), NEW i \in 1 .. Len(cd2),
                    cd2[i].op \in Leaving, cd2[i].branch = op2[k].branch
             PROVE  EndInv(cd2, op2, FALSE)!(k, i)!2
  BY DEF EndInv
<1>1. Len(cd) \in Nat /\ Len(cd2) = Len(cd) + 1 /\ Len(op2) = Len(op) /\ k \in 1 .. Len(op)
  BY DEF Longer1, SameParts
<1>2. CASE i = Len(cd2)
  BY <1>2 DEF Noted
<1>3. CASE i # Len(cd2)
  <2>1. i \in 1 .. Len(cd) /\ cd2[i] = cd[i]
    BY <1>1, <1>3 DEF Longer1
  <2>2. op2[k].branch = op[k].branch /\ op2[k].part = op[k].part
        /\ op2[k].then_returned = op[k].then_returned /\ op2[k].elif = op[k].elif
    BY <1>1 DEF SameParts
  <2>3. EndInv(cd, op, FALSE)!(k, i)!2
    BY <1>1, <2>1, <2>2 DEF EndInv
  <2>4. ASSUME NEW j \in k .. Len(op), op[j].max_brk_level >= j - k + 1,
               \A m \in k + 1 .. j : op[m].elif
        PROVE  op2[j].max_brk_level >= j - k + 1 /\ \A m \in k + 1 .. j : op2[m].elif
    <3>1. j \in 1 .. Len(op) /\ j \in Nat /\ k \in Nat
      BY <1>1
    <3>2. op2[j].max_brk_level >= j - k + 1
      BY <2>4, <3>1 DEF LevelsGrow
    <3>3. \A m \in k + 1 .. j : m \in 1 .. Len(op)
      BY <1>1, <3>1
    <3>4. \A m \in k + 1 .. j : op2[m].elif
      BY <2>4, <3>3 DEF SameParts
    <3>5. QED
      BY <3>2, <3>4
  <2>5. QED
    BY <1>1, <2>1, <2>2, <2>3, <2>4
<1>4. QED
  BY <1>2, <1>3

\* return destroys all there is and ends its part.
LEMMA ReturnAdded ==
  ASSUME ParseInv, NEW n, NEW body \in BOOLEAN,
         ScopeFacts(code, branch, open, locals_table, n, Dead, body), ~Dead,
         NEW d, d = Len(locals_table),
         NEW cd2, cd2 = Append(code, Instruction("return", 0, get_destruct_vars(d), 0, locals_table)),
         NEW op2, SameParts(open, op2), NEW dead2, NEW body2 \in BOOLEAN, body2 => body
  PROVE  /\ ScopeFacts(cd2, branch, op2, locals_table, n, dead2, body2)
         /\ Longer1(code, cd2) /\ cd2[Len(cd2)].op = "return"
<1> DEFINE x == Instruction("return", 0, get_destruct_vars(d), 0, locals_table)
           i == Len(code) + 1
<1>1. d \in 1 .. Len(locals_table) /\ d \in 0 .. Len(locals_table)
      /\ Len(locals_table) - d = 0 /\ locals_table \in Seq(Tables)
  BY ScopeStart
<1>2. /\ x \in Instructions /\ x.op = "return" /\ x.objs = get_destruct_vars(d)
      /\ x.scope = InScope(locals_table)
  <2>1. get_destruct_vars(d) \in SUBSET Objects
    BY <1>1, DestructType
  <2>2. "return" \in Ops /\ 0 \in Nat
    BY DEF Ops
  <2>3. QED
    BY <1>1, <2>1, <2>2, InstructionType
<1> HIDE DEF x
<1>3. cd2 = Append(code, x)
  BY DEF x
<1>4. Longer1(code, cd2) /\ Len(cd2) = i /\ cd2[i] = x
  BY <1>2, <1>3, ScopeStart DEF Longer1
<1>5. Pieces(x.objs) = x.scope
  <2>1. UpTo(locals_table, 0) = {}
    BY DEF UpTo
  <2>2. InScope(locals_table) = UpTo(locals_table, Len(locals_table) - d) \cup Pieces(get_destruct_vars(d))
    BY <1>1, DestructScope
  <2>3. QED
    BY <1>1, <1>2, <2>1, <2>2
<1>6. x.op # "decl" /\ x.op # "brk" /\ x.op \notin Leaving
  BY <1>2 DEF Leaving
<1>7. Extends(cd2, branch, op2, locals_table, dead2, body2)
  <2>1. InstructionInv(cd2, branch, locals_table, dead2, i)
    BY <1>4, <1>5, <1>6 DEF InstructionInv
  <2>2. QED
    BY <1>2, <1>4, <1>6, <2>1 DEF Extends, LeadsOut
<1>8. ScopeFacts(cd2, branch, op2, locals_table, n, dead2, body2)
  BY <1>4, <1>7, ScopeStart, FactsExtended
<1>9. QED
  BY <1>2, <1>4, <1>8

\* A return destroys what is in scope and ends its part.
LEMMA ReturnScopes ==
  ASSUME ParseInv, ScopeInv, Return
  PROVE  ScopeInv'
<1> DEFINE body == parse = "body"
<1>1. /\ code' = Append(code, Instruction("return", 0, get_destruct_vars(Len(locals_table)), 0,
                                           locals_table))
      /\ open' = [open EXCEPT ![Depth].returned = TRUE]
      /\ UNCHANGED <<parse, locals_table, slots, branch, ended>>
      /\ Depth > 0 /\ ~Top.returned /\ parse = "body"
  BY DEF Return, Parsing
<1>2. ~Dead
  BY <1>1 DEF Dead
<1>3. /\ Depth \in 1 .. Len(open) /\ Depth = Len(open) /\ open \in Seq(Opens)
      /\ Top = open[Depth] /\ Top \in Opens /\ Len(open) \in Nat
  BY <1>1, ScopeStart
<1>4. /\ Len(open') = Len(open)
      /\ open'[Depth] = [Top EXCEPT !.returned = TRUE]
      /\ \A k \in 1 .. Len(open) : k # Depth => open'[k] = open[k]
  <2> DEFINE o == [Top EXCEPT !.returned = TRUE]
  <2>1. open' = [open EXCEPT ![Depth] = o]
    BY <1>1, <1>3
  <2> HIDE DEF o
  <2>2. Len(open') = Len(open) /\ open'[Depth] = o
        /\ \A k \in 1 .. Len(open) : k # Depth => open'[k] = open[k]
    BY <1>3, <2>1
  <2>3. QED
    BY <2>2 DEF o
<1>5. SameParts(open, open') /\ LevelsGrow(open, open')
  <2>1. ASSUME NEW k \in 1 .. Len(open)
        PROVE  SameParts(open, open')!2!(k) /\ LevelsGrow(open, open')!(k)
    <3>0. open[k] \in Opens /\ open[k].max_brk_level \in Nat
      BY <1>3, OpensFields
    <3>1. CASE k = Depth
      <4>1. open'[k] = [Top EXCEPT !.returned = TRUE] /\ open[k] = Top
        BY <1>3, <1>4, <3>1
      <4>2. QED
        BY <1>3, <3>0, <4>1 DEF Opens
    <3>2. CASE k # Depth
      <4>1. open'[k] = open[k]
        BY <1>4, <3>2
      <4>2. QED
        BY <3>0, <4>1
    <3>3. QED
      BY <3>1, <3>2
  <2>2. QED
    BY <1>4, <2>1 DEF SameParts, LevelsGrow
<1>6. SUFFICES ASSUME Single(code')
               PROVE  /\ ScopeFacts(code', branch', open', locals_table', slots', Dead', (parse = "body")')
                      /\ EndInv(code', open', FALSE) /\ parse' # "close"
  BY DEF ScopeInv
<1>7. code \in Seq(Instructions) /\ Len(code) \in Nat /\ Len(code') = Len(code) + 1
      /\ \A i \in 1 .. Len(code) : code'[i] = code[i]
  BY <1>1, ScopeStart
<1>8. Single(code)
  BY <1>6, <1>7, SingleBefore
<1>9. ScopeFacts(code, branch, open, locals_table, slots, Dead, body) /\ EndInv(code, open, FALSE)
  BY <1>8 DEF ScopeInv
<1>10. body \in BOOLEAN /\ (parse = "body")' = body /\ parse' # "close"
  BY <1>1
<1> HIDE DEF body
<1>11. /\ ScopeFacts(code', branch, open', locals_table, slots, Dead', body)
       /\ Longer1(code, code') /\ code'[Len(code')].op = "return"
  BY <1>1, <1>2, <1>5, <1>9, <1>10, ReturnAdded
<1>12. EndInv(code', open', FALSE)
  <2>1. Noted(code', open')
    BY <1>11 DEF Noted, Leaving
  <2>2. QED
    BY <1>3, <1>5, <1>9, <1>11, <2>1, EndKept
<1>13. QED
  BY <1>1, <1>10, <1>11, <1>12

\* The end of the body returns if it is reached.
LEMMA EndOfBodyScopes ==
  ASSUME ParseInv, ScopeInv, EndOfBody
  PROVE  ScopeInv'
<1> DEFINE done == (parse = "body")'
           d == 1
<1>1. /\ code' = IF ended THEN code
                 ELSE Append(code, Instruction("return", 0, get_destruct_vars(d), 0, locals_table))
      /\ parse' = "done" /\ UNCHANGED <<open, locals_table, slots, branch, ended>>
      /\ Depth = 0 /\ parse = "body"
  BY DEF EndOfBody
<1>2. Len(locals_table) = 1 /\ d = Len(locals_table) /\ Depth = Len(open) /\ Len(open) = 0
  BY <1>1, ScopeStart
<1>3. Dead = ended /\ Dead' = Dead /\ ended \in BOOLEAN /\ done \in BOOLEAN /\ ~done
  <2>1. Depth' = Depth
    BY <1>1 DEF Depth
  <2>2. QED
    BY <1>1, <2>1 DEF Dead, ParseInv, TypeInv
<1>4. SUFFICES ASSUME Single(code')
               PROVE  /\ ScopeFacts(code', branch', open', locals_table', slots', Dead', done)
                      /\ EndInv(code', open', FALSE) /\ parse' # "close"
  BY DEF ScopeInv
<1>5. code \in Seq(Instructions) /\ Len(code) \in Nat /\ Len(code') \in Nat
      /\ Len(code') >= Len(code) /\ \A i \in 1 .. Len(code) : code'[i] = code[i]
  BY <1>1, ScopeStart
<1>6. Single(code)
  BY <1>4, <1>5, SingleBefore
<1> DEFINE body == parse = "body"
<1>7. /\ ScopeFacts(code, branch, open, locals_table, slots, Dead, body)
      /\ EndInv(code, open, FALSE)
  BY <1>6 DEF ScopeInv
<1>8. body \in BOOLEAN /\ (done => body)
  BY <1>3
<1> HIDE DEF body, done, d
<1>9. CASE ended
  <2>1. code' = code
    BY <1>1, <1>9
  <2>2. NoBrkInv(code, branch, open, done)
    BY <1>2 DEF NoBrkInv
  <2>3. ScopeFacts(code, branch, open, locals_table, slots, Dead, done)
    BY <1>7, <2>2 DEF ScopeFacts
  <2>4. QED
    BY <1>1, <1>3, <1>7, <2>1, <2>3
<1>10. CASE ~ended
  <2>1. SameParts(open, open)
    BY DEF SameParts
  <2>2. code' = Append(code, Instruction("return", 0, get_destruct_vars(d), 0, locals_table))
    BY <1>1, <1>10
  <2>3. /\ ScopeFacts(code', branch, open, locals_table, slots, Dead', done)
    BY <1>2, <1>3, <1>7, <1>8, <1>10, <2>1, <2>2, ReturnAdded
  <2>4. EndInv(code', open, FALSE)
    BY <1>2 DEF EndInv
  <2>5. QED
    BY <1>1, <2>3, <2>4
<1>11. QED
  BY <1>9, <1>10

\* brk leaves what is in scope in the part it is in.
LEMMA BrkScopes ==
  ASSUME ParseInv, ScopeInv, NEW levels \in Nat \ {0}, Brk(levels)
  PROVE  ScopeInv'
<1> DEFINE d == BrkDepth(levels)
           q == Depth - d + 1
           x == Instruction("brk", open[q].branch, get_destruct_vars(d), levels, locals_table)
           m == IF Top.max_brk_level < d THEN d ELSE Top.max_brk_level
           p == Top.brk_part + 1
           o == [Top EXCEPT !.brk_part = p, !.max_brk_level = m]
           body == parse = "body"
<1>1. /\ levels <= Cardinality({k \in 1 .. Depth : syntax_nesting(k) = 1})
      /\ code' = Append(code, x)
      /\ open' = [open EXCEPT ![Depth].brk_part = @ + 1,
                              ![Depth].max_brk_level = IF @ < d THEN d ELSE @]
      /\ UNCHANGED <<parse, locals_table, slots, branch, ended>>
      /\ parse = "body" /\ ~ended /\ (Depth > 0 => ~Top.returned)
  BY DEF Brk, Parsing
<1>2. /\ d \in 1 .. Depth /\ syntax_nesting(Depth - d + 1) = 1
      /\ Cardinality({k \in Depth - d + 1 .. Depth : syntax_nesting(k) = 1}) = levels
  BY <1>1, ScopeStart, BrkDepthFits
<1>3. /\ Depth > 0 /\ Depth \in 1 .. Len(open) /\ Depth = Len(open) /\ open \in Seq(Opens)
      /\ Top = open[Depth] /\ Top \in Opens /\ Len(open) \in Nat
  BY <1>2, ScopeStart
<1>4. ~Dead
  BY <1>1, <1>3 DEF Dead
<1>5. q \in 1 .. Len(open) /\ ~open[q].elif /\ Depth - q + 1 = d /\ d \in Nat
      /\ Depth - d + 2 = q + 1 /\ q \in Nat
  BY <1>2, <1>3 DEF syntax_nesting
<1>6. SUFFICES ASSUME Single(code')
               PROVE  /\ ScopeFacts(code', branch', open', locals_table', slots', Dead', (parse = "body")')
                      /\ EndInv(code', open', FALSE) /\ parse' # "close"
  BY DEF ScopeInv
<1>7. code \in Seq(Instructions) /\ Len(code) \in Nat /\ Len(code') = Len(code) + 1
      /\ (\A i \in 1 .. Len(code) : code'[i] = code[i]) /\ code'[Len(code) + 1] = x
  BY <1>1, ScopeStart
<1>8. Single(code)
  BY <1>6, <1>7, SingleBefore
<1>9. /\ ScopeFacts(code, branch, open, locals_table, slots, Dead, body)
      /\ EndInv(code, open, FALSE)
  BY <1>8 DEF ScopeInv
<1>10. body \in BOOLEAN /\ (parse = "body")' = body /\ parse' # "close"
  BY <1>1
<1>11. x.op = "brk" /\ x.branch = open[q].branch /\ x.levels = levels
  BY DEF Instruction
<1>12. levels = 1
  <2>1. Len(code) + 1 \in 1 .. Len(code')
    BY <1>7
  <2>2. x.levels <= 1
    BY <1>6, <1>7, <2>1 DEF Single
  <2>3. QED
    BY <1>11, <2>2
<1>13. \A k \in q + 1 .. Depth : open[k].elif
  <2> DEFINE S == {k \in q .. Depth : syntax_nesting(k) = 1}
  <2>1. Cardinality(S) = 1 /\ q \in S
    BY <1>2, <1>3, <1>5, <1>12
  <2>2. IsFiniteSet(S)
    <3>1. IsFiniteSet(q .. Depth)
      BY <1>3, <1>5, FS_Interval
    <3>2. QED
      BY <3>1, FS_Subset
  <2> HIDE DEF S
  <2>3. \A k \in S : k = q
    BY <2>1, <2>2, OnlyMember
  <2>4. \A k \in q + 1 .. Depth : k \notin S
    BY <1>5, <2>3
  <2>5. \A k \in q + 1 .. Depth : k \in S \/ open[k].elif
    BY <1>5 DEF S, syntax_nesting
  <2>6. QED
    BY <2>4, <2>5
<1>14. /\ Top.max_brk_level \in Nat /\ m \in Nat /\ p \in Nat /\ m >= d /\ p > 0
       /\ m >= Top.max_brk_level
  <2>1. Top.max_brk_level \in Nat /\ Top.brk_part \in Nat
    BY <1>3, OpensFields
  <2>2. d \in Nat
    BY <1>5
  <2> HIDE DEF d
  <2>3. QED
    BY <2>1, <2>2
<1>15. open' = [open EXCEPT ![Depth] = o]
  BY <1>1, <1>3
<1> HIDE DEF m, p
<1>16. /\ o \in Opens /\ o.branch = Top.branch /\ o.elif = Top.elif /\ o.kind = Top.kind
       /\ o.part = Top.part /\ o.then_vars = Top.then_vars /\ o.then_returned = Top.then_returned
       /\ o.max_brk_level = m /\ o.brk_part = p /\ o.returned = Top.returned
  BY <1>3, <1>14 DEF Opens
<1> HIDE DEF o
<1>17. /\ Len(open') = Len(open) /\ open'[Depth] = o
       /\ \A k \in 1 .. Len(open) : k # Depth => open'[k] = open[k]
  BY <1>3, <1>15, <1>16
<1>18. SameParts(open, open') /\ LevelsGrow(open, open')
  <2>1. ASSUME NEW k \in 1 .. Len(open)
        PROVE  SameParts(open, open')!2!(k) /\ LevelsGrow(open, open')!(k)
    <3>0. open[k] \in Opens /\ open[k].max_brk_level \in Nat
      BY <1>3, OpensFields
    <3>1. CASE k = Depth
      BY <1>3, <1>14, <1>16, <1>17, <3>0, <3>1
    <3>2. CASE k # Depth
      <4>1. open'[k] = open[k]
        BY <1>17, <3>2
      <4>2. QED
        BY <3>0, <4>1
    <3>3. QED
      BY <3>1, <3>2
  <2>2. QED
    BY <1>17, <2>1 DEF SameParts, LevelsGrow
<1>19. ~Dead'
  <2>1. Depth' = Depth /\ Top' = o
    BY <1>3, <1>17 DEF Depth, Top
  <2>2. QED
    BY <1>1, <1>3, <1>16, <2>1 DEF Dead
<1>20. /\ Longer1(code, code') /\ Extends(code', branch, open', locals_table, Dead', body)
  <2> HIDE DEF q
  <2>1. \A k \in Depth - d + 2 .. Depth : open[k].elif
    BY <1>5, <1>13
  <2>2. "brk" \in Leaving /\ levels \in Nat
    BY DEF Leaving
  <2>3. body => open'[Depth].brk_part > 0
    BY <1>14, <1>16, <1>17
  <2> HIDE DEF d, body
  <2>4. QED
    BY <1>1, <1>2, <1>9, <1>18, <1>19, <2>1, <2>2, <2>3, WayOut DEF q
<1>21. ScopeFacts(code', branch, open', locals_table, slots, Dead', body)
  <2> HIDE DEF body
  <2>1. QED
    BY <1>4, <1>9, <1>10, <1>18, <1>20, ScopeStart, FactsExtended
<1>22. EndInv(code', open', FALSE)
  <2>0. code'[Len(code')] = x /\ Len(open') = Len(open)
    BY <1>7, <1>17
  <2> HIDE DEF q, d, x, body
  <2>1. Noted(code', open')
    <3> SUFFICES ASSUME NEW k \in 1 .. Len(open'), x.branch = open'[k].branch
                 PROVE  /\ ~open'[k].elif
                        /\ \E j \in k .. Len(open') :
                             /\ open'[j].max_brk_level >= j - k + 1
                             /\ \A i \in k + 1 .. j : open'[i].elif
      BY <1>11, <2>0 DEF Noted
    <3>1. k \in 1 .. Len(open) /\ open'[k].branch = open[k].branch
      BY <1>17, <1>18 DEF SameParts
    <3>2. k = q
      <4>1. open[k].branch = open[q].branch
        BY <1>11, <3>1
      <4>2. /\ k < q => open[k].branch < open[q].branch
            /\ q < k => open[q].branch < open[k].branch
            /\ open[k].branch \in Nat /\ open[q].branch \in Nat
        <5>1. OpenInv(branch, open)
          BY ScopeStart
        <5>2. q \in 1 .. Len(open) /\ k \in 1 .. Len(open)
          BY <1>5, <3>1
        <5>3. QED
          BY <5>1, <5>2 DEF OpenInv
      <4>3. QED
        BY <1>5, <3>1, <4>1, <4>2
    <3>3. ~open'[k].elif
      BY <1>5, <1>18, <3>2 DEF SameParts
    <3>4. Depth \in k .. Len(open') /\ open'[Depth].max_brk_level >= Depth - k + 1
      BY <1>3, <1>5, <1>14, <1>16, <1>17, <3>2
    <3>5. \A i \in k + 1 .. Depth : open'[i].elif
      <4>1. \A i \in k + 1 .. Depth : i \in 1 .. Len(open)
        BY <1>3, <1>5, <3>2
      <4>2. QED
        BY <1>13, <1>18, <3>2, <4>1 DEF SameParts
    <3>6. QED
      BY <3>3, <3>4, <3>5
  <2>2. QED
    BY <1>3, <1>9, <1>18, <1>20, <2>1, EndKept
<1>23. QED
  BY <1>1, <1>10, <1>21, <1>22

\* The table a name's storage is looked up in.
LEMMA TableOfParts ==
  ASSUME TypeInv
  PROVE  /\ IfWhileVarTable = NoVars \/ \E j \in 1 .. Len(open) : IfWhileVarTable = open[j].then_vars
         /\ \A j \in 1 .. Len(open) : Governs(open, j, Depth) => IfWhileVarTable = open[j].then_vars
<1> DEFINE E == {i \in 1 .. Depth : open[i].part = "else"}
           Last(i) == i \in E /\ \A j \in E : j <= i
<1>1. Depth \in Nat /\ Depth = Len(open)
  BY TopFacts
<1>2. E = {} => IfWhileVarTable = NoVars
  BY DEF IfWhileVarTable
<1>3. E # {} => IfWhileVarTable = open[CHOOSE i \in E : \A j \in E : j <= i].then_vars
  BY DEF IfWhileVarTable
<1>4. ASSUME NEW i \in E, \A j \in E : j <= i
      PROVE  IfWhileVarTable = open[i].then_vars
  <2>1. /\ (CHOOSE k \in E : \A j \in E : j <= k) \in E
        /\ \A j \in E : j <= (CHOOSE k \in E : \A l \in E : l <= k)
    BY <1>4
  <2> DEFINE c == CHOOSE k \in E : \A j \in E : j <= k
  <2>2. c \in E /\ i <= c /\ c <= i
    BY <1>4, <2>1
  <2>3. c \in Nat /\ i \in Nat
    BY <1>1, <2>2
  <2>4. IfWhileVarTable = open[c].then_vars
    BY <1>3, <1>4
  <2> HIDE DEF c, E
  <2>5. c = i
    BY <2>2, <2>3
  <2>6. QED
    BY <2>4, <2>5
<1>5. ASSUME E # {} PROVE \E i \in E : \A j \in E : j <= i
  BY <1>5, InnermostElse
<1>6. ASSUME NEW j \in 1 .. Len(open), Governs(open, j, Depth)
      PROVE  IfWhileVarTable = open[j].then_vars
  <2>1. j \in E /\ \A m \in j + 1 .. Depth : open[m].part = "then"
    BY <1>1, <1>6 DEF Governs
  <2>2. \A m \in E : m <= j
    <3> TAKE m \in E
    <3>1. m \in 1 .. Depth /\ open[m].part # "then"
      OBVIOUS
    <3>2. m \notin j + 1 .. Depth
      BY <2>1, <3>1
    <3>3. QED
      BY <1>1, <3>1, <3>2
  <2>3. QED
    BY <1>4, <2>1, <2>2
<1>7. QED
  BY <1>1, <1>2, <1>4, <1>5, <1>6

\* A name out of scope gets storage that is not used by another name.
LEMMA NewStorage ==
  ASSUME ParseInv, DeclaredInv(code, open, locals_table, slots), NEW n, n \notin Visible,
         NEW s, s = StorageOf(n)
  PROVE  /\ s \notin InScope(locals_table)
         /\ \A v \in Given(code) : v[2] = s => v[1] = n
         /\ slots \in Nat /\ s \in Nat
         /\ \A j \in 1 .. Len(open) :
              Governs(open, j, Depth) /\ n \in DOMAIN open[j].then_vars => s = open[j].then_vars[n].slot
<1>1. slots \in Nat /\ s \in Nat /\ TypeInv
  BY ScopeStart, StorageOfType
<1>2. ASSUME n \in DOMAIN IfWhileVarTable
      PROVE  \A v \in Given(code) : v[2] = s => v[1] = n
  <2>1. s = IfWhileVarTable[n].slot
    BY <1>2 DEF StorageOf
  <2>2. PICK j \in 1 .. Len(open) : IfWhileVarTable = open[j].then_vars
    BY <1>1, <1>2, TableOfParts, NoVarsFacts
  <2>3. <<n, s>> \in Given(code)
    BY <1>2, <2>1, <2>2 DEF DeclaredInv, Variables
  <2>4. <<n, s>>[1] = n /\ <<n, s>>[2] = s
    OBVIOUS
  <2>5. QED
    BY <2>3, <2>4 DEF DeclaredInv
<1>3. ASSUME n \notin DOMAIN IfWhileVarTable
      PROVE  \A v \in Given(code) : v[2] = s => v[1] = n
  <2>1. s = slots + 1
    BY <1>3 DEF StorageOf
  <2>2. ASSUME NEW v \in Given(code), v[2] = s PROVE FALSE
    <3>1. v[2] <= slots
      BY DEF DeclaredInv
    <3>2. QED
      BY <1>1, <2>1, <2>2, <3>1
  <2>3. QED
    BY <2>2
<1>4. \A v \in Given(code) : v[2] = s => v[1] = n
  <2>1. CASE n \in DOMAIN IfWhileVarTable
    BY <1>2, <2>1
  <2>2. CASE n \notin DOMAIN IfWhileVarTable
    BY <1>3, <2>2
  <2>3. QED
    BY <2>1, <2>2
<1>5. s \notin InScope(locals_table)
  <2> SUFFICES ASSUME NEW i \in 1 .. Len(locals_table), s \in Storage(locals_table[i]) PROVE FALSE
    BY DEF InScope
  <2>1. PICK m \in DOMAIN locals_table[i] : s = locals_table[i][m].slot
    BY DEF Storage
  <2>2. <<m, s>> \in Given(code) /\ <<m, s>>[1] = m /\ <<m, s>>[2] = s
    BY <2>1 DEF DeclaredInv, Variables
  <2>3. m = n
    BY <1>4, <2>2
  <2>4. QED
    BY <2>3 DEF Visible
<1>6. ASSUME NEW j \in 1 .. Len(open), Governs(open, j, Depth), n \in DOMAIN open[j].then_vars
      PROVE  s = open[j].then_vars[n].slot
  <2>1. IfWhileVarTable = open[j].then_vars
    BY <1>1, <1>6, TableOfParts
  <2>2. QED
    BY <1>6, <2>1 DEF StorageOf
<1>7. QED
  BY <1>1, <1>4, <1>5, <1>6

\* Name n is declared in the innermost scope, with storage s and in part p.
Declared(ts, ts2, n, s, p) ==
  /\ ts \in Seq(Tables) /\ ts2 \in Seq(Tables) /\ Len(ts2) = Len(ts) /\ Len(ts) > 0
  /\ \A i \in 1 .. Len(ts) - 1 : ts2[i] = ts[i]
  /\ DOMAIN ts2[Len(ts)] = DOMAIN ts[Len(ts)] \cup {n}
  /\ \A m \in DOMAIN ts[Len(ts)] : m # n => ts2[Len(ts)][m] = ts[Len(ts)][m]
  /\ ts2[Len(ts)][n].slot = s /\ ts2[Len(ts)][n].part = p

\* A declaration enlarges the innermost scope by its storage and no other.
LEMMA DeclaredTables ==
  ASSUME NEW ts, NEW ts2, NEW n, NEW s, NEW p, Declared(ts, ts2, n, s, p),
         n \notin DOMAIN ts[Len(ts)]
  PROVE  /\ Variables(ts2[Len(ts)]) = Variables(ts[Len(ts)]) \cup {<<n, s>>}
         /\ InScope(ts2) = InScope(ts) \cup {s}
         /\ \A k \in 0 .. Len(ts) - 1 : UpTo(ts2, k) = UpTo(ts, k)
<1> DEFINE t == ts[Len(ts)]
           t2 == ts2[Len(ts)]
           N == Len(ts)
<1>1. /\ ts \in Seq(Tables) /\ ts2 \in Seq(Tables) /\ Len(ts2) = N /\ N \in Nat /\ N > 0
      /\ \A i \in 1 .. N - 1 : ts2[i] = ts[i]
  BY DEF Declared
<1>2. /\ DOMAIN t2 = DOMAIN t \cup {n} /\ t2[n].slot = s
      /\ \A m \in DOMAIN t : t2[m] = t[m]
  BY DEF Declared
<1> HIDE DEF t, t2
<1>3. Variables(t2) = Variables(t) \cup {<<n, s>>}
  BY <1>2 DEF Variables
<1>4. Storage(t2) = Storage(t) \cup {s}
  BY <1>2 DEF Storage
<1>5. \A k \in 0 .. N - 1 : UpTo(ts2, k) = UpTo(ts, k)
  <2> TAKE k \in 0 .. N - 1
  <2>1. k \in Nat /\ \A i \in 1 .. k : ts2[i] = ts[i]
    BY <1>1
  <2>2. QED
    BY <2>1, UpToSame
<1>6. /\ UpTo(ts2, (N - 1) + 1) = UpTo(ts2, N - 1) \cup Storage(ts2[(N - 1) + 1])
      /\ UpTo(ts, (N - 1) + 1) = UpTo(ts, N - 1) \cup Storage(ts[(N - 1) + 1])
  <2>1. N - 1 \in Nat
    BY <1>1
  <2> DEFINE M == N - 1
  <2> HIDE DEF M
  <2>2. UpTo(ts2, M + 1) = UpTo(ts2, M) \cup Storage(ts2[M + 1])
    BY <1>1, <2>1, UpToFacts DEF M
  <2>3. UpTo(ts, M + 1) = UpTo(ts, M) \cup Storage(ts[M + 1])
    BY <1>1, <2>1, UpToFacts DEF M
  <2>4. QED
    BY <2>2, <2>3 DEF M
<1>7. (N - 1) + 1 = N /\ N - 1 \in 0 .. N - 1
  BY <1>1
<1>8. InScope(ts2) = UpTo(ts2, N) /\ InScope(ts) = UpTo(ts, N)
  BY <1>1, UpToFacts
<1>9. InScope(ts2) = InScope(ts) \cup {s}
  BY <1>4, <1>5, <1>6, <1>7, <1>8 DEF t, t2
<1>10. QED
  BY <1>3, <1>5, <1>9 DEF t, t2

\* A declaration is added to what is declared.
LEMMA GivenMore ==
  ASSUME NEW cd, NEW cd2, Longer1(cd, cd2), cd2[Len(cd2)].op = "decl"
  PROVE  Given(cd2) = Given(cd) \cup cd2[Len(cd2)].objs
<1>1. Len(cd) \in Nat /\ Len(cd2) = Len(cd) + 1
  BY DEF Longer1
<1>2. {j \in 1 .. Len(cd2) : cd2[j].op = "decl"}
        = {j \in 1 .. Len(cd) : cd[j].op = "decl"} \cup {Len(cd2)}
  BY <1>1 DEF Longer1
<1>3. QED
  BY <1>2 DEF Given, Longer1

\* A declaration adds a variable to the innermost scope.
LEMMA DeclareScopes ==
  ASSUME ParseInv, ScopeInv, NEW n \in Names, Declare(n)
  PROVE  ScopeInv'
<1> DEFINE s == StorageOf(n)
           p == IF Depth = 0 THEN 0 ELSE Top.brk_part
           v == [slot |-> s, part |-> p]
           t == locals_table[Depth + 1]
           x == Instruction("decl", 0, {<<n, s>>}, 0, locals_table)
           D == DOMAIN t \cup {n}
           t2 == [m \in D |-> IF m = n THEN v ELSE t[m]]
           N == Len(locals_table)
           body == parse = "body"
           ts2 == locals_table'
<1>1. /\ locals_table' = [locals_table EXCEPT ![Depth + 1] = t2]
      /\ code' = Append(code, x)
      /\ slots' = IF s > slots THEN s ELSE slots
      /\ UNCHANGED <<parse, open, branch, ended>>
      /\ n \notin Visible
      /\ parse = "body" /\ ~ended /\ (Depth > 0 => ~Top.returned)
  BY DEF Declare, Parsing
<1>2. /\ Depth = Len(open) /\ Len(open) \in Nat /\ N = Depth + 1 /\ N \in Nat /\ N > 0
      /\ locals_table \in Seq(Tables) /\ open \in Seq(Opens) /\ branch \in Seq(Branches)
      /\ code \in Seq(Instructions) /\ Len(code) \in Nat
  BY ScopeStart
<1>3. ~Dead /\ Dead' = Dead /\ Dead \in BOOLEAN
  <2>1. Depth' = Depth /\ Top' = Top
    BY <1>1 DEF Depth, Top
  <2>2. QED
    BY <1>1, <2>1, ScopeStart DEF Dead
<1>4. s \in Nat /\ p \in Nat /\ n \notin DOMAIN t
  <2>1. Depth # 0 => Top.brk_part \in Nat
    BY <1>2, ScopeStart, OpensFields
  <2>2. n \notin DOMAIN t
    <3>1. Depth + 1 \in 1 .. Len(locals_table)
      BY <1>2
    <3>2. QED
      BY <1>1, <3>1 DEF Visible
  <2>3. QED
    BY <2>1, <2>2, ScopeStart, StorageOfType
<1> HIDE DEF s, p
<1>5. t2 \in Tables /\ DOMAIN t2 = DOMAIN t \cup {n} /\ t2[n].slot = s /\ t2[n].part = p
      /\ \A m \in DOMAIN t : m # n => t2[m] = t[m]
  <2>1. DOMAIN t \in SUBSET Names /\ \A m \in DOMAIN t : t[m] \in [slot : Nat, part : Nat]
    BY ScopeStart, TopFacts, TableFacts
  <2>2. D \in SUBSET Names
    BY <2>1
  <2>3. v \in [slot : Nat, part : Nat] /\ v.slot = s /\ v.part = p
    BY <1>4
  <2> HIDE DEF v
  <2>4. \A m \in D : t2[m] \in [slot : Nat, part : Nat]
    BY <2>1, <2>3
  <2>5. DOMAIN t2 = D /\ t2[n] = v /\ \A m \in DOMAIN t : m # n => t2[m] = t[m]
    OBVIOUS
  <2> HIDE DEF D
  <2>6. t2 = [m \in D |-> t2[m]]
    OBVIOUS
  <2> HIDE DEF t2
  <2>7. t2 \in Tables
    BY <2>2, <2>4, <2>6, TableMade
  <2>8. QED
    BY <2>3, <2>5, <2>7 DEF D
<1> HIDE DEF t2
<1>6. Declared(locals_table, ts2, n, s, p)
  BY <1>1, <1>2, <1>5 DEF Declared
<1>7. /\ x \in Instructions /\ x.op = "decl" /\ x.objs = {<<n, s>>}
      /\ x.scope = InScope(locals_table)
  <2> DEFINE objs == {<<n, s>>}
  <2>1. objs \in SUBSET Objects /\ "decl" \in Ops /\ 0 \in Nat
    BY <1>4 DEF Objects, Ops
  <2> HIDE DEF objs
  <2>2. /\ Instruction("decl", 0, objs, 0, locals_table) \in Instructions
        /\ Instruction("decl", 0, objs, 0, locals_table).op = "decl"
        /\ Instruction("decl", 0, objs, 0, locals_table).objs = objs
        /\ Instruction("decl", 0, objs, 0, locals_table).scope = InScope(locals_table)
    BY <1>2, <2>1, InstructionType
  <2>3. QED
    BY <2>2 DEF objs
<1> HIDE DEF x
<1>8. Longer1(code, code') /\ code'[Len(code')] = x /\ Len(code') = Len(code) + 1
  BY <1>1, <1>2, <1>7 DEF Longer1
<1>9. SUFFICES ASSUME Single(code')
               PROVE  /\ ScopeFacts(code', branch', open', locals_table', slots', Dead', (parse = "body")')
                      /\ EndInv(code', open', FALSE) /\ parse' # "close"
  BY DEF ScopeInv
<1>10. Single(code)
  BY <1>2, <1>8, <1>9, SingleBefore DEF Longer1
<1>11. /\ ScopeFacts(code, branch, open, locals_table, slots, Dead, body)
       /\ EndInv(code, open, FALSE)
  BY <1>10 DEF ScopeInv
<1>12. body \in BOOLEAN /\ body /\ (parse = "body")' = body /\ parse' # "close"
  BY <1>1
<1> HIDE DEF body
<1>13. /\ Variables(ts2[N]) = Variables(t) \cup {<<n, s>>}
       /\ InScope(ts2) = InScope(locals_table) \cup {s}
       /\ \A k \in 0 .. N - 1 : UpTo(ts2, k) = UpTo(locals_table, k)
  BY <1>2, <1>4, <1>6, DeclaredTables
<1>14. DeclaredInv(code, open, locals_table, slots)
  BY <1>11 DEF ScopeFacts
<1>15. /\ s \notin InScope(locals_table)
       /\ \A w \in Given(code) : w[2] = s => w[1] = n
       /\ slots \in Nat
       /\ \A j \in 1 .. Len(open) :
            Governs(open, j, Depth) /\ n \in DOMAIN open[j].then_vars => s = open[j].then_vars[n].slot
  BY <1>1, <1>14, NewStorage DEF s
<1>16. /\ \A i \in 1 .. Len(locals_table) - 1 : ts2[i] = locals_table[i]
       /\ Len(ts2) = N /\ ts2 \in Seq(Tables) /\ DOMAIN ts2[N] = DOMAIN t \cup {n}
       /\ ts2[N][n].slot = s /\ ts2[N][n].part = p
       /\ \A m \in DOMAIN t : m # n => ts2[N][m] = t[m]
  BY <1>2, <1>6 DEF Declared
<1> HIDE DEF ts2
<1>17. Continues(code, locals_table, Dead, code')
  BY <1>2, <1>7, <1>8 DEF Continues, Longer1
<1>18. \A i \in 1 .. Len(code') : i \in 1 .. Len(code) \/ i = Len(code')
  BY <1>2, <1>8
<1>19. x.op \notin Leaving
  BY <1>7 DEF Leaving
<1>20. FlowInv(code', branch, ts2, Dead)
  <2>1. OthersSame(branch, branch, 0)
    BY <1>2 DEF OthersSame
  <2>2. \A i \in Len(code) + 1 .. Len(code') : InstructionInv(code', branch, ts2, Dead, i)
    <3>1. Pieces(x.objs) = {s}
      BY <1>7 DEF Pieces
    <3>2. Finds(code', ts2, Dead, Len(code') + 1, x.scope \cup {s})
      BY <1>3, <1>7, <1>13 DEF Finds
    <3>3. InstructionInv(code', branch, ts2, Dead, Len(code'))
      BY <1>7, <1>8, <1>15, <1>19, <3>1, <3>2 DEF InstructionInv
    <3>4. \A i \in Len(code) + 1 .. Len(code') : i = Len(code')
      BY <1>2, <1>8
    <3>5. QED
      BY <3>3, <3>4
  <2>3. ASSUME NEW i \in 1 .. Len(code'), i > Len(code) \/ code'[i].branch = 0
        PROVE  MergeInv(code', branch, ts2, Dead, i)
    <3>1. code'[i].op \notin Leaving
      <4>1. CASE i = Len(code')
        BY <1>8, <1>19, <4>1
      <4>2. CASE i # Len(code')
        <5>1. i \in 1 .. Len(code) /\ code'[i] = code[i] /\ code[i].branch = 0
          BY <1>2, <1>8, <1>18, <2>3, <4>2 DEF Longer1
        <5>2. code[i].op \in Leaving => code[i].branch \in 1 .. Len(branch)
          BY <5>1, LeavingBranch, ScopeStart
        <5>3. QED
          BY <5>1, <5>2
      <4>3. QED
        BY <4>1, <4>2
    <3>2. QED
      BY <3>1 DEF MergeInv
  <2>4. \A b \in 1 .. Len(branch) : ~(b > Len(branch) \/ b = 0)
    BY <1>2
  <2>5. FlowInv(code, branch, locals_table, Dead) /\ Structured(code, branch, open)
    BY <1>11, ScopeStart DEF ScopeFacts
  <2>6. QED
    BY <1>17, <2>1, <2>2, <2>3, <2>4, <2>5, FlowKept
<1>21. DeclaredInv(code', open, ts2, slots')
  <2>1. Given(code') = Given(code) \cup {<<n, s>>}
    BY <1>7, <1>8, GivenMore
  <2>2. /\ <<n, s>>[1] = n /\ <<n, s>>[2] = s
        /\ slots' >= slots /\ slots' >= s /\ slots' \in Nat
    BY <1>1, <1>4, <1>15
  <2>3. \A w, z \in Given(code') : w[2] = z[2] => w[1] = z[1]
    BY <1>14, <1>15, <2>1, <2>2 DEF DeclaredInv
  <2>4. \A w \in Given(code') : w[2] <= slots'
    <3> TAKE w \in Given(code')
    <3>1. CASE w \in Given(code)
      <4>1. w[2] <= slots
        BY <1>14, <3>1 DEF DeclaredInv
      <4>2. w[2] \in Nat
        <5>1. PICK j \in 1 .. Len(code) : w \in code[j].objs
          BY <3>1 DEF Given
        <5>2. code[j] \in Instructions
          BY <1>2, <5>1
        <5>3. QED
          BY <5>1, <5>2 DEF Instructions, Objects
      <4>3. QED
        BY <1>15, <2>2, <4>1, <4>2
    <3>2. CASE w = <<n, s>>
      BY <1>4, <2>2, <3>2
    <3>3. QED
      BY <2>1, <3>1, <3>2
  <2>5. \A i \in 1 .. Len(ts2) : Variables(ts2[i]) \subseteq Given(code')
    <3> TAKE i \in 1 .. Len(ts2)
    <3>1. Variables(locals_table[i]) \subseteq Given(code)
      BY <1>14, <1>16 DEF DeclaredInv
    <3>2. CASE i = N
      BY <1>2, <1>13, <2>1, <3>1, <3>2
    <3>3. CASE i # N
      <4>1. ts2[i] = locals_table[i]
        BY <1>2, <1>16, <3>3
      <4>2. QED
        BY <2>1, <3>1, <4>1
    <3>4. QED
      BY <3>2, <3>3
  <2>6. \A k \in 1 .. Len(open) : Variables(open[k].then_vars) \subseteq Given(code')
    BY <1>14, <2>1 DEF DeclaredInv
  <2>7. \A i, j \in 1 .. Len(ts2) : i # j => DOMAIN ts2[i] \cap DOMAIN ts2[j] = {}
    <3>1. \A i \in 1 .. N : i # N => ts2[i] = locals_table[i]
      BY <1>2, <1>16
    <3>2. \A i \in 1 .. N : n \notin DOMAIN locals_table[i]
      BY <1>1 DEF Visible
    <3>3. \A i, j \in 1 .. N : i # j => DOMAIN locals_table[i] \cap DOMAIN locals_table[j] = {}
      BY <1>14 DEF DeclaredInv
    <3>4. DOMAIN ts2[N] = DOMAIN locals_table[N] \cup {n}
      BY <1>2, <1>16
    <3>5. QED
      BY <1>16, <3>1, <3>2, <3>3, <3>4
  <2>8. QED
    BY <2>3, <2>4, <2>5, <2>6, <2>7 DEF DeclaredInv
<1>22. \A k \in 1 .. Len(open) : k + 1 # N => ts2[k + 1] = locals_table[k + 1]
  BY <1>2, <1>16
<1>23. SlotInv(open, ts2)
  <2> SUFFICES ASSUME NEW k \in 1 .. Len(open), NEW j \in 1 .. Len(open) PROVE SlotInv(open, ts2)!(k, j)
    BY DEF SlotInv
  <2>1. SlotInv(open, locals_table)!(k, j)
    BY <1>11 DEF ScopeFacts, SlotInv
  <2>2. CASE k + 1 # N
    BY <1>22, <2>1, <2>2
  <2>3. CASE k + 1 = N
    <3>1. k = Depth
      BY <1>2, <2>3
    <3>2. Governs(open, j, k) => SameSlots(ts2[k + 1], open[j].then_vars)
      <4> SUFFICES ASSUME Governs(open, j, k), NEW m \in DOMAIN ts2[N] \cap DOMAIN open[j].then_vars
                   PROVE  ts2[N][m].slot = open[j].then_vars[m].slot
        BY <2>3 DEF SameSlots
      <4>1. CASE m = n
        BY <1>15, <1>16, <3>1, <4>1
      <4>2. CASE m # n
        BY <1>2, <1>16, <2>1, <2>3, <4>2 DEF SameSlots
      <4>3. QED
        BY <4>1, <4>2
    <3>3. QED
      BY <2>1, <3>2
  <2>4. QED
    BY <2>2, <2>3
<1>24. AroundInv(code', branch, open, ts2)
  <2>1. \A k \in 1 .. Len(open) : open[k].branch \in 1 .. Len(branch)
    BY ScopeStart DEF OpenInv
  <2>2. \A b \in 1 .. Len(branch) : Around(code', branch, b) = Around(code, branch, b)
    BY <1>2, <1>17, AroundKept, ScopeStart
  <2>3. AroundInv(code, branch, open, locals_table)
    BY <1>11 DEF ScopeFacts
  <2>4. \A k \in 1 .. Len(open) : k \in 0 .. N - 1
    BY <1>2
  <2>5. QED
    BY <1>13, <2>1, <2>2, <2>3, <2>4 DEF AroundInv
<1>25. ASSUME NEW k \in 1 .. Len(open), NEW i \in 1 .. Len(code'), LeadsOut(code', branch, open, k, i)
       PROVE  i \in 1 .. Len(code) /\ code'[i] = code[i] /\ LeadsOut(code, branch, open, k, i)
  BY <1>8, <1>18, <1>19, <1>25 DEF LeadsOut, Longer1
<1>26. NoBrkInv(code, branch, open, body)
  BY <1>11 DEF ScopeFacts
<1>27. FirstInv(code', branch, open, ts2)
  <2> SUFFICES ASSUME NEW k \in 1 .. Len(open), NEW i \in 1 .. Len(code'),
                      LeadsOut(code', branch, open, k, i),
                      NEW m \in DOMAIN PartOf(branch, open, ts2, k, i),
                      PartOf(branch, open, ts2, k, i)[m].part = 0
               PROVE  <<m, PartOf(branch, open, ts2, k, i)[m].slot>> \in code'[i].objs
    BY DEF FirstInv
  <2>1. i \in 1 .. Len(code) /\ code'[i] = code[i] /\ LeadsOut(code, branch, open, k, i)
    BY <1>25
  <2>2. \A l \in DOMAIN PartOf(branch, open, locals_table, k, i) :
          PartOf(branch, open, locals_table, k, i)[l].part = 0 =>
            <<l, PartOf(branch, open, locals_table, k, i)[l].slot>> \in code[i].objs
    BY <1>11, <2>1 DEF ScopeFacts, FirstInv
  <2>3. CASE PartOf(branch, open, ts2, k, i) = PartOf(branch, open, locals_table, k, i)
    BY <2>1, <2>2, <2>3
  <2>4. CASE PartOf(branch, open, ts2, k, i) # PartOf(branch, open, locals_table, k, i)
    <3>1. ~(open[k].part = "else" /\ i < branch[open[k].branch].else_at)
      BY <2>4 DEF PartOf
    <3>2. /\ PartOf(branch, open, ts2, k, i) = ts2[k + 1]
          /\ PartOf(branch, open, locals_table, k, i) = locals_table[k + 1]
      BY <3>1 DEF PartOf
    <3>3. k + 1 = N /\ k = Depth
      BY <1>2, <1>22, <2>4, <3>2
    <3>4. m # n
      <4>1. SUFFICES ASSUME m = n PROVE FALSE
        OBVIOUS
      <4>2. open[k].brk_part = 0
        <5>1. p = 0
          BY <1>16, <3>2, <3>3, <4>1
        <5>2. Depth # 0 /\ Top = open[k]
          BY <1>2, <3>3 DEF Top
        <5>3. QED
          BY <5>1, <5>2 DEF p
      <4>3. PartStart(branch, open[k]) <= i
        <5>1. /\ open[k].branch \in 1 .. Len(branch) /\ open[k].part \in {"then", "else"}
              /\ branch[open[k].branch].start \in Nat /\ branch[open[k].branch].else_at \in Nat
          <6>1. open[k].branch \in 1 .. Len(branch)
            BY ScopeStart DEF OpenInv
          <6>2. QED
            BY <1>2, <6>1, OpensFields, BranchFacts
        <5>2. CASE open[k].part = "then"
          BY <2>1, <5>1, <5>2 DEF PartStart, LeadsOut
        <5>3. CASE open[k].part = "else"
          BY <2>1, <3>1, <5>1, <5>3 DEF PartStart
        <5>4. QED
          BY <5>1, <5>2, <5>3
      <4>4. ~(k < Len(open))
        BY <1>2, <3>3
      <4>5. QED
        BY <1>12, <1>26, <2>1, <4>2, <4>3, <4>4 DEF NoBrkInv
    <3>5. m \in DOMAIN locals_table[k + 1] /\ ts2[k + 1][m] = locals_table[k + 1][m]
      BY <1>2, <1>16, <3>2, <3>3, <3>4
    <3>6. QED
      BY <2>1, <2>2, <3>2, <3>5
  <2>5. QED
    BY <2>3, <2>4
<1>28. ElifInv(branch, open, ts2)
  <2>1. \A k \in 1 .. Len(open) : ts2[k] = locals_table[k]
    BY <1>2, <1>16
  <2>2. QED
    BY <1>11, <2>1 DEF ScopeFacts, ElifInv
<1>29. NoBrkInv(code', branch, open, body)
  BY <1>25, <1>26 DEF NoBrkInv
<1>30. OutInv(code', branch)
  <2>1. OutInv(code, branch)
    BY <1>11 DEF ScopeFacts
  <2> SUFFICES ASSUME NEW c \in 1 .. Len(branch), NEW i \in 1 .. Len(code') PROVE OutInv(code', branch)!(c, i)
    BY DEF OutInv
  <2>2. CASE i \in 1 .. Len(code)
    BY <1>8, <2>1, <2>2 DEF OutInv, Longer1
  <2>3. CASE i = Len(code')
    BY <1>8, <1>19, <2>3
  <2>4. QED
    BY <1>18, <2>2, <2>3
<1>31. ScopeFacts(code', branch, open, ts2, slots', Dead, body)
  BY <1>20, <1>21, <1>23, <1>24, <1>27, <1>28, <1>29, <1>30 DEF ScopeFacts
<1>32. EndInv(code', open, FALSE)
  <2>1. Noted(code', open)
    BY <1>8, <1>19 DEF Noted
  <2>2. SameParts(open, open)
    BY DEF SameParts
  <2>3. LevelsGrow(open, open)
    <3>1. \A k \in 1 .. Len(open) : open[k].max_brk_level \in Nat
      BY <1>2, OpensFields
    <3>2. QED
      BY <3>1 DEF LevelsGrow
  <2>4. QED
    BY <1>2, <1>8, <1>11, <2>1, <2>2, <2>3, EndKept
<1>33. QED
  BY <1>1, <1>3, <1>12, <1>31, <1>32 DEF ts2

\* The code goes on with instructions that neither declare anything nor leave a branch.
Plain(cd, cd2) ==
  /\ cd \in Seq(Instructions) /\ cd2 \in Seq(Instructions) /\ Len(cd) \in Nat /\ Len(cd2) \in Nat
  /\ Len(cd) < Len(cd2)
  /\ \A i \in 1 .. Len(cd) : cd2[i] = cd[i]
  /\ \A i \in Len(cd) + 1 .. Len(cd2) : cd2[i].op \in {"enter", "cond"}

\* Such instructions leave what was declared and what leads out of a branch as it was.
LEMMA PlainFacts ==
  ASSUME NEW cd, NEW cd2, Plain(cd, cd2)
  PROVE  /\ Given(cd2) = Given(cd)
         /\ \A i \in 1 .. Len(cd2) :
              (i \in 1 .. Len(cd) /\ cd2[i] = cd[i]) \/ (i > Len(cd) /\ cd2[i].op \in {"enter", "cond"})
         /\ \A i \in 1 .. Len(cd2) : cd2[i].op \in Leaving => i \in 1 .. Len(cd) /\ cd2[i] = cd[i]
<1>1. \A i \in 1 .. Len(cd2) :
        (i \in 1 .. Len(cd) /\ cd2[i] = cd[i]) \/ (i > Len(cd) /\ cd2[i].op \in {"enter", "cond"})
  <2> TAKE i \in 1 .. Len(cd2)
  <2>1. Len(cd) \in Nat /\ Len(cd2) \in Nat
    BY DEF Plain
  <2>2. i \in 1 .. Len(cd) => cd2[i] = cd[i]
    BY DEF Plain
  <2>3. i \in Len(cd) + 1 .. Len(cd2) => cd2[i].op \in {"enter", "cond"}
    BY DEF Plain
  <2>4. i \in 1 .. Len(cd) \/ (i \in Len(cd) + 1 .. Len(cd2) /\ i > Len(cd))
    BY <2>1
  <2>5. CASE i \in 1 .. Len(cd)
    BY <2>2, <2>5
  <2>6. CASE i \in Len(cd) + 1 .. Len(cd2) /\ i > Len(cd)
    BY <2>3, <2>6
  <2>7. QED
    BY <2>4, <2>5, <2>6
<1>2. {j \in 1 .. Len(cd2) : cd2[j].op = "decl"} = {j \in 1 .. Len(cd) : cd[j].op = "decl"}
  <2>1. \A j \in 1 .. Len(cd) : j \in 1 .. Len(cd2) /\ cd2[j] = cd[j]
    BY DEF Plain
  <2>2. QED
    BY <1>1, <2>1
<1>3. Given(cd2) = Given(cd)
  BY <1>2 DEF Given, Plain
<1>4. QED
  BY <1>1, <1>3 DEF Leaving

\* The head of a branch is added to the code.
Joins(cd, kind, b, ts, cd2) == cd2 = cd \o HeadOf(kind, b, ts)

\* It declares nothing.
LEMMA HeadPlain ==
  ASSUME NEW cd \in Seq(Instructions), NEW kind, NEW b \in Nat, NEW ts \in Seq(Tables),
         NEW cd2, Joins(cd, kind, b, ts, cd2)
  PROVE  /\ Plain(cd, cd2)
         /\ Len(cd2) = Len(cd) + (IF kind \in {"while", "foreach"} THEN 2 ELSE 1)
         /\ \A i \in Len(cd) + 1 .. Len(cd2) : cd2[i].scope = InScope(ts) /\ cd2[i].levels = 0
<1> DEFINE e == Instruction("enter", b, {}, 0, ts)
           c == Instruction("cond", b, {}, 0, ts)
           h == HeadOf(kind, b, ts)
           two == <<e>> \o <<c>>
           one == <<e>> \o <<>>
<1>1. 0 \in Nat /\ {} \in SUBSET Objects /\ "enter" \in Ops /\ "cond" \in Ops
  BY DEF Ops
<1>2. e \in Instructions /\ e.op = "enter" /\ e.scope = InScope(ts) /\ e.levels = 0
  BY <1>1, InstructionType
<1>3. c \in Instructions /\ c.op = "cond" /\ c.scope = InScope(ts) /\ c.levels = 0
  BY <1>1, InstructionType
<1>4. h = IF kind \in {"while", "foreach"} THEN two ELSE one
  BY DEF HeadOf
<1> HIDE DEF e, c, h
<1>5. /\ two \in Seq(Instructions) /\ Len(two) = 2 /\ two[1] = e /\ two[2] = c
      /\ one \in Seq(Instructions) /\ Len(one) = 1 /\ one[1] = e
  <2>1. e \in Instructions /\ c \in Instructions
    BY <1>2, <1>3
  <2>2. /\ <<e>> \o <<c>> \in Seq(Instructions) /\ Len(<<e>> \o <<c>>) = 2
        /\ (<<e>> \o <<c>>)[1] = e /\ (<<e>> \o <<c>>)[2] = c
        /\ <<e>> \o <<>> \in Seq(Instructions) /\ Len(<<e>> \o <<>>) = 1
        /\ (<<e>> \o <<>>)[1] = e
    BY <2>1, OneOrTwo, Zenon
  <2>3. QED
    BY <2>2
<1> HIDE DEF two, one
<1>6. /\ h \in Seq(Instructions) /\ Len(h) = (IF kind \in {"while", "foreach"} THEN 2 ELSE 1)
      /\ \A i \in 1 .. Len(h) : h[i] = e \/ h[i] = c
  <2>1. CASE kind \in {"while", "foreach"}
    <3>1. h = two
      BY <1>4, <2>1
    <3>2. \A i \in 1 .. 2 : i = 1 \/ i = 2
      OBVIOUS
    <3>3. h \in Seq(Instructions) /\ Len(h) = 2 /\ h[1] = e /\ h[2] = c
      <4>1. h \in Seq(Instructions)
        BY <1>5, <3>1
      <4>2. Len(h) = 2
        BY <1>5, <3>1
      <4>3. QED
        BY <1>5, <3>1, <4>1, <4>2
    <3>4. QED
      BY <2>1, <3>2, <3>3
  <2>2. CASE kind \notin {"while", "foreach"}
    <3>1. h = one
      BY <1>4, <2>2
    <3>2. \A i \in 1 .. 1 : i = 1
      OBVIOUS
    <3>3. QED
      BY <1>5, <2>2, <3>1, <3>2
  <2>3. QED
    BY <2>1, <2>2
<1>7. /\ cd2 \in Seq(Instructions) /\ Len(cd2) = Len(cd) + Len(h)
      /\ \A i \in 1 .. Len(cd) : cd2[i] = cd[i]
      /\ \A i \in 1 .. Len(h) : cd2[Len(cd) + i] = h[i]
  <2>1. cd2 = cd \o h
    BY DEF h, Joins
  <2>2. h \in Seq(Instructions) /\ cd \in Seq(Instructions)
    BY <1>6
  <2>3. cd \o h \in Seq(Instructions) /\ Len(cd \o h) = Len(cd) + Len(h)
    BY <2>2
  <2>4. \A i \in 1 .. Len(cd) : (cd \o h)[i] = cd[i]
    BY <2>2, Joined
  <2>5. \A i \in 1 .. Len(h) : (cd \o h)[Len(cd) + i] = h[i]
    BY <2>2, Joined
  <2>6. QED
    BY <2>1, <2>3, <2>4, <2>5
<1>8. Len(cd) \in Nat /\ Len(h) \in Nat /\ Len(h) > 0
  BY <1>6
<1>9. \A i \in Len(cd) + 1 .. Len(cd2) : cd2[i] = e \/ cd2[i] = c
  <2> TAKE i \in Len(cd) + 1 .. Len(cd2)
  <2>1. i - Len(cd) \in 1 .. Len(h) /\ Len(cd) + (i - Len(cd)) = i
    BY <1>7, <1>8
  <2>2. QED
    BY <1>6, <1>7, <2>1
<1>10. \A i \in Len(cd) + 1 .. Len(cd2) :
         cd2[i].op \in {"enter", "cond"} /\ cd2[i].scope = InScope(ts) /\ cd2[i].levels = 0
  BY <1>2, <1>3, <1>9
<1>11. Len(cd2) \in Nat /\ Len(cd) < Len(cd2)
  BY <1>7, <1>8
<1>12. Len(cd2) = Len(cd) + (IF kind \in {"while", "foreach"} THEN 2 ELSE 1)
  BY <1>6, <1>7
<1>13. Plain(cd, cd2)
  BY <1>7, <1>8, <1>10, <1>11 DEF Plain
<1>14. QED
  BY <1>10, <1>12, <1>13

\* A branch begins: the record of the branch and of what the parser is in.
Begins(cd, br, r, o) ==
  /\ r \in Branches /\ r.start = Len(cd) + 1 /\ r.else_at = 0 /\ r.merge_at = 0 /\ r.vars = {}
  /\ o \in Opens /\ o.branch = Len(br) + 1 /\ o.kind = r.kind /\ o.elif = r.elif
  /\ o.part = "then" /\ ~o.returned /\ ~o.then_returned /\ o.then_vars = NoVars

\* An elif begins an else part.
ElifBegins(cd, br, op, ts, o) ==
  o.elif => /\ o.kind = "if" /\ Len(op) > 0 /\ op[Len(op)].part = "else"
            /\ br[op[Len(op)].branch].else_at = Len(cd) + 1
            /\ DOMAIN ts[Len(op) + 1] = {}

\* The code, the branches, those the parser is in and the scopes, with the new one.
Enlarged(cd, br, op, ts, cd2, br2, op2, ts2, r, o) ==
  /\ Plain(cd, cd2)
  /\ Len(cd2) = Len(cd) + (IF r.kind \in {"while", "foreach"} THEN 2 ELSE 1)
  /\ \A i \in Len(cd) + 1 .. Len(cd2) : cd2[i].scope = InScope(ts) /\ cd2[i].levels = 0
  /\ br2 \in Seq(Branches) /\ Len(br2) = Len(br) + 1 /\ br2[Len(br) + 1] = r
  /\ \A c \in 1 .. Len(br) : br2[c] = br[c]
  /\ op2 \in Seq(Opens) /\ Len(op2) = Len(op) + 1 /\ op2[Len(op) + 1] = o
  /\ \A k \in 1 .. Len(op) : op2[k] = op[k]
  /\ ts \in Seq(Tables) /\ Len(ts) = Len(op) + 1 /\ Len(ts2) = Len(op) + 2
  /\ ts2[Len(op) + 2] = NoVars /\ \A k \in 1 .. Len(op) + 1 : ts2[k] = ts[k]
  /\ ts2 \in Seq(Tables) /\ InScope(ts2) = InScope(ts)
  /\ \A k \in 0 .. Len(ts) : UpTo(ts2, k) = UpTo(ts, k)

\* The head of a branch and its empty scope enlarge code, branches and scopes by one.
LEMMA BranchEnlarges ==
  ASSUME NEW cd \in Seq(Instructions), NEW br \in Seq(Branches), NEW op \in Seq(Opens),
         NEW ts \in Seq(Tables), Len(ts) = Len(op) + 1,
         NEW r \in Branches, NEW o \in Opens,
         NEW hs \in Seq(Tables), InScope(hs) = InScope(ts), NEW b \in Nat, NEW kind, kind = r.kind
  PROVE  Enlarged(cd, br, op, ts, cd \o HeadOf(kind, b, hs), Append(br, r), Append(op, o),
                  Append(ts, NoVars), r, o)
<1> DEFINE cd2 == cd \o HeadOf(kind, b, hs)
           br2 == Append(br, r)
           op2 == Append(op, o)
           ts2 == Append(ts, NoVars)
<1>1. /\ Plain(cd, cd2)
      /\ Len(cd2) = Len(cd) + (IF kind \in {"while", "foreach"} THEN 2 ELSE 1)
      /\ \A i \in Len(cd) + 1 .. Len(cd2) : cd2[i].scope = InScope(hs) /\ cd2[i].levels = 0
  <2>1. Joins(cd, kind, b, hs, cd2)
    BY DEF Joins
  <2> HIDE DEF cd2, br2, op2, ts2
  <2>2. QED
    BY <2>1, HeadPlain
<1>2. /\ br2 \in Seq(Branches) /\ Len(br2) = Len(br) + 1 /\ br2[Len(br) + 1] = r
      /\ \A c \in 1 .. Len(br) : br2[c] = br[c]
  OBVIOUS
<1>3. /\ op2 \in Seq(Opens) /\ Len(op2) = Len(op) + 1 /\ op2[Len(op) + 1] = o
      /\ \A k \in 1 .. Len(op) : op2[k] = op[k]
  OBVIOUS
<1>4. Len(op) \in Nat
  OBVIOUS
<1>5. /\ Len(ts2) = Len(ts) + 1 /\ ts2[Len(ts) + 1] = NoVars
      /\ \A k \in 1 .. Len(ts) : ts2[k] = ts[k]
  OBVIOUS
<1>6. /\ ts2 \in Seq(Tables) /\ InScope(ts2) = InScope(ts)
      /\ \A k \in 0 .. Len(ts) : UpTo(ts2, k) = UpTo(ts, k)
  BY ScopeOpened
<1> HIDE DEF cd2, br2, op2, ts2
<1>7. /\ Len(ts2) = Len(op) + 2 /\ ts2[Len(op) + 2] = NoVars
      /\ \A k \in 1 .. Len(op) + 1 : ts2[k] = ts[k]
  <2>1. Len(ts) + 1 = Len(op) + 2
    BY <1>4
  <2>2. QED
    BY <1>5, <2>1
<1>8. Enlarged(cd, br, op, ts, cd2, br2, op2, ts2, r, o)
  BY <1>1, <1>2, <1>3, <1>6, <1>7 DEF Enlarged
<1>9. QED
  BY <1>8 DEF cd2, br2, op2, ts2

\* A branch that begins where control arrives leaves the facts about scopes true.
LEMMA BranchBeginsFacts ==
  ASSUME NEW cd, NEW br, NEW op, NEW ts, NEW n,
         NEW dead \in BOOLEAN, NEW body \in BOOLEAN, Structured(cd, br, op),
         ScopeFacts(cd, br, op, ts, n, dead, body), EndInv(cd, op, FALSE), ~dead, body,
         NEW r, NEW o, Begins(cd, br, r, o), ElifBegins(cd, br, op, ts, o),
         NEW cd2, NEW br2, NEW op2, NEW ts2, Enlarged(cd, br, op, ts, cd2, br2, op2, ts2, r, o)
  PROVE  /\ ScopeFacts(cd2, br2, op2, ts2, n, dead, body)
         /\ EndInv(cd2, op2, FALSE)
<1> DEFINE L == Len(op)
           new == Len(br) + 1
<1>1. /\ cd \in Seq(Instructions) /\ br \in Seq(Branches) /\ op \in Seq(Opens)
      /\ Len(cd) \in Nat /\ Len(br) \in Nat /\ Len(op) \in Nat /\ new \in Nat /\ L \in Nat
      /\ OpenInv(br, op) /\ PlacesInv(cd, br) /\ CodeInv(cd, br)
      /\ Len(ts) = L + 1
  BY DEF Structured, Enlarged
<1>2. /\ r \in Branches /\ r.start = Len(cd) + 1 /\ r.else_at = 0 /\ r.merge_at = 0 /\ r.vars = {}
      /\ o \in Opens /\ o.branch = new /\ o.kind = r.kind /\ o.elif = r.elif
      /\ o.part = "then" /\ ~o.returned /\ ~o.then_returned /\ o.then_vars = NoVars
  BY DEF Begins
<1>3. /\ br2 \in Seq(Branches) /\ Len(br2) = new /\ br2[new] = r
      /\ \A c \in 1 .. Len(br) : br2[c] = br[c]
      /\ op2 \in Seq(Opens) /\ Len(op2) = L + 1 /\ op2[L + 1] = o
      /\ \A k \in 1 .. L : op2[k] = op[k]
  BY DEF Enlarged
<1>4. /\ Len(ts2) = L + 2 /\ ts2[L + 2] = NoVars
      /\ \A k \in 1 .. L + 1 : ts2[k] = ts[k]
  BY DEF Enlarged
<1>5. /\ ts2 \in Seq(Tables) /\ InScope(ts2) = InScope(ts)
      /\ \A k \in 0 .. Len(ts) : UpTo(ts2, k) = UpTo(ts, k)
      /\ InScope(ts) = UpTo(ts, Len(ts))
  <2>1. ts \in Seq(Tables)
    BY DEF Enlarged
  <2>2. QED
    BY <2>1, UpToFacts DEF Enlarged
<1>6. /\ Plain(cd, cd2)
      /\ Len(cd2) = Len(cd) + (IF r.kind \in {"while", "foreach"} THEN 2 ELSE 1)
      /\ \A i \in Len(cd) + 1 .. Len(cd2) : cd2[i].scope = InScope(ts)
  BY DEF Enlarged
<1>7. /\ Given(cd2) = Given(cd)
      /\ \A i \in 1 .. Len(cd2) :
           (i \in 1 .. Len(cd) /\ cd2[i] = cd[i]) \/ (i > Len(cd) /\ cd2[i].op \in {"enter", "cond"})
      /\ \A i \in 1 .. Len(cd2) : cd2[i].op \in Leaving => i \in 1 .. Len(cd) /\ cd2[i] = cd[i]
  BY <1>6, PlainFacts
<1> HIDE DEF L, new
<1>8. /\ cd2 \in Seq(Instructions) /\ Len(cd2) \in Nat /\ Len(cd) < Len(cd2)
      /\ \A i \in 1 .. Len(cd) : cd2[i] = cd[i]
      /\ cd2[Len(cd) + 1].scope = InScope(ts)
      /\ r.kind \in {"while", "foreach"} => cd2[Len(cd) + 2].scope = InScope(ts)
  <2>1. Len(cd) + 1 \in Len(cd) + 1 .. Len(cd2)
    BY <1>1, <1>6
  <2>2. r.kind \in {"while", "foreach"} => Len(cd) + 2 \in Len(cd) + 1 .. Len(cd2)
    BY <1>1, <1>6
  <2>3. QED
    BY <1>6, <2>1, <2>2 DEF Plain
<1>9. Continues(cd, ts, dead, cd2)
  BY <1>1, <1>8 DEF Continues
<1>10. \A c \in 1 .. Len(br) : Around(cd2, br2, c) = Around(cd, br, c)
  <2> TAKE c \in 1 .. Len(br)
  <2>1. br2[c].start = br[c].start
    BY <1>3
  <2>2. QED
    BY <1>1, <1>9, <2>1, AroundKept
<1>11. Around(cd2, br2, new) = InScope(ts)
  BY <1>2, <1>3, <1>8 DEF Around
<1>12. \A k \in 1 .. L : op[k].branch \in 1 .. Len(br)
  BY <1>1 DEF OpenInv, L
<1>13. FlowInv(cd2, br2, ts2, dead)
  <2>1. OthersSame(br, br2, 0)
    BY <1>1, <1>3 DEF OthersSame, new
  <2>2. \A i \in Len(cd) + 1 .. Len(cd2) : InstructionInv(cd2, br2, ts2, dead, i)
    <3> TAKE i \in Len(cd) + 1 .. Len(cd2)
    <3>1. cd2[i].op \in {"enter", "cond"}
      BY <1>6 DEF Plain
    <3>2. QED
      BY <3>1 DEF InstructionInv, Leaving
  <2>3. ASSUME NEW i \in 1 .. Len(cd2), i > Len(cd) \/ cd2[i].branch = 0
        PROVE  MergeInv(cd2, br2, ts2, dead, i)
    <3>1. cd2[i].op \notin Leaving
      <4>1. SUFFICES ASSUME cd2[i].op \in Leaving PROVE FALSE
        OBVIOUS
      <4>2. i \in 1 .. Len(cd) /\ cd2[i] = cd[i]
        BY <1>7, <4>1
      <4>3. cd[i].branch \in 1 .. Len(br)
        BY <1>1, <4>1, <4>2, LeavingBranch
      <4>4. QED
        BY <1>1, <2>3, <4>2, <4>3
    <3>2. QED
      BY <3>1 DEF MergeInv
  <2>4. ASSUME NEW c \in 1 .. Len(br2), c > Len(br) \/ c = 0
        PROVE  PlaceInv(cd2, br2, ts2, dead, c)
    <3>1. c = new /\ br2[c] = r
      BY <1>1, <1>3, <2>4 DEF new
    <3>2. BodyOf(r) = Len(cd2) + 1
      BY <1>1, <1>2, <1>6 DEF BodyOf
    <3>3. Finds(cd2, ts2, dead, BodyOf(r), InScope(ts))
      BY <1>5, <3>2 DEF Finds
    <3>4. r.kind \in {"while", "foreach"} => Finds(cd2, ts2, dead, r.start + 1, InScope(ts))
      <4>1. r.kind \in {"while", "foreach"} =>
              r.start + 1 = Len(cd) + 2 /\ Len(cd) + 2 \in 1 .. Len(cd2)
        BY <1>1, <1>2, <1>6
      <4>2. QED
        BY <1>8, <4>1 DEF Finds
    <3>5. QED
      BY <1>2, <1>11, <3>1, <3>3, <3>4 DEF PlaceInv
  <2>5. FlowInv(cd, br, ts, dead)
    BY DEF ScopeFacts
  <2>6. QED
    BY <1>9, <2>1, <2>2, <2>3, <2>4, <2>5, FlowKept
<1>14. DeclaredInv(cd2, op2, ts2, n)
  <2>1. DeclaredInv(cd, op, ts, n)
    BY DEF ScopeFacts
  <2>2. Variables(NoVars) = {} /\ DOMAIN NoVars = {}
    BY NoVarsFacts DEF Variables
  <2>3. \A i \in 1 .. Len(ts2) : (i \in 1 .. Len(ts) /\ ts2[i] = ts[i]) \/ ts2[i] = NoVars
    <3> TAKE i \in 1 .. Len(ts2)
    <3>1. i \in 1 .. L + 1 \/ i = L + 2
      BY <1>1, <1>4
    <3>2. QED
      BY <1>1, <1>4, <3>1
  <2>4. \A k \in 1 .. Len(op2) : (k \in 1 .. Len(op) /\ op2[k] = op[k]) \/ op2[k].then_vars = NoVars
    <3> TAKE k \in 1 .. Len(op2)
    <3>1. k \in 1 .. L \/ k = L + 1
      BY <1>1, <1>3
    <3>2. QED
      BY <1>2, <1>3, <3>1 DEF L
  <2>5. \A i \in 1 .. Len(ts2) : Variables(ts2[i]) \subseteq Given(cd2)
    BY <1>7, <2>1, <2>2, <2>3 DEF DeclaredInv
  <2>6. \A k \in 1 .. Len(op2) : Variables(op2[k].then_vars) \subseteq Given(cd2)
    BY <1>7, <2>1, <2>2, <2>4 DEF DeclaredInv
  <2>7. \A i, j \in 1 .. Len(ts2) : i # j => DOMAIN ts2[i] \cap DOMAIN ts2[j] = {}
    BY <2>1, <2>2, <2>3 DEF DeclaredInv
  <2>8. QED
    BY <1>7, <2>1, <2>5, <2>6, <2>7 DEF DeclaredInv
<1>15. \A k \in 1 .. Len(op2) : k \in 1 .. L \/ k = L + 1
  BY <1>1, <1>3
<1>16. SlotInv(op2, ts2)
  <2> SUFFICES ASSUME NEW k \in 1 .. Len(op2), NEW j \in 1 .. Len(op2) PROVE SlotInv(op2, ts2)!(k, j)
    BY DEF SlotInv
  <2>1. CASE k = L + 1
    <3>1. k + 1 = L + 2 /\ op2[k].part = "then"
      BY <1>1, <1>2, <1>3, <2>1
    <3>2. DOMAIN ts2[k + 1] = {}
      BY <1>4, <3>1, NoVarsFacts
    <3>3. QED
      BY <3>1, <3>2 DEF SameSlots
  <2>2. CASE k \in 1 .. L
    <3>1. CASE j = L + 1
      BY <1>1, <2>2, <3>1 DEF Governs
    <3>2. CASE j \in 1 .. L
      <4>1. SlotInv(op, ts)!(k, j)
        BY <2>2, <3>2 DEF ScopeFacts, SlotInv, L
      <4>2. op2[j] = op[j] /\ op2[k] = op[k] /\ ts2[k + 1] = ts[k + 1]
        BY <1>1, <1>3, <1>4, <2>2, <3>2
      <4>3. ASSUME NEW m \in 0 .. L, Governs(op2, j, m) PROVE Governs(op, j, m)
        <5>1. \A l \in j + 1 .. m : l \in 1 .. L
          BY <1>1, <3>2, <4>3
        <5>2. QED
          BY <1>3, <3>2, <4>3, <5>1 DEF Governs
      <4>4. k \in 0 .. L /\ k - 1 \in 0 .. L
        BY <1>1, <2>2
      <4>5. QED
        BY <4>1, <4>2, <4>3, <4>4
    <3>3. QED
      BY <1>15, <3>1, <3>2
  <2>3. QED
    BY <1>15, <2>1, <2>2
<1>17. AroundInv(cd2, br2, op2, ts2)
  <2> SUFFICES ASSUME NEW k \in 1 .. Len(op2)
               PROVE  Around(cd2, br2, op2[k].branch) = UpTo(ts2, k)
    BY DEF AroundInv
  <2>1. CASE k \in 1 .. L
    <3>1. Around(cd, br, op[k].branch) = UpTo(ts, k)
      BY <2>1 DEF ScopeFacts, AroundInv, L
    <3>2. k \in 0 .. Len(ts)
      BY <1>1, <2>1
    <3>3. QED
      BY <1>3, <1>5, <1>10, <1>12, <2>1, <3>1, <3>2
  <2>2. CASE k = L + 1
    <3>1. k = Len(ts) /\ k \in 0 .. Len(ts)
      BY <1>1, <2>2
    <3>2. QED
      BY <1>2, <1>3, <1>5, <1>11, <2>2, <3>1
  <2>3. QED
    BY <1>15, <2>1, <2>2
<1>18. ASSUME NEW k \in 1 .. Len(op2), NEW i \in 1 .. Len(cd2), LeadsOut(cd2, br2, op2, k, i)
       PROVE  /\ k \in 1 .. L /\ i \in 1 .. Len(cd) /\ cd2[i] = cd[i] /\ op2[k] = op[k]
              /\ br2[op[k].branch] = br[op[k].branch] /\ LeadsOut(cd, br, op, k, i)
  <2>1. i \in 1 .. Len(cd) /\ cd2[i] = cd[i]
    BY <1>7, <1>18 DEF LeadsOut
  <2>2. k # L + 1
    <3>1. SUFFICES ASSUME k = L + 1 PROVE FALSE
      OBVIOUS
    <3>2. br2[op2[k].branch].start = Len(cd) + 1
      BY <1>2, <1>3, <3>1
    <3>3. QED
      BY <1>1, <1>18, <2>1, <3>2 DEF LeadsOut
  <2>3. k \in 1 .. L
    BY <1>15, <2>2
  <2>4. op2[k] = op[k] /\ br2[op[k].branch] = br[op[k].branch]
    BY <1>3, <1>12, <2>3
  <2>5. QED
    BY <1>18, <2>1, <2>3, <2>4 DEF LeadsOut
<1>19. FirstInv(cd2, br2, op2, ts2)
  <2> SUFFICES ASSUME NEW k \in 1 .. Len(op2), NEW i \in 1 .. Len(cd2),
                      LeadsOut(cd2, br2, op2, k, i)
               PROVE  LET t == PartOf(br2, op2, ts2, k, i)
                      IN \A m \in DOMAIN t : t[m].part = 0 => <<m, t[m].slot>> \in cd2[i].objs
    BY DEF FirstInv
  <2>1. /\ k \in 1 .. L /\ i \in 1 .. Len(cd) /\ cd2[i] = cd[i] /\ op2[k] = op[k]
        /\ br2[op[k].branch] = br[op[k].branch] /\ LeadsOut(cd, br, op, k, i)
    BY <1>18
  <2>2. ts2[k + 1] = ts[k + 1]
    BY <1>1, <1>4, <2>1
  <2>3. PartOf(br2, op2, ts2, k, i) = PartOf(br, op, ts, k, i)
    BY <2>1, <2>2 DEF PartOf
  <2>4. FirstInv(cd, br, op, ts)
    BY DEF ScopeFacts
  <2>5. QED
    BY <2>1, <2>3, <2>4 DEF FirstInv, L
<1>20. ElifInv(br2, op2, ts2)
  <2>1. ElifInv(br, op, ts)
    BY DEF ScopeFacts
  <2> SUFFICES ASSUME NEW k \in 1 .. Len(op2) PROVE ElifInv(br2, op2, ts2)!(k)
    BY DEF ElifInv
  <2>2. CASE k \in 1 .. L
    <3>1. ElifInv(br, op, ts)!(k)
      BY <2>1, <2>2 DEF ElifInv, L
    <3>2. k > 1 => k - 1 \in 1 .. L
      BY <1>1, <2>2
    <3>3. ts2[k] = ts[k] /\ op2[k] = op[k] /\ br2[op[k].branch] = br[op[k].branch]
      BY <1>1, <1>3, <1>4, <1>12, <2>2
    <3>4. k > 1 => op2[k - 1] = op[k - 1] /\ br2[op[k - 1].branch] = br[op[k - 1].branch]
      BY <1>3, <1>12, <3>2
    <3>5. QED
      BY <3>1, <3>3, <3>4
  <2>3. CASE k = L + 1
    <3>1. op2[k] = o /\ br2[o.branch] = r
      BY <1>2, <1>3, <2>3
    <3>2. CASE o.elif
      <4>1. /\ o.kind = "if" /\ L > 0 /\ op[L].part = "else"
            /\ br[op[L].branch].else_at = Len(cd) + 1 /\ DOMAIN ts[L + 1] = {}
        BY <3>2 DEF ElifBegins, L
      <4>2. L \in 1 .. L /\ k > 1 /\ k - 1 = L /\ L + 1 \in 1 .. L + 1
        BY <1>1, <2>3, <4>1
      <4>3. op2[k - 1] = op[L] /\ br2[op[L].branch] = br[op[L].branch] /\ ts2[k] = ts[L + 1]
        BY <1>3, <1>4, <1>12, <2>3, <4>2
      <4>4. QED
        BY <1>2, <3>1, <4>1, <4>2, <4>3
    <3>3. CASE ~o.elif
      BY <1>2, <3>1, <3>3
    <3>4. QED
      BY <3>2, <3>3
  <2>4. QED
    BY <1>15, <2>2, <2>3
<1>21. NoBrkInv(cd2, br2, op2, body)
  <2> SUFFICES ASSUME NEW k \in 1 .. Len(op2), NEW i \in 1 .. Len(cd2),
                      LeadsOut(cd2, br2, op2, k, i), PartStart(br2, op2[k]) <= i, op2[k].brk_part = 0
               PROVE  IF k < Len(op2) THEN op2[k + 1].elif ELSE ~body
    BY DEF NoBrkInv
  <2>1. /\ k \in 1 .. L /\ i \in 1 .. Len(cd) /\ cd2[i] = cd[i] /\ op2[k] = op[k]
        /\ br2[op[k].branch] = br[op[k].branch] /\ LeadsOut(cd, br, op, k, i)
    BY <1>18
  <2>2. PartStart(br, op[k]) <= i
    BY <2>1 DEF PartStart
  <2>3. IF k < L THEN op[k + 1].elif ELSE ~body
    BY <2>1, <2>2 DEF ScopeFacts, NoBrkInv, L
  <2>4. k < L /\ op[k + 1].elif
    BY <2>3
  <2>5. k + 1 \in 1 .. L /\ k < Len(op2)
    BY <1>1, <1>3, <2>1, <2>4
  <2>6. QED
    BY <1>3, <2>4, <2>5
<1>22. OutInv(cd2, br2)
  <2>1. OutInv(cd, br)
    BY DEF ScopeFacts
  <2> SUFFICES ASSUME NEW c \in 1 .. Len(br2), NEW i \in 1 .. Len(cd2),
                      cd2[i].op \in Leaving, br2[c].start < i
               PROVE  OutInv(cd2, br2)!(c, i)
    BY DEF OutInv
  <2>2. i \in 1 .. Len(cd) /\ cd2[i] = cd[i]
    BY <1>7
  <2>3. c # new
    BY <1>1, <1>2, <1>3, <2>2
  <2>4. c \in 1 .. Len(br) /\ br2[c] = br[c]
    BY <1>1, <1>3, <2>3 DEF new
  <2>5. QED
    BY <2>1, <2>2, <2>4 DEF OutInv
<1>23. EndInv(cd2, op2, FALSE)
  <2> SUFFICES ASSUME NEW k \in 1 .. Len(op2), NEW i \in 1 .. Len(cd2),
                      cd2[i].op \in Leaving, cd2[i].branch = op2[k].branch
               PROVE  EndInv(cd2, op2, FALSE)!(k, i)!2
    BY Zenon DEF EndInv
  <2>1. i \in 1 .. Len(cd) /\ cd2[i] = cd[i] /\ cd[i].branch \in 1 .. Len(br)
    BY <1>1, <1>7, LeavingBranch
  <2>2. k \in 1 .. L
    <3>1. k # L + 1
      <4>1. op2[L + 1].branch = Len(br) + 1
        BY <1>2, <1>3 DEF new
      <4>2. QED
        BY <1>1, <2>1, <4>1
    <3>2. QED
      BY <1>15, <3>1
  <2>3. op2[k] = op[k]
    BY <1>3, <2>2
  <2>4. EndInv(cd, op, FALSE)!(k, i)!2
    BY <2>1, <2>2, <2>3 DEF EndInv, L
  <2>5. ASSUME NEW j \in k .. L, op[j].max_brk_level >= j - k + 1, \A m \in k + 1 .. j : op[m].elif
        PROVE  j \in k .. Len(op2) /\ op2[j].max_brk_level >= j - k + 1 /\ \A m \in k + 1 .. j : op2[m].elif
    <3>1. j \in 1 .. L /\ j \in k .. Len(op2) /\ \A m \in k + 1 .. j : m \in 1 .. L
      BY <1>1, <1>3, <2>2
    <3>2. QED
      BY <1>3, <2>5, <3>1
  <2>6. QED
    BY <2>1, <2>3, <2>4, <2>5 DEF L
<1>24. QED
  BY <1>13, <1>14, <1>16, <1>17, <1>19, <1>20, <1>21, <1>22, <1>23 DEF ScopeFacts

\* The parts the parser is in and the instructions that come next: a branch.
LEMMA RecordsBegin ==
  ASSUME NEW cd, NEW br \in Seq(Branches), NEW kind \in Kinds, NEW elif \in BOOLEAN,
         Len(br) = Len(branch), branch \in Seq(Branches),
         NEW start \in Nat, start = Len(cd) + 1
  PROVE  /\ Begins(cd, br, NewBranch(kind, elif, start), OpenRecord(kind, elif))
         /\ NewBranch(kind, elif, start).kind = kind
         /\ OpenRecord(kind, elif).elif = elif /\ OpenRecord(kind, elif).kind = kind
<1> DEFINE r == NewBranch(kind, elif, start)
           o == OpenRecord(kind, elif)
<1>1. r \in Branches /\ o \in Opens
  BY RecordTypes
<1>2. /\ r.kind = kind /\ r.elif = elif /\ r.start = start /\ r.else_at = 0
      /\ r.merge_at = 0 /\ r.vars = {}
  BY DEF NewBranch
<1>3. /\ o.branch = Len(branch) + 1 /\ o.kind = kind /\ o.elif = elif /\ o.part = "then"
      /\ ~o.returned /\ ~o.then_returned /\ o.then_vars = NoVars
  BY DEF OpenRecord
<1> HIDE DEF r, o
<1>4. Begins(cd, br, r, o)
  BY <1>1, <1>2, <1>3 DEF Begins
<1>5. QED
  BY <1>2, <1>3, <1>4 DEF r, o

\* A branch begins with what is in scope.
LEMMA OpenBranchScopes ==
  ASSUME ParseInv, ScopeInv, NEW kind \in Kinds, OpenBranch(kind)
  PROVE  ScopeInv'
<1> DEFINE no == FALSE
           body == parse = "body"
           at == Len(code) + 1
           r == NewBranch(kind, no, at)
           o == OpenRecord(kind, no)
           b == Len(branch) + 1
<1>1. /\ open' = Append(open, o)
      /\ locals_table' = Append(locals_table, NoVars)
      /\ branch' = Append(branch, r)
      /\ code' = code \o HeadOf(kind, b, locals_table)
      /\ UNCHANGED <<parse, slots, ended>>
      /\ parse = "body" /\ ~ended /\ (Depth > 0 => ~Top.returned)
  BY DEF OpenBranch, Parsing
<1>2. /\ code \in Seq(Instructions) /\ branch \in Seq(Branches) /\ open \in Seq(Opens)
      /\ locals_table \in Seq(Tables) /\ Len(locals_table) = Len(open) + 1
      /\ at \in Nat /\ at = Len(code) + 1 /\ b \in Nat /\ no \in BOOLEAN /\ ~no /\ Depth = Len(open)
      /\ Structured(code, branch, open) /\ Len(open) \in Nat
  BY ScopeStart
<1>3. ~Dead
  BY <1>1 DEF Dead
<1> HIDE DEF no, at
<1>4. /\ Begins(code, branch, r, o) /\ r.kind = kind /\ o.elif = no /\ o.kind = kind
  BY <1>2, RecordsBegin
<1> HIDE DEF r, o, b
<1>5. r \in Branches /\ o \in Opens /\ ~o.elif /\ ~o.returned
  <2>1. r \in Branches /\ o \in Opens /\ ~o.returned
    BY <1>4 DEF Begins
  <2>2. o.elif = no /\ ~no
    BY <1>2, <1>4
  <2>3. QED
    BY <2>1, <2>2
<1>6. ElifBegins(code, branch, open, locals_table, o)
  BY <1>5 DEF ElifBegins
<1>7. Enlarged(code, branch, open, locals_table, code', branch', open', locals_table', r, o)
  BY <1>1, <1>2, <1>4, <1>5, BranchEnlarges
<1>8. ~Dead'
  <2>1. Len(open') = Len(open) + 1 /\ open'[Len(open) + 1] = o
    BY <1>7 DEF Enlarged
  <2>2. Depth' = Len(open') /\ Top' = open'[Depth']
    BY DEF Depth, Top
  <2>3. QED
    BY <1>2, <1>5, <2>1, <2>2 DEF Dead
<1>9. SUFFICES ASSUME Single(code')
               PROVE  /\ ScopeFacts(code', branch', open', locals_table', slots', Dead', (parse = "body")')
                      /\ EndInv(code', open', FALSE) /\ parse' # "close"
  BY DEF ScopeInv
<1>10. Single(code)
  <2>1. Plain(code, code')
    BY <1>7 DEF Enlarged
  <2>2. Len(code) \in Nat /\ Len(code') \in Nat /\ Len(code) <= Len(code')
        /\ \A i \in 1 .. Len(code) : code'[i] = code[i]
    BY <2>1 DEF Plain
  <2>3. QED
    BY <1>9, <2>2, SingleBefore
<1>11. /\ ScopeFacts(code, branch, open, locals_table, slots, Dead, body)
       /\ EndInv(code, open, FALSE)
  BY <1>10 DEF ScopeInv
<1>12. body \in BOOLEAN /\ body /\ (parse = "body")' = body /\ parse' # "close"
  BY <1>1
<1> HIDE DEF body
<1>13. /\ ScopeFacts(code', branch', open', locals_table', slots, Dead, body)
       /\ EndInv(code', open', FALSE)
  <2>1. Structured(code, branch, open) /\ Begins(code, branch, r, o) /\ body /\ body \in BOOLEAN
        /\ Dead \in BOOLEAN
    BY <1>2, <1>4, <1>12, ScopeStart
  <2> DEFINE dead == Dead
  <2>2. ScopeFacts(code, branch, open, locals_table, slots, dead, body) /\ ~dead /\ dead \in BOOLEAN
    BY <1>3, <1>11, <2>1
  <2> HIDE DEF dead
  <2>3. /\ ScopeFacts(code', branch', open', locals_table', slots, dead, body)
        /\ EndInv(code', open', FALSE)
    BY <1>6, <1>7, <1>11, <2>1, <2>2, BranchBeginsFacts
  <2>4. QED
    BY <2>3 DEF dead
<1>14. Dead = Dead'
  <2>1. Dead \in BOOLEAN /\ Dead' \in BOOLEAN
    <3>1. ended' \in BOOLEAN
      BY <1>1, ScopeStart DEF ParseInv, TypeInv
    <3>2. Depth' = Len(open) + 1 /\ Top' = o
      <4>1. Len(open') = Len(open) + 1 /\ open'[Len(open) + 1] = o
        BY <1>7 DEF Enlarged
      <4>2. QED
        BY <4>1 DEF Depth, Top
    <3>3. QED
      BY <1>2, <1>5, <3>1, <3>2, ScopeStart, OpensFields DEF Dead
  <2>2. QED
    BY <1>3, <1>8, <2>1
<1>15. QED
  BY <1>1, <1>12, <1>13, <1>14

\* A scope shares no storage with those around it.
LEMMA StorageApart ==
  ASSUME NEW cd, NEW op, NEW n, NEW ts \in Seq(Tables), DeclaredInv(cd, op, ts, n),
         NEW j \in 1 .. Len(ts), NEW k \in 0 .. Len(ts), k < j
  PROVE  Storage(ts[j]) \cap UpTo(ts, k) = {}
<1>1. Len(ts) \in Nat
  OBVIOUS
<1>2. ASSUME NEW s \in Storage(ts[j]), s \in UpTo(ts, k) PROVE FALSE
  <2>1. PICK v \in Variables(ts[j]) : v[2] = s
    BY PiecesOf DEF Pieces
  <2>2. PICK i \in 1 .. k : s \in Storage(ts[i])
    BY <1>2 DEF UpTo
  <2>3. PICK w \in Variables(ts[i]) : w[2] = s
    BY <2>2, PiecesOf DEF Pieces
  <2>4. i \in 1 .. Len(ts) /\ i # j
    BY <1>1
  <2>5. v = w
    BY <2>1, <2>3, <2>4, ScopesApart
  <2>6. v[1] \in DOMAIN ts[j] /\ w[1] \in DOMAIN ts[i]
    BY <2>1, <2>3 DEF Variables
  <2>7. QED
    BY <2>4, <2>5, <2>6 DEF DeclaredInv
<1>3. QED
  BY <1>2

\* The second part of the innermost branch begins: the record of the branch and of
\* what the parser is in.
Splits(cd, br, op, ts, br2, op2, ts2) ==
  LET L == Len(op)
      b == op[L].branch
  IN /\ L > 0 /\ op[L].part = "then" /\ ts \in Seq(Tables) /\ Len(ts) = L + 1
     /\ op[L].kind # "repeat"
     /\ OthersSame(br, br2, b) /\ Len(br2) = Len(br)
     /\ \A c \in 1 .. Len(br) :
          br2[c].kind = br[c].kind /\ br2[c].elif = br[c].elif /\ br2[c].merge_at = br[c].merge_at
     /\ br2[b].else_at = Len(cd) + 1 /\ br2[b].vars = Storage(ts[L + 1])
     /\ Len(op2) = L /\ \A k \in 1 .. L - 1 : op2[k] = op[k]
     /\ op2[L].branch = b /\ op2[L].kind = op[L].kind /\ op2[L].elif = op[L].elif
     /\ op2[L].part = "else" /\ op2[L].then_vars = ts[L + 1]
     /\ op2[L].then_returned = op[L].returned /\ op2[L].max_brk_level = op[L].max_brk_level
     /\ ts2 \in Seq(Tables) /\ Len(ts2) = L + 1 /\ ts2[L + 1] = NoVars
     /\ \A k \in 1 .. L : ts2[k] = ts[k]

\* Nothing leads to the second part but the condition.
LEMMA SplitFacts ==
  ASSUME NEW cd, NEW br, NEW op, NEW ts, NEW n, Structured(cd, br, op),
         NEW yes \in BOOLEAN, yes, NEW no \in BOOLEAN, ~no, NEW body \in BOOLEAN,
         ScopeFacts(cd, br, op, ts, n, yes, no), EndInv(cd, op, yes),
         NEW br2, NEW op2, NEW ts2, Splits(cd, br, op, ts, br2, op2, ts2)
  PROVE  /\ ScopeFacts(cd, br2, op2, ts2, n, no, body)
         /\ EndInv(cd, op2, FALSE)
<1> DEFINE L == Len(op)
           b == op[L].branch
<1>1. /\ cd \in Seq(Instructions) /\ br \in Seq(Branches) /\ op \in Seq(Opens)
      /\ Len(cd) \in Nat /\ Len(br) \in Nat /\ L \in Nat
      /\ OpenInv(br, op) /\ PlacesInv(cd, br) /\ CodeInv(cd, br)
  BY DEF Structured
<1>2. /\ L > 0 /\ L \in 1 .. L /\ op[L].part = "then" /\ ts \in Seq(Tables) /\ Len(ts) = L + 1
      /\ OthersSame(br, br2, b) /\ Len(br2) = Len(br) /\ op[L].kind # "repeat"
  BY <1>1 DEF Splits
<1>3. /\ \A c \in 1 .. Len(br) :
           /\ br2[c].kind = br[c].kind /\ br2[c].elif = br[c].elif
           /\ br2[c].merge_at = br[c].merge_at /\ br2[c].start = br[c].start
           /\ c # b => br2[c] = br[c]
      /\ br2[b].else_at = Len(cd) + 1 /\ br2[b].vars = Storage(ts[L + 1])
  BY DEF Splits, OthersSame
<1>4. /\ Len(op2) = L /\ \A k \in 1 .. L - 1 : op2[k] = op[k]
      /\ op2[L].branch = b /\ op2[L].kind = op[L].kind /\ op2[L].elif = op[L].elif
      /\ op2[L].part = "else" /\ op2[L].then_vars = ts[L + 1]
      /\ op2[L].then_returned = op[L].returned /\ op2[L].max_brk_level = op[L].max_brk_level
  BY DEF Splits
<1>5. /\ ts2 \in Seq(Tables) /\ Len(ts2) = L + 1 /\ ts2[L + 1] = NoVars
      /\ \A k \in 1 .. L : ts2[k] = ts[k]
  BY DEF Splits
<1> HIDE DEF L, b
<1>6. \A k \in 1 .. Len(op) : k \in 1 .. L - 1 \/ k = L
  BY <1>1 DEF L
<1>7. /\ \A k \in 1 .. L : op[k].branch \in 1 .. Len(br)
      /\ b \in 1 .. Len(br) /\ br[b].merge_at = 0
      /\ \A k \in 1 .. L - 1 : op[k].branch # b
  <2>1. \A k \in 1 .. L : op[k].branch \in 1 .. Len(br)
    BY <1>1 DEF OpenInv, L
  <2>2. b \in 1 .. Len(br) /\ br[b].merge_at = 0
    BY <1>1, <1>2 DEF OpenInv, L, b
  <2>3. \A k \in 1 .. L - 1 : op[k].branch # b
    <3> TAKE k \in 1 .. L - 1
    <3>1. k \in 1 .. L /\ k < L
      BY <1>1
    <3>2. op[k].branch < op[L].branch
      BY <1>1, <1>2, <3>1 DEF OpenInv, L
    <3>3. op[k].branch \in Nat
      BY <2>1, <3>1
    <3>4. QED
      BY <3>2, <3>3 DEF b
  <2>4. QED
    BY <2>1, <2>2, <2>3
<1>8. /\ FlowInv(cd, br, ts, yes) /\ DeclaredInv(cd, op, ts, n) /\ SlotInv(op, ts)
      /\ AroundInv(cd, br, op, ts) /\ FirstInv(cd, br, op, ts) /\ ElifInv(br, op, ts)
      /\ NoBrkInv(cd, br, op, no) /\ OutInv(cd, br)
  BY DEF ScopeFacts
<1>9. \A k \in 0 .. L : UpTo(ts2, k) = UpTo(ts, k)
  <2> TAKE k \in 0 .. L
  <2>1. k \in Nat /\ \A i \in 1 .. k : ts2[i] = ts[i]
    BY <1>1, <1>5
  <2>2. QED
    BY <2>1, UpToSame
<1>10. Around(cd, br, b) = UpTo(ts, L) /\ InScope(ts2) = UpTo(ts, L)
  <2>1. Around(cd, br, b) = UpTo(ts, L)
    BY <1>2, <1>8 DEF AroundInv, L, b
  <2>2. Storage(NoVars) = {}
    BY NoVarsFacts DEF Storage
  <2>3. UpTo(ts2, L + 1) = UpTo(ts2, L) \cup Storage(ts2[L + 1])
    BY <1>1, <1>5, UpToFacts
  <2>4. InScope(ts2) = UpTo(ts2, L + 1)
    BY <1>5, UpToFacts
  <2>5. L \in 0 .. L
    BY <1>1
  <2>6. QED
    BY <1>5, <1>9, <2>1, <2>2, <2>3, <2>4, <2>5
<1>11. Continues(cd, ts, yes, cd)
  BY <1>1 DEF Continues
<1>12. \A c \in 1 .. Len(br) : Around(cd, br2, c) = Around(cd, br, c)
  BY <1>3 DEF Around
<1>13. FlowInv(cd, br2, ts2, no)
  <2>1. \A i \in Len(cd) + 1 .. Len(cd) : InstructionInv(cd, br2, ts2, no, i)
    BY <1>1
  <2>2. \A i \in 1 .. Len(cd) : i > Len(cd) \/ cd[i].branch = b => MergeInv(cd, br2, ts2, no, i)
    <3> TAKE i \in 1 .. Len(cd)
    <3>1. ~(i > Len(cd))
      BY <1>1
    <3>2. cd[i].branch = b => MergeInv(cd, br2, ts2, no, i)
      BY <1>3, <1>7 DEF MergeInv
    <3>3. QED
      BY <3>1, <3>2
  <2>3. PlaceInv(cd, br2, ts2, no, b)
    <3>1. PlaceInv(cd, br, ts, yes, b)
      BY <1>7, <1>8 DEF FlowInv
    <3>2. \A p, S : Finds(cd, ts, yes, p, S) => Finds(cd, ts2, no, p, S)
      BY <1>11, FindsKept
    <3>3. BodyOf(br2[b]) = BodyOf(br[b])
      BY <1>3, <1>7 DEF BodyOf
    <3>4. Finds(cd, ts2, no, BodyOf(br2[b]), Around(cd, br2, b))
      BY <1>7, <1>12, <3>1, <3>2, <3>3 DEF PlaceInv
    <3>5. br2[b].kind \in {"while", "foreach"} =>
            Finds(cd, ts2, no, br2[b].start + 1, Around(cd, br2, b))
      BY <1>3, <1>7, <1>12, <3>1, <3>2 DEF PlaceInv
    <3>6. Finds(cd, ts2, no, br2[b].else_at, Around(cd, br2, b))
      BY <1>3, <1>7, <1>10, <1>12 DEF Finds
    <3>7. br2[b].merge_at = 0
      BY <1>3, <1>7
    <3>8. br2[b].vars \cap Around(cd, br2, b) = {}
      <4>1. L + 1 \in 1 .. Len(ts) /\ L \in 0 .. Len(ts) /\ L < L + 1
        BY <1>1, <1>2
      <4>2. Storage(ts[L + 1]) \cap UpTo(ts, L) = {}
        BY <1>2, <1>8, <4>1, StorageApart
      <4>3. QED
        BY <1>3, <1>7, <1>10, <1>12, <4>2
    <3>9. QED
      BY <3>4, <3>5, <3>6, <3>7, <3>8 DEF PlaceInv
  <2>4. \A c \in 1 .. Len(br2) : c > Len(br) \/ c = b => PlaceInv(cd, br2, ts2, no, c)
    <3> TAKE c \in 1 .. Len(br2)
    <3>1. ~(c > Len(br))
      BY <1>1, <1>2
    <3>2. QED
      BY <2>3, <3>1
  <2>5. QED
    BY <1>2, <1>8, <1>11, <2>1, <2>2, <2>4, FlowKept
<1>14. DeclaredInv(cd, op2, ts2, n)
  <2>1. Variables(NoVars) = {} /\ DOMAIN NoVars = {}
    BY NoVarsFacts DEF Variables
  <2>2. \A i \in 1 .. Len(ts2) : (i \in 1 .. Len(ts) /\ ts2[i] = ts[i]) \/ ts2[i] = NoVars
    <3> TAKE i \in 1 .. Len(ts2)
    <3>1. i \in 1 .. L \/ i = L + 1
      BY <1>1, <1>5
    <3>2. QED
      BY <1>1, <1>2, <1>5, <3>1
  <2>3. \A k \in 1 .. Len(op2) : Variables(op2[k].then_vars) \subseteq Given(cd)
    <3> TAKE k \in 1 .. Len(op2)
    <3>1. CASE k = L
      <4>1. L + 1 \in 1 .. Len(ts)
        BY <1>1, <1>2
      <4>2. QED
        BY <1>4, <1>8, <3>1, <4>1 DEF DeclaredInv
    <3>2. CASE k \in 1 .. L - 1
      <4>1. k \in 1 .. Len(op) /\ op2[k] = op[k]
        BY <1>1, <1>4, <3>2 DEF L
      <4>2. QED
        BY <1>8, <4>1 DEF DeclaredInv
    <3>3. QED
      BY <1>4, <1>6, <3>1, <3>2 DEF L
  <2>4. \A i \in 1 .. Len(ts2) : Variables(ts2[i]) \subseteq Given(cd)
    BY <1>8, <2>1, <2>2 DEF DeclaredInv
  <2>5. \A i, j \in 1 .. Len(ts2) : i # j => DOMAIN ts2[i] \cap DOMAIN ts2[j] = {}
    BY <1>8, <2>1, <2>2 DEF DeclaredInv
  <2>6. QED
    BY <1>8, <2>3, <2>4, <2>5 DEF DeclaredInv
<1>15. SlotInv(op2, ts2)
  <2> SUFFICES ASSUME NEW k \in 1 .. Len(op2), NEW j \in 1 .. Len(op2) PROVE SlotInv(op2, ts2)!(k, j)
    BY DEF SlotInv
  <2>1. k \in 1 .. Len(op) /\ j \in 1 .. Len(op) /\ k - 1 \in 0 .. L - 1
    BY <1>1, <1>4 DEF L
  <2>2. SlotInv(op, ts)!(k, j)
    BY <1>8, <2>1 DEF SlotInv
  <2>3. ASSUME NEW m \in 0 .. L - 1, Governs(op2, j, m) PROVE Governs(op, j, m) /\ op2[j] = op[j]
    <3>1. j \in 1 .. m /\ op2[j].part = "else" /\ \A l \in j + 1 .. m : op2[l].part = "then"
      BY <2>3 DEF Governs
    <3>2. j \in 1 .. L - 1 /\ \A l \in j + 1 .. m : l \in 1 .. L - 1
      BY <1>1, <3>1
    <3>3. op2[j] = op[j] /\ \A l \in j + 1 .. m : op2[l] = op[l]
      BY <1>4, <3>2
    <3>4. QED
      BY <3>1, <3>3 DEF Governs
  <2>4. CASE k = L
    <3>1. Governs(op2, j, k) => SameSlots(ts2[k + 1], op2[j].then_vars)
      BY <1>5, <2>4, NoVarsFacts DEF SameSlots
    <3>2. ASSUME Governs(op2, j, k - 1)
          PROVE  SameSlots(op2[k].then_vars, op2[j].then_vars)
      <4>1. Governs(op, j, L - 1) /\ op2[j] = op[j]
        BY <2>1, <2>3, <2>4, <3>2
      <4>2. Governs(op, j, L)
        <5>1. j \in 1 .. L
          BY <2>1 DEF L
        <5>2. \A l \in j + 1 .. L : l \in j + 1 .. L - 1 \/ l = L
          BY <1>1
        <5>3. QED
          BY <1>2, <4>1, <5>1, <5>2 DEF Governs
      <4>3. SameSlots(ts[L + 1], op[j].then_vars)
        BY <2>2, <2>4, <4>2
      <4>4. QED
        BY <1>4, <2>4, <4>1, <4>3
    <3>3. QED
      BY <3>1, <3>2
  <2>5. CASE k \in 1 .. L - 1
    <3>1. op2[k] = op[k] /\ ts2[k + 1] = ts[k + 1] /\ k \in 0 .. L - 1
      <4>1. k + 1 \in 1 .. L /\ k \in 0 .. L - 1
        BY <1>1, <2>5
      <4>2. QED
        BY <1>4, <1>5, <2>5, <4>1
    <3>2. QED
      BY <2>1, <2>2, <2>3, <3>1
  <2>6. QED
    BY <1>6, <2>1, <2>4, <2>5
<1>16. \A k \in 1 .. L : /\ op2[k].branch = op[k].branch /\ op2[k].kind = op[k].kind
                         /\ op2[k].elif = op[k].elif
                         /\ op2[k].max_brk_level = op[k].max_brk_level
  BY <1>4, <1>6 DEF L, b
<1>17. AroundInv(cd, br2, op2, ts2)
  <2> SUFFICES ASSUME NEW k \in 1 .. L
               PROVE  Around(cd, br2, op2[k].branch) = UpTo(ts2, k)
    BY <1>4 DEF AroundInv
  <2>1. Around(cd, br, op[k].branch) = UpTo(ts, k)
    BY <1>8 DEF AroundInv, L
  <2>2. op2[k].branch = op[k].branch /\ op[k].branch \in 1 .. Len(br) /\ k \in 0 .. L
    BY <1>1, <1>7, <1>16
  <2>3. QED
    BY <1>9, <1>12, <2>1, <2>2
<1>18. \A k \in 1 .. L, i \in 1 .. Len(cd) : LeadsOut(cd, br2, op2, k, i) => LeadsOut(cd, br, op, k, i)
  BY <1>3, <1>7, <1>16 DEF LeadsOut
<1>19. FirstInv(cd, br2, op2, ts2)
  <2> SUFFICES ASSUME NEW k \in 1 .. L, NEW i \in 1 .. Len(cd),
                      LeadsOut(cd, br2, op2, k, i)
               PROVE  LET t == PartOf(br2, op2, ts2, k, i)
                      IN \A m \in DOMAIN t : t[m].part = 0 => <<m, t[m].slot>> \in cd[i].objs
    BY <1>4 DEF FirstInv
  <2>1. LeadsOut(cd, br, op, k, i)
    BY <1>18
  <2>2. PartOf(br2, op2, ts2, k, i) = PartOf(br, op, ts, k, i)
    <3>1. CASE k = L
      <4>1. i < br2[b].else_at
        BY <1>1, <1>3
      <4>2. PartOf(br2, op2, ts2, L, i) = op2[L].then_vars
        BY <1>4, <4>1 DEF PartOf
      <4>3. PartOf(br, op, ts, L, i) = ts[L + 1]
        BY <1>2 DEF PartOf
      <4>4. QED
        BY <1>4, <3>1, <4>2, <4>3
    <3>2. CASE k \in 1 .. L - 1
      <4>1. op2[k] = op[k] /\ br2[op[k].branch] = br[op[k].branch]
        BY <1>3, <1>4, <1>7, <3>2
      <4>2. k + 1 \in 1 .. L
        BY <1>1, <3>2
      <4>3. ts2[k + 1] = ts[k + 1]
        BY <1>5, <4>2
      <4>4. QED
        BY <4>1, <4>3 DEF PartOf
    <3>3. QED
      BY <1>6, <3>1, <3>2 DEF L
  <2>3. QED
    BY <1>8, <2>1, <2>2 DEF FirstInv, L
<1>20. ElifInv(br2, op2, ts2)
  <2> SUFFICES ASSUME NEW k \in 1 .. L PROVE ElifInv(br2, op2, ts2)!(k)
    BY <1>4 DEF ElifInv
  <2>1. ElifInv(br, op, ts)!(k)
    BY <1>8 DEF ElifInv, L
  <2>2. ts2[k] = ts[k] /\ br2[op[k].branch].start = br[op[k].branch].start
        /\ op2[k].branch = op[k].branch /\ op2[k].kind = op[k].kind /\ op2[k].elif = op[k].elif
    BY <1>3, <1>5, <1>7, <1>16
  <2>3. k > 1 => op2[k - 1] = op[k - 1] /\ br2[op[k - 1].branch] = br[op[k - 1].branch]
    <3>1. k > 1 => k - 1 \in 1 .. L - 1 /\ k - 1 \in 1 .. L
      BY <1>1
    <3>2. QED
      BY <1>3, <1>4, <1>7, <3>1
  <2>4. op2[k].kind \in Loops => ~op2[k].then_returned
    <3>1. CASE k = L
      <4>1. op[L].kind \in Loops => ~op[L].returned
        BY <1>1, <1>2 DEF OpenInv, L
      <4>2. QED
        BY <1>4, <3>1, <4>1
    <3>2. CASE k \in 1 .. L - 1
      BY <1>4, <2>1, <3>2
    <3>3. QED
      BY <1>6, <3>1, <3>2 DEF L
  <2>5. op2[k].kind = "repeat" => op2[k].part = "then"
    <3>1. CASE k = L
      BY <1>2, <1>4, <3>1
    <3>2. CASE k \in 1 .. L - 1
      BY <1>4, <2>1, <3>2
    <3>3. QED
      BY <1>6, <3>1, <3>2 DEF L
  <2>6. QED
    BY <2>1, <2>2, <2>3, <2>4, <2>5
<1>21. NoBrkInv(cd, br2, op2, body)
  <2> SUFFICES ASSUME NEW k \in 1 .. L, NEW i \in 1 .. Len(cd),
                      LeadsOut(cd, br2, op2, k, i), PartStart(br2, op2[k]) <= i, op2[k].brk_part = 0
               PROVE  k < L /\ op2[k + 1].elif
    BY <1>4 DEF NoBrkInv
  <2>1. LeadsOut(cd, br, op, k, i)
    BY <1>18
  <2>2. k # L
    <3>1. PartStart(br2, op2[L]) = Len(cd) + 1
      BY <1>3, <1>4 DEF PartStart
    <3>2. QED
      BY <1>1, <3>1
  <2>3. k \in 1 .. L - 1
    BY <1>6, <2>2 DEF L
  <2>4. op2[k] = op[k] /\ br2[op[k].branch] = br[op[k].branch] /\ k + 1 \in 1 .. L /\ k < L
    <3>1. k + 1 \in 1 .. L /\ k < L
      BY <1>1, <2>3
    <3>2. QED
      BY <1>3, <1>4, <1>7, <2>3, <3>1
  <2>5. PartStart(br, op[k]) <= i
    BY <2>4 DEF PartStart
  <2>6. op[k + 1].elif
    BY <1>8, <2>1, <2>4, <2>5 DEF NoBrkInv, L
  <2>7. QED
    BY <1>16, <2>4, <2>6
<1>22. OutInv(cd, br2)
  BY <1>2, <1>3, <1>8 DEF OutInv
<1>23. EndInv(cd, op2, FALSE)
  <2> SUFFICES ASSUME NEW k \in 1 .. Len(op2), NEW i \in 1 .. Len(cd),
                      cd[i].op \in Leaving, cd[i].branch = op2[k].branch
               PROVE  EndInv(cd, op2, FALSE)!(k, i)!2
    BY Zenon DEF EndInv
  <2>0. k \in 1 .. L
    BY <1>4
  <2>1. op2[k].branch = op[k].branch /\ op2[k].elif = op[k].elif
    BY <1>16, <2>0
  <2>2. EndInv(cd, op, yes)!(k, i)!2
    BY <2>0, <2>1 DEF EndInv, L
  <2>3. cd[i].op # "endelse"
    BY <1>2, <2>2 DEF L
  <2>4. cd[i].op = "endthen" => op2[k].part = "else" /\ ~op2[k].then_returned
    <3>1. CASE k = L
      BY <1>2, <1>4, <2>2, <3>1
    <3>2. CASE k \in 1 .. L - 1
      <4>1. op2[k] = op[k] /\ k # Len(op)
        BY <1>1, <1>4, <3>2 DEF L
      <4>2. QED
        BY <2>2, <4>1
    <3>3. QED
      BY <1>6, <2>0, <3>1, <3>2 DEF L
  <2>5. ASSUME NEW j \in k .. L, op[j].max_brk_level >= j - k + 1, \A m \in k + 1 .. j : op[m].elif
        PROVE  op2[j].max_brk_level >= j - k + 1 /\ \A m \in k + 1 .. j : op2[m].elif
    <3>1. j \in 1 .. L /\ \A m \in k + 1 .. j : m \in 1 .. L
      BY <1>1, <2>0
    <3>2. QED
      BY <1>16, <2>5, <3>1
  <2>6. QED
    BY <1>4, <2>1, <2>2, <2>3, <2>4, <2>5 DEF L
<1>24. QED
  BY <1>13, <1>14, <1>15, <1>17, <1>19, <1>20, <1>21, <1>22, <1>23 DEF ScopeFacts

\* The code up to the end of a part, where there are only brk of one level.
LEMMA PartScopes ==
  ASSUME ParseInv, ScopeInv, Depth > 0, parse # "done",
         NEW cd2, Len(EndOfPart) <= Len(cd2), Len(cd2) \in Nat,
         \A i \in 1 .. Len(EndOfPart) : cd2[i] = EndOfPart[i], Single(cd2),
         NEW yes \in BOOLEAN, yes, NEW no \in BOOLEAN, ~no
  PROVE  /\ ScopeFacts(EndOfPart, branch, open, locals_table, slots, yes, no)
         /\ EndInv(EndOfPart, open, yes)
         /\ ScopeFacts(code, branch, open, locals_table, slots, Dead, parse = "body")
         /\ EndInv(code, open, FALSE)
<1> DEFINE body == parse = "body"
<1>1. /\ EndOfPart \in Seq(Instructions) /\ Len(EndOfPart) \in Nat /\ Len(code) \in Nat
      /\ Len(EndOfPart) >= Len(code) /\ \A i \in 1 .. Len(code) : EndOfPart[i] = code[i]
  BY EndOfPartGrows, PartEnded DEF Grown
<1>2. Single(EndOfPart)
  BY <1>1, SingleBefore
<1>3. Single(code)
  BY <1>1, <1>2, SingleBefore
<1>4. /\ ScopeFacts(code, branch, open, locals_table, slots, Dead, body)
      /\ EndInv(code, open, FALSE)
  BY <1>3 DEF ScopeInv
<1>5. body \in BOOLEAN
  OBVIOUS
<1> HIDE DEF body
<1>6. /\ ScopeFacts(EndOfPart, branch, open, locals_table, slots, yes, no)
      /\ EndInv(EndOfPart, open, yes)
  BY <1>4, <1>5, PartEndedFacts
<1>7. QED
  BY <1>4, <1>6 DEF body

\* A branch, what the parser is in and the scopes are split into parts.
SplitUp(br2, op2, ts2) ==
  /\ br2 = [branch EXCEPT ![Top.branch] = BeginElse(branch[Top.branch])]
  /\ op2 = [open EXCEPT ![Depth] = ElsePart]
  /\ ts2 = [locals_table EXCEPT ![Depth + 1] = NoVars]

\* Else and elif close the scope of the first part and open that of the second.
LEMMA ElseSplits ==
  ASSUME ParseInv, Depth > 0, Top.part = "then", Top.kind # "repeat",
         NEW br2, NEW op2, NEW ts2, SplitUp(br2, op2, ts2)
  PROVE  /\ Splits(EndOfPart, branch, open, locals_table, br2, op2, ts2)
         /\ Structured(EndOfPart, br2, op2) /\ ~op2[Depth].returned
         /\ InScope(ts2) = UpTo(locals_table, Depth)
<1> DEFINE b == Top.branch
           s == branch[b]
           r == BeginElse(s)
           o == ElsePart
           t == locals_table[Depth + 1]
           e == Len(EndOfPart) + 1
<1>1. /\ branch \in Seq(Branches) /\ open \in Seq(Opens) /\ locals_table \in Seq(Tables)
      /\ Len(locals_table) = Len(open) + 1 /\ Depth = Len(open) /\ Depth \in 1 .. Len(open)
      /\ Top = open[Depth] /\ Top \in Opens /\ Len(open) \in Nat /\ Len(branch) \in Nat
  BY ScopeStart
<1>2. /\ o \in Opens /\ b \in 1 .. Len(branch) /\ r \in Branches
      /\ Structured(EndOfPart, [branch EXCEPT ![b] = r], [open EXCEPT ![Depth] = o])
  BY ElseBegun
<1>3. /\ br2 = [branch EXCEPT ![b] = r] /\ op2 = [open EXCEPT ![Depth] = o]
      /\ ts2 = [locals_table EXCEPT ![Depth + 1] = NoVars]
  BY DEF SplitUp
<1>4. s \in Branches
  BY <1>1, <1>2
<1>5. /\ r.start = s.start /\ r.kind = s.kind /\ r.elif = s.elif /\ r.merge_at = s.merge_at
      /\ r.else_at = e /\ r.vars = Storage(t)
  BY <1>4 DEF BeginElse, Branches
<1>6. /\ o.branch = b /\ o.kind = Top.kind /\ o.elif = Top.elif /\ o.part = "else"
      /\ o.then_vars = t /\ o.max_brk_level = Top.max_brk_level
  BY <1>1 DEF ElsePart, Opens
<1>7. o.then_returned = Top.returned /\ ~o.returned
  BY <1>1 DEF ElsePart, Opens
<1> HIDE DEF r, o, t, e
<1>8. /\ br2 \in Seq(Branches) /\ Len(br2) = Len(branch) /\ br2[b] = r
      /\ \A c \in 1 .. Len(branch) : c # b => br2[c] = branch[c]
  BY <1>1, <1>2, <1>3
<1>9. /\ Len(op2) = Len(open) /\ op2[Depth] = o
      /\ \A k \in 1 .. Len(open) - 1 : op2[k] = open[k]
  BY <1>1, <1>2, <1>3
<1>10. /\ ts2 \in Seq(Tables) /\ Len(ts2) = Len(open) + 1 /\ ts2[Len(open) + 1] = NoVars
       /\ \A k \in 1 .. Len(open) : ts2[k] = locals_table[k]
  BY <1>1, <1>3, NoVarsFacts
<1>11. OthersSame(branch, br2, b)
  <2>1. \A c \in 1 .. Len(branch) : br2[c].start = branch[c].start
    BY <1>5, <1>8
  <2>2. QED
    BY <1>1, <1>8, <2>1 DEF OthersSame
<1>12. Splits(EndOfPart, branch, open, locals_table, br2, op2, ts2)
  <2>1. \A c \in 1 .. Len(branch) :
          /\ br2[c].kind = branch[c].kind /\ br2[c].elif = branch[c].elif
          /\ br2[c].merge_at = branch[c].merge_at
    BY <1>5, <1>8
  <2>2. /\ open[Len(open)].branch = b /\ open[Len(open)].part = "then" /\ Len(open) > 0
        /\ open[Len(open)].kind # "repeat"
        /\ open[Len(open)] = Top
    BY <1>1
  <2>3. br2[b].else_at = Len(EndOfPart) + 1 /\ br2[b].vars = Storage(locals_table[Len(open) + 1])
    BY <1>1, <1>5, <1>8 DEF e, t
  <2>4. /\ op2[Len(open)].branch = b /\ op2[Len(open)].kind = Top.kind
        /\ op2[Len(open)].elif = Top.elif /\ op2[Len(open)].part = "else"
        /\ op2[Len(open)].then_vars = locals_table[Len(open) + 1]
        /\ op2[Len(open)].then_returned = Top.returned
        /\ op2[Len(open)].max_brk_level = Top.max_brk_level
    BY <1>1, <1>6, <1>7, <1>9 DEF t
  <2> HIDE DEF b
  <2>5. QED
    BY <1>1, <1>8, <1>9, <1>10, <1>11, <2>1, <2>2, <2>3, <2>4 DEF Splits
<1>13. InScope(ts2) = UpTo(locals_table, Depth)
  <2>1. UpTo(ts2, Depth) = UpTo(locals_table, Depth)
    BY <1>1, <1>10, UpToSame
  <2>2. UpTo(ts2, Depth + 1) = UpTo(ts2, Depth) \cup Storage(ts2[Depth + 1])
    BY <1>1, <1>10, UpToFacts
  <2>3. InScope(ts2) = UpTo(ts2, Depth + 1)
    BY <1>1, <1>10, UpToFacts
  <2>4. Storage(NoVars) = {}
    BY NoVarsFacts DEF Storage
  <2>5. QED
    BY <1>1, <1>10, <2>1, <2>2, <2>3, <2>4
<1>14. Structured(EndOfPart, br2, op2) /\ ~op2[Depth].returned
  BY <1>2, <1>3, <1>7, <1>9
<1>15. QED
  BY <1>12, <1>13, <1>14

\* else begins with what is around the branch.
LEMMA ElseScopes ==
  ASSUME ParseInv, ScopeInv, Else
  PROVE  ScopeInv'
<1> DEFINE yes == TRUE
           no == FALSE
<1>1. /\ Depth > 0 /\ Top.part = "then" /\ Top.kind # "repeat" /\ parse = "body"
      /\ open' = [open EXCEPT ![Depth] = ElsePart]
      /\ locals_table' = [locals_table EXCEPT ![Depth + 1] = NoVars]
      /\ branch' = [branch EXCEPT ![Top.branch] = BeginElse(branch[Top.branch])]
      /\ code' = EndOfPart
      /\ UNCHANGED <<parse, slots, ended>>
  BY DEF Else
<1>2. SplitUp(branch', open', locals_table')
  BY <1>1 DEF SplitUp
<1>3. /\ Splits(EndOfPart, branch, open, locals_table, branch', open', locals_table')
      /\ ~open'[Depth].returned
  BY <1>1, <1>2, ElseSplits
<1>4. Depth = Len(open) /\ Len(open') = Len(open)
  BY <1>3, ScopeStart DEF Splits
<1>5. Dead' = FALSE
  <2>1. Depth' = Depth /\ Top' = open'[Depth]
    BY <1>4 DEF Depth, Top
  <2>2. Dead' = open'[Depth].returned
    BY <1>1, <2>1 DEF Dead
  <2>3. open'[Depth].returned \in BOOLEAN
    <3>1. Depth \in 1 .. Len(open) /\ open \in Seq(Opens) /\ ElsePart \in Opens
      BY <1>1, ScopeStart, ElseBegun
    <3>2. open'[Depth] \in Opens
      BY <1>1, <3>1
    <3>3. QED
      BY <3>2, OpensFields
  <2>4. QED
    BY <1>3, <2>2, <2>3
<1>6. yes \in BOOLEAN /\ yes /\ no \in BOOLEAN /\ ~no /\ (parse = "body")' = yes /\ Dead' = no
      /\ parse' # "close"
  BY <1>1, <1>5
<1> HIDE DEF yes, no
<1>7. SUFFICES ASSUME Single(code')
               PROVE  /\ ScopeFacts(code', branch', open', locals_table', slots', no, yes)
                      /\ EndInv(code', open', FALSE)
  BY <1>6 DEF ScopeInv
<1>8. Len(EndOfPart) \in Nat
  BY <1>1, PartEnded
<1>9. /\ ScopeFacts(EndOfPart, branch, open, locals_table, slots, yes, no)
      /\ EndInv(EndOfPart, open, yes)
  <2>1. Single(EndOfPart) /\ Len(EndOfPart) <= Len(EndOfPart) /\ parse # "done"
        /\ \A i \in 1 .. Len(EndOfPart) : EndOfPart[i] = EndOfPart[i]
    BY <1>1, <1>7, <1>8
  <2>2. QED
    BY <1>1, <1>6, <1>8, <2>1, PartScopes
<1>10. Structured(EndOfPart, branch, open)
  BY <1>1, PartEnded
<1>11. /\ ScopeFacts(EndOfPart, branch', open', locals_table', slots, no, yes)
       /\ EndInv(EndOfPart, open', FALSE)
  BY <1>3, <1>6, <1>9, <1>10, SplitFacts
<1>12. QED
  BY <1>1, <1>11

\* An elif begins with what is around the branch it is a part of.
LEMMA ElifScopes ==
  ASSUME ParseInv, ScopeInv, Elif
  PROVE  ScopeInv'
<1> DEFINE yes == TRUE
           no == FALSE
           br == [branch EXCEPT ![Top.branch] = BeginElse(branch[Top.branch])]
           op == [open EXCEPT ![Depth] = ElsePart]
           lt == [locals_table EXCEPT ![Depth + 1] = NoVars]
           hs == SubSeq(locals_table, 1, Depth)
           at == Len(EndOfPart) + 1
           kind == "if"
           r == NewBranch(kind, yes, at)
           o == OpenRecord(kind, yes)
           b == Len(branch) + 1
<1>1. /\ Depth > 0 /\ Top.part = "then" /\ Top.kind # "repeat" /\ parse = "body"
      /\ open' = Append(op, o)
      /\ locals_table' = Append(lt, NoVars)
      /\ branch' = Append(br, r)
      /\ code' = EndOfPart \o HeadOf(kind, b, hs)
      /\ UNCHANGED <<parse, slots, ended>>
  BY DEF Elif
<1>2. SplitUp(br, op, lt)
  BY DEF SplitUp
<1>3. yes \in BOOLEAN /\ yes /\ no \in BOOLEAN /\ ~no /\ kind \in Kinds /\ kind = "if"
  BY DEF Kinds
<1> HIDE DEF br, op, lt, yes, no, kind
<1>4. /\ Splits(EndOfPart, branch, open, locals_table, br, op, lt)
      /\ Structured(EndOfPart, br, op) /\ InScope(lt) = UpTo(locals_table, Depth)
  BY <1>1, <1>2, ElseSplits
<1>5. /\ Depth = Len(open) /\ Depth \in 0 .. Len(locals_table) /\ Len(open) \in Nat
      /\ locals_table \in Seq(Tables) /\ branch \in Seq(Branches) /\ b \in Nat
      /\ Len(locals_table) = Len(open) + 1
  BY ScopeStart
<1>6. /\ EndOfPart \in Seq(Instructions) /\ at \in Nat /\ at = Len(EndOfPart) + 1
      /\ Structured(EndOfPart, branch, open) /\ Len(EndOfPart) \in Nat
  BY <1>1, PartEnded
<1>7. /\ br \in Seq(Branches) /\ Len(br) = Len(branch) /\ op \in Seq(Opens) /\ Len(op) = Len(open)
      /\ lt \in Seq(Tables) /\ Len(lt) = Len(op) + 1
  BY <1>4 DEF Splits, OthersSame, Structured
<1>8. hs \in Seq(Tables) /\ InScope(hs) = InScope(lt)
  BY <1>4, <1>5, UpToFront
<1> HIDE DEF hs, at, b
<1>9. /\ Begins(EndOfPart, br, r, o) /\ r.kind = kind /\ o.elif = yes /\ o.kind = kind
  <2>1. kind \in Kinds /\ yes \in BOOLEAN
    BY <1>3
  <2>2. /\ br \in Seq(Branches) /\ Len(br) = Len(branch) /\ branch \in Seq(Branches)
        /\ at \in Nat /\ at = Len(EndOfPart) + 1
    BY <1>5, <1>6, <1>7
  <2>3. QED
    BY <2>1, <2>2, RecordsBegin
<1> HIDE DEF r, o
<1>10. r \in Branches /\ o \in Opens /\ ~o.returned
  BY <1>9 DEF Begins
<1>11. ElifBegins(EndOfPart, br, op, lt, o)
  <2>1. /\ Len(op) > 0 /\ op[Len(op)].part = "else"
        /\ br[op[Len(op)].branch].else_at = Len(EndOfPart) + 1
        /\ lt[Len(op) + 1] = NoVars
    BY <1>1, <1>4, <1>5, <1>7 DEF Splits
  <2>2. QED
    BY <1>3, <1>9, <2>1, NoVarsFacts DEF ElifBegins
<1>12. Enlarged(EndOfPart, br, op, lt, code', branch', open', locals_table', r, o)
  BY <1>1, <1>5, <1>6, <1>7, <1>8, <1>9, <1>10, BranchEnlarges
<1>13. Dead' = FALSE
  <2>1. Len(open') = Len(op) + 1 /\ open'[Len(op) + 1] = o
    BY <1>12 DEF Enlarged
  <2>2. Depth' = Len(op) + 1 /\ Top' = o
    BY <2>1 DEF Depth, Top
  <2>3. Dead' = o.returned
    BY <1>5, <1>7, <2>2 DEF Dead
  <2>4. QED
    BY <1>10, <2>3, OpensFields
<1>14. (parse = "body")' = yes /\ Dead' = no /\ parse' # "close"
  BY <1>1, <1>13 DEF yes, no
<1>15. SUFFICES ASSUME Single(code')
                PROVE  /\ ScopeFacts(code', branch', open', locals_table', slots', no, yes)
                       /\ EndInv(code', open', FALSE)
  BY <1>14 DEF ScopeInv
<1>16. /\ Len(code') \in Nat /\ Len(EndOfPart) <= Len(code')
       /\ \A i \in 1 .. Len(EndOfPart) : code'[i] = EndOfPart[i]
  <2>1. Plain(EndOfPart, code')
    BY <1>12 DEF Enlarged
  <2>2. QED
    BY <2>1 DEF Plain
<1>17. /\ ScopeFacts(EndOfPart, branch, open, locals_table, slots, yes, no)
       /\ EndInv(EndOfPart, open, yes)
  <2>1. parse # "done"
    BY <1>1
  <2>2. QED
    BY <1>1, <1>3, <1>15, <1>16, <2>1, PartScopes
<1>18. /\ ScopeFacts(EndOfPart, br, op, lt, slots, no, yes)
       /\ EndInv(EndOfPart, op, FALSE)
  BY <1>3, <1>4, <1>6, <1>17, SplitFacts
<1>19. /\ ScopeFacts(code', branch', open', locals_table', slots, no, yes)
       /\ EndInv(code', open', FALSE)
  BY <1>3, <1>4, <1>9, <1>11, <1>12, <1>18, BranchBeginsFacts
<1>20. QED
  BY <1>1, <1>19

\* The variables M of the innermost branch that are merged have their storage from
\* the table of one of its parts.
MergedIn(op, ts, M, from) ==
  LET o == op[Len(op)]
      t == ts[Len(op) + 1]
  IN /\ \A n \in M : n \in DOMAIN t /\ t[n].part = 0 /\ n \in DOMAIN from
     /\ \/ o.kind = "repeat" /\ from = t
        \/ /\ o.kind # "repeat" /\ o.part = "else" /\ from = o.then_vars
           /\ \A n \in M : from[n].part = 0
        \/ o.kind # "repeat" /\ o.part = "then" /\ from = o.then_vars /\ M = {}

\* They are declared at each way out of the branch.
LEMMA MergedAtEnds ==
  ASSUME NEW cd, NEW br, NEW op, NEW ts, Len(op) \in Nat, Len(op) > 0,
         FirstInv(cd, br, op, ts), SlotInv(op, ts), ElifInv(br, op, ts),
         NEW M, NEW from, MergedIn(op, ts, M, from),
         NEW i \in 1 .. Len(cd), LeadsOut(cd, br, op, Len(op), i), NEW n \in M
  PROVE  <<n, from[n].slot>> \in cd[i].objs
<1> DEFINE L == Len(op)
           o == op[L]
           t == ts[L + 1]
           p == PartOf(br, op, ts, L, i)
<1>1. L \in 1 .. L
  OBVIOUS
<1>2. \A m \in DOMAIN p : p[m].part = 0 => <<m, p[m].slot>> \in cd[i].objs
  BY <1>1 DEF FirstInv
<1>3. n \in DOMAIN t /\ t[n].part = 0 /\ n \in DOMAIN from
  BY DEF MergedIn
<1>4. p = IF o.part = "else" /\ i < br[o.branch].else_at THEN o.then_vars ELSE t
  BY DEF PartOf
<1>5. o.kind = "repeat" => o.part = "then"
  BY <1>1 DEF ElifInv
<1>6. SlotInv(op, ts)!(L, L)
  BY <1>1 DEF SlotInv
<1>7. CASE o.kind = "repeat" /\ from = t
  BY <1>2, <1>3, <1>4, <1>5, <1>7
<1>8. CASE /\ o.kind # "repeat" /\ o.part = "else" /\ from = o.then_vars
           /\ \A m \in M : from[m].part = 0
  <2>1. Governs(op, L, L)
    BY <1>1, <1>8 DEF Governs
  <2>2. SameSlots(t, from)
    BY <1>6, <1>8, <2>1
  <2>3. t[n].slot = from[n].slot
    BY <1>3, <2>2 DEF SameSlots
  <2>4. CASE p = t
    BY <1>2, <1>3, <2>3, <2>4
  <2>5. CASE p = from
    <3>1. from[n].part = 0
      BY <1>8
    <3>2. QED
      BY <1>2, <1>3, <2>5, <3>1
  <2>6. QED
    BY <1>4, <1>8, <2>4, <2>5
<1>9. CASE o.kind # "repeat" /\ o.part = "then" /\ from = o.then_vars /\ M = {}
  BY <1>9
<1>10. QED
  BY <1>7, <1>8, <1>9 DEF MergedIn

\* What the end of a branch leaves of one that it is in.
StillOpen(o, o2) ==
  /\ o2.branch = o.branch /\ o2.kind = o.kind /\ o2.elif = o.elif /\ o2.part = o.part
  /\ o2.then_vars = o.then_vars /\ o2.then_returned = o.then_returned
  /\ o2.brk_part = o.brk_part
  /\ o2.max_brk_level \in Nat /\ o2.max_brk_level >= o.max_brk_level

\* The innermost branch ends: the record of the branch, what the parser is in then and
\* the scopes.
Closes(cd, br, op, ts, br2, op2, ts2, M, from) ==
  LET L == Len(op)
      b == op[L].branch
  IN /\ L > 0 /\ ts \in Seq(Tables) /\ Len(ts) = L + 1
     /\ OthersSame(br, br2, b) /\ Len(br2) = Len(br)
     /\ \A c \in 1 .. Len(br) :
          br2[c].kind = br[c].kind /\ br2[c].elif = br[c].elif /\ br2[c].else_at = br[c].else_at
     /\ br2[b].merge_at = Len(cd) + 1 /\ br2[b].merged_vars = M
     /\ br2[b].vars = IF op[L].part = "then" THEN Storage(ts[L + 1]) ELSE br[b].vars
     /\ Len(op2) = L - 1
     /\ \A k \in 1 .. L - 1 : StillOpen(op[k], op2[k])
     /\ L > 1 /\ op[L].kind = "if" /\ op[L].max_brk_level > 0 =>
          op2[L - 1].max_brk_level >= op[L].max_brk_level - 1
     /\ ts2 \in Seq(Tables) /\ Len(ts2) = L /\ \A k \in 1 .. L - 1 : ts2[k] = ts[k]
     /\ DOMAIN ts2[L] = DOMAIN ts[L] \cup M
     /\ \A n \in DOMAIN ts[L] : ts2[L][n] = ts[L][n]
     /\ \A n \in M \ DOMAIN ts[L] : /\ ts2[L][n].slot = from[n].slot
                                    /\ L > 1 => ts2[L][n].part = op[L - 1].brk_part

\* What is in the scopes around the branch then.
LEMMA ClosedTables ==
  ASSUME NEW cd, NEW br, NEW op, NEW ts, NEW n, NEW br2, NEW op2, NEW ts2, NEW M, NEW from,
         Len(op) \in Nat, Closes(cd, br, op, ts, br2, op2, ts2, M, from),
         DeclaredInv(cd, op, ts, n), MergedIn(op, ts, M, from)
  PROVE  /\ M \cap DOMAIN ts[Len(op)] = {}
         /\ InScope(ts2) = UpTo(ts, Len(op)) \cup {from[m].slot : m \in M}
         /\ Variables(ts2[Len(op)]) = Variables(ts[Len(op)]) \cup {<<m, from[m].slot>> : m \in M}
         /\ \A k \in 0 .. Len(op) - 1 : UpTo(ts2, k) = UpTo(ts, k)
<1> DEFINE L == Len(op)
           MS == {from[m].slot : m \in M}
<1>1. /\ L \in Nat /\ L > 0 /\ ts \in Seq(Tables) /\ Len(ts) = L + 1 /\ ts2 \in Seq(Tables)
      /\ Len(ts2) = L /\ (\A k \in 1 .. L - 1 : ts2[k] = ts[k])
      /\ DOMAIN ts2[L] = DOMAIN ts[L] \cup M
      /\ \A m \in DOMAIN ts[L] : ts2[L][m] = ts[L][m]
      /\ \A m \in M \ DOMAIN ts[L] : ts2[L][m].slot = from[m].slot
  BY DEF Closes
<1>2. M \cap DOMAIN ts[L] = {}
  <2>1. L \in 1 .. Len(ts) /\ L + 1 \in 1 .. Len(ts) /\ L # L + 1
    BY <1>1
  <2>2. DOMAIN ts[L] \cap DOMAIN ts[L + 1] = {}
    BY <2>1 DEF DeclaredInv
  <2>3. M \subseteq DOMAIN ts[L + 1]
    BY DEF MergedIn
  <2>4. QED
    BY <2>2, <2>3
<1>3. \A m \in M : ts2[L][m].slot = from[m].slot
  BY <1>1, <1>2
<1> HIDE DEF L
<1>4. Storage(ts2[L]) = Storage(ts[L]) \cup MS
  BY <1>1, <1>3 DEF Storage
<1>5. Variables(ts2[L]) = Variables(ts[L]) \cup {<<m, from[m].slot>> : m \in M}
  BY <1>1, <1>3 DEF Variables
<1>6. \A k \in 0 .. L - 1 : UpTo(ts2, k) = UpTo(ts, k)
  <2> TAKE k \in 0 .. L - 1
  <2>1. k \in Nat /\ \A i \in 1 .. k : ts2[i] = ts[i]
    BY <1>1
  <2>2. QED
    BY <2>1, UpToSame
<1> HIDE DEF MS
<1>7. /\ UpTo(ts2, L) = UpTo(ts2, L - 1) \cup Storage(ts2[L])
      /\ UpTo(ts, L) = UpTo(ts, L - 1) \cup Storage(ts[L])
  <2> DEFINE K == L - 1
  <2>1. K \in Nat /\ K + 1 = L
    BY <1>1
  <2> HIDE DEF K
  <2>2. UpTo(ts2, K + 1) = UpTo(ts2, K) \cup Storage(ts2[K + 1])
    BY <1>1, <2>1, UpToFacts
  <2>3. UpTo(ts, K + 1) = UpTo(ts, K) \cup Storage(ts[K + 1])
    BY <1>1, <2>1, UpToFacts
  <2>4. QED
    BY <2>1, <2>2, <2>3 DEF K
<1>8. InScope(ts2) = UpTo(ts2, L)
  BY <1>1, UpToFacts
<1>9. L - 1 \in 0 .. L - 1
  BY <1>1
<1>10. InScope(ts2) = UpTo(ts, L) \cup MS
  BY <1>4, <1>6, <1>7, <1>8, <1>9
<1>11. QED
  BY <1>2, <1>5, <1>6, <1>10 DEF L, MS

\* The enclosing part counts as returned: no way leads behind the branch.
NothingBehind(op) ==
  LET o == op[Len(op)]
  IN o.part = "else" /\ o.then_returned /\ o.returned /\ (o.elif \/ o.max_brk_level = 0)

\* Every way out of the branch leads to the scopes around it with what was merged.
LEMMA CloseFlow ==
  ASSUME NEW cd, NEW br, NEW op, NEW ts, NEW n, Structured(cd, br, op),
         NEW yes \in BOOLEAN, yes, NEW no \in BOOLEAN, ~no,
         ScopeFacts(cd, br, op, ts, n, yes, no), EndInv(cd, op, yes),
         NEW br2, NEW op2, NEW ts2, NEW M, NEW from,
         Closes(cd, br, op, ts, br2, op2, ts2, M, from), MergedIn(op, ts, M, from),
         NEW dead \in BOOLEAN, dead => NothingBehind(op)
  PROVE  FlowInv(cd, br2, ts2, dead)
<1> DEFINE L == Len(op)
           b == op[L].branch
           MS == {from[m].slot : m \in M}
<1>1. /\ cd \in Seq(Instructions) /\ br \in Seq(Branches) /\ op \in Seq(Opens)
      /\ Len(cd) \in Nat /\ Len(br) \in Nat /\ L \in Nat
      /\ OpenInv(br, op) /\ PlacesInv(cd, br) /\ CodeInv(cd, br)
  BY DEF Structured
<1>2. /\ L > 0 /\ L \in 1 .. L /\ ts \in Seq(Tables) /\ Len(ts) = L + 1
      /\ OthersSame(br, br2, b) /\ Len(br2) = Len(br)
  BY <1>1 DEF Closes
<1>3. /\ \A c \in 1 .. Len(br) :
           /\ br2[c].kind = br[c].kind /\ br2[c].elif = br[c].elif
           /\ br2[c].else_at = br[c].else_at /\ br2[c].start = br[c].start
      /\ br2[b].merge_at = Len(cd) + 1 /\ br2[b].merged_vars = M
      /\ br2[b].vars = IF op[L].part = "then" THEN Storage(ts[L + 1]) ELSE br[b].vars
  BY DEF Closes, OthersSame
<1>4. /\ FlowInv(cd, br, ts, yes) /\ DeclaredInv(cd, op, ts, n) /\ SlotInv(op, ts)
      /\ AroundInv(cd, br, op, ts) /\ FirstInv(cd, br, op, ts) /\ ElifInv(br, op, ts)
  BY DEF ScopeFacts
<1>5. InScope(ts2) = UpTo(ts, L) \cup MS
  BY <1>1, <1>4, ClosedTables
<1>6. /\ b \in 1 .. Len(br) /\ br[b].merge_at = 0 /\ b \in Nat
      /\ op[L].part = "else" => br[b].else_at > 0
      /\ br[b].kind = op[L].kind /\ br[b].start \in Nat
      /\ op[L].part \in {"then", "else"} /\ op[L].max_brk_level \in Nat
  <2>1. /\ b \in 1 .. Len(br) /\ br[b].merge_at = 0
        /\ op[L].part = "else" => br[b].else_at > 0
        /\ br[b].kind = op[L].kind
    BY <1>1, <1>2 DEF OpenInv
  <2>2. op[L] \in Opens
    BY <1>1, <1>2
  <2>3. op[L].part \in {"then", "else"} /\ op[L].max_brk_level \in Nat
    BY <2>2, OpensFields
  <2>4. QED
    BY <1>1, <2>1, <2>3, BranchFacts
<1>7. Around(cd, br, b) = UpTo(ts, L) /\ Around(cd, br2, b) = UpTo(ts, L)
  <2>1. Around(cd, br, b) = UpTo(ts, L)
    BY <1>2, <1>4 DEF AroundInv
  <2>2. QED
    BY <1>3, <1>6, <2>1 DEF Around
<1> HIDE DEF L, b, MS
<1>8. Continues(cd, ts, yes, cd)
  BY <1>1 DEF Continues
<1>9. \A p, S : Finds(cd, ts, yes, p, S) => Finds(cd, ts2, dead, p, S)
  BY <1>8, FindsKept
<1>10. ASSUME NEW i \in 1 .. Len(cd), cd[i].branch = b, cd[i].op \in Leaving
       PROVE  MergeInv(cd, br2, ts2, dead, i)
  <2>1. ~dead
    <3> SUFFICES ASSUME NothingBehind(op) PROVE FALSE
      OBVIOUS
    <3>1. op[L].part = "else" /\ op[L].then_returned /\ op[L].returned
          /\ (op[L].elif \/ op[L].max_brk_level = 0)
      BY DEF NothingBehind, L
    <3>2. EndInv(cd, op, yes)!(L, i)!2
      BY <1>2, <1>10 DEF EndInv, L, b
    <3>3. cd[i].op # "endelse" /\ cd[i].op # "endthen"
      BY <3>1, <3>2
    <3>4. cd[i].op = "brk"
      BY <1>10, <3>3 DEF Leaving
    <3>5. ~op[L].elif /\ \E j \in L .. L : op[j].max_brk_level >= j - L + 1
      BY <3>2, <3>4 DEF L
    <3>6. op[L].max_brk_level = 0
      BY <3>1, <3>5
    <3>7. PICK j \in L .. L : op[j].max_brk_level >= j - L + 1
      BY <3>5
    <3>8. j = L
      BY <1>1
    <3>9. op[L].max_brk_level >= L - L + 1
      BY <3>7, <3>8
    <3>10. QED
      BY <1>1, <3>6, <3>9
  <2>2. LeadsOut(cd, br, op, L, i)
    <3>1. br[b].start < i
      BY <1>1, <1>10 DEF CodeInv, Leaving
    <3>2. op[L].branch = b /\ b <= b
      BY <1>6 DEF b
    <3>3. QED
      BY <1>10, <3>1, <3>2 DEF LeadsOut
  <2>3. \A m \in M : <<m, from[m].slot>> \in cd[i].objs
    BY <1>1, <1>2, <1>4, <2>2, MergedAtEnds DEF L
  <2>4. \A v, w \in cd[i].objs : v[1] = w[1] <=> v[2] = w[2]
    BY <1>4, <1>10 DEF FlowInv, InstructionInv
  <2>5. Pieces(Kept(cd[i].objs, br2[b])) = MS
    <3>1. ASSUME NEW s \in MS PROVE s \in Pieces(Kept(cd[i].objs, br2[b]))
      <4>1. PICK m \in M : s = from[m].slot
        BY DEF MS
      <4>2. <<m, s>> \in cd[i].objs /\ <<m, s>>[1] = m /\ <<m, s>>[2] = s
        BY <2>3, <4>1
      <4>3. <<m, s>> \in Kept(cd[i].objs, br2[b])
        BY <1>3, <4>2 DEF Kept
      <4>4. QED
        BY <4>2, <4>3 DEF Pieces
    <3>2. ASSUME NEW s \in Pieces(Kept(cd[i].objs, br2[b])) PROVE s \in MS
      <4>1. PICK v \in Kept(cd[i].objs, br2[b]) : s = v[2]
        BY DEF Pieces
      <4>2. v \in cd[i].objs /\ v[1] \in M
        BY <1>3, <4>1 DEF Kept
      <4> DEFINE w == <<v[1], from[v[1]].slot>>
      <4>3. w \in cd[i].objs /\ w[1] = v[1] /\ w[2] = from[v[1]].slot
        BY <2>3, <4>2
      <4>4. v[2] = w[2]
        BY <2>4, <4>2, <4>3
      <4>5. QED
        BY <4>1, <4>2, <4>3, <4>4 DEF MS
    <3>3. QED
      BY <3>1, <3>2
  <2>6. Finds(cd, ts2, dead, Len(cd) + 1, Around(cd, br2, b) \cup Pieces(Kept(cd[i].objs, br2[b])))
    BY <1>5, <1>7, <2>1, <2>5 DEF Finds
  <2>7. QED
    BY <1>3, <1>10, <2>6 DEF MergeInv
<1>11. PlaceInv(cd, br2, ts2, dead, b)
  <2>1. PlaceInv(cd, br, ts, yes, b)
    BY <1>4, <1>6 DEF FlowInv
  <2>2. BodyOf(br2[b]) = BodyOf(br[b])
    BY <1>3, <1>6 DEF BodyOf
  <2>3. Around(cd, br2, b) = Around(cd, br, b)
    BY <1>7
  <2>4. Finds(cd, ts2, dead, BodyOf(br2[b]), Around(cd, br2, b))
    BY <1>9, <2>1, <2>2, <2>3 DEF PlaceInv
  <2>5. br2[b].kind \in {"while", "foreach"} =>
          Finds(cd, ts2, dead, br2[b].start + 1, Around(cd, br2, b))
    BY <1>3, <1>6, <1>9, <2>1, <2>3 DEF PlaceInv
  <2>6. br2[b].else_at > 0 => Finds(cd, ts2, dead, br2[b].else_at, Around(cd, br2, b))
    BY <1>3, <1>6, <1>9, <2>1, <2>3 DEF PlaceInv
  <2>7. br2[b].merge_at > 0 /\ br2[b].else_at = 0 /\ br2[b].kind # "repeat" =>
          Finds(cd, ts2, dead, br2[b].merge_at, Around(cd, br2, b))
    <3> SUFFICES ASSUME br2[b].else_at = 0, br2[b].kind # "repeat"
                 PROVE  Finds(cd, ts2, dead, Len(cd) + 1, Around(cd, br2, b))
      BY <1>3
    <3>1. op[L].part = "then" /\ op[L].kind # "repeat"
      BY <1>3, <1>6
    <3>2. M = {}
      BY <3>1 DEF MergedIn, L
    <3>3. ~dead
      BY <3>1 DEF NothingBehind, L
    <3>4. InScope(ts2) = Around(cd, br2, b)
      BY <1>5, <1>7, <3>2 DEF MS
    <3>5. QED
      BY <3>3, <3>4 DEF Finds
  <2>8. br2[b].vars \cap Around(cd, br2, b) = {}
    <3>1. CASE op[L].part = "then"
      <4>1. L + 1 \in 1 .. Len(ts) /\ L \in 0 .. Len(ts) /\ L < L + 1
        BY <1>1, <1>2
      <4>2. Storage(ts[L + 1]) \cap UpTo(ts, L) = {}
        BY <1>2, <1>4, <4>1, StorageApart
      <4>3. QED
        BY <1>3, <1>7, <3>1, <4>2
    <3>2. CASE op[L].part # "then"
      BY <1>3, <2>1, <2>3, <3>2 DEF PlaceInv
    <3>3. QED
      BY <3>1, <3>2
  <2>9. QED
    BY <2>4, <2>5, <2>6, <2>7, <2>8 DEF PlaceInv
<1>12. QED
  <2>1. \A i \in Len(cd) + 1 .. Len(cd) : InstructionInv(cd, br2, ts2, dead, i)
    BY <1>1
  <2>2. \A i \in 1 .. Len(cd) : i > Len(cd) \/ cd[i].branch = b => MergeInv(cd, br2, ts2, dead, i)
    <3> TAKE i \in 1 .. Len(cd)
    <3>1. ~(i > Len(cd))
      BY <1>1
    <3>2. cd[i].op \notin Leaving => MergeInv(cd, br2, ts2, dead, i)
      BY DEF MergeInv
    <3>3. QED
      BY <1>10, <3>1, <3>2
  <2>3. \A c \in 1 .. Len(br2) : c > Len(br) \/ c = b => PlaceInv(cd, br2, ts2, dead, c)
    <3> TAKE c \in 1 .. Len(br2)
    <3>1. ~(c > Len(br))
      BY <1>1, <1>2
    <3>2. QED
      BY <1>11, <3>1
  <2>4. QED
    BY <1>2, <1>4, <1>8, <2>1, <2>2, <2>3, FlowKept

\* What holds of the scopes when the innermost branch has ended.
LEMMA CloseFacts ==
  ASSUME NEW cd, NEW br, NEW op, NEW ts, NEW n, Structured(cd, br, op),
         NEW yes \in BOOLEAN, yes, NEW no \in BOOLEAN, ~no,
         ScopeFacts(cd, br, op, ts, n, yes, no), EndInv(cd, op, yes),
         NEW br2, NEW op2, NEW ts2, NEW M, NEW from,
         Closes(cd, br, op, ts, br2, op2, ts2, M, from), MergedIn(op, ts, M, from),
         NEW dead \in BOOLEAN, dead => NothingBehind(op),
         NEW body \in BOOLEAN, body => ~op[Len(op)].elif
  PROVE  ScopeFacts(cd, br2, op2, ts2, n, dead, body) /\ EndInv(cd, op2, FALSE)
<1> DEFINE L == Len(op)
           b == op[L].branch
<1>1. /\ cd \in Seq(Instructions) /\ br \in Seq(Branches) /\ op \in Seq(Opens)
      /\ Len(cd) \in Nat /\ Len(br) \in Nat /\ L \in Nat
      /\ OpenInv(br, op) /\ PlacesInv(cd, br)
  BY DEF Structured
<1>2. /\ L > 0 /\ L \in 1 .. L /\ ts \in Seq(Tables) /\ Len(ts) = L + 1
      /\ OthersSame(br, br2, b) /\ Len(br2) = Len(br)
  BY <1>1 DEF Closes
<1>3. /\ \A c \in 1 .. Len(br) :
           /\ br2[c].kind = br[c].kind /\ br2[c].elif = br[c].elif
           /\ br2[c].else_at = br[c].else_at /\ br2[c].start = br[c].start
           /\ c # b => br2[c] = br[c]
      /\ br2[b].merge_at = Len(cd) + 1
  BY DEF Closes, OthersSame
<1>4. /\ Len(op2) = L - 1
      /\ \A k \in 1 .. L - 1 :
           /\ op2[k].branch = op[k].branch /\ op2[k].kind = op[k].kind /\ op2[k].elif = op[k].elif
           /\ op2[k].part = op[k].part /\ op2[k].then_vars = op[k].then_vars
           /\ op2[k].then_returned = op[k].then_returned /\ op2[k].brk_part = op[k].brk_part
           /\ op2[k].max_brk_level \in Nat /\ op2[k].max_brk_level >= op[k].max_brk_level
      /\ L > 1 /\ op[L].kind = "if" /\ op[L].max_brk_level > 0 =>
           op2[L - 1].max_brk_level >= op[L].max_brk_level - 1
  BY DEF Closes, StillOpen
<1>5. /\ ts2 \in Seq(Tables) /\ Len(ts2) = L /\ \A k \in 1 .. L - 1 : ts2[k] = ts[k]
      /\ DOMAIN ts2[L] = DOMAIN ts[L] \cup M
      /\ \A m \in DOMAIN ts[L] : ts2[L][m] = ts[L][m]
      /\ \A m \in M \ DOMAIN ts[L] : /\ ts2[L][m].slot = from[m].slot
                                     /\ L > 1 => ts2[L][m].part = op[L - 1].brk_part
  BY DEF Closes
<1>6. /\ FlowInv(cd, br, ts, yes) /\ DeclaredInv(cd, op, ts, n) /\ SlotInv(op, ts)
      /\ AroundInv(cd, br, op, ts) /\ FirstInv(cd, br, op, ts) /\ ElifInv(br, op, ts)
      /\ NoBrkInv(cd, br, op, no) /\ OutInv(cd, br)
  BY DEF ScopeFacts
<1>7. /\ M \cap DOMAIN ts[L] = {}
      /\ Variables(ts2[L]) = Variables(ts[L]) \cup {<<m, from[m].slot>> : m \in M}
      /\ \A k \in 0 .. L - 1 : UpTo(ts2, k) = UpTo(ts, k)
  BY <1>1, <1>6, ClosedTables
<1>8. FlowInv(cd, br2, ts2, dead)
  BY CloseFlow
<1>9. /\ \A m \in M : m \in DOMAIN ts[L + 1] /\ m \in DOMAIN from
      /\ \/ op[L].kind = "repeat" /\ from = ts[L + 1]
         \/ op[L].part = "else" /\ from = op[L].then_vars
         \/ M = {}
  BY DEF MergedIn
<1>10. op[L].kind = "repeat" => op[L].part = "then"
  BY <1>2, <1>6 DEF ElifInv
<1>11. ASSUME NEW i \in 1 .. Len(cd), LeadsOut(cd, br, op, L, i), NEW m \in M
       PROVE  <<m, from[m].slot>> \in cd[i].objs
  BY <1>1, <1>2, <1>6, <1>11, MergedAtEnds DEF L
<1> HIDE DEF L, b
<1>12. /\ \A k \in 1 .. L : op[k].branch \in 1 .. Len(br) /\ k \in Nat
       /\ \A k \in 1 .. L - 1 : op[k].branch < op[L].branch /\ op[k].branch # b
       /\ b \in 1 .. Len(br) /\ op[L].branch = b
  <2>1. \A k \in 1 .. L : op[k].branch \in 1 .. Len(br) /\ k \in Nat
    BY <1>1 DEF OpenInv, L
  <2>2. \A k \in 1 .. L - 1 : k \in 1 .. L /\ k < L
    BY <1>1
  <2>3. \A k \in 1 .. L - 1 : op[k].branch < op[L].branch
    BY <1>1, <1>2, <2>2 DEF OpenInv, L
  <2>4. \A k \in 1 .. L : op[k].branch \in Nat
    BY <2>1
  <2>5. \A k \in 1 .. L - 1 : op[k].branch # op[L].branch
    BY <1>2, <2>2, <2>3, <2>4
  <2>6. QED
    BY <1>2, <2>1, <2>3, <2>5 DEF b
<1>13. \A k \in 1 .. L - 1 : /\ k \in 1 .. L /\ k \in 1 .. Len(op) /\ k + 1 \in 1 .. L
                             /\ k \in 1 .. Len(ts) /\ k \in 0 .. L - 1 /\ k \in Nat
                             /\ k < L /\ (k + 1 \in 1 .. L - 1 \/ k + 1 = L)
  BY <1>1, <1>2 DEF L
<1>14. DeclaredInv(cd, op2, ts2, n)
  <2>1. L \in 1 .. Len(ts) /\ L + 1 \in 1 .. Len(ts)
    BY <1>1, <1>2
  <2>2. Variables(from) \subseteq Given(cd) \/ M = {}
    <3>1. Variables(ts[L + 1]) \subseteq Given(cd) /\ Variables(op[L].then_vars) \subseteq Given(cd)
      BY <1>2, <1>6, <2>1 DEF DeclaredInv, L
    <3>2. QED
      BY <1>9, <3>1
  <2>3. {<<m, from[m].slot>> : m \in M} \subseteq Given(cd)
    BY <1>9, <2>2 DEF Variables
  <2>4. \A k \in 1 .. L : k \in 1 .. L - 1 \/ k = L
    BY <1>1
  <2>5. \A k \in 1 .. Len(ts2) : Variables(ts2[k]) \subseteq Given(cd)
    <3> TAKE k \in 1 .. Len(ts2)
    <3>1. CASE k = L
      BY <1>6, <1>7, <2>1, <2>3, <3>1 DEF DeclaredInv
    <3>2. CASE k \in 1 .. L - 1
      BY <1>5, <1>6, <1>13, <3>2 DEF DeclaredInv
    <3>3. QED
      BY <1>5, <2>4, <3>1, <3>2
  <2>6. \A k \in 1 .. Len(op2) : Variables(op2[k].then_vars) \subseteq Given(cd)
    BY <1>4, <1>6, <1>13 DEF DeclaredInv
  <2>7. \A k \in 1 .. L - 1 : DOMAIN ts2[k] \cap DOMAIN ts2[L] = {}
    <3> TAKE k \in 1 .. L - 1
    <3>1. k \in 1 .. Len(ts) /\ k # L /\ k # L + 1 /\ ts2[k] = ts[k]
      BY <1>1, <1>2, <1>5
    <3>2. DOMAIN ts[k] \cap DOMAIN ts[L] = {} /\ DOMAIN ts[k] \cap DOMAIN ts[L + 1] = {}
      BY <1>6, <2>1, <3>1 DEF DeclaredInv
    <3>3. M \subseteq DOMAIN ts[L + 1]
      BY <1>9
    <3>4. QED
      BY <1>5, <3>1, <3>2, <3>3
  <2>8. \A k, l \in 1 .. L - 1 : k # l => DOMAIN ts2[k] \cap DOMAIN ts2[l] = {}
    BY <1>5, <1>6, <1>13 DEF DeclaredInv
  <2>9. \A k, l \in 1 .. Len(ts2) : k # l => DOMAIN ts2[k] \cap DOMAIN ts2[l] = {}
    BY <1>5, <2>4, <2>7, <2>8
  <2>10. QED
    BY <1>6, <2>5, <2>6, <2>9 DEF DeclaredInv
<1>15. SlotInv(op2, ts2)
  <2> SUFFICES ASSUME NEW k \in 1 .. Len(op2), NEW j \in 1 .. Len(op2) PROVE SlotInv(op2, ts2)!(k, j)
    BY DEF SlotInv
  <2>1. k \in 1 .. L - 1 /\ j \in 1 .. L - 1 /\ k \in 1 .. Len(op) /\ j \in 1 .. Len(op)
    BY <1>4, <1>13
  <2>2. SlotInv(op, ts)!(k, j)
    BY <1>6, <2>1 DEF SlotInv
  <2>3. ASSUME NEW m \in 0 .. L - 1, Governs(op2, j, m) PROVE Governs(op, j, m)
    <3>1. j \in 1 .. m /\ op2[j].part = "else" /\ \A l \in j + 1 .. m : op2[l].part = "then"
      BY <2>3 DEF Governs
    <3>2. \A l \in j + 1 .. m : l \in 1 .. L - 1
      BY <1>1, <2>1
    <3>3. QED
      BY <1>4, <2>1, <3>1, <3>2 DEF Governs
  <2>4. op2[j].then_vars = op[j].then_vars /\ op2[k].then_vars = op[k].then_vars
        /\ op2[k].part = op[k].part /\ k \in 0 .. L - 1 /\ k - 1 \in 0 .. L - 1
    BY <1>1, <1>4, <2>1
  <2>5. ASSUME Governs(op2, j, k) PROVE SameSlots(ts2[k + 1], op2[j].then_vars)
    <3>1. Governs(op, j, k)
      BY <2>3, <2>4, <2>5
    <3>2. SameSlots(ts[k + 1], op[j].then_vars)
      BY <2>2, <3>1
    <3>3. CASE k + 1 \in 1 .. L - 1
      BY <1>5, <2>4, <3>2, <3>3
    <3>4. CASE k + 1 = L
      <4>1. k = L - 1 /\ L \in 1 .. Len(op)
        BY <1>1, <1>2, <2>1, <3>4 DEF L
      <4>2. SlotInv(op, ts)!(L, j)
        BY <1>6, <2>1, <4>1 DEF SlotInv
      <4>3. Governs(op, j, L - 1)
        BY <3>1, <4>1
      <4>4. op[L].part = "then" => Governs(op, j, L)
        <5>1. j \in 1 .. L /\ \A l \in j + 1 .. L : l \in j + 1 .. L - 1 \/ l = L
          BY <1>1, <2>1
        <5>2. QED
          BY <4>3, <5>1 DEF Governs
      <4>5. M = {} \/ SameSlots(from, op[j].then_vars)
        BY <1>9, <1>10, <4>2, <4>3, <4>4
      <4>6. \A m \in M : ts2[L][m].slot = from[m].slot /\ m \in DOMAIN from
        BY <1>5, <1>7, <1>9
      <4>7. SameSlots(ts2[L], op[j].then_vars)
        BY <1>5, <3>2, <3>4, <4>5, <4>6 DEF SameSlots
      <4>8. QED
        BY <2>4, <3>4, <4>7
    <3>5. QED
      BY <1>13, <2>1, <3>3, <3>4
  <2>6. ASSUME Governs(op2, j, k - 1), op2[k].part = "else"
        PROVE  SameSlots(op2[k].then_vars, op2[j].then_vars)
    <3>1. Governs(op, j, k - 1)
      BY <2>3, <2>4, <2>6
    <3>2. QED
      BY <2>2, <2>4, <2>6, <3>1
  <2>7. QED
    BY <2>5, <2>6
<1>16. AroundInv(cd, br2, op2, ts2)
  <2> SUFFICES ASSUME NEW k \in 1 .. L - 1
               PROVE  Around(cd, br2, op2[k].branch) = UpTo(ts2, k)
    BY <1>4 DEF AroundInv
  <2>1. Around(cd, br, op[k].branch) = UpTo(ts, k)
    BY <1>6, <1>13 DEF AroundInv
  <2>2. op2[k].branch = op[k].branch /\ op[k].branch \in 1 .. Len(br) /\ k \in 0 .. L - 1
    BY <1>4, <1>12, <1>13
  <2>3. Around(cd, br2, op[k].branch) = Around(cd, br, op[k].branch)
    BY <1>3, <2>2 DEF Around
  <2>4. QED
    BY <1>7, <2>1, <2>2, <2>3
<1>17. \A k \in 1 .. L - 1, i \in 1 .. Len(cd) :
         LeadsOut(cd, br2, op2, k, i) => LeadsOut(cd, br, op, k, i)
  <2> TAKE k \in 1 .. L - 1, i \in 1 .. Len(cd)
  <2>1. op2[k].branch = op[k].branch /\ br2[op[k].branch].start = br[op[k].branch].start
    BY <1>3, <1>4, <1>12, <1>13
  <2>2. QED
    BY <2>1 DEF LeadsOut
<1>18. \A k \in 1 .. L - 1 : PartStart(br2, op2[k]) = PartStart(br, op[k])
  BY <1>3, <1>4, <1>12, <1>13 DEF PartStart
<1>19. FirstInv(cd, br2, op2, ts2)
  <2> SUFFICES ASSUME NEW k \in 1 .. L - 1, NEW i \in 1 .. Len(cd),
                      LeadsOut(cd, br2, op2, k, i)
               PROVE  LET t == PartOf(br2, op2, ts2, k, i)
                      IN \A m \in DOMAIN t : t[m].part = 0 => <<m, t[m].slot>> \in cd[i].objs
    BY <1>4 DEF FirstInv
  <2> DEFINE t == PartOf(br, op, ts, k, i)
             t2 == PartOf(br2, op2, ts2, k, i)
  <2>1. LeadsOut(cd, br, op, k, i)
    BY <1>17
  <2>2. \A m \in DOMAIN t : t[m].part = 0 => <<m, t[m].slot>> \in cd[i].objs
    BY <1>6, <1>13, <2>1 DEF FirstInv
  <2> DEFINE first == op[k].part = "else" /\ i < br[op[k].branch].else_at
  <2>3. t = IF first THEN op[k].then_vars ELSE ts[k + 1]
    BY DEF PartOf
  <2>4. t2 = IF first THEN op[k].then_vars ELSE ts2[k + 1]
    BY <1>3, <1>4, <1>12, <1>13 DEF PartOf
  <2> HIDE DEF t, t2
  <2>5. CASE first \/ k + 1 \in 1 .. L - 1
    <3>1. k + 1 \in 1 .. L - 1 => ts2[k + 1] = ts[k + 1]
      BY <1>5
    <3>2. t2 = t
      BY <2>3, <2>4, <2>5, <3>1
    <3>3. QED
      BY <2>2, <3>2 DEF t2
  <2>6. CASE ~first /\ k + 1 = L
    <3>1. t = ts[L] /\ t2 = ts2[L] /\ k = L - 1 /\ L > 1
      BY <1>1, <1>13, <2>3, <2>4, <2>6
    <3> SUFFICES ASSUME NEW m \in DOMAIN t2, t2[m].part = 0
                 PROVE  <<m, t2[m].slot>> \in cd[i].objs
      BY DEF t2
    <3>2. CASE m \in DOMAIN ts[L]
      BY <1>5, <2>2, <3>1, <3>2
    <3>3. CASE m \in M
      <4>1. m \notin DOMAIN ts[L]
        BY <1>7, <3>3
      <4>2. op[k].brk_part = 0 /\ t2[m].slot = from[m].slot
        BY <1>5, <3>1, <3>3, <4>1
      <4>3. PartStart(br, op[k]) <= i
        <5>1. i \in Nat /\ br[op[k].branch].start < i /\ br[op[k].branch].start \in Nat
              /\ br[op[k].branch].else_at \in Nat
          BY <1>1, <1>12, <1>13, <2>1, BranchFacts DEF LeadsOut
        <5>2. op[k].part \in {"then", "else"}
          BY <1>1, <1>13, OpensFields
        <5>3. CASE op[k].part = "then"
          BY <5>1, <5>3 DEF PartStart
        <5>4. CASE op[k].part = "else"
          <6>1. ~(i < br[op[k].branch].else_at)
            BY <2>6, <5>4
          <6>2. QED
            BY <5>1, <5>4, <6>1 DEF PartStart
        <5>5. QED
          BY <5>2, <5>3, <5>4
      <4>4. op[k + 1].elif
        BY <1>6, <1>13, <2>1, <4>2, <4>3 DEF NoBrkInv, L
      <4>5. /\ op[L - 1].part = "else"
            /\ br[op[L - 1].branch].else_at = br[op[L].branch].start
        BY <1>2, <1>6, <2>6, <4>4 DEF ElifInv, L
      <4>6. br[b].start <= i /\ cd[br[b].start].op = "enter" /\ br[b].start \in Nat
        BY <1>1, <1>12, <3>1, <4>3, <4>5, BranchFacts DEF PartStart, PlacesInv
      <4>7. cd[i].op \in Leaving /\ cd[i].branch <= op[k].branch
        BY <2>1 DEF LeadsOut
      <4>8. br[b].start # i
        BY <4>6, <4>7 DEF Leaving
      <4>9. cd[i].branch <= b
        <5>1. cd[i].branch \in Nat /\ op[k].branch \in Nat /\ b \in Nat /\ op[k].branch < b
          <6>1. cd[i] \in Instructions
            BY <1>1
          <6>2. QED
            BY <1>12, <1>13, <6>1 DEF Instructions
        <5>2. QED
          BY <4>7, <5>1
      <4>10. LeadsOut(cd, br, op, L, i)
        <5>1. br[b].start < i
          BY <4>6, <4>8
        <5>2. QED
          BY <1>12, <4>7, <4>9, <5>1 DEF LeadsOut
      <4>11. QED
        BY <1>11, <3>3, <4>2, <4>10
    <3>4. QED
      BY <1>5, <3>1, <3>2, <3>3
  <2>7. QED
    BY <1>13, <2>5, <2>6
<1>20. ElifInv(br2, op2, ts2)
  <2> SUFFICES ASSUME NEW k \in 1 .. L - 1 PROVE ElifInv(br2, op2, ts2)!(k)
    BY <1>4 DEF ElifInv
  <2>1. ElifInv(br, op, ts)!(k)
    BY <1>6, <1>13 DEF ElifInv
  <2>2. /\ ts2[k] = ts[k] /\ br2[op2[k].branch].start = br[op[k].branch].start
        /\ op2[k].kind = op[k].kind /\ op2[k].elif = op[k].elif /\ op2[k].part = op[k].part
        /\ op2[k].then_returned = op[k].then_returned
    BY <1>3, <1>4, <1>5, <1>12, <1>13
  <2>3. k > 1 => /\ op2[k - 1].part = op[k - 1].part
                 /\ br2[op2[k - 1].branch].else_at = br[op[k - 1].branch].else_at
    <3>1. k > 1 => k - 1 \in 1 .. L - 1 /\ k - 1 \in 1 .. L
      BY <1>1
    <3>2. QED
      BY <1>3, <1>4, <1>12, <3>1
  <2>4. QED
    BY <2>1, <2>2, <2>3
<1>21. NoBrkInv(cd, br2, op2, body)
  <2> SUFFICES ASSUME NEW k \in 1 .. L - 1, NEW i \in 1 .. Len(cd),
                      LeadsOut(cd, br2, op2, k, i), PartStart(br2, op2[k]) <= i, op2[k].brk_part = 0
               PROVE  IF k < L - 1 THEN op2[k + 1].elif ELSE ~body
    BY <1>4 DEF NoBrkInv
  <2>1. LeadsOut(cd, br, op, k, i) /\ PartStart(br, op[k]) <= i /\ op[k].brk_part = 0
    BY <1>4, <1>17, <1>18
  <2>2. op[k + 1].elif
    BY <1>6, <1>13, <2>1 DEF NoBrkInv, L
  <2>3. CASE k < L - 1
    <3>1. k + 1 \in 1 .. L - 1
      BY <1>1, <2>3
    <3>2. op2[k + 1].elif
      BY <1>4, <2>2, <3>1
    <3>3. QED
      BY <2>3, <3>2
  <2>4. CASE ~(k < L - 1)
    <3>1. k + 1 = L
      BY <1>1, <2>4
    <3>2. ~body
      BY <2>2, <3>1 DEF L
    <3>3. QED
      BY <2>4, <3>2
  <2>5. QED
    BY <2>3, <2>4
<1>22. OutInv(cd, br2)
  <2> SUFFICES ASSUME NEW c \in 1 .. Len(br), NEW i \in 1 .. Len(cd),
                      ~br2[c].elif, cd[i].op \in Leaving,
                      br2[c].start < i, br2[c].merge_at > 0 => i < br2[c].merge_at
               PROVE  c <= cd[i].branch
    BY <1>2 DEF OutInv
  <2>1. ~br[c].elif /\ br[c].start < i
    BY <1>3
  <2>2. br[c].merge_at > 0 => i < br[c].merge_at
    <3>1. CASE c = b
      <4>1. br[c].merge_at = 0
        BY <1>1, <1>2, <3>1 DEF OpenInv, b, L
      <4>2. QED
        BY <4>1
    <3>2. CASE c # b
      BY <1>3, <3>2
    <3>3. QED
      BY <3>1, <3>2
  <2>3. QED
    BY <1>6, <2>1, <2>2 DEF OutInv
<1>23. EndInv(cd, op2, FALSE)
  <2> SUFFICES ASSUME NEW k \in 1 .. Len(op2), NEW i \in 1 .. Len(cd),
                      cd[i].op \in Leaving, cd[i].branch = op2[k].branch
               PROVE  EndInv(cd, op2, FALSE)!(k, i)!2
    BY Zenon DEF EndInv
  <2>0. k \in 1 .. L - 1 /\ k \in 1 .. Len(op) /\ k # Len(op)
    <3>1. k \in 1 .. L - 1
      BY <1>4
    <3>2. QED
      BY <1>1, <1>13, <3>1 DEF L
  <2>1. /\ op2[k].branch = op[k].branch /\ op2[k].elif = op[k].elif
        /\ op2[k].part = op[k].part /\ op2[k].then_returned = op[k].then_returned
    BY <1>4, <2>0
  <2>2. EndInv(cd, op, yes)!(k, i)!2
    BY <2>0, <2>1 DEF EndInv
  <2>3. cd[i].op # "endelse"
    BY <2>0, <2>2
  <2>4. cd[i].op = "endthen" => op2[k].part = "else" /\ ~op2[k].then_returned
    BY <2>0, <2>1, <2>2
  <2>5. ASSUME cd[i].op = "brk"
        PROVE  /\ ~op2[k].elif
               /\ \E j \in k .. L - 1 :
                    /\ op2[j].max_brk_level >= j - k + 1
                    /\ \A m \in k + 1 .. j : op2[m].elif
    <3>1. PICK j \in k .. Len(op) : op[j].max_brk_level >= j - k + 1 /\ \A m \in k + 1 .. j : op[m].elif
      BY <2>2, <2>5
    <3>2. CASE j \in k .. L - 1
      <4>1. j \in 1 .. L - 1 /\ \A m \in k + 1 .. j : m \in 1 .. L - 1
        BY <1>1, <2>0, <3>2
      <4>2. op2[j].max_brk_level >= j - k + 1
        <5>1. op2[j].max_brk_level >= op[j].max_brk_level /\ op2[j].max_brk_level \in Nat
          BY <1>4, <4>1
        <5>2. op[j].max_brk_level \in Nat
          BY <1>1, <1>13, <4>1, OpensFields
        <5>3. QED
          BY <2>0, <3>1, <4>1, <5>1, <5>2
      <4>3. \A m \in k + 1 .. j : op2[m].elif
        BY <1>4, <3>1, <4>1
      <4>4. QED
        BY <2>1, <2>2, <2>5, <3>2, <4>2, <4>3
    <3>3. CASE j = L
      <4>1. L - 1 \in k .. L - 1 /\ L > 1 /\ L \in k + 1 .. L /\ L - 1 \in 1 .. L - 1
        BY <1>1, <2>0
      <4>2. op[L].elif
        BY <3>1, <3>3, <4>1
      <4>3. op[L].kind = "if"
        BY <1>2, <1>6, <4>2 DEF ElifInv, L
      <4>4. op[L].max_brk_level >= L - k + 1 /\ op[L].max_brk_level \in Nat
        <5>1. op[L].max_brk_level >= L - k + 1
          BY <3>1, <3>3
        <5>2. QED
          BY <1>1, <1>2, <5>1, OpensFields DEF L
      <4>5. op[L].max_brk_level > 0
        BY <1>1, <2>0, <4>4
      <4>6. op2[L - 1].max_brk_level >= op[L].max_brk_level - 1 /\ op2[L - 1].max_brk_level \in Nat
        BY <1>4, <4>1, <4>3, <4>5
      <4>7. op2[L - 1].max_brk_level >= (L - 1) - k + 1
        <5> DEFINE u == op[L].max_brk_level
                   v == op2[L - 1].max_brk_level
        <5>1. u \in Nat /\ v \in Nat /\ u >= L - k + 1 /\ v >= u - 1 /\ L \in Nat /\ k \in Nat
          BY <1>1, <2>0, <4>4, <4>6
        <5> HIDE DEF u, v
        <5>2. v >= (L - 1) - k + 1
          BY <5>1
        <5>3. QED
          BY <5>2 DEF v
      <4>8. \A m \in k + 1 .. L - 1 : op2[m].elif
        <5>1. \A m \in k + 1 .. L - 1 : m \in k + 1 .. j /\ m \in 1 .. L - 1
          BY <1>1, <2>0, <3>3
        <5>2. QED
          BY <1>4, <3>1, <5>1
      <4>9. QED
        BY <2>1, <2>2, <2>5, <4>1, <4>7, <4>8
    <3>4. j \in k .. L - 1 \/ j = L
      BY <1>1, <2>0 DEF L
    <3>5. QED
      BY <3>2, <3>3, <3>4
  <2>6. QED
    BY <1>4, <2>1, <2>3, <2>4, <2>5
<1>24. QED
  BY <1>8, <1>14, <1>15, <1>16, <1>19, <1>20, <1>21, <1>22, <1>23 DEF ScopeFacts

\* The table the merged variables have their storage from.
MergeFrom == IF Top.kind = "repeat" THEN locals_table[Depth + 1] ELSE Top.then_vars

\* What is handed to the branch around the one that ends.
LEMMA OpensHanded ==
  ASSUME ParseInv, EndBranch
  PROVE  /\ Len(open') = Depth - 1
         /\ \A k \in 1 .. Depth - 1 : StillOpen(open[k], open'[k])
         /\ Depth > 1 /\ Top.kind = "if" /\ Top.max_brk_level > 0 =>
              open'[Depth - 1].max_brk_level >= Top.max_brk_level - 1
         /\ Dead' = PartReturned
<1>1. /\ Depth > 0 /\ ended' = (Depth = 1 /\ PartReturned)
      /\ open' = IF Depth = 1 THEN <<>>
                 ELSE [SubSeq(open, 1, Depth - 1) EXCEPT ![Depth - 1] = Handed(@)]
  BY DEF EndBranch
<1>2. /\ open \in Seq(Opens) /\ Depth = Len(open) /\ Depth \in Nat /\ Top = open[Depth]
      /\ Top \in Opens
  BY <1>1, ScopeStart
<1>3. PartReturned \in BOOLEAN
  BY DEF PartReturned, always_return, BothReturn
<1>4. CASE Depth = 1
  <2>1. open' = <<>> /\ Len(open') = 0
    BY <1>1, <1>4
  <2>2. Depth' = 0 /\ ended' = PartReturned
    BY <1>1, <1>3, <1>4, <2>1 DEF Depth
  <2>3. Dead' = PartReturned
    BY <2>2 DEF Dead
  <2>4. 1 .. Depth - 1 = {} /\ Depth - 1 = 0 /\ ~(Depth > 1)
    BY <1>4
  <2>5. QED
    BY <2>1, <2>3, <2>4
<1>5. CASE Depth # 1
  <2> DEFINE l == Depth - 1
             s == SubSeq(open, 1, l)
             o == open[l]
             w == IF o.max_brk_level < LevelsLeft THEN LevelsLeft ELSE o.max_brk_level
             p == PartReturned
             g == [o EXCEPT !.max_brk_level = w, !.returned = p]
  <2>1. l \in 1 .. Len(open) /\ l \in Nat /\ l > 0 /\ Depth > 1
    BY <1>1, <1>2, <1>5
  <2>2. s \in Seq(Opens) /\ Len(s) = l /\ l \in 1 .. Len(s) /\ \A k \in 1 .. l : s[k] = open[k]
    BY <1>2, <2>1
  <2>3. o \in Opens
    BY <1>2, <2>1
  <2>4. o.max_brk_level \in Nat /\ Top.max_brk_level \in Nat
    BY <1>2, <2>3, OpensFields
  <2>5. open' = [s EXCEPT ![l] = Handed(@)] /\ Handed(o) = g
    BY <1>1, <1>5 DEF Handed
  <2>6. LevelsLeft \in Nat /\ (Top.kind = "if" => LevelsLeft >= Top.max_brk_level - 1)
    BY <2>4 DEF LevelsLeft
  <2>7. w \in Nat /\ w >= o.max_brk_level /\ w >= LevelsLeft
    BY <2>4, <2>6
  <2>8. p \in BOOLEAN
    BY <1>3
  <2> HIDE DEF w, o, p
  <2>9. /\ g \in Opens /\ g.branch = o.branch /\ g.kind = o.kind /\ g.elif = o.elif
        /\ g.part = o.part /\ g.then_vars = o.then_vars /\ g.then_returned = o.then_returned
        /\ g.brk_part = o.brk_part /\ g.max_brk_level = w /\ g.returned = p
    BY <2>3, <2>7, <2>8 DEF Opens
  <2> HIDE DEF g, s, l
  <2>10. s[l] = o
    BY <2>1, <2>2 DEF o
  <2>11. open' = [s EXCEPT ![l] = g]
    BY <2>2, <2>5, <2>10
  <2>12. /\ Len(open') = l /\ open'[l] = g
         /\ \A k \in 1 .. l : k # l => open'[k] = open[k]
    BY <2>2, <2>9, <2>11
  <2>13. Dead' = PartReturned
    <3>1. Depth' = l /\ Depth' > 0 /\ Top' = g
      BY <2>1, <2>12 DEF Depth, Top
    <3>2. Dead' = g.returned
      BY <3>1 DEF Dead
    <3>3. QED
      BY <2>9, <3>2 DEF p
  <2>14. open'[Depth - 1].max_brk_level = w
    BY <2>9, <2>12 DEF l
  <2>15. Top.kind = "if" => w >= Top.max_brk_level - 1
    BY <2>4, <2>6, <2>7
  <2>16. ASSUME NEW k \in 1 .. l
         PROVE  StillOpen(open[k], open'[k])
    <3>1. CASE k = l
      <4>1. open'[k] = g /\ open[k] = o
        BY <2>12, <3>1 DEF o
      <4>2. QED
        BY <2>7, <2>9, <4>1 DEF StillOpen
    <3>2. CASE k # l
      <4>1. open'[k] = open[k] /\ k \in 1 .. Len(open)
        BY <1>2, <2>1, <2>12, <3>2 DEF l
      <4>2. open[k].max_brk_level \in Nat
        BY <1>2, <4>1, OpensFields
      <4>3. open[k].max_brk_level >= open[k].max_brk_level
        BY <4>2
      <4>4. QED
        BY <4>1, <4>2, <4>3 DEF StillOpen
    <3>3. QED
      BY <3>1, <3>2
  <2>17. QED
    BY <2>12, <2>13, <2>14, <2>15, <2>16 DEF l
<1>6. QED
  BY <1>4, <1>5

\* What is merged has its storage from there.
LEMMA MergedFromParts ==
  ASSUME ParseInv, Depth > 0
  PROVE  MergedIn(open, locals_table, MergedVars, MergeFrom)
<1> DEFINE t == locals_table[Depth + 1]
           M == MergedVars
           o == open[Len(open)]
<1>1. Depth = Len(open) /\ Top = o /\ o.part \in {"then", "else"}
  BY ScopeStart, OpensFields
<1>2. CASE Top.kind = "repeat"
  <2>1. M = {n \in DOMAIN t : t[n].part = 0} /\ MergeFrom = t
    BY <1>2 DEF MergedVars, MergeFrom
  <2>2. QED
    BY <1>1, <1>2, <2>1 DEF MergedIn
<1>3. CASE Top.kind # "repeat" /\ Top.part = "else"
  <2>1. /\ M = {n \in {m \in DOMAIN t : t[m].part = 0} \cap DOMAIN Top.then_vars :
                 Top.then_vars[n].part = 0}
        /\ MergeFrom = Top.then_vars
    BY <1>3 DEF MergedVars, MergeFrom
  <2>2. QED
    BY <1>1, <1>3, <2>1 DEF MergedIn
<1>4. CASE Top.kind # "repeat" /\ Top.part = "then"
  <2>1. M = {} /\ MergeFrom = Top.then_vars
    BY <1>4 DEF MergedVars, MergeFrom
  <2>2. QED
    BY <1>1, <1>4, <2>1 DEF MergedIn
<1>5. QED
  BY <1>1, <1>2, <1>3, <1>4

\* The end of a branch closes it.
LEMMA BranchCloses ==
  ASSUME ParseInv, EndBranch
  PROVE  Closes(EndOfPart, branch, open, locals_table, branch', open', locals_table',
                MergedVars, MergeFrom)
<1> DEFINE b == Top.branch
           s == branch[b]
           M == MergedVars
           vs == IF Top.part = "then" THEN Storage(locals_table[Depth + 1]) ELSE s.vars
           m == Len(EndOfPart) + 1
           h == ~always_return
           r == [s EXCEPT !.merge_at = m, !.vars = vs, !.merged_vars = M, !.has_merge = h]
<1>1. /\ Depth > 0
      /\ locals_table' = [SubSeq(locals_table, 1, Depth) EXCEPT ![Depth] = MergeInto(@)]
      /\ branch' = [branch EXCEPT ![b] = Merge(branch[b])]
  BY DEF EndBranch
<1>2. Merge(branch[b]) = r
  BY DEF Merge
<1>3. /\ open \in Seq(Opens) /\ Depth = Len(open) /\ Depth \in Nat /\ Top = open[Depth]
      /\ Depth \in 1 .. Len(open) /\ locals_table \in Seq(Tables)
      /\ Len(locals_table) = Depth + 1 /\ branch \in Seq(Branches) /\ OpenInv(branch, open)
      /\ TypeInv /\ Len(branch) \in Nat
  BY <1>1, ScopeStart
<1>4. b \in 1 .. Len(branch) /\ s \in Branches /\ locals_table[Depth + 1] \in Tables
  <2>1. b \in 1 .. Len(branch)
    BY <1>3 DEF OpenInv
  <2>2. QED
    BY <1>3, <2>1
<1>5. vs \in SUBSET Nat /\ m \in Nat /\ M \in SUBSET Names /\ h \in BOOLEAN
  <2>1. Storage(locals_table[Depth + 1]) \in SUBSET Nat /\ s.vars \in SUBSET Nat
    BY <1>4, TableFacts DEF Branches
  <2>2. Len(EndOfPart) \in Nat /\ M \in SUBSET Names
    BY <1>1, <1>3, PartEnded, MergedTypes
  <2>3. QED
    BY <2>1, <2>2
<1> HIDE DEF vs, m, h, s, M
<1>6. /\ r \in Branches /\ r.start = s.start /\ r.kind = s.kind /\ r.elif = s.elif
      /\ r.else_at = s.else_at /\ r.merge_at = m /\ r.merged_vars = M /\ r.vars = vs
  BY <1>4, <1>5 DEF Branches
<1> HIDE DEF r
<1>7. /\ branch' \in Seq(Branches) /\ Len(branch') = Len(branch) /\ branch'[b] = r
      /\ \A c \in 1 .. Len(branch) : c # b => branch'[c] = branch[c]
  BY <1>1, <1>2, <1>3, <1>4, <1>6
<1>8. OthersSame(branch, branch', b)
  <2>1. \A c \in 1 .. Len(branch) : branch'[c].start = branch[c].start
    BY <1>6, <1>7 DEF s
  <2>2. QED
    BY <1>3, <1>7, <2>1 DEF OthersSame
<1>9. \A c \in 1 .. Len(branch) :
        /\ branch'[c].kind = branch[c].kind /\ branch'[c].elif = branch[c].elif
        /\ branch'[c].else_at = branch[c].else_at
  BY <1>6, <1>7 DEF s
<1>10. branch'[b].vars = IF Top.part = "then" THEN Storage(locals_table[Depth + 1])
                         ELSE branch[b].vars
  BY <1>6, <1>7 DEF vs, s
<1> DEFINE q == SubSeq(locals_table, 1, Depth)
           t == locals_table[Depth]
           u == MergeInto(t)
<1>11. q \in Seq(Tables) /\ Len(q) = Depth /\ Depth \in 1 .. Len(q) /\ q[Depth] = t
       /\ \A k \in 1 .. Depth : q[k] = locals_table[k]
  BY <1>3
<1>12. t \in Tables
  BY <1>3
<1>13. u \in Tables
  BY <1>1, <1>3, <1>12, MergedTypes
<1>14. /\ DOMAIN u = DOMAIN t \cup M
       /\ \A n \in DOMAIN t : u[n] = t[n]
       /\ \A n \in M \ DOMAIN t : /\ u[n].slot = MergeFrom[n].slot
                                  /\ Depth > 1 => u[n].part = open[Depth - 1].brk_part
  <2> DEFINE part == IF Depth = 1 THEN 0 ELSE open[Depth - 1].brk_part
             from == MergeFrom
  <2>1. u = [n \in DOMAIN t \cup M |-> IF n \in DOMAIN t THEN t[n]
                                       ELSE [slot |-> from[n].slot, part |-> part]]
    BY DEF MergeInto, MergeFrom, M
  <2>2. Depth > 1 => part = open[Depth - 1].brk_part
    BY <1>3
  <2> HIDE DEF part, from, t, u
  <2>3. /\ DOMAIN u = DOMAIN t \cup M
        /\ \A n \in DOMAIN t : u[n] = t[n]
        /\ \A n \in M \ DOMAIN t : u[n].slot = from[n].slot /\ u[n].part = part
    BY <2>1
  <2>4. QED
    BY <2>2, <2>3 DEF from
<1>15. locals_table' = [q EXCEPT ![Depth] = u]
  BY <1>1, <1>11
<1> HIDE DEF q, u, t
<1>16. /\ locals_table' \in Seq(Tables) /\ Len(locals_table') = Depth
       /\ locals_table'[Depth] = u
       /\ \A k \in 1 .. Depth : k # Depth => locals_table'[k] = locals_table[k]
  BY <1>11, <1>13, <1>15
<1>17. \A k \in 1 .. Depth - 1 : locals_table'[k] = locals_table[k]
  BY <1>3, <1>16
<1>18. /\ Len(open') = Depth - 1
       /\ \A k \in 1 .. Depth - 1 : StillOpen(open[k], open'[k])
       /\ Depth > 1 /\ Top.kind = "if" /\ Top.max_brk_level > 0 =>
            open'[Depth - 1].max_brk_level >= Top.max_brk_level - 1
  BY OpensHanded
<1>19. branch'[b].merge_at = Len(EndOfPart) + 1 /\ branch'[b].merged_vars = M
  BY <1>6, <1>7 DEF m
<1>20. /\ DOMAIN locals_table'[Depth] = DOMAIN locals_table[Depth] \cup M
       /\ \A n \in DOMAIN locals_table[Depth] : locals_table'[Depth][n] = locals_table[Depth][n]
       /\ \A n \in M \ DOMAIN locals_table[Depth] :
            /\ locals_table'[Depth][n].slot = MergeFrom[n].slot
            /\ Depth > 1 => locals_table'[Depth][n].part = open[Depth - 1].brk_part
  BY <1>14, <1>16 DEF t
<1>21. QED
  <2> DEFINE from == MergeFrom
             L == Len(open)
  <2>1. /\ L > 0 /\ Len(locals_table) = L + 1 /\ L = Depth /\ Top = open[L] /\ b = open[L].branch
    BY <1>1, <1>3
  <2> HIDE DEF from, L, b
  <2> SUFFICES Closes(EndOfPart, branch, open, locals_table, branch', open', locals_table', M, from)
    BY DEF M, from
  <2>2. L > 0 /\ locals_table \in Seq(Tables) /\ Len(locals_table) = L + 1
    BY <1>3, <2>1
  <2>3. branch'[b].vars = IF open[L].part = "then" THEN Storage(locals_table[L + 1])
                          ELSE branch[b].vars
    BY <1>10, <2>1
  <2>4. /\ Len(open') = L - 1
        /\ \A k \in 1 .. L - 1 : StillOpen(open[k], open'[k])
        /\ L > 1 /\ open[L].kind = "if" /\ open[L].max_brk_level > 0 =>
             open'[L - 1].max_brk_level >= open[L].max_brk_level - 1
    BY <1>18, <2>1
  <2>5. /\ locals_table' \in Seq(Tables) /\ Len(locals_table') = L
        /\ \A k \in 1 .. L - 1 : locals_table'[k] = locals_table[k]
    BY <1>16, <1>17, <2>1
  <2>6. /\ DOMAIN locals_table'[L] = DOMAIN locals_table[L] \cup M
        /\ \A n \in DOMAIN locals_table[L] : locals_table'[L][n] = locals_table[L][n]
        /\ \A n \in M \ DOMAIN locals_table[L] :
             /\ locals_table'[L][n].slot = from[n].slot
             /\ L > 1 => locals_table'[L][n].part = open[L - 1].brk_part
    BY <1>20, <2>1 DEF from
  <2>7. open[Len(open)].branch = b
    BY <2>1 DEF L
  <2>8. QED
    BY <1>7, <1>8, <1>9, <1>19, <2>2, <2>3, <2>4, <2>5, <2>6, <2>7 DEF Closes, L

\* Behind the end of a branch its merged variables are in scope.
LEMMA EndBranchScopes ==
  ASSUME ParseInv, ScopeInv, EndBranch, parse # "done"
  PROVE  ScopeInv'
<1> DEFINE yes == TRUE
           no == FALSE
           dead == Dead'
           body == (parse = "body")'
           M == MergedVars
           from == MergeFrom
<1>1. /\ Depth > 0 /\ code' = EndOfPart
      /\ parse' = IF Top.elif THEN "close" ELSE "body"
      /\ UNCHANGED slots
  BY DEF EndBranch
<1>2. /\ Depth = Len(open) /\ Top = open[Len(open)] /\ Depth \in 1 .. Len(open)
      /\ Depth \in Nat
  BY <1>1, ScopeStart
<1>3. Dead' = PartReturned /\ Len(open') = Depth - 1
      /\ (Depth > 1 => open'[Depth - 1].part = open[Depth - 1].part)
  <2>1. Depth > 1 => Depth - 1 \in 1 .. Depth - 1
    BY <1>2
  <2>2. QED
    BY <2>1, OpensHanded DEF StillOpen
<1>4. yes \in BOOLEAN /\ yes /\ no \in BOOLEAN /\ ~no
  OBVIOUS
<1>5. dead \in BOOLEAN /\ (dead => NothingBehind(open))
  <2>1. PartReturned \in BOOLEAN
    BY DEF PartReturned, always_return, BothReturn
  <2>2. PartReturned => NothingBehind(open)
    BY <1>2 DEF PartReturned, always_return, BothReturn, NothingBehind
  <2>3. QED
    BY <1>3, <2>1, <2>2
<1>6. body \in BOOLEAN /\ (body => ~open[Len(open)].elif)
  BY <1>1, <1>2
<1>7. /\ Closes(EndOfPart, branch, open, locals_table, branch', open', locals_table', M, from)
      /\ MergedIn(open, locals_table, M, from)
  BY <1>1, BranchCloses, MergedFromParts
<1>8. Len(EndOfPart) \in Nat /\ Structured(EndOfPart, branch, open)
  BY <1>1, PartEnded
<1> HIDE DEF yes, no, dead, body, M, from
<1>9. SUFFICES ASSUME Single(code')
               PROVE  /\ ScopeFacts(code', branch', open', locals_table', slots', dead, body)
                      /\ EndInv(code', open', FALSE)
                      /\ parse' = "close" => Depth' > 0 /\ Top'.part = "else"
  BY DEF ScopeInv, dead, body
<1>10. /\ ScopeFacts(EndOfPart, branch, open, locals_table, slots, yes, no)
       /\ EndInv(EndOfPart, open, yes)
  <2>1. Single(EndOfPart) /\ Len(EndOfPart) <= Len(EndOfPart)
        /\ \A i \in 1 .. Len(EndOfPart) : EndOfPart[i] = EndOfPart[i]
    BY <1>1, <1>8, <1>9
  <2>2. QED
    BY <1>1, <1>4, <1>8, <2>1, PartScopes
<1>11. /\ ScopeFacts(EndOfPart, branch', open', locals_table', slots, dead, body)
       /\ EndInv(EndOfPart, open', FALSE)
  BY <1>4, <1>5, <1>6, <1>7, <1>8, <1>10, CloseFacts
<1>12. ASSUME parse' = "close" PROVE Depth' > 0 /\ Top'.part = "else"
  <2>1. Top.elif
    BY <1>1, <1>12
  <2>2. ElifInv(branch, open, locals_table)
    BY <1>10 DEF ScopeFacts
  <2>3. Depth > 1 /\ open[Depth - 1].part = "else"
    BY <1>2, <2>1, <2>2 DEF ElifInv
  <2>4. Depth' = Depth - 1 /\ Top' = open'[Depth - 1]
    BY <1>3 DEF Depth, Top
  <2>5. QED
    BY <1>2, <1>3, <2>3, <2>4
<1>13. QED
  BY <1>1, <1>11, <1>12

\* Every step of the parser keeps the invariant of the scopes.
LEMMA ParseScopes ==
  ASSUME ParseInv, ScopeInv, Parse
  PROVE  ScopeInv'
<1>1. /\ family \in Families
      /\ family.names \in SUBSET Names /\ family.kinds \in SUBSET Kinds /\ family.brk \in Nat
  BY FamiliesAssumption DEF ParseInv, TypeInv
<1>2. CASE \E n \in family.names : Declare(n)
  BY <1>1, <1>2, DeclareScopes
<1>3. CASE \E kind \in family.kinds : OpenBranch(kind)
  BY <1>1, <1>3, OpenBranchScopes
<1>4. CASE \E levels \in 1 .. family.brk : Brk(levels)
  BY <1>1, <1>4, BrkScopes
<1>5. CASE Return
  BY <1>5, ReturnScopes
<1>6. CASE Else
  BY <1>6, ElseScopes
<1>7. CASE Elif
  BY <1>7, ElifScopes
<1>8. CASE End \/ EndElif \/ Until
  <2>1. EndBranch /\ parse # "done"
    BY <1>8 DEF End, EndElif, Until, Parsing
  <2>2. QED
    BY <2>1, EndBranchScopes
<1>9. CASE EndOfBody
  BY <1>9, EndOfBodyScopes
<1>10. QED
  BY <1>2, <1>3, <1>4, <1>5, <1>6, <1>7, <1>8, <1>9 DEF Parse

\* A function without code has no scopes but its own.
LEMMA ScopesStart == ParseInit => ScopeInv
<1> SUFFICES ASSUME ParseInit PROVE ScopeInv
  OBVIOUS
<1>1. /\ Len(open) = 0 /\ Len(branch) = 0 /\ Len(code) = 0
      /\ locals_table = <<NoVars>> /\ Len(locals_table) = 1
      /\ parse = "body"
  BY DEF ParseInit
<1>2. FlowInv(code, branch, locals_table, Dead)
  BY <1>1 DEF FlowInv
<1>3. DeclaredInv(code, open, locals_table, slots)
  <2>1. Variables(NoVars) = {}
    BY NoVarsFacts DEF Variables
  <2>2. Given(code) = {}
    BY <1>1 DEF Given
  <2>3. \A i \in 1 .. Len(locals_table) : i = 1 /\ locals_table[i] = NoVars
    BY <1>1
  <2>4. \A i \in 1 .. Len(locals_table) : Variables(locals_table[i]) \subseteq Given(code)
    BY <2>1, <2>3
  <2>5. QED
    BY <1>1, <2>2, <2>3, <2>4 DEF DeclaredInv
<1>4. SlotInv(open, locals_table) /\ AroundInv(code, branch, open, locals_table)
  BY <1>1 DEF SlotInv, AroundInv
<1>5. FirstInv(code, branch, open, locals_table) /\ ElifInv(branch, open, locals_table)
  BY <1>1 DEF FirstInv, ElifInv
<1>6. NoBrkInv(code, branch, open, parse = "body") /\ OutInv(code, branch)
  BY <1>1 DEF NoBrkInv, OutInv
<1>7. EndInv(code, open, FALSE)
  BY <1>1 DEF EndInv
<1>8. QED
  BY <1>1, <1>2, <1>3, <1>4, <1>5, <1>6, <1>7 DEF ScopeInv, ScopeFacts

\* The code only goes on.
LEMMA CodeGoesOn ==
  ASSUME ParseInv, Parse
  PROVE  Len(code') >= Len(code) /\ \A i \in 1 .. Len(code) : code'[i] = code[i]
<1>1. code \in Seq(Instructions) /\ Len(code) \in Nat /\ Len(branch) + 1 \in Nat
      /\ locals_table \in Seq(Tables)
  BY ScopeStart
<1>2. ASSUME NEW x, code' = Append(code, x)
      PROVE  Len(code') >= Len(code) /\ \A i \in 1 .. Len(code) : code'[i] = code[i]
  BY <1>1, <1>2
<1>3. CASE code' = code
  BY <1>1, <1>3
<1>4. CASE \E kind \in family.kinds : OpenBranch(kind)
  <2>1. PICK kind \in family.kinds : code' = code \o HeadOf(kind, Len(branch) + 1, locals_table)
    BY <1>4 DEF OpenBranch
  <2>2. Longer(code, code')
    BY <1>1, <2>1, HeadFacts
  <2>3. QED
    BY <2>2 DEF Longer
<1>5. CASE code' = EndOfPart
  <2>1. EndOfPart = code \/ \E x : EndOfPart = Append(code, x)
    BY DEF EndOfPart
  <2>2. QED
    BY <1>2, <1>3, <1>5, <2>1
<1>6. CASE Elif
  <2> DEFINE hs == SubSeq(locals_table, 1, Depth)
  <2>1. Depth > 0 /\ code' = EndOfPart \o HeadOf("if", Len(branch) + 1, hs)
    BY <1>6 DEF Elif
  <2>2. EndOfPart \in Seq(Instructions) /\ Len(EndOfPart) \in Nat /\ hs \in Seq(Tables)
    <3>1. Depth \in 0 .. Len(locals_table)
      BY <2>1, ScopeStart
    <3>2. QED
      BY <1>1, <2>1, <3>1, PartEnded
  <2> HIDE DEF hs
  <2>3. Longer(EndOfPart, code')
    BY <1>1, <2>1, <2>2, HeadFacts
  <2>4. Len(EndOfPart) >= Len(code) /\ \A i \in 1 .. Len(code) : EndOfPart[i] = code[i]
    BY <2>1, EndOfPartGrows DEF Grown
  <2>5. QED
    BY <1>1, <2>2, <2>3, <2>4 DEF Longer
<1>7. CASE \/ \E n \in family.names : Declare(n)
           \/ \E levels \in 1 .. family.brk : Brk(levels)
           \/ Return \/ EndOfBody
  <2>1. (\E n \in family.names : Declare(n)) => \E x : code' = Append(code, x)
    BY DEF Declare
  <2>2. (\E levels \in 1 .. family.brk : Brk(levels)) => \E x : code' = Append(code, x)
    BY DEF Brk
  <2>3. Return => \E x : code' = Append(code, x)
    BY DEF Return
  <2>4. EndOfBody => code' = code \/ \E x : code' = Append(code, x)
    BY DEF EndOfBody
  <2>5. QED
    BY <1>2, <1>3, <1>7, <2>1, <2>2, <2>3, <2>4
<1>8. CASE Else \/ End \/ EndElif \/ Until
  BY <1>5, <1>8 DEF Else, End, EndElif, Until, EndBranch
<1>9. QED
  BY <1>4, <1>6, <1>7, <1>8 DEF Parse

\* Nothing is in scope where the function begins.
StartInv ==
  /\ Len(code) > 0 => code[1].scope = {}
  /\ Len(code) = 0 => InScope(locals_table) = {} /\ ~ended

\* No token changes what is in scope at the start.
LEMMA ParseStartInv ==
  ASSUME ParseInv, StartInv, Parse
  PROVE  StartInv'
<1>1. /\ code \in Seq(Instructions) /\ Len(code) \in Nat /\ Len(branch) + 1 \in Nat
      /\ branch \in Seq(Branches) /\ Len(open) \in Nat /\ Depth = Len(open)
      /\ locals_table \in Seq(Tables) /\ OpenInv(branch, open) /\ PlacesInv(code, branch)
      /\ open \in Seq(Opens)
  BY ScopeStart
<1>2. Len(code') >= Len(code) /\ (\A i \in 1 .. Len(code) : code'[i] = code[i])
      /\ Len(code') \in Nat
  <2>1. code' \in Seq(Instructions)
    BY ParseKeeps DEF ParseInv, TypeInv
  <2>2. QED
    BY <2>1, CodeGoesOn
<1>3. CASE Len(code) > 0
  <2>1. Len(code') > 0 /\ code'[1] = code[1]
    BY <1>1, <1>2, <1>3
  <2>2. QED
    BY <1>3, <2>1 DEF StartInv
<1>4. CASE Len(code) = 0
  <2>1. InScope(locals_table) = {} /\ ~ended
    BY <1>4 DEF StartInv
  <2>2. Depth = 0
    <3> SUFFICES ASSUME Depth # 0 PROVE FALSE
      OBVIOUS
    <3>1. 1 \in 1 .. Len(open)
      BY <1>1
    <3>2. PICK b \in 1 .. Len(branch) : b = open[1].branch
      BY <1>1, <3>1 DEF OpenInv
    <3>3. branch[b].start >= 1 /\ BodyOf(branch[b]) <= Len(code) + 1
      BY <1>1 DEF PlacesInv
    <3>4. branch[b].start \in Nat /\ BodyOf(branch[b]) \in Nat
          /\ branch[b].start < BodyOf(branch[b])
      BY <1>1, BranchFacts
    <3>5. QED
      BY <1>4, <3>3, <3>4
  <2>3. ~\E levels \in 1 .. family.brk : Brk(levels)
    <3> SUFFICES ASSUME NEW levels \in 1 .. family.brk, Brk(levels) PROVE FALSE
      OBVIOUS
    <3>1. levels \in Nat \ {0} /\ levels <= Cardinality({i \in 1 .. Depth : syntax_nesting(i) = 1})
      BY DEF Brk
    <3>2. BrkDepth(levels) \in 1 .. Depth
      BY <1>1, <3>1, BrkDepthFits
    <3>3. QED
      BY <2>2, <3>2
  <2>4. SUFFICES ASSUME NEW x, Len(code') > 0, code'[1] = x PROVE x.scope = {}
    <3>1. Len(code') > 0
      <4>1. CASE \/ \E n \in family.names : Declare(n)
                 \/ EndOfBody
        <5>1. PICK x : code' = Append(code, x)
          BY <2>1, <4>1 DEF Declare, EndOfBody
        <5>2. QED
          BY <1>1, <5>1
      <4>2. CASE \E kind \in family.kinds : OpenBranch(kind)
        <5>1. PICK kind \in family.kinds : code' = code \o HeadOf(kind, Len(branch) + 1, locals_table)
          BY <4>2 DEF OpenBranch
        <5>2. Longer(code, code')
          BY <1>1, <5>1, HeadFacts
        <5>3. QED
          BY <1>2, <5>2 DEF Longer
      <4>3. QED
        BY <2>2, <2>3, <4>1, <4>2 DEF Parse, Return, Else, Elif, End, EndElif, Until, EndBranch
    <3>2. Len(code') # 0
      BY <1>2, <3>1
    <3>3. QED
      BY <2>4, <3>1, <3>2 DEF StartInv
  <2>5. CASE \/ \E n \in family.names : Declare(n)
             \/ EndOfBody
    <3>1. PICK op, b, objs, levels :
            code' = Append(code, Instruction(op, b, objs, levels, locals_table))
      BY <2>1, <2>5 DEF Declare, EndOfBody
    <3> DEFINE y == Instruction(op, b, objs, levels, locals_table)
    <3>2. y.scope = {}
      BY <2>1 DEF Instruction
    <3> HIDE DEF y
    <3>3. code'[1] = y
      BY <1>1, <1>4, <3>1 DEF y
    <3>4. QED
      BY <2>4, <3>2, <3>3
  <2>6. CASE \E kind \in family.kinds : OpenBranch(kind)
    <3> DEFINE b == Len(branch) + 1
               y == Instruction("enter", b, {}, 0, locals_table)
               z == Instruction("cond", b, {}, 0, locals_table)
    <3>1. PICK kind \in family.kinds : code' = code \o HeadOf(kind, b, locals_table)
      BY <2>6 DEF OpenBranch
    <3>2. y.scope = {}
      BY <2>1 DEF Instruction
    <3>3. HeadOf(kind, b, locals_table) = <<y>> \o <<z>>
          \/ HeadOf(kind, b, locals_table) = <<y>> \o <<>>
      BY DEF HeadOf
    <3>4. y \in Instructions /\ z \in Instructions
      <4>1. {} \in SUBSET Objects /\ "enter" \in Ops /\ "cond" \in Ops /\ b \in Nat /\ 0 \in Nat
        BY <1>1 DEF Ops
      <4>2. QED
        BY <1>1, <4>1, InstructionType
    <3> HIDE DEF y, z, b
    <3>5. \E t \in Seq(Instructions) : code' = code \o (<<y>> \o t)
      <4>1. <<z>> \in Seq(Instructions) /\ <<>> \in Seq(Instructions)
        BY <3>4
      <4>2. QED
        BY <3>1, <3>3, <4>1
    <3>6. PICK t \in Seq(Instructions) : code' = code \o (<<y>> \o t)
      BY <3>5
    <3>7. <<y>> \in Seq(Instructions) /\ Len(<<y>>) = 1 /\ <<y>>[1] = y
      BY <3>4
    <3> DEFINE h == <<y>> \o t
    <3>8. h \in Seq(Instructions) /\ Len(h) \in Nat /\ 1 \in 1 .. Len(h) /\ h[1] = y
      <4>1. h \in Seq(Instructions) /\ Len(h) = 1 + Len(t) /\ \A i \in 1 .. 1 : h[i] = <<y>>[i]
        BY <3>7, Joined
      <4>2. Len(t) \in Nat
        OBVIOUS
      <4>3. QED
        BY <3>7, <4>1, <4>2
    <3> HIDE DEF h
    <3>9. code' = code \o h
      BY <3>6 DEF h
    <3>10. \A i \in 1 .. Len(h) : code'[Len(code) + i] = h[i]
      BY <1>1, <3>8, <3>9, Joined
    <3>11. code'[0 + 1] = h[1]
      BY <1>4, <3>8, <3>10
    <3>12. QED
      BY <2>4, <3>2, <3>8, <3>11
  <2>7. QED
    BY <2>2, <2>3, <2>5, <2>6 DEF Parse, Return, Else, Elif, End, EndElif, Until, EndBranch
<1>5. QED
  BY <1>1, <1>3, <1>4

-----------------------------------------------------------------------------
(* The objects of a run.                                                   *)

\* A step of a function whose brk all leave one statement.
Ready ==
  /\ Stepping /\ Single(code) /\ FlowInv(code, branch, locals_table, Dead)
  /\ AliveInv

\* The step leads to where S is in scope and alive; without loops nothing else is.
Lands(S) ==
  /\ Finds(code, locals_table, Dead, pc', S)
  /\ S \subseteq alive'
  /\ NoLoops => alive' = S /\ twice' = {} /\ lost' = {}

\* A loop that does not save the stack again can be left.
CondReady ==
  LET c == code[pc'].branch
      p == branch[c].merge_at
  IN pc' \in 1 .. Len(code) /\ code[pc'].op = "cond" /\ mustsave'[c] = 0 =>
       (p <= Len(code) => code[p].scope \subseteq alive')

\* What is in scope there is what control finds there.
LEMMA Found ==
  ASSUME Len(code) \in Nat, NEW p, NEW S, Finds(code, locals_table, Dead, p, S), p <= Len(code)
  PROVE  code[p].scope = S
<1>1. p # Len(code) + 1
  OBVIOUS
<1>2. QED
  BY <1>1 DEF Finds

\* What holds before a step.
LEMMA ReadyFacts ==
  ASSUME Ready
  PROVE  /\ Compiled /\ Running /\ parse = "done" /\ Len(code) \in Nat
         /\ pc \in 1 .. Len(code) /\ Here = code[pc]
         /\ Here.scope \subseteq alive
         /\ NoLoops => alive = Here.scope /\ twice = {} /\ lost = {}
         /\ InstructionInv(code, branch, locals_table, Dead, pc)
         /\ MergeInv(code, branch, locals_table, Dead, pc)
         /\ \A b \in 1 .. Len(branch) :
              /\ PlaceInv(code, branch, locals_table, Dead, b)
              /\ branch[b].merge_at > 0 /\ BodyOf(branch[b]) = BodyAt(b)
<1>1. /\ Compiled /\ Running /\ parse = "done" /\ Single(code)
      /\ FlowInv(code, branch, locals_table, Dead) /\ AliveInv
  BY DEF Ready, Stepping
<1>2. Len(code) \in Nat /\ pc \in 1 .. Len(code) /\ Here = code[pc]
  BY <1>1 DEF Compiled, Structured, Running, Here
<1>3. Here.scope \subseteq alive /\ (NoLoops => alive = Here.scope /\ twice = {} /\ lost = {})
  BY <1>1 DEF AliveInv
<1>4. \A b \in 1 .. Len(branch) : BodyOf(branch[b]) = BodyAt(b) /\ branch[b].merge_at > 0
  BY <1>1 DEF BodyOf, BodyAt, Compiled
<1>5. QED
  BY <1>1, <1>2, <1>3, <1>4 DEF FlowInv

\* A step that lands keeps the invariant.
LEMMA AliveStep ==
  ASSUME Ready, UNCHANGED parseVars, NEW S, Lands(S), CondReady
  PROVE  AliveInv'
<1>1. /\ UNCHANGED <<parse, code, branch, locals_table>> /\ parse = "done" /\ Len(code) \in Nat
      /\ Single(code)
  BY ReadyFacts DEF parseVars, Ready
<1>2. NoLoops' <=> NoLoops
  BY <1>1 DEF NoLoops
<1>3. ASSUME Running' PROVE Here.scope' = S /\ pc' \in 1 .. Len(code)
  <2>1. pc' \in 1 .. Len(code)
    BY <1>1, <1>3 DEF Running
  <2>2. pc' <= Len(code)
    BY <1>1, <2>1
  <2>3. code[pc'].scope = S
    BY <1>1, <2>2, Found DEF Lands
  <2>4. QED
    BY <1>1, <2>1, <2>3 DEF Here
<1>4. Running' => Here.scope' \subseteq alive' /\ (NoLoops' => alive' = Here.scope')
  BY <1>2, <1>3 DEF Lands
<1>5. Running' => (Here.op = "cond" /\ mustsave[Here.branch] = 0 =>
                     LET p == B.merge_at IN p <= Len(code) => code[p].scope \subseteq alive)'
  BY <1>1, <1>3 DEF CondReady, Here, B
<1>6. NoLoops' => twice' = {} /\ lost' = {}
  BY <1>2 DEF Lands
<1>7. parse' = "done" /\ (Single(code)' <=> Single(code))
  BY <1>1
<1>8. QED
  BY <1>4, <1>5, <1>6, <1>7 DEF AliveInv

\* Only the instructions of a loop lead to its condition.
LEMMA CondReached ==
  ASSUME Compiled, Running, Leads(pc'), pc' \in 1 .. Len(code), code[pc'].op = "cond"
  PROVE  /\ Here.branch = code[pc'].branch /\ Here.branch \in 1 .. Len(branch)
         /\ HasCond(Here.branch) /\ pc' = branch[Here.branch].start + 1
         /\ Here.op \in {"enter", "cond", "endthen"}
<1> DEFINE c == code[pc'].branch
           q == pc'
<1>1. CodeInv(code, branch) /\ code[q].op \notin {"decl", "return"} /\ Len(code) \in Nat
  BY DEF Compiled, Structured
<1>2. c \in 1 .. Len(branch) /\ HasCond(c) /\ q = branch[c].start + 1
  BY <1>1 DEF CodeInv, HasCond
<1>3. IsLoop(c)
  BY <1>2 DEF HasCond, IsLoop, Loops
<1>4. q \in Nat /\ branch[c].start < q /\ q < ThenEnd(c) /\ q <= BodyAt(c)
  <2>1. /\ branch[c].start \in Nat /\ BodyAt(c) \in Nat /\ ThenEnd(c) \in Nat
        /\ BodyAt(c) = branch[c].start + 2 /\ BodyAt(c) < ThenEnd(c)
    BY <1>2, <1>3, Layout
  <2>2. QED
    BY <1>2, <2>1
<1> HIDE DEF c, q
<1>5. Leads(q)
  BY DEF q
<1>6. Here.branch = c /\ Here.op \in {"enter", "cond", "endthen"}
  BY <1>2, <1>3, <1>4, <1>5, OneWayIn
<1>7. QED
  BY <1>2, <1>6 DEF c, q

\* so that the others need not care.
LEMMA NoCond ==
  ASSUME Compiled, Running, Leads(pc'),
         Here.op \in {"enter", "endthen"} => ~HasCond(Here.branch),
         Here.op = "cond" => pc' # branch[Here.branch].start + 1
  PROVE  CondReady
<1> SUFFICES ASSUME pc' \in 1 .. Len(code), code[pc'].op = "cond" PROVE FALSE
  BY DEF CondReady
<1>1. QED
  BY CondReached

\* At a way out: what stays and what is destroyed.
LEMMA OnTheWayOut ==
  ASSUME Ready, Here.op \in Leaving
  PROVE  LET b == Here.branch
             A == Around(code, branch, b)
             K == Pieces(Kept(Here.objs, branch[b]))
             U == Unmerged(Here.objs, b)
         IN /\ b \in 1 .. Len(branch)
            /\ Here.scope = (A \cup K) \cup U /\ (A \cup K) \cap U = {}
            /\ Finds(code, locals_table, Dead, branch[b].merge_at, A \cup K)
            /\ A \subseteq A \cup K
<1> DEFINE b == Here.branch
           A == Around(code, branch, b)
           objs == Here.objs
           K == Pieces(Kept(objs, branch[b]))
           U == Unmerged(objs, b)
           S == Pieces(objs)
<1>1. /\ Compiled /\ pc \in 1 .. Len(code) /\ Here = code[pc]
      /\ InstructionInv(code, branch, locals_table, Dead, pc)
      /\ MergeInv(code, branch, locals_table, Dead, pc)
  BY ReadyFacts
<1>2. b \in 1 .. Len(branch)
  <2>1. CodeInv(code, branch)
    BY <1>1 DEF Compiled, Structured
  <2>2. QED
    BY <1>1, <2>1, LeavingBranch
<1>3. branch[b].merge_at > 0
  BY <1>1, <1>2 DEF Compiled
<1>4. /\ Here.scope = A \cup S /\ S \cap A = {}
      /\ \A v, w \in objs : v[1] = w[1] <=> v[2] = w[2]
  BY <1>1 DEF InstructionInv
<1>5. Finds(code, locals_table, Dead, branch[b].merge_at, A \cup K)
  BY <1>1, <1>3 DEF MergeInv
<1>6. S = K \cup U /\ K \cap U = {}
  <2> DEFINE M == branch[b].merged_vars
             in == {v \in objs : v[1] \in M}
             out == {v \in objs : v[1] \notin M}
  <2>1. K = {v[2] : v \in in} /\ U = {v[2] : v \in out} /\ S = {v[2] : v \in objs}
    BY DEF Pieces, Kept, Unmerged
  <2>2. objs = in \cup out /\ \A v \in in, w \in out : v \in objs /\ w \in objs /\ v[1] # w[1]
    OBVIOUS
  <2> HIDE DEF in, out, K, U, S, objs
  <2>3. \A v \in in, w \in out : v[2] # w[2]
    BY <1>4, <2>2
  <2>4. S = K \cup U
    BY <2>1, <2>2
  <2>5. K \cap U = {}
    BY <2>1, <2>3
  <2>6. QED
    BY <2>4, <2>5
<1> HIDE DEF A, K, U, S
<1>7. Here.scope = (A \cup K) \cup U /\ (A \cup K) \cap U = {}
  BY <1>4, <1>6
<1>8. QED
  BY <1>2, <1>5, <1>7 DEF A, K, U

\* What stays lands at the merge point.
LEMMA LandsAtMerge ==
  ASSUME Ready, Here.op \in Leaving, pc' = branch[Here.branch].merge_at,
         Destroy(Unmerged(Here.objs, Here.branch), {})
  PROVE  \E S : Lands(S)
<1> DEFINE b == Here.branch
           K == Around(code, branch, b) \cup Pieces(Kept(Here.objs, branch[b]))
           U == Unmerged(Here.objs, b)
<1>1. /\ Here.scope = K \cup U /\ K \cap U = {}
      /\ Finds(code, locals_table, Dead, branch[b].merge_at, K)
  BY OnTheWayOut
<1>2. /\ Here.scope \subseteq alive
      /\ NoLoops => alive = Here.scope /\ twice = {} /\ lost = {}
  BY ReadyFacts
<1>3. /\ alive' = alive \ U /\ twice' = twice \cup (U \ alive) /\ lost' = lost
  BY DEF Destroy
<1>4. pc' = branch[b].merge_at
  OBVIOUS
<1> HIDE DEF b, K, U
<1>5. K \subseteq alive' /\ (NoLoops => alive' = K /\ twice' = {} /\ lost' = {})
  BY <1>1, <1>2, <1>3
<1>6. Lands(K)
  BY <1>1, <1>4, <1>5 DEF Lands
<1>7. QED
  BY <1>6

\* A declaration constructs an object in storage without one.
LEMMA DeclAlive ==
  ASSUME Ready, RunDecl
  PROVE  AliveInv'
<1> DEFINE S == Pieces(Here.objs)
           X == Here.scope
<1>1. /\ Here.op = "decl" /\ alive' = alive \cup S /\ lost' = lost \cup (S \cap alive)
      /\ pc' = pc + 1 /\ UNCHANGED <<parseVars, twice>>
  BY DEF RunDecl, At, Here, Pieces
<1>2. /\ X \subseteq alive /\ (NoLoops => alive = X /\ twice = {} /\ lost = {})
      /\ InstructionInv(code, branch, locals_table, Dead, pc) /\ Here = code[pc]
      /\ Compiled /\ Running
  BY ReadyFacts
<1>3. S \cap X = {} /\ Finds(code, locals_table, Dead, pc + 1, X \cup S)
  BY <1>1, <1>2 DEF InstructionInv
<1> HIDE DEF S, X
<1>4. X \cup S \subseteq alive' /\ (NoLoops => alive' = X \cup S /\ twice' = {} /\ lost' = {})
  BY <1>1, <1>2, <1>3
<1>5. Lands(X \cup S)
  BY <1>1, <1>3, <1>4 DEF Lands
<1>6. Leads(pc')
  BY <1>1 DEF Leads
<1>7. CondReady
  BY <1>1, <1>2, <1>6, NoCond
<1>8. QED
  BY <1>1, <1>5, <1>7, AliveStep

\* A brk that is not taken leaves the objects alone, one that is destroys what stays
\* behind.
LEMMA BrkAlive ==
  ASSUME Ready, RunBrk
  PROVE  AliveInv'
<1>1. /\ Here.op = "brk" /\ UNCHANGED parseVars
      /\ \/ pc' = pc + 1 /\ NoDestruction
         \/ /\ pc' = branch[Here.branch].merge_at
            /\ Destroy(Unmerged(Here.objs, Here.branch), {})
  BY DEF RunBrk, At, Here, B
<1>2. /\ Here.scope \subseteq alive
      /\ NoLoops => alive = Here.scope /\ twice = {} /\ lost = {}
      /\ InstructionInv(code, branch, locals_table, Dead, pc) /\ Here = code[pc]
      /\ Compiled /\ Running
  BY ReadyFacts
<1>3. Leads(pc')
  BY <1>1 DEF Leads
<1>4. CondReady
  BY <1>1, <1>2, <1>3, NoCond
<1>5. \E S : Lands(S)
  <2>1. CASE pc' = pc + 1 /\ NoDestruction
    <3>1. Finds(code, locals_table, Dead, pc + 1, Here.scope)
      BY <1>1, <1>2 DEF InstructionInv
    <3>2. Lands(Here.scope)
      BY <1>2, <2>1, <3>1 DEF Lands, NoDestruction, objVars
    <3>3. QED
      BY <3>2
  <2>2. CASE pc' = branch[Here.branch].merge_at /\ Destroy(Unmerged(Here.objs, Here.branch), {})
    BY <1>1, <2>2, LandsAtMerge DEF Leaving
  <2>3. QED
    BY <1>1, <2>1, <2>2
<1>6. QED
  BY <1>1, <1>4, <1>5, AliveStep

\* The end of a part leaves what is merged.
LEMMA EndIfAlive ==
  ASSUME Ready, EndIf
  PROVE  AliveInv'
<1>1. /\ Here.op \in {"endthen", "endelse"} /\ UNCHANGED parseVars
      /\ Here.op = "endthen" => branch[Here.branch].kind = "if"
      /\ pc' = branch[Here.branch].merge_at
      /\ Destroy(Unmerged(Here.objs, Here.branch), {})
  BY DEF EndIf, At, Here, B
<1>2. Leads(pc')
  BY <1>1 DEF Leads
<1>3. CondReady
  BY <1>1, <1>2, ReadyFacts, NoCond DEF HasCond
<1>4. \E S : Lands(S)
  BY <1>1, LandsAtMerge DEF Leaving
<1>5. QED
  BY <1>1, <1>3, <1>4, AliveStep

\* A branch with such a kind is a loop.
LEMMA LoopsFound ==
  ASSUME NEW b \in 1 .. Len(branch), branch[b].kind \in Loops
  PROVE  ~NoLoops
BY DEF NoLoops

\* At the end of the last run of a for loop nothing is destroyed.
LEMMA ForAlive ==
  ASSUME Ready, Here.op \in {"endthen", "endelse"}, branch[Here.branch].kind = "for",
         NoDestruction, UNCHANGED parseVars, pc' = branch[Here.branch].merge_at
  PROVE  AliveInv'
<1> DEFINE b == Here.branch
           K == Around(code, branch, b) \cup Pieces(Kept(Here.objs, branch[b]))
           U == Unmerged(Here.objs, b)
<1>1. /\ Here.scope = K \cup U /\ b \in 1 .. Len(branch)
      /\ Finds(code, locals_table, Dead, branch[b].merge_at, K)
  BY OnTheWayOut DEF Leaving
<1>2. Here.scope \subseteq alive /\ Compiled /\ Running
  BY ReadyFacts
<1>3. ~NoLoops
  BY <1>1, LoopsFound DEF Loops
<1>4. Lands(K)
  BY <1>1, <1>2, <1>3 DEF Lands, NoDestruction, objVars
<1>5. Leads(pc')
  BY DEF Leads
<1>6. CondReady
  BY <1>2, <1>5, NoCond DEF HasCond
<1>7. QED
  BY <1>4, <1>6, AliveStep

\* A loop that runs its body again destroys nothing that is around it.
LEMMA AgainAlive ==
  ASSUME Ready, UNCHANGED parseVars, NEW b \in 1 .. Len(branch), branch[b].kind \in Loops,
         pc' = BodyAt(b), NEW U, U \cap Around(code, branch, b) = {},
         Around(code, branch, b) \subseteq alive, alive' = alive \ (U \cup branch[b].vars),
         CondReady
  PROVE  AliveInv'
<1> DEFINE A == Around(code, branch, b)
           V == branch[b].vars
<1>1. PlaceInv(code, branch, locals_table, Dead, b) /\ BodyOf(branch[b]) = BodyAt(b)
  BY ReadyFacts
<1>2. Finds(code, locals_table, Dead, BodyAt(b), A) /\ V \cap A = {}
  BY <1>1 DEF PlaceInv
<1> HIDE DEF A, V
<1>3. A \subseteq alive'
  BY <1>2 DEF A, V
<1>4. Lands(A)
  BY <1>2, <1>3, LoopsFound DEF Lands
<1>5. QED
  BY <1>4, AliveStep

\* The end of the body of a repeat loop, where it is left or starts over,
LEMMA EndRepeatAlive ==
  ASSUME Ready, EndRepeat
  PROVE  AliveInv'
<1> DEFINE b == Here.branch
           A == Around(code, branch, b)
           U == Unmerged(Here.objs, b)
<1>1. Here.op = "endthen" /\ branch[b].kind = "repeat" /\ UNCHANGED parseVars
  BY DEF EndRepeat, At, Here, B
<1>2. \/ pc' = branch[b].merge_at /\ Destroy(U, {})
      \/ pc' = BodyAt(b) /\ Destroy(U, branch[b].vars)
  BY <1>1 DEF EndRepeat, ToBody, First, RestoredObjects, B
<1>3. b \in 1 .. Len(branch) /\ Compiled /\ Running /\ Here.scope \subseteq alive
  BY <1>1, OnTheWayOut, ReadyFacts DEF Leaving
<1>4. Leads(pc')
  BY <1>1, <1>2 DEF Leads
<1>5. CondReady
  BY <1>1, <1>3, <1>4, NoCond DEF HasCond
<1>6. CASE pc' = branch[b].merge_at /\ Destroy(U, {})
  <2>1. \E S : Lands(S)
    BY <1>1, <1>6, LandsAtMerge DEF Leaving
  <2>2. QED
    BY <1>1, <1>5, <2>1, AliveStep
<1>7. CASE pc' = BodyAt(b) /\ Destroy(U, branch[b].vars)
  <2>1. A \cap U = {} /\ A \subseteq Here.scope
    BY <1>1, OnTheWayOut DEF Leaving
  <2>2. alive' = alive \ (U \cup branch[b].vars)
    BY <1>7 DEF Destroy
  <2>3. branch[b].kind \in Loops
    BY <1>1 DEF Loops
  <2> HIDE DEF A, U, b
  <2>4. U \cap A = {} /\ A \subseteq alive /\ pc' = BodyAt(b)
    BY <1>3, <1>7, <2>1
  <2>5. QED
    BY <1>1, <1>3, <1>5, <2>2, <2>3, <2>4, AgainAlive DEF A
<1>8. QED
  BY <1>2, <1>6, <1>7

\* of a for loop,
LEMMA EndForAlive ==
  ASSUME Ready, EndFor \/ EndForElse
  PROVE  AliveInv'
<1> DEFINE b == Here.branch
           A == Around(code, branch, b)
           U == Unmerged(Here.objs, b)
<1>1. /\ Here.op \in {"endthen", "endelse"} /\ branch[b].kind = "for" /\ UNCHANGED parseVars
  BY DEF EndFor, EndForElse, At, Here, B
<1>2. \/ pc' = branch[b].merge_at /\ NoDestruction
      \/ Here.op = "endthen" /\ pc' = BodyAt(b) /\ Destroy(U, branch[b].vars)
  BY <1>1 DEF EndFor, EndForElse, At, Here, ToBody, First, RestoredObjects, B
<1>3. b \in 1 .. Len(branch) /\ Compiled /\ Running /\ Here.scope \subseteq alive
  BY <1>1, OnTheWayOut, ReadyFacts DEF Leaving
<1>4. CASE pc' = branch[b].merge_at /\ NoDestruction
  BY <1>1, <1>4, ForAlive
<1>5. CASE Here.op = "endthen" /\ pc' = BodyAt(b) /\ Destroy(U, branch[b].vars)
  <2>1. A \cap U = {} /\ A \subseteq Here.scope
    BY <1>1, OnTheWayOut DEF Leaving
  <2>2. alive' = alive \ (U \cup branch[b].vars)
    BY <1>5 DEF Destroy
  <2>3. branch[b].kind \in Loops
    BY <1>1 DEF Loops
  <2>4. CondReady
    <3>1. Leads(pc')
      BY <1>5 DEF Leads
    <3>2. QED
      BY <1>1, <1>3, <1>5, <3>1, NoCond DEF HasCond
  <2> HIDE DEF A, U, b
  <2>5. U \cap A = {} /\ A \subseteq alive /\ pc' = BodyAt(b)
    BY <1>3, <1>5, <2>1
  <2>6. QED
    BY <1>1, <1>3, <2>2, <2>3, <2>4, <2>5, AgainAlive DEF A
<1>6. QED
  BY <1>2, <1>4, <1>5

\* and of a loop that asks its condition again: what is merged is alive where the
\* loop is left.
LEMMA EndWhileAlive ==
  ASSUME Ready, EndWhile
  PROVE  AliveInv'
<1> DEFINE b == Here.branch
           A == Around(code, branch, b)
           K == A \cup Pieces(Kept(Here.objs, branch[b]))
           U == Unmerged(Here.objs, b)
           m == branch[b].merge_at
<1>1. /\ Here.op = "endthen" /\ HasCond(b) /\ UNCHANGED parseVars
      /\ pc' = branch[b].start + 1 /\ Destroy(U, {})
  BY DEF EndWhile, At, Here, B, HasCond
<1>2. /\ b \in 1 .. Len(branch) /\ Compiled /\ Running /\ Here.scope \subseteq alive
      /\ Len(code) \in Nat
  BY <1>1, OnTheWayOut, ReadyFacts DEF Leaving
<1>3. /\ Here.scope = K \cup U /\ K \cap U = {} /\ A \subseteq K
      /\ Finds(code, locals_table, Dead, m, K)
  BY <1>1, OnTheWayOut DEF Leaving
<1>4. alive' = alive \ U
  BY <1>1 DEF Destroy
<1>5. Finds(code, locals_table, Dead, branch[b].start + 1, A)
  <2>1. PlaceInv(code, branch, locals_table, Dead, b)
    BY <1>2, ReadyFacts
  <2>2. QED
    BY <1>1, <2>1 DEF PlaceInv, HasCond
<1>6. Leads(pc')
  BY <1>1 DEF Leads
<1>7. ~NoLoops
  BY <1>1, <1>2, LoopsFound DEF HasCond, Loops
<1>8. m <= Len(code) => code[m].scope = K
  BY <1>2, <1>3, Found
<1> HIDE DEF A, K, U, m
<1>9. K \subseteq alive' /\ A \subseteq alive'
  BY <1>2, <1>3, <1>4
<1>10. Lands(A)
  BY <1>1, <1>5, <1>7, <1>9 DEF Lands
<1>11. CondReady
  <2> SUFFICES ASSUME pc' \in 1 .. Len(code), code[pc'].op = "cond",
                      branch[code[pc'].branch].merge_at <= Len(code)
               PROVE  code[branch[code[pc'].branch].merge_at].scope \subseteq alive'
    BY DEF CondReady
  <2>1. code[pc'].branch = b
    BY <1>2, <1>6, CondReached
  <2>2. QED
    BY <1>8, <1>9, <2>1 DEF m
<1>12. QED
  BY <1>1, <1>10, <1>11, AliveStep

\* Where a branch is entered, nothing is destroyed.
LEMMA EnterAlive ==
  ASSUME Ready, EnterIf \/ EnterRepeat \/ EnterWhile
  PROVE  AliveInv'
<1> DEFINE b == Here.branch
           A == Around(code, branch, b)
           X == Here.scope
<1>1. /\ Here.op = "enter" /\ UNCHANGED parseVars /\ NoDestruction
      /\ \/ EnterIf /\ branch[b].kind \in {"if", "for"}
         \/ EnterRepeat /\ branch[b].kind = "repeat"
         \/ EnterWhile /\ branch[b].kind \in {"while", "foreach"}
  BY DEF EnterIf, EnterRepeat, EnterWhile, Entering, At, Here, B
<1>2. \/ pc' = BodyAt(b) /\ ~HasCond(b)
      \/ ~HasCond(b) /\ branch[b].kind # "repeat" /\ branch[b].else_at > 0 /\ pc' = branch[b].else_at
      \/ /\ ~HasCond(b) /\ branch[b].kind # "repeat" /\ ~(branch[b].else_at > 0)
         /\ pc' = branch[b].merge_at
      \/ /\ HasCond(b) /\ pc' = pc + 1 /\ mustsave' = [mustsave EXCEPT ![b] = 2]
  <2>1. CASE EnterIf /\ branch[b].kind \in {"if", "for"}
    BY <1>1, <2>1 DEF EnterIf, First, ToElse, HasElse, B, HasCond
  <2>2. CASE EnterRepeat /\ branch[b].kind = "repeat"
    BY <1>1, <2>2 DEF EnterRepeat, First, HasCond
  <2>3. CASE EnterWhile /\ branch[b].kind \in {"while", "foreach"}
    BY <1>1, <2>3 DEF EnterWhile, HasCond
  <2>4. QED
    BY <1>1, <2>1, <2>2, <2>3
<1>3. /\ X \subseteq alive /\ (NoLoops => alive = X /\ twice = {} /\ lost = {})
      /\ Here = code[pc] /\ Compiled /\ Running /\ parse = "done"
  BY ReadyFacts
<1>4. b \in 1 .. Len(branch) /\ pc = branch[b].start
  BY <1>1, <1>3, HereFacts
<1>5. A = X
  BY <1>3, <1>4 DEF Around
<1>6. /\ PlaceInv(code, branch, locals_table, Dead, b) /\ BodyOf(branch[b]) = BodyAt(b)
      /\ branch[b].merge_at > 0
  BY <1>4, ReadyFacts
<1>7. branch[b].else_at \in Nat
  BY <1>3, <1>4, Layout
<1>8. Finds(code, locals_table, Dead, pc', A)
  <2>1. CASE pc' = BodyAt(b)
    BY <1>6, <2>1 DEF PlaceInv
  <2>2. CASE branch[b].else_at > 0 /\ pc' = branch[b].else_at
    BY <1>6, <2>2 DEF PlaceInv
  <2>3. CASE /\ branch[b].kind # "repeat" /\ ~(branch[b].else_at > 0)
             /\ pc' = branch[b].merge_at
    <3>1. branch[b].else_at = 0
      BY <1>7, <2>3
    <3>2. QED
      BY <1>6, <2>3, <3>1 DEF PlaceInv
  <2>4. CASE HasCond(b) /\ pc' = pc + 1
    BY <1>4, <1>6, <2>4 DEF PlaceInv, HasCond
  <2>5. QED
    BY <1>2, <2>1, <2>2, <2>3, <2>4
<1>9. Lands(A)
  BY <1>1, <1>3, <1>5, <1>8 DEF Lands, NoDestruction, objVars
<1>10. Leads(pc')
  BY <1>1, <1>2, <1>4 DEF Leads
<1>11. CondReady
  <2>1. CASE ~HasCond(b)
    BY <1>1, <1>3, <1>10, <2>1, NoCond
  <2>2. CASE mustsave' = [mustsave EXCEPT ![b] = 2]
    <3> SUFFICES ASSUME pc' \in 1 .. Len(code), code[pc'].op = "cond"
                 PROVE  mustsave'[b] # 0 /\ code[pc'].branch = b
      BY DEF CondReady
    <3>1. code[pc'].branch = b
      BY <1>3, <1>10, CondReached
    <3>2. b \in DOMAIN mustsave
      BY <1>3, <1>4 DEF Ready, Stepping, RunInv
    <3>3. QED
      BY <2>2, <3>1, <3>2
  <2>3. QED
    BY <1>2, <2>1, <2>2
<1>12. QED
  BY <1>1, <1>9, <1>11, AliveStep

\* At its condition a loop runs its body, or it is left.
LEMMA CondAlive ==
  ASSUME Ready, Cond
  PROVE  AliveInv'
<1> DEFINE b == Here.branch
           A == Around(code, branch, b)
           X == Here.scope
           m == branch[b].merge_at
<1>1. Here.op = "cond" /\ UNCHANGED parseVars
  BY DEF Cond, At, Here
<1>2. \/ pc' = BodyAt(b) /\ (NoDestruction \/ \E V : V \subseteq branch[b].vars /\ Destroy(V, {}))
      \/ branch[b].else_at > 0 /\ pc' = branch[b].else_at /\ NoDestruction
      \/ ~(branch[b].else_at > 0) /\ pc' = m /\ NoDestruction
      \/ mustsave[b] = 0 /\ pc' = m /\ NoDestruction
  <2>1. RestoredObjects \subseteq branch[b].vars
    BY DEF RestoredObjects, B
  <2>2. ToBody => pc' = BodyAt(b)
    BY DEF ToBody, First
  <2>3. ToElse => \/ branch[b].else_at > 0 /\ pc' = branch[b].else_at
                  \/ ~(branch[b].else_at > 0) /\ pc' = m
    BY DEF ToElse, HasElse, B
  <2>4. B.merge_at = m
    BY DEF B
  <2> HIDE DEF m, b
  <2>5. QED
    BY <2>1, <2>2, <2>3, <2>4 DEF Cond, b
<1>3. /\ X \subseteq alive /\ Here = code[pc] /\ Compiled /\ Running /\ parse = "done"
      /\ pc \in 1 .. Len(code) /\ Len(code) \in Nat
  BY ReadyFacts
<1>4. b \in 1 .. Len(branch) /\ pc = branch[b].start + 1 /\ HasCond(b)
  BY <1>1, <1>3, HereFacts
<1>5. /\ PlaceInv(code, branch, locals_table, Dead, b) /\ BodyOf(branch[b]) = BodyAt(b)
      /\ m > 0
  BY <1>4, ReadyFacts
<1>6. /\ branch[b].else_at \in Nat /\ m \in Nat /\ BodyAt(b) = branch[b].start + 2
      /\ BodyAt(b) <= m /\ (branch[b].else_at > 0 => BodyAt(b) <= branch[b].else_at)
      /\ branch[b].start \in Nat
  BY <1>3, <1>4, Layout
<1>7. X = A
  <2>1. Finds(code, locals_table, Dead, pc, A)
    BY <1>4, <1>5 DEF PlaceInv, HasCond
  <2>2. pc <= Len(code)
    BY <1>3
  <2>3. QED
    BY <1>3, <2>1, <2>2, Found
<1>8. branch[b].kind \in Loops /\ ~NoLoops
  BY <1>4, LoopsFound DEF HasCond, Loops
<1>9. pc' # branch[b].start + 1 /\ Leads(pc')
  <2>1. pc' # branch[b].start + 1
    BY <1>2, <1>6
  <2>2. Leads(pc')
    BY <1>1, <1>2 DEF Leads
  <2>3. QED
    BY <2>1, <2>2
<1>10. CondReady
  BY <1>1, <1>3, <1>9, NoCond
<1>11. CASE pc' <= Len(code) \/ ~(mustsave[b] = 0 /\ pc' = m /\ NoDestruction)
  <2> SUFFICES \E S : Lands(S)
    BY <1>1, <1>10, AliveStep
  <2>1. CASE pc' = BodyAt(b) /\ (NoDestruction \/ \E V : V \subseteq branch[b].vars /\ Destroy(V, {}))
    <3>1. Finds(code, locals_table, Dead, pc', A) /\ branch[b].vars \cap A = {}
      BY <1>5, <2>1 DEF PlaceInv
    <3>2. A \subseteq alive'
      BY <1>3, <1>7, <2>1, <3>1 DEF NoDestruction, objVars, Destroy
    <3>3. Lands(A)
      BY <1>8, <3>1, <3>2 DEF Lands
    <3>4. QED
      BY <3>3
  <2>2. CASE branch[b].else_at > 0 /\ pc' = branch[b].else_at /\ NoDestruction
    <3>1. Finds(code, locals_table, Dead, pc', A)
      BY <1>5, <2>2 DEF PlaceInv
    <3>2. Lands(A)
      BY <1>3, <1>7, <1>8, <2>2, <3>1 DEF Lands, NoDestruction, objVars
    <3>3. QED
      BY <3>2
  <2>3. CASE ~(branch[b].else_at > 0) /\ pc' = m /\ NoDestruction
    <3>1. branch[b].else_at = 0 /\ branch[b].kind # "repeat"
      BY <1>4, <1>6, <2>3 DEF HasCond
    <3>2. Finds(code, locals_table, Dead, pc', A)
      BY <1>5, <2>3, <3>1 DEF PlaceInv
    <3>3. Lands(A)
      BY <1>3, <1>7, <1>8, <2>3, <3>2 DEF Lands, NoDestruction, objVars
    <3>4. QED
      BY <3>3
  <2>4. CASE mustsave[b] = 0 /\ pc' = m /\ NoDestruction
    <3>1. m <= Len(code) => code[m].scope \subseteq alive
      BY <1>1, <1>3, <2>4 DEF Ready, AliveInv, B
    <3>2. m <= Len(code)
      BY <1>11, <2>4
    <3>3. Finds(code, locals_table, Dead, m, code[m].scope)
      BY <1>3, <1>5, <1>6, <3>2 DEF Finds
    <3>4. Lands(code[m].scope)
      BY <1>8, <2>4, <3>1, <3>2, <3>3 DEF Lands, NoDestruction, objVars
    <3>5. QED
      BY <3>4
  <2>5. QED
    BY <1>2, <2>1, <2>2, <2>3, <2>4
<1>12. CASE ~(pc' <= Len(code)) /\ mustsave[b] = 0 /\ pc' = m /\ NoDestruction
  <2>1. parse' = "done" /\ code' = code /\ branch' = branch
    BY <1>1, <1>3 DEF parseVars
  <2>2. ~Running'
    BY <1>3, <1>12, <2>1 DEF Running
  <2>3. ~NoLoops'
    BY <1>8, <2>1 DEF NoLoops
  <2>4. QED
    BY <2>1, <2>2, <2>3 DEF AliveInv
<1>13. QED
  BY <1>11, <1>12

\* A return destroys all there is.
LEMMA ReturnAlive ==
  ASSUME Ready, HandleReturn
  PROVE  AliveInv'
<1> DEFINE S == Pieces(Here.objs)
           X == Here.scope
<1>1. /\ Here.op = "return" /\ UNCHANGED parseVars /\ pc' = 0 /\ alive' = {}
      /\ twice' = twice \cup (S \ alive) /\ lost' = lost \cup (alive \ S)
  BY DEF HandleReturn, At, Here, Pieces
<1>2. /\ NoLoops => alive = X /\ twice = {} /\ lost = {}
      /\ InstructionInv(code, branch, locals_table, Dead, pc) /\ Here = code[pc]
      /\ parse = "done"
  BY ReadyFacts
<1>3. S = X
  BY <1>1, <1>2 DEF InstructionInv
<1>4. parse' = "done" /\ branch' = branch /\ ~Running' /\ (NoLoops' <=> NoLoops)
  BY <1>1, <1>2 DEF parseVars, Running, NoLoops
<1> HIDE DEF S, X
<1>5. NoLoops => twice' = {} /\ lost' = {}
  BY <1>1, <1>2, <1>3
<1>6. QED
  BY <1>4, <1>5 DEF AliveInv

\* The run begins without objects.
LEMMA CallAlive ==
  ASSUME ParseInv, StartInv, AliveInv, Call
  PROVE  AliveInv'
<1>1. /\ parse # "done" /\ Parse /\ pc' = (IF parse' = "done" THEN 1 ELSE 0)
      /\ UNCHANGED <<alive, twice, lost>>
      /\ mustsave' = [b \in 1 .. Len(branch') |-> 0]
  BY DEF Call, objVars
<1>2. alive' = {} /\ twice' = {} /\ lost' = {}
  BY <1>1 DEF AliveInv
<1>3. StartInv'
  BY <1>1, ParseStartInv
<1>4. ASSUME Running' PROVE Here'.scope = {} /\ Here'.op # "cond"
  <2>1. parse' = "done" /\ pc' = 1 /\ 1 \in 1 .. Len(code')
    BY <1>1, <1>4 DEF Running
  <2>2. code'[1].scope = {}
    BY <1>3, <2>1 DEF StartInv
  <2>3. CodeInv(code', branch') /\ PlacesInv(code', branch') /\ branch' \in Seq(Branches)
    BY <1>1, ParseKeeps DEF ParseInv, Structured
  <2>4. code'[1].op # "cond"
    <3> SUFFICES ASSUME code'[1].op = "cond" PROVE FALSE
      OBVIOUS
    <3> DEFINE c == code'[1].branch
    <3>1. c \in 1 .. Len(branch') /\ 1 = branch'[c].start + 1
      BY <2>1, <2>3 DEF CodeInv
    <3>2. branch'[c].start >= 1 /\ branch'[c].start \in Nat
      BY <2>3, <3>1, BranchFacts DEF PlacesInv
    <3>3. QED
      BY <3>1, <3>2
  <2>5. QED
    BY <2>1, <2>2, <2>4 DEF Here
<1>5. Running' => (Here.scope \subseteq alive)' /\ (NoLoops => alive = Here.scope)' /\ (Here.op # "cond")'
  BY <1>2, <1>4
<1>6. parse' # "done" => pc' = 0
  BY <1>1
<1>7. QED
  BY <1>2, <1>5, <1>6 DEF AliveInv

\* What the proofs of the scopes and the objects need.
ObjectInv == BranchInv /\ ScopeInv /\ StartInv /\ AliveInv

\* It holds at the start and is kept by every step.
LEMMA ObjectInit == Init => ObjectInv
<1> SUFFICES ASSUME Init PROVE ObjectInv
  OBVIOUS
<1>1. /\ ParseInit /\ parse = "body" /\ pc = 0 /\ alive = {} /\ twice = {} /\ lost = {}
  BY DEF Init, ParseInit
<1>2. AliveInv
  BY <1>1 DEF AliveInv, Running
<1>3. StartInv
  <2>1. Len(code) = 0 /\ locals_table = <<NoVars>> /\ ended = FALSE
    BY <1>1 DEF ParseInit
  <2>2. Storage(NoVars) = {}
    BY NoVarsFacts DEF Storage
  <2>3. Len(locals_table) = 1 /\ locals_table[1] = NoVars
    BY <2>1
  <2>4. InScope(locals_table) = {}
    BY <2>2, <2>3 DEF InScope
  <2>5. QED
    BY <2>1, <2>4 DEF StartInv
<1>4. QED
  BY <1>1, <1>2, <1>3, BranchInit, ScopesStart DEF ObjectInv

\* Every step, of the parser and of the running code, keeps ObjectInv.
LEMMA ObjectNext ==
  ASSUME ObjectInv, [Next]_vars
  PROVE  ObjectInv'
<1>1. BranchInv /\ ParseInv /\ ScopeInv /\ StartInv /\ AliveInv
  BY DEF ObjectInv, BranchInv
<1>2. BranchInv'
  BY <1>1, BranchNext
<1>3. ASSUME UNCHANGED parseVars PROVE ScopeInv' /\ StartInv'
  <2>1. UNCHANGED <<parse, open, locals_table, slots, branch, code, ended>>
    BY <1>3 DEF parseVars
  <2>2. ScopeInv'
    <3>1. Dead' = Dead /\ Depth' = Depth /\ Top' = Top
      BY <2>1 DEF Dead, Depth, Top
    <3>2. QED
      BY <1>1, <2>1, <3>1 DEF ScopeInv
  <2>3. QED
    BY <1>1, <2>1, <2>2 DEF StartInv
<1>4. CASE UNCHANGED vars
  <2>1. UNCHANGED <<parseVars, pc, alive, twice, lost, mustsave>>
    BY <1>4 DEF vars, objVars, loopVars
  <2>2. UNCHANGED <<parse, code, branch>>
    BY <2>1 DEF parseVars
  <2>3. AliveInv'
    BY <1>1, <2>1, <2>2 DEF AliveInv, Running, Here, B, NoLoops
  <2>4. QED
    BY <1>2, <1>3, <2>1, <2>3 DEF ObjectInv
<1>5. CASE Call
  <2>1. Parse
    BY <1>5 DEF Call
  <2>2. QED
    BY <1>1, <1>2, <1>5, <2>1, ParseScopes, ParseStartInv, CallAlive DEF ObjectInv
<1>6. CASE ~Call /\ Next
  <2>1. Running /\ UNCHANGED parseVars
    BY <1>6 DEF Next, RunDecl, EnterIf, EnterRepeat, EnterWhile, Entering, Cond, RunBrk, EndIf,
                EndWhile, EndRepeat, EndFor, EndForElse, HandleReturn, At
  <2>2. parse = "done"
    BY <2>1 DEF Running
  <2>3. Stepping
    BY <1>1, <2>1, <2>2, DoneCompiled DEF Stepping, BranchInv
  <2>4. CASE Single(code)
    <3>1. FlowInv(code, branch, locals_table, Dead)
      BY <1>1, <2>4 DEF ScopeInv, ScopeFacts
    <3>2. Ready
      BY <1>1, <2>3, <2>4, <3>1 DEF Ready
    <3>3. AliveInv'
      BY <1>6, <3>2, DeclAlive, BrkAlive, EndIfAlive, EndRepeatAlive, EndForAlive, EndWhileAlive,
         EnterAlive, CondAlive, ReturnAlive DEF Next
    <3>4. QED
      BY <1>2, <1>3, <2>1, <3>3 DEF ObjectInv
  <2>5. CASE ~Single(code)
    <3>1. parse' = "done" /\ ~Single(code)'
      BY <2>1, <2>2, <2>5 DEF parseVars
    <3>2. AliveInv'
      BY <3>1 DEF AliveInv
    <3>3. QED
      BY <1>2, <1>3, <2>1, <3>2 DEF ObjectInv
  <2>6. QED
    BY <2>4, <2>5
<1>7. QED
  BY <1>4, <1>5, <1>6

\* ObjectInv holds in every behaviour.
LEMMA ObjectInvHolds == Spec => []ObjectInv
<1>1. Init => ObjectInv
  BY ObjectInit
<1>2. ObjectInv /\ [Next]_vars => ObjectInv'
  BY ObjectNext
<1>3. QED
  BY <1>1, <1>2, PTL DEF Spec

\* Definite assignment, in every function whose brk all leave one statement:
\* whatever branches, loops, early exits and merges lead to an instruction, what the
\* parser takes as declared there holds an object (locals_table and brk_part of
\* ParseIfExpr, ParseElse and ParseBrk).
THEOREM ScopesAlive == Spec => []InScopeAlive
<1>1. ObjectInv => InScopeAlive
  BY DEF ObjectInv, AliveInv, InScopeAlive, SingleBreaks, Single
<1>2. QED
  BY <1>1, ObjectInvHolds, PTL

\* In every function without loops whose brk all leave one statement each way out of
\* a branch destroys exactly what goes out of scope there: nothing twice, nothing
\* that was never constructed, and nothing is left behind (InsertDestructors and
\* HandleReturn with the merged_vars of BranchExprAST).
THEOREM ObjectsDestroyedOnce == Spec => []DestroyedOnce
<1>1. ObjectInv => DestroyedOnce
  BY DEF ObjectInv, AliveInv, DestroyedOnce, SingleBreaks, Single
<1>2. QED
  BY <1>1, ObjectInvHolds, PTL
=============================================================================
