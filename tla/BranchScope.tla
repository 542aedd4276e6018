----------------------------- MODULE BranchScope -----------------------------
(***************************************************************************)
(* How the compiler turns the branches of a function body into code: the   *)
(* scopes of the variables, the storage they get, the objects each way out *)
(* of a branch destroys and the branch a multi level `brk` leaves.         *)
(* Source: src/parser.cc, src/codegen.cc, src/functions.cc.                *)
(*                                                                         *)
(* The source text is chosen token by token. Only declarations of objects  *)
(* with a destructor (`x = A{...}`) are told apart from other statements.  *)
(* The code is a sequence of instructions; branch[b] holds what the code   *)
(* generator knows of branch b when its code is emitted, after the parser  *)
(* has seen the whole function. Which of an instruction's objs it really   *)
(* destroys is decided with branch[..].merged_vars when it runs.           *)
(***************************************************************************)
EXTENDS Naturals, Sequences, FiniteSets

CONSTANTS
  Names,     \* names of variables
  Families   \* the families of functions to look at: records of the kinds of
             \* branches (kinds), whether `elif` (elif) and `return` (return)
             \* are used, the names of the variables (names), and two bounds,
             \* how often `brk` is repeated in one statement (brk) and the
             \* declarations, branches, brk, else and return of the body
             \* (tokens)

\* "for" runs over a range, array or vec, "foreach" over a map or set.
Loops == {"while", "repeat", "for", "foreach"}
Kinds == {"if"} \cup Loops

ASSUME FamiliesAssumption ==
  Families \subseteq [kinds : SUBSET Kinds, elif : BOOLEAN, return : BOOLEAN,
                      names : SUBSET Names, brk : Nat, tokens : Nat]

VARIABLES
  family,       \* the family of the function
  parse,        \* "body", "close" (the `end` of an elif closes its parents
                \* too) or "done"
  tokens,       \* how many tokens may still come
  open,         \* the branches the parser is in, outermost first
  locals_table, \* the scopes: that of the function, then one per open branch
  slots,        \* pieces of storage allocated in the entry block
  branch,       \* all branches of the function, in order of their start
  code,         \* the instructions
  ended         \* the body of the function has returned in all branches

parseVars == <<family, parse, tokens, open, locals_table, slots, branch, code, ended>>

NoVars == [n \in {} |-> 0]

Depth == Len(open)
Top   == open[Depth]

\* A scope maps the names declared in it to their storage and to the part of
\* the branch (parts are separated by brk) they are declared in.
Variables(table) == {<<n, table[n].slot>> : n \in DOMAIN table}
Storage(table)   == {table[n].slot : n \in DOMAIN table}

Visible == UNION {DOMAIN locals_table[i] : i \in 1 .. Len(locals_table)}
InScope(tables) == UNION {Storage(tables[i]) : i \in 1 .. Len(tables)}

\* The variables of the b innermost scopes.
get_destruct_vars(b) ==
  UNION {Variables(locals_table[i]) :
           i \in Len(locals_table) - b + 1 .. Len(locals_table)}

\* The variables of the first part of the innermost branch whose second part
\* is being compiled.
IfWhileVarTable ==
  LET E == {i \in 1 .. Depth : open[i].part = "else"} IN
  IF E = {} THEN NoVars
  ELSE open[CHOOSE i \in E : \A j \in E : j <= i].then_vars

\* Storage is allocated once for a variable declared in both parts.
StorageOf(n) ==
  IF n \in DOMAIN IfWhileVarTable THEN IfWhileVarTable[n].slot ELSE slots + 1

Instruction(op, b, objs, levels, tables) ==
  [op |-> op, branch |-> b, objs |-> objs, levels |-> levels,
   scope |-> InScope(tables)]

\* The code at the start of a branch: only a while loop and an iteration with
\* methods have a block for the condition that the body jumps back to.
HeadOf(kind, b, tables) ==
  <<Instruction("enter", b, {}, 0, tables)>>
    \o (IF kind \in {"while", "foreach"}
        THEN <<Instruction("cond", b, {}, 0, tables)>> ELSE <<>>)

NewBranch(kind, elif, start) ==
  [kind |-> kind, elif |-> elif, start |-> start, else_at |-> 0, merge_at |-> 0,
   vars |-> {}, merged_vars |-> {}, has_merge |-> TRUE]

OpenRecord(kind, elif) ==
  [branch |-> Len(branch) + 1, kind |-> kind, elif |-> elif, part |-> "then",
   brk_part |-> 0, max_brk_level |-> 0, returned |-> FALSE,
   then_vars |-> NoVars, then_returned |-> FALSE, then_brks |-> 0]

\* Code is only parsed where no `return` precedes it in the same part.
Parsing ==
  /\ parse = "body"
  /\ ~ended
  /\ Depth > 0 => ~Top.returned

UseToken == tokens > 0 /\ tokens' = tokens - 1

Declare(n) ==
  /\ Parsing /\ UseToken
  /\ n \notin Visible
  /\ LET s == StorageOf(n)
         v == [slot |-> s, part |-> IF Depth = 0 THEN 0 ELSE Top.brk_part]
     IN /\ locals_table' = [locals_table EXCEPT ![Depth + 1] =
                              [m \in DOMAIN @ \cup {n} |->
                                 IF m = n THEN v ELSE @[m]]]
        /\ code' = Append(code, Instruction("decl", 0, {<<n, s>>}, 0, locals_table))
        /\ slots' = IF s > slots THEN s ELSE slots
  /\ UNCHANGED <<parse, open, branch, ended>>

OpenBranch(kind) ==
  /\ Parsing /\ UseToken
  /\ open' = Append(open, OpenRecord(kind, FALSE))
  /\ locals_table' = Append(locals_table, NoVars)
  /\ branch' = Append(branch, NewBranch(kind, FALSE, Len(code) + 1))
  /\ code' = code \o HeadOf(kind, Len(branch) + 1, locals_table)
  /\ UNCHANGED <<parse, slots, ended>>

\* How many branches a brk repeated `levels` times leaves: an elif adds none to
\* what is written, but it is a branch inside the else part of its parent.
syntax_nesting(i) == IF open[i].elif THEN 0 ELSE 1

RawDepth(levels) == levels   \* mutant: every elif counts
BrkDepth(levels) ==
  CHOOSE d \in 1 .. Depth :
    /\ syntax_nesting(Depth - d + 1) = 1
    /\ Cardinality({i \in Depth - d + 1 .. Depth : syntax_nesting(i) = 1}) = levels

Brk(levels) ==
  /\ Parsing /\ UseToken
  /\ levels <= Cardinality({i \in 1 .. Depth : syntax_nesting(i) = 1})
  /\ LET d == BrkDepth(levels) IN
     /\ code' = Append(code, Instruction("brk", open[Depth - d + 1].branch,
                                         get_destruct_vars(d), levels, locals_table))
     /\ open' = [open EXCEPT ![Depth].brk_part = @ + 1,
                             ![Depth].max_brk_level = IF @ < d THEN d ELSE @]
  /\ UNCHANGED <<parse, locals_table, slots, branch, ended>>

\* The parts that may end with a return: neither the body of a loop, which the
\* condition jumps back to, nor any part of a for loop.
MayReturn(o) == o.kind = "if" \/ (o.kind = "while" /\ o.part = "else")

Return ==
  /\ Parsing /\ UseToken
  /\ family.return
  /\ Depth > 0 /\ MayReturn(Top)
  /\ code' = Append(code, Instruction("return", 0,
                      get_destruct_vars(Len(locals_table)), 0, locals_table))
  /\ open' = [open EXCEPT ![Depth].returned = TRUE]
  /\ UNCHANGED <<parse, locals_table, slots, branch, ended>>

\* The end of a part is only reached if it has not returned.
EndOfPart ==
  IF Top.returned THEN code
  ELSE Append(code, Instruction(IF Top.part = "then" THEN "endthen" ELSE "endelse",
                                Top.branch, get_destruct_vars(1), 0, locals_table))

ElsePart == [Top EXCEPT !.part = "else", !.brk_part = 0, !.returned = FALSE,
                        !.then_vars = locals_table[Depth + 1],
                        !.then_returned = Top.returned,
                        !.then_brks = Top.brk_part]

BeginElse(b) == [b EXCEPT !.else_at = Len(EndOfPart) + 1,
                          !.vars = Storage(locals_table[Depth + 1])]

Else ==
  /\ parse = "body" /\ Depth > 0 /\ UseToken
  /\ Top.part = "then" /\ Top.kind # "repeat"
  /\ open' = [open EXCEPT ![Depth] = ElsePart]
  /\ locals_table' = [locals_table EXCEPT ![Depth + 1] = NoVars]
  /\ branch' = [branch EXCEPT ![Top.branch] = BeginElse(@)]
  /\ code' = EndOfPart
  /\ UNCHANGED <<parse, slots, ended>>

\* An else part that consists of an `if`.
Elif ==
  /\ family.elif
  /\ parse = "body" /\ Depth > 0 /\ UseToken
  /\ Top.part = "then" /\ Top.kind # "repeat"
  /\ open' = Append([open EXCEPT ![Depth] = ElsePart], OpenRecord("if", TRUE))
  /\ locals_table' = Append([locals_table EXCEPT ![Depth + 1] = NoVars], NoVars)
  /\ branch' = Append([branch EXCEPT ![Top.branch] = BeginElse(@)],
                      NewBranch("if", TRUE, Len(EndOfPart) + 1))
  /\ code' = EndOfPart
             \o HeadOf("if", Len(branch) + 1, SubSeq(locals_table, 1, Depth))
  /\ UNCHANGED <<parse, slots, ended>>

\* mutant: variables declared after a brk are merged, too
MergedDespiteBrk ==
  LET first == DOMAIN locals_table[Depth + 1]
  IN CASE Top.kind = "repeat" -> first
       [] Top.kind # "repeat" /\ Top.part = "else" ->
            first \cap DOMAIN Top.then_vars
       [] OTHER -> {}

\* What a closed branch leaves to the enclosing scope: the variables declared
\* before the first brk in both parts, in the body of a repeat loop.
MergedVars ==
  LET table == locals_table[Depth + 1]
      first == {n \in DOMAIN table : table[n].part = 0}
  IN CASE Top.kind = "repeat" -> first
       [] Top.kind # "repeat" /\ Top.part = "else" ->
            {n \in first \cap DOMAIN Top.then_vars : Top.then_vars[n].part = 0}
       [] OTHER -> {}

BothReturn    == Top.part = "else" /\ Top.then_returned /\ Top.returned
always_return == BothReturn /\ Top.then_brks = 0 /\ Top.brk_part = 0

\* Whether the enclosing part is taken as returned as well.
PartReturned == IF Top.elif THEN always_return
                ELSE BothReturn /\ Top.max_brk_level = 0

\* The names in the tables the code generator merges.
Common ==
  LET names == DOMAIN locals_table[Depth + 1]
  IN CASE Top.kind = "repeat" -> names
       [] Top.kind # "repeat" /\ Top.part = "else" ->
            names \cap DOMAIN Top.then_vars
       [] OTHER -> {}

\* Both parts jump to the merge point, at their end or with their first brk.
BothGoOn == /\ Top.then_returned => Top.then_brks > 0
            /\ Top.returned => Top.brk_part > 0

\* Only functions that get code: the code generator aborts on a common name the
\* parser has not merged, and gives a merged variable no storage if a part only
\* returns.
CanClose ==
  /\ \/ always_return
     \/ BothGoOn /\ Common = MergedVars
     \/ ~BothGoOn /\ MergedVars = {}
  /\ PartReturned /\ Depth > 1 => MayReturn(open[Depth - 1])

\* Levels a brk in a nested branch still has to leave; nothing is handed up
\* from the two kinds of for loop.
LevelsLeft ==
  IF Top.kind \notin {"for", "foreach"} /\ Top.max_brk_level > 0
  THEN Top.max_brk_level - 1 ELSE 0

Handed(o) ==
  [o EXCEPT !.max_brk_level = IF @ < LevelsLeft THEN LevelsLeft ELSE @,
            !.returned = PartReturned]

MergeInto(table) ==
  LET from == IF Top.kind = "repeat" THEN locals_table[Depth + 1] ELSE Top.then_vars
      part == IF Depth = 1 THEN 0 ELSE open[Depth - 1].brk_part
  IN [n \in DOMAIN table \cup MergedVars |->
        IF n \in DOMAIN table THEN table[n]
        ELSE [slot |-> from[n].slot, part |-> part]]

Merge(b) == [b EXCEPT !.merge_at = Len(EndOfPart) + 1,
                      !.vars = IF Top.part = "then"
                               THEN Storage(locals_table[Depth + 1]) ELSE b.vars,
                      !.merged_vars = MergedVars,
                      !.has_merge = ~always_return]

EndBranch ==
  /\ Depth > 0
  /\ CanClose
  /\ open' = IF Depth = 1 THEN <<>>
             ELSE [SubSeq(open, 1, Depth - 1) EXCEPT ![Depth - 1] = Handed(@)]
  /\ locals_table' = [SubSeq(locals_table, 1, Depth) EXCEPT ![Depth] = MergeInto(@)]
  /\ code' = EndOfPart
  /\ branch' = [branch EXCEPT ![Top.branch] = Merge(@)]
  /\ ended' = (Depth = 1 /\ PartReturned)
  /\ parse' = IF Top.elif THEN "close" ELSE "body"
  /\ UNCHANGED <<tokens, slots>>

End    == parse = "body" /\ Depth > 0 /\ Top.kind # "repeat" /\ EndBranch
EndElif == parse = "close" /\ EndBranch
Until  == Parsing /\ Depth > 0 /\ Top.kind = "repeat" /\ EndBranch

EndOfBody ==
  /\ parse = "body" /\ Depth = 0
  /\ code' = IF ended THEN code
             ELSE Append(code, Instruction("return", 0, get_destruct_vars(1), 0,
                                           locals_table))
  /\ parse' = "done"
  /\ UNCHANGED <<tokens, open, locals_table, slots, branch, ended>>

ParseInit ==
  /\ parse = "body"
  /\ family \in Families
  /\ tokens = family.tokens
  /\ open = <<>>
  /\ locals_table = <<NoVars>>
  /\ slots = 0
  /\ branch = <<>>
  /\ code = <<>>
  /\ ended = FALSE

Parse ==
  /\ \/ \E n \in family.names : Declare(n)
     \/ \E kind \in family.kinds : OpenBranch(kind)
     \/ \E levels \in 1 .. family.brk : Brk(levels)
     \/ Return \/ Else \/ Elif \/ End \/ EndElif \/ Until \/ EndOfBody
  /\ UNCHANGED family
=============================================================================
