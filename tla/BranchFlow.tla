------------------------------ MODULE BranchFlow ------------------------------
(***************************************************************************)
(* The code BranchScope produces, run. Conditions and the lengths of       *)
(* iterations are chosen; an object is a piece of storage that has been    *)
(* constructed and not destroyed since.                                    *)
(* Source: BranchExprAST::codegen_raw and createCondBranch in              *)
(* src/codegen.cc, InsertDestructors and HandleReturn in src/functions.cc. *)
(***************************************************************************)
EXTENDS BranchScope

CONSTANT MaxIter   \* bound: how often a body runs each time its loop is entered

ASSUME IterAssumption == MaxIter \in Nat \ {0}

VARIABLES
  pc,         \* the next instruction; 0 before and after the run
  alive,      \* storage that holds an object
  twice,      \* storage whose destructor was called without an object in it
  lost,       \* storage whose object was overwritten or left behind
  sp,         \* temporaries on the run-time stack
  mustsave,   \* per branch: the value of its mustsavestack phi
  saved,      \* per branch: its saved stack pointer
  entered,    \* per branch: the stack pointer when it was entered
  runs        \* per branch: how often the body ran since

objVars  == <<alive, twice, lost>>
loopVars == <<mustsave, saved, entered, runs>>
vars     == <<parseVars, pc, objVars, sp, loopVars>>

Running == parse = "done" /\ pc \in 1 .. Len(code)
At(op)  == Running /\ code[pc].op = op
Here    == code[pc]
B       == branch[Here.branch]
Slots   == 1 .. slots

\* What leaving a part destroys: its objects but for the merged variables.
DestroyAll(objs, b) == {v[2] : v \in objs}   \* mutant
Unmerged(objs, b) == {v[2] : v \in {w \in objs : w[1] \notin branch[b].merged_vars}}

\* The destructors of the storage in S are called, then those of T.
Destroy(S, T) ==
  /\ alive' = alive \ (S \cup T)
  /\ twice' = twice \cup (S \ alive) \cup (T \ (alive \ S))
  /\ UNCHANGED lost

NoDestruction == UNCHANGED objVars

\* Evaluating the initializer leaves temporaries on the stack.
RunDecl ==
  /\ At("decl")
  /\ LET s == {v[2] : v \in Here.objs} IN
     /\ alive' = alive \cup s
     /\ lost' = lost \cup (s \cap alive)
  /\ sp' = sp + 1
  /\ pc' = pc + 1
  /\ UNCHANGED <<parseVars, twice, loopVars>>

BodyAt(b) == branch[b].start
             + IF branch[b].kind \in {"while", "foreach"} THEN 2 ELSE 1
First     == BodyAt(Here.branch)
ToBody    == pc' = First /\ runs' = [runs EXCEPT ![Here.branch] = @ + 1]
HasElse   == B.else_at > 0
ToElse    == pc' = IF HasElse THEN B.else_at ELSE B.merge_at
SaveStack == saved' = [saved EXCEPT ![Here.branch] = sp]
MayRepeat == runs[Here.branch] < MaxIter

\* Forgets the last time the branch was entered.
Entering ==
  /\ entered' = [entered EXCEPT ![Here.branch] = sp]
  /\ NoDestruction
  /\ UNCHANGED <<parseVars, sp>>

EnterIf ==
  /\ At("enter") /\ B.kind \in {"if", "for"}
  /\ Entering
  /\ \/ /\ pc' = First
        /\ runs' = [runs EXCEPT ![Here.branch] = 1]
        /\ IF B.kind = "for" THEN SaveStack ELSE UNCHANGED saved
     \/ /\ ToElse
        /\ runs' = [runs EXCEPT ![Here.branch] = 0]
        /\ UNCHANGED saved
  /\ UNCHANGED mustsave

EnterRepeat ==
  /\ At("enter") /\ B.kind = "repeat"
  /\ Entering
  /\ pc' = First
  /\ runs' = [runs EXCEPT ![Here.branch] = 1]
  /\ SaveStack
  /\ UNCHANGED mustsave

EnterWhile ==
  /\ At("enter") /\ B.kind \in {"while", "foreach"}
  /\ Entering
  /\ pc' = pc + 1
  /\ mustsave' = [mustsave EXCEPT ![Here.branch] = 2]
  /\ runs' = [runs EXCEPT ![Here.branch] = 0]
  /\ UNCHANGED saved

\* What a loop does before it runs its body again: the objects in its scope are
\* destroyed but for those of an iteration with methods.
RestoredObjects == IF B.kind = "foreach" THEN {} ELSE B.vars
RestoreStack    == sp' = saved[Here.branch]

\* switch (mustsavestack | condition)
Cond ==
  /\ At("cond")
  /\ \/ /\ mustsave[Here.branch] = 2 /\ MayRepeat
        /\ SaveStack /\ ToBody /\ NoDestruction
        /\ UNCHANGED sp
     \/ /\ mustsave[Here.branch] = 0 /\ MayRepeat
        /\ Destroy(RestoredObjects, {}) /\ RestoreStack /\ ToBody
        /\ UNCHANGED saved
     \/ /\ mustsave[Here.branch] = 2
        /\ ToElse /\ NoDestruction
        /\ UNCHANGED <<sp, saved, runs>>
     \/ /\ mustsave[Here.branch] = 0
        /\ pc' = B.merge_at /\ NoDestruction
        /\ UNCHANGED <<sp, saved, runs>>
  /\ UNCHANGED <<parseVars, mustsave, entered>>

RunBrk ==
  /\ At("brk")
  /\ \/ /\ pc' = pc + 1
        /\ NoDestruction
     \/ /\ pc' = B.merge_at
        /\ Destroy(Unmerged(Here.objs, Here.branch), {})
  /\ UNCHANGED <<parseVars, sp, loopVars>>

EndIf ==
  /\ \/ At("endelse") /\ B.kind # "for"
     \/ At("endthen") /\ B.kind = "if"
  /\ Destroy(Unmerged(Here.objs, Here.branch), {})
  /\ pc' = B.merge_at
  /\ UNCHANGED <<parseVars, sp, loopVars>>

\* mutant: the condition is told to save the stack again
EndWhileSavesAgain ==
  /\ At("endthen") /\ B.kind \in {"while", "foreach"}
  /\ Destroy(Unmerged(Here.objs, Here.branch), {})
  /\ pc' = B.start + 1
  /\ UNCHANGED <<parseVars, sp, loopVars>>

EndWhile ==
  /\ At("endthen") /\ B.kind \in {"while", "foreach"}
  /\ Destroy(Unmerged(Here.objs, Here.branch), {})
  /\ pc' = B.start + 1
  /\ mustsave' = [mustsave EXCEPT ![Here.branch] = 0]
  /\ UNCHANGED <<parseVars, sp, saved, entered, runs>>

EndRepeat ==
  /\ At("endthen") /\ B.kind = "repeat"
  /\ \/ /\ Destroy(Unmerged(Here.objs, Here.branch), {})
        /\ pc' = B.merge_at
        /\ UNCHANGED <<sp, runs>>
     \/ /\ MayRepeat
        /\ Destroy(Unmerged(Here.objs, Here.branch), RestoredObjects)
        /\ RestoreStack /\ ToBody
  /\ UNCHANGED <<parseVars, mustsave, saved, entered>>

\* A for loop compares before it steps: it leaves the last body as it is.
EndFor ==
  /\ At("endthen") /\ B.kind = "for"
  /\ \/ /\ pc' = B.merge_at
        /\ NoDestruction
        /\ UNCHANGED <<sp, runs>>
     \/ /\ MayRepeat
        /\ Destroy(Unmerged(Here.objs, Here.branch), RestoredObjects)
        /\ RestoreStack /\ ToBody
  /\ UNCHANGED <<parseVars, mustsave, saved, entered>>

\* Its destructors come with the step to the next value, which the else part
\* does not have.
EndForElse ==
  /\ At("endelse") /\ B.kind = "for"
  /\ pc' = B.merge_at
  /\ NoDestruction
  /\ UNCHANGED <<parseVars, sp, loopVars>>

HandleReturn ==
  /\ At("return")
  /\ LET S == {v[2] : v \in Here.objs} IN
     /\ alive' = {}
     /\ twice' = twice \cup (S \ alive)
     /\ lost' = lost \cup (alive \ S)
  /\ pc' = 0
  /\ sp' = 0
  /\ UNCHANGED <<parseVars, loopVars>>

Call ==
  /\ parse # "done"
  /\ Parse
  /\ pc' = IF parse' = "done" THEN 1 ELSE 0
  /\ mustsave' = [b \in 1 .. Len(branch') |-> 0]
  /\ saved'    = [b \in 1 .. Len(branch') |-> 0]
  /\ entered'  = [b \in 1 .. Len(branch') |-> 0]
  /\ runs'     = [b \in 1 .. Len(branch') |-> 0]
  /\ UNCHANGED <<objVars, sp>>

Init ==
  /\ ParseInit
  /\ pc = 0
  /\ alive = {} /\ twice = {} /\ lost = {}
  /\ sp = 0
  /\ mustsave = <<>> /\ saved = <<>> /\ entered = <<>> /\ runs = <<>>

Next ==
  \/ Call
  \/ RunDecl \/ EnterIf \/ EnterRepeat \/ EnterWhile \/ Cond \/ RunBrk
  \/ EndIf \/ EndWhile \/ EndRepeat \/ EndFor
  \/ EndForElse \/ HandleReturn

Spec == Init /\ [][Next]_vars
-----------------------------------------------------------------------------
\* No brk of the function leaves more than one statement.
SingleBreaks == \A i \in 1 .. Len(code) : code[i].levels <= 1

NoLoops == \A b \in 1 .. Len(branch) : branch[b].kind \notin Loops

(***************************************************************************)
(* On every way out of a branch (its end, brk, return) exactly the variables *)
(* that go out of scope are destroyed: no destructor is called for storage   *)
(* without an object, which an earlier way out destroyed or which was never  *)
(* declared, and no object is left behind that is not declared where the way *)
(* leads to. Said of functions without loops and without `brk brk`.          *)
(***************************************************************************)
DestroyedOnce == SingleBreaks /\ NoLoops => twice = {} /\ lost = {}

(***************************************************************************)
(* No destructor is called twice in loops, either. That does not hold:       *)
(* the bodies of loops end with destructors (codegen.cc:3117, :3075) and     *)
(* call them again where the stack is restored (codegen.cc:4236-4247).       *)
(***************************************************************************)
LoopsDestroyOnce == SingleBreaks => twice = {}

(***************************************************************************)
(* Definite assignment: a variable the parser takes as declared holds an     *)
(* object, whichever branch was taken to get there, if no brk skips several  *)
(* statements. (A nested `brk brk` before a declaration of the outer branch  *)
(* is not counted in the outer branch's brk_part, parser.cc:1274.)           *)
(***************************************************************************)
InScopeAlive == Running /\ SingleBreaks => Here.scope \subseteq alive

(***************************************************************************)
(* Each run of a loop's body starts with the stack of the first: temporaries *)
(* of earlier runs do not pile up, also when loops are nested and when brk   *)
(* leaves inner ones half way.                                               *)
(***************************************************************************)
StackRestored ==
  \A b \in 1 .. Len(branch) :
    Running /\ pc = BodyAt(b) /\ branch[b].kind \in Loops => sp = entered[b]

\* The statements the instruction is in; an elif belongs to its if.
Statements(at) ==
  {b \in 1 .. Len(branch) :
     ~branch[b].elif /\ branch[b].start <= at /\ at < branch[b].merge_at}

(***************************************************************************)
(* A brk repeated n times leaves n statements, where an if with all its      *)
(* elifs is one (parser.cc:34-36), although each elif is a branch of its own *)
(* with a merge point of its own.                                            *)
(***************************************************************************)
BreakLeaves ==
  [][At("brk") /\ pc' # pc + 1 =>
       Cardinality(Statements(pc) \ Statements(pc')) = Here.levels]_vars
=============================================================================
