------------------------------ MODULE MainLoop ------------------------------
(***************************************************************************)
(* MainLoop() of main.cc: one action per kind of top level statement and    *)
(* one for the end of a line and of a file. What a statement declares or    *)
(* imports is visible to the next one; statements are collected in          *)
(* GlobalExprList, or run at once in an interactive session.                *)
(***************************************************************************)
EXTENDS Loader, FiniteSets

Reading(kinds) == ld.state = "reading" /\ ld.rest /= << >> /\ Head(ld.rest).kind \in kinds

This    == Head(ld.rest)
Next1   == [ld EXCEPT !.rest = Tail(@)]
purgeLine(L) == [L EXCEPT !.rest = << >>]

\* The last type gets the constructors and the destructor it did not define.
finish_constructors_and_destructor(L) ==
  IF L.last_defined_type = NoType THEN L
  ELSE [L EXCEPT !.finished = @ \cup {<<L.module, L.last_defined_type>>}, !.last_defined_type = NoType]

(***************************************************************************)
(* Statements.                                                             *)
(***************************************************************************)
\* A session generates and runs a statement at once, a program collects it.
\* The statement after a top level return is the last one.
Collect(L, ok) ==
  LET e == Entry(ld, ok)
  IN  IF ~mode.repl
      THEN [L EXCEPT !.GlobalExprList = Append(@, e),
                     !.state = IF L.have_return THEN "returned" ELSE @]
      ELSE IF ok THEN [L EXCEPT !.body = Append(@, [of |-> e, in |-> L.module])]
      ELSE purgeLine(L)

Start == finish_constructors_and_destructor(Next1)

Expression ==
  /\ Reading({"expr", "wrong"})
  /\ ld' = Collect(Start, This.kind = "expr")

Use ==
  /\ Reading({"use"})
  /\ ld' = IF \E k \in {"fn", "var"} : Found(Start, k, This.prefix, This.name) /= {}
           THEN Collect(Start, TRUE)
           ELSE purgeLine(Start)

SyntaxError ==
  /\ Reading({"bad"})
  /\ ld' = purgeLine(Start)

\* Without a value there is no expression, and the line is skipped.
Return ==
  /\ Reading({"return"})
  /\ LET returned == [Start EXCEPT !.have_return = @ \/ ~mode.repl \/ (This.value /\ mode.jit)]
     IN  ld' = IF This.value
               THEN [Collect(returned, TRUE) EXCEPT !.state = IF returned.have_return THEN "returned" ELSE @]
               ELSE purgeLine(returned)

\* A declaration yields no expression, so the rest of the line is skipped. What is
\* a variable already is assigned to.
Global ==
  /\ Reading({"global"})
  /\ ld' = IF Found(Start, "var", "", This.name) /= {} THEN Collect(Start, TRUE)
           ELSE IF previously_used(Start, This.name, {"fn", "type"}) THEN purgeLine(Start)
           ELSE purgeLine([Collect(Declared(Start, "var", This.name, This.pub), TRUE)
                             EXCEPT !.state = "reading"])

\* A test function is called where it stands. (The body of a definition that
\* is refused is read as statements; programs here have none.)
HandleDefinition ==
  /\ Reading({"fn"})
  /\ LET defined == Declared(Start, "fn", This.name, This.pub)
     IN  ld' = IF previously_used(ld, This.name, {"var"}) THEN Next1
               ELSE IF This.test /\ mode.test THEN [Collect(defined, TRUE) EXCEPT !.state = "reading"]
               ELSE defined

HandleMethod ==
  /\ Reading({"method"})
  /\ ld' = Next1

HandleExtern ==
  /\ Reading({"decl"})
  /\ ld' = IF previously_used(ld, This.name, {"var"}) THEN purgeLine(Next1)
           ELSE Declared(Next1, "fn", This.name, TRUE)

HandleTypeDef ==
  /\ Reading({"type"})
  /\ ld' = IF \/ previously_used(Start, This.name, {"fn", "var"})
              \/ Kinds(Start.symbols[Start.module], "type", This.name) /= {}
           THEN purgeLine(Start)
           ELSE [Declared(Start, "type", This.name, TRUE) EXCEPT !.last_defined_type = This.name]

(***************************************************************************)
(* Import.                                                                 *)
(***************************************************************************)
\* Leading dots: the path of this module, then one level up for each more.
Resolves(s) == s.dots <= 1 \/ Len(ld.module) >= s.dots - 1
Resolved(s) ==
  IF s.dots = 0 THEN s.path
  ELSE SubSeq(ld.module, 1, Len(ld.module) + 1 - s.dots) \o s.path

Prefix(s) == IF s.as /= "" THEN s.as ELSE IF s.from /= {} \/ s.star THEN "" ELSE Top(Resolved(s))

\* (Paths holds every path that the imports of the programs name.)
HandleImport ==
  /\ Reading({"import"})
  /\ ld.module /= Builtin
  /\ Resolves(This) => Resolved(This) \in Paths
  /\ ld' = IF ~Resolves(This) THEN purgeLine(Start)
           ELSE push_state(Start, Resolved(This), Prefix(This), This.from)

(***************************************************************************)
(* load() takes effect while a statement of a session runs: it drops the    *)
(* line and opens the file next, if all files have been opened already. A   *)
(* program that calls it runs when nothing is read anymore.                 *)
(***************************************************************************)
Load ==
  /\ Reading({"load"})
  /\ LET ran == Collect(Start, TRUE)
     IN  ld' = IF ~ (mode.repl /\ mode.jit) \/ Top(ld.source_index) /= Len(Top(ld.source_files)) THEN ran
               ELSE OpenNext([ran EXCEPT !.last_defined_type = NoType,
                                         !.source_files[Len(ld.source_files)] = Append(@, This.name)])

(***************************************************************************)
(* Lines and files. Where a module ends, the line of its import is not      *)
(* looked at again: the next line of the file is read over it.              *)
(***************************************************************************)
NextLine ==
  /\ ld.state = "reading" /\ ld.rest = << >> /\ ld.line < Len(Lines(ld.input))
  /\ ld' = [ld EXCEPT !.line = @ + 1, !.rest = Lines(ld.input)[ld.line + 1],
                      !.typed = IF ld.input = Stdin THEN @ + 1 ELSE @]

fdgetline ==
  /\ ld.state = "reading" /\ ld.rest = << >> /\ ld.line = Len(Lines(ld.input))
  /\ ld' = purgeLine(next_input_file(ld))

\* At the end of the input, or of the first statement after a return, main
\* gets its return value and the rest of its body.
FinishMain ==
  /\ ld.state \in {"eof", "returned"}
  /\ ld' = LET value == IF mode.test \/ ~ld.have_return
                        THEN [ld EXCEPT !.GlobalExprList = Append(@, Entry(ld, TRUE))] ELSE ld
               done  == process_body(value)
           IN  IF mode.repl THEN [ld EXCEPT !.state = "done"]
               ELSE IF value.GlobalExprList = << >> \/ done.state = "error" THEN Failed(ld)
               ELSE [done EXCEPT !.state = "done"]

Statement ==
  \/ Expression \/ Use \/ SyntaxError \/ Return \/ Global
  \/ HandleDefinition \/ HandleMethod \/ HandleExtern \/ HandleTypeDef
  \/ HandleImport \/ Load

LoadStep == (Statement \/ NextLine \/ fdgetline \/ FinishMain) /\ UNCHANGED <<program, mode>>
LoadInit ==
  /\ program \in Programs
  /\ mode \in [repl : BOOLEAN, jit : BOOLEAN, test : BOOLEAN]
  /\ ld = LoaderInit(program)

LoadSpec == LoadInit /\ [][LoadStep]_loaderVars /\ WF_loaderVars(LoadStep)
=============================================================================
