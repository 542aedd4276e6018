------------------------------- MODULE Loader -------------------------------
(***************************************************************************)
(* How the compiler gets from source files to the body of main: the stack   *)
(* of lexer contexts, the modules an import reads, the symbols it brings    *)
(* along, and the list of top level statements (lexer.cc, main.cc).         *)
(*                                                                         *)
(* A file is a sequence of lines, a line a sequence of statements that were *)
(* separated by ';'. A statement is a record with its kind and what the     *)
(* loader looks at:                                                         *)
(*   [kind |-> "expr"], [kind |-> "wrong"] (parses, but has no code),       *)
(*   [kind |-> "use", prefix, name] (reads prefix.name),                    *)
(*   [kind |-> "bad"] (a syntax error), [kind |-> "return", value],         *)
(*   [kind |-> "global", name, pub], [kind |-> "fn", name, pub, test],      *)
(*   [kind |-> "decl", name], [kind |-> "type", name],                      *)
(*   [kind |-> "method"] (a constructor or destructor of the last type),    *)
(*   [kind |-> "import", dots, path, as, from, star], [kind |-> "load", name]. *)
(* A program names its source files, what is in every file, and the files   *)
(* the glob of an import path finds.                                        *)
(***************************************************************************)
EXTENDS Naturals, Sequences

CONSTANTS
  Builtin,      \* the key of the module of builtin.vx in Modules
  BuiltinFile,  \* and its file
  Paths,        \* the import paths a program can name: sequences of names, << >> is its own
  Programs,     \* what there is to compile
  Stdin,        \* the terminal or pipe, a file of every program
  NoFile,       \* no input file
  NoType        \* no type, the null pointer of last_defined_type

ASSUME LoaderAssumption ==
  /\ << >> \in Paths /\ Builtin \notin Paths
  /\ NoFile \notin {BuiltinFile, Stdin}

VARIABLES
  program,      \* the program that is compiled
  mode,         \* jit_repl, comp_mode == comp_jit and do_test
  ld            \* the state of the loader

loaderVars == <<program, mode, ld>>

Keys == Paths \cup {Builtin}

\* builtin.vx is open when MainLoop() starts; the program's files wait.
LoaderInit(p) == [
  module |-> Builtin, input |-> BuiltinFile, line |-> 0, rest |-> << >>,
  as |-> "", from |-> {}, source_stack |-> << >>, modulestack |-> << >>,
  source_files |-> <<p.sources>>, source_index |-> <<0>>,
  Modules |-> {Builtin}, symbols |-> [k \in Keys |-> {}], ImportedSymbols |-> [k \in Keys |-> {}],
  GlobalExprList |-> << >>, body |-> << >>,
  last_defined_type |-> NoType, finished |-> {},
  typed |-> 0, have_return |-> FALSE, state |-> "reading"]

Lines(f) == program.text[f]

\* What SourceLocState keeps of a lexer that is paused.
Paused(L) == [module |-> L.module, input |-> L.input, line |-> L.line, rest |-> L.rest,
              as |-> L.as, from |-> L.from]

Top(s)  == s[Len(s)]
Pop(s)  == SubSeq(s, 1, Len(s) - 1)
Failed(L) == [L EXCEPT !.state = "error"]

\* An entry of the list of statements: where it stands, the module it is
\* written in, and whether code can be generated for it.
Entry(L, ok) == [file |-> L.input, line |-> L.line, left |-> Len(L.rest), own |-> L.module, ok |-> ok]

(***************************************************************************)
(* Names.                                                                  *)
(***************************************************************************)
Kinds(S, kind, name) == {s \in S : s.kind = kind /\ s.name = name}

Imports(L, prefix, name) ==
  {e \in L.ImportedSymbols[L.module] : e.prefix = prefix /\ e.name = name}

\* A function: of this module, else a builtin, else from an import list. A
\* variable or type: of this module, else from an import list, else a builtin.
Found(L, kind, prefix, name) ==
  LET own      == Kinds(L.symbols[L.module], kind, name)
      builtin  == Kinds(L.symbols[Builtin], kind, name)
      imported == UNION {Kinds(L.symbols[e.mod], kind, name) :
                           e \in {i \in Imports(L, prefix, name) : i.kind = kind}}
  IN  IF prefix /= "" THEN imported
      ELSE IF own /= {} THEN own
      ELSE IF kind = "fn" THEN IF builtin /= {} THEN builtin ELSE imported
      ELSE IF imported /= {} THEN imported ELSE builtin

\* Or a module prefix.
previously_used(L, name, kinds) ==
  \/ \E k \in kinds : Found(L, k, "", name) /= {}
  \/ Imports(L, name, "") /= {}

Declared(L, kind, name, pub) ==
  [L EXCEPT !.symbols[L.module] =
     @ \cup {[kind |-> kind, name |-> name, pub |-> pub]}]

(***************************************************************************)
(* Import: the symbols of a module that was read.                           *)
(***************************************************************************)
\* Functions that are not public are erased from the imported module itself.
Public(S) == {s \in S : s.kind = "fn" => s.pub}

Exported(L, m) ==
  {s \in L.symbols[m] : (s.kind = "type" \/ s.pub) /\ (L.from = {} \/ s.name \in L.from)}

\* A key that is taken stays as it is.
Brought(L, m) ==
  LET prefix == IF L.from = {} THEN L.as ELSE ""
      new    == {[prefix |-> prefix, name |-> s.name, mod |-> m, kind |-> s.kind] : s \in Exported(L, m)}
  IN  {e \in new : Imports(L, prefix, e.name) = {}}

import_from_module(L, m) ==
  LET prefixed == [L EXCEPT !.ImportedSymbols[L.module] =
                     IF L.from = {} THEN @ \cup {[prefix |-> L.as, name |-> "", mod |-> m, kind |-> "prefix"]} ELSE @]
      erased   == [prefixed EXCEPT !.symbols[m] = Public(@)]
  IN  IF L.from = {} /\ previously_used(L, L.as, {"fn", "var", "type"}) THEN L
      ELSE [erased EXCEPT !.ImportedSymbols[L.module] = @ \cup Brought(erased, m)]

(***************************************************************************)
(* The main function.                                                      *)
(***************************************************************************)
\* process_body() generates the statements read so far; in a session there is
\* no main function and the list is empty.
process_body(L) ==
  IF mode.repl THEN L ELSE
  LET new == [i \in 1..Len(L.GlobalExprList) |->
                [of |-> L.GlobalExprList[i], in |-> L.module]]
  IN  IF \E i \in 1..Len(L.GlobalExprList) : ~L.GlobalExprList[i].ok
      THEN Failed(L)
      ELSE [L EXCEPT !.body = @ \o new, !.GlobalExprList = << >>]

(***************************************************************************)
(* Files and contexts.                                                     *)
(***************************************************************************)
pop_state(L) ==
  LET done == process_body(L)
      back == Top(L.source_stack)
  IN  IF done.state = "error" THEN done ELSE
      import_from_module(
        [done EXCEPT !.module = back.module, !.input = back.input, !.line = back.line,
                     !.rest = back.rest, !.as = back.as, !.from = back.from,
                     !.source_stack = Pop(@), !.source_files = Pop(@),
                     !.source_index = Pop(@), !.modulestack = Pop(@)],
        L.module)

\* What was typed is not typed again.
Opened(L, f) ==
  IF f \in DOMAIN program.text THEN [L EXCEPT !.input = f, !.line = IF f = Stdin THEN L.typed ELSE 0, !.rest = << >>]
  ELSE Failed(L)

\* As if the end of the terminal were the end of any other file.
OpenAgain(L) ==
  LET n == Top(L.source_index)
  IN  IF n < Len(Top(L.source_files))
      THEN Opened([L EXCEPT !.source_index[Len(L.source_index)] = n + 1], Top(L.source_files)[n + 1])
      ELSE IF Len(L.source_stack) > 1 THEN pop_state(L)
      ELSE IF mode.repl \/ n = 0 THEN Opened(L, Stdin)
      ELSE [L EXCEPT !.state = "eof"]

\* The next file of the module; else the module is done; else the terminal.
OpenNext(L) ==
  LET n == Top(L.source_index)
  IN  IF n < Len(Top(L.source_files))
      THEN Opened([L EXCEPT !.source_index[Len(L.source_index)] = n + 1], Top(L.source_files)[n + 1])
      ELSE IF Len(L.source_stack) > 1 THEN pop_state(L)
      ELSE IF (mode.repl \/ n = 0) /\ L.input /= Stdin THEN Opened(L, Stdin)
      ELSE [L EXCEPT !.state = "eof"]

\* A new context for a module that was not known.
Pushed(L, path, files) ==
  [L EXCEPT !.source_stack = Append(@, Paused(L)), !.modulestack = Append(@, path),
            !.Modules = @ \cup {path}, !.module = path,
            !.input = NoFile, !.line = 0, !.rest = << >>, !.as = "", !.from = {},
            !.source_files = IF path = << >> THEN @ ELSE Append(@, files),
            !.source_index = IF path = << >> THEN @ ELSE Append(@, 0)]

cyclic(L, path) == \E i \in 1..Len(L.modulestack) : L.modulestack[i] = path

\* As if the statements read so far were left for later.
PushWithoutProcessing(L, path, as, from) ==
  LET this == [L EXCEPT !.as = as, !.from = from]
  IN  IF cyclic(L, path) THEN [L EXCEPT !.rest = << >>]
      ELSE IF path \in L.Modules THEN import_from_module(this, path)
      ELSE OpenNext(Pushed(this, path, program.glob[path]))

push_state(L, path, as, from) ==
  LET done == process_body(L)
      this == [done EXCEPT !.as = as, !.from = from]
  IN  IF done.state = "error" THEN done
      ELSE IF cyclic(L, path) THEN [done EXCEPT !.rest = << >>]
      ELSE IF path \in L.Modules THEN import_from_module(this, path)
      ELSE OpenNext(Pushed(this, path, program.glob[path]))

\* The end of builtin.vx opens the program's own module; a compiled program
\* first sets up its console. Whatever file ends, the type that was defined last
\* is forgotten.
next_input_file(L) ==
  LET fresh   == [L EXCEPT !.last_defined_type = NoType]
      console == [fresh EXCEPT !.GlobalExprList = Append(@, Entry(fresh, TRUE))]
  IN  IF L.input = BuiltinFile
      THEN push_state(IF mode.jit THEN fresh ELSE console, << >>, "", {})
      ELSE OpenNext(fresh)
=============================================================================
