------------------------------ MODULE Compiler ------------------------------
(***************************************************************************)
(* The compiler from its command line to its exit code: main() of main.cc   *)
(* reads the options and decides (Driver), reads the program (MainLoop),    *)
(* and writes, links, strips and runs the result (Driver).                  *)
(***************************************************************************)
EXTENDS MainLoop, Driver

CONSTANT Cases   \* invocations: the options and files to choose from, a program

ASSUME CasesAssumption ==
  \A c \in Cases : c.options \subseteq Options /\ c.args \in Seq(FileNames)

vars == <<driverVars, loaderVars>>

Init ==
  /\ DriverInit
  /\ \E c \in Cases : choice = [options |-> c.options, args |-> c.args] /\ program = c.program
  /\ mode = [repl |-> FALSE, jit |-> FALSE, test |-> FALSE]
  /\ ld = LoaderInit(program)

\* The program's own files wait behind builtin.vx. -V ends here.
Setup ==
  /\ phase = "setup"
  /\ IF opts.show_version THEN Exit("version") /\ UNCHANGED loaderVars
     ELSE /\ phase' = "compile" /\ UNCHANGED status
          /\ program' = [program EXCEPT !.sources = opts.sources]
          /\ mode' = [repl |-> opts.jit_repl, jit |-> opts.comp_mode = "jit", test |-> opts.do_test]
          /\ ld' = LoaderInit(program')
  /\ UNCHANGED <<opts, given, choice, disk, made>>

Compile == phase = "compile" /\ LoadStep /\ UNCHANGED driverVars

\* With a JIT the program has run, or runs now, and its value is the exit code.
Compiled ==
  /\ phase = "compile"
  /\ \/ ld.state = "error" /\ Exit("1")
     \/ ld.state = "done" /\ opts.comp_mode = "jit" /\ \E code \in {"0", "1"} : Exit(code)
     \/ ld.state = "done" /\ opts.comp_mode /= "jit" /\ phase' = "write" /\ UNCHANGED status
  /\ UNCHANGED <<opts, given, choice, disk, made, loaderVars>>

DriverStep ==
  /\ ReadOption \/ ReadArgument \/ Decide \/ NameOutput \/ Write \/ Link \/ Strip \/ RunProgram
  /\ UNCHANGED loaderVars

Next == DriverStep \/ Setup \/ Compile \/ Compiled

\* Reading options is the user's choice, all that follows the program's own.
Fairness ==
  /\ WF_vars((ReadArgument \/ Decide) /\ UNCHANGED loaderVars)
  /\ WF_vars(phase /= "options" /\ Next)

Spec == Init /\ [][Next]_vars /\ Fairness

(***************************************************************************)
(* Properties of the driver.                                               *)
(***************************************************************************)
Given(letters) == \E x \in given : x.opt \in letters

\* What is made, and whether it is linked, depends on which options were given
\* and not on their order (main.cc:1752-1804, 2028-2128): every case of the
\* option loop sees what the earlier ones did, and -emit-llvm and the name of
\* the output overrule them afterwards.
OrderDoesNotMatter ==
  phase \in {"setup", "compile", "write", "link", "strip", "run"} =>
    /\ opts.comp_mode = IF Given({"g"}) THEN "dbg"
                        ELSE IF Given({"emit-llvm", "c"}) THEN "obj"
                        ELSE IF Given({"j", "J"}) \/ opts.sources = << >> THEN "jit" ELSE "obj"
    /\ (opts.link_mode = "do") <=> ~ \/ opts.comp_mode = "jit" \/ Given({"c", "emit-llvm"})
                                     \/ \E x \in given : x.opt \in {"o", "i"} /\ is_obj(x.arg)
    /\ (opts.exe_file = NoName) <=> (opts.link_mode = "dont")
    /\ ~ (Given({"g"}) /\ Given({"j", "J", "d"})) /\ ~ (Given({"c"}) /\ Given({"j", "J", "r"}))

\* Exit code 0 means that everything asked for has happened (main.cc:2514-2802):
\* the object is there, the program was linked, stripped and run. A step that
\* fails keeps the later ones from being tried and is reported.
SuccessMeansDone ==
  status = "0" /\ opts.comp_mode /= "jit" =>
    /\ OnDisk(opts.output_file) /\ ~ Is(opts.output_file, "damaged")
    /\ opts.link_mode = "do" => Is(opts.exe_file, IF Given({"strip"}) THEN "stripped" ELSE "program")
    /\ Given({"r"}) => "run" \in made

\* No source file is overwritten, unless the user names it as the output
\* (main.cc:2129-2240: the names of the object and of the program are made from
\* the name of the source).
SourcesKept ==
  \A f \in GivenFiles :
    f.is = "source" /\ ~ (\E x \in given : x.opt \in {"o", "i"} /\ f.name \in {x.arg, Plus(x.arg, "o")})
      => f \in disk

\* The files are as asked for: what exit code 0 says is there, and nothing that was
\* there is lost.
FilesAsAsked == SuccessMeansDone /\ SourcesKept

\* "strip option invalid when no linking is done" (main.cc:2098): strip is called
\* only after a program was linked.
StripOnlyLinked == phase = "strip" /\ opts.strip_mode = "do" => "link" \in made

(***************************************************************************)
(* Properties of the loader.                                               *)
(***************************************************************************)
\* Code is generated for a statement in the context of the module it is written
\* in (lexer.cc:186-258, 457-494: every change of the module processes the
\* statements read so far). In another module its names would mean something
\* else, or nothing.
GeneratedInOwnModule == \A i \in 1..Len(ld.body) : ld.body[i].of.own = ld.body[i].in

\* What an import brings is complete and public (lexer.cc:343-455): the module
\* has been read to its end, cyclic imports notwithstanding, and has the symbol,
\* which is public or a type.
ImportsPublic ==
  \A k \in Keys : \A e \in ld.ImportedSymbols[k] :
    e.kind /= "prefix" =>
      /\ \A i \in 1..Len(ld.modulestack) : ld.modulestack[i] /= e.mod
      /\ Kinds(ld.symbols[e.mod], e.kind, e.name) /= {}
      /\ \A s \in Kinds(ld.symbols[e.mod], e.kind, e.name) : s.kind = "type" \/ s.pub

\* Modules touch each other only through what they import.
ModulesKeptApart == GeneratedInOwnModule /\ ImportsPublic

\* "the type may need a destructor/default constructor ... In this case a
\* destructor/default constructor is created automatically" (functions.cc:868):
\* a type another module can use has them.
TypesFinished ==
  \A k \in Keys : \A e \in ld.ImportedSymbols[k] :
    e.kind = "type" => <<e.mod, e.name>> \in ld.finished

\* Whatever is imported from where, the compiler comes to an end: a module is
\* read once, a cyclic import is refused, every file ends, and the input a
\* session types is finite (main.cc:1195-1372, lexer.cc:495-560).
Ends == <>(phase = "exit")
=============================================================================
