------------------------------- MODULE Driver -------------------------------
(***************************************************************************)
(* main() of main.cc around the compilation itself: reading the options in  *)
(* the order they are given, deciding what to do, naming the files, and     *)
(* then writing, linking, stripping and running the program.                *)
(*                                                                         *)
(* A file name is a record of the directory it starts at and its parts      *)
(* between dots; an option a record of its letter and its argument.         *)
(***************************************************************************)
EXTENDS Naturals, Sequences, FiniteSets

CONSTANTS
  NoName,       \* a null pointer for a file name
  GivenFiles,   \* what is on the disk before: records of name and what it is
  MaxOptions    \* different options in one invocation

\* What names are made of: any word, with those main() makes itself among them.
Words == STRING \cup {"here", "a", "o", "ll", "out"}

\* A name has at least one part.
FileNames == [dir : Words, parts : Seq(Words) \ {<< >>}]

\* The options main() knows and what it gets for one it does not know ("?").
Options ==
  [opt : {"c", "g", "j", "J", "d", "r", "t", "V", "h", "floored", "c99", "pres", "no-pres",
          "f?", "M", "emit-llvm", "no-lto", "strip", "?"}]
  \cup [opt : {"o", "i"}, arg : FileNames]
  \cup [opt : {"O"}, arg : Seq(STRING) \ {<< >>}]

ASSUME NamesAssumption == NoName \notin FileNames

VARIABLES
  phase,        \* what main() does next
  opts,         \* the variables the options set
  given,        \* the options read so far
  choice,       \* what is left of the command line: options there may be, files
  disk,         \* files: records of name and what it is
  made,         \* the steps of this invocation that succeeded
  status        \* the exit code, "none" while running

driverVars == <<phase, opts, given, choice, disk, made, status>>

Defaults == [
  comp_mode |-> "undef", link_mode |-> "undef", lto_mode |-> "undef", strip_mode |-> "undef",
  dump_IR |-> FALSE, emit_llvm |-> FALSE, show_version |-> FALSE, run_program |-> FALSE,
  do_test |-> FALSE, jit_repl |-> FALSE, jit_extra_thread |-> FALSE, do_pres |-> "undecided",
  idiv_mode |-> "undef", optimization_level |-> "2", codegenopt |-> "2", MainName |-> FALSE,
  output_file |-> NoName, exe_file |-> NoName, sources |-> << >>, extra_libs |-> << >>]

(***************************************************************************)
(* File names.                                                             *)
(***************************************************************************)
Ext(n)    == IF Len(n.parts) > 1 THEN n.parts[Len(n.parts)] ELSE ""
Plus(n, e) == [n EXCEPT !.parts = Append(@, e)]
Stem(n)   == [n EXCEPT !.parts = SubSeq(@, 1, Len(@) - 1)]
is_obj(n) == Ext(n) = "o"
is_llvm_ir(n) == Ext(n) = "ll"
Here(p)   == [dir |-> "here", parts |-> p]

(***************************************************************************)
(* Options. Each sets its variables or ends the program with the usage.     *)
(***************************************************************************)
Ok(o)    == [set |-> o, ok |-> TRUE]
usage(o) == [set |-> o, ok |-> FALSE]
UsageIf(cond, o, new) == IF cond THEN usage(o) ELSE Ok(new)

\* As if -c chose the kind of compilation even if -g has done so.
ModeOptionAlways(o, x) ==
  CASE x.opt = "c" -> UsageIf(o.comp_mode = "jit", o, [o EXCEPT !.link_mode = "dont", !.comp_mode = "obj"])
    [] x.opt = "g" -> UsageIf(o.dump_IR \/ o.comp_mode = "jit", o,
         [o EXCEPT !.comp_mode = "dbg", !.optimization_level = "0", !.codegenopt = "0"])
    [] x.opt \in {"j", "J"} -> UsageIf(o.comp_mode \notin {"undef", "jit"}, o,
         [o EXCEPT !.comp_mode = "jit", !.jit_repl = @ \/ x.opt = "J"])
    [] x.opt = "d" -> UsageIf(o.comp_mode = "dbg", o, [o EXCEPT !.dump_IR = TRUE])

\* -c, -g, -j and -J: the kinds of compilation; -d does not go with -g.
ModeOption(o, x) ==
  CASE x.opt = "c" -> UsageIf(o.comp_mode = "jit", o,
         [o EXCEPT !.link_mode = "dont", !.comp_mode = IF @ = "undef" THEN "obj" ELSE @])
    [] x.opt = "g" -> UsageIf(o.dump_IR \/ o.comp_mode = "jit", o,
         [o EXCEPT !.comp_mode = "dbg", !.optimization_level = "0", !.codegenopt = "0"])
    [] x.opt \in {"j", "J"} -> UsageIf(o.comp_mode \notin {"undef", "jit"}, o,
         [o EXCEPT !.comp_mode = "jit", !.jit_repl = @ \/ x.opt = "J"])
    [] x.opt = "d" -> UsageIf(o.comp_mode = "dbg", o, [o EXCEPT !.dump_IR = TRUE])

\* -r, -t, -V and -h.
TaskOption(o, x) ==
  CASE x.opt = "r" -> Ok([o EXCEPT !.run_program = TRUE])
    [] x.opt = "t" -> Ok([o EXCEPT !.do_test = TRUE])
    [] x.opt = "V" -> Ok([o EXCEPT !.show_version = TRUE])
    [] x.opt = "h" -> usage(o)

\* -f with its flags: how to divide, and whether to print results.
FlagOption(o, x) ==
  CASE x.opt \in {"floored", "c99"} ->
         UsageIf(o.idiv_mode \notin {"undef", x.opt}, o, [o EXCEPT !.idiv_mode = x.opt])
    [] x.opt = "pres" -> Ok([o EXCEPT !.do_pres = "yes"])
    [] x.opt = "no-pres" -> Ok([o EXCEPT !.do_pres = "no"])
    [] x.opt = "f?" -> usage(o)

\* -M, -o, and -i, whose case has no break: it names the output, too.
NameOption(o, x) ==
  CASE x.opt = "M" -> UsageIf(o.MainName, o, [o EXCEPT !.MainName = TRUE])
    [] x.opt \in {"i", "o"} -> UsageIf(o.output_file /= NoName, o, [o EXCEPT !.output_file = x.arg])

\* -e, -n and -strip.
LongOption(o, x) ==
  CASE x.opt = "emit-llvm" -> Ok([o EXCEPT !.emit_llvm = TRUE])
    [] x.opt = "no-lto" -> UsageIf(o.lto_mode \notin {"undef", "none"}, o, [o EXCEPT !.lto_mode = "none"])
    [] x.opt = "strip" -> Ok([o EXCEPT !.strip_mode = "do"])
    [] x.opt = "?" -> usage(o)

\* -O with a level for the IR and one for the code, the same if it is left out.
OptimizeOption(o, x) ==
  UsageIf(x.arg[1] \notin {"0", "1", "2", "3", "s", "z"} \/ Len(x.arg) > 2, o,
     [o EXCEPT !.optimization_level = x.arg[1],
               !.codegenopt = IF x.arg[Len(x.arg)] \in {"s", "z"} THEN "2" ELSE x.arg[Len(x.arg)]])

Read(o, x) ==
  IF x.opt \in {"c", "g", "j", "J", "d"} THEN ModeOption(o, x)
  ELSE IF x.opt \in {"r", "t", "V", "h"} THEN TaskOption(o, x)
  ELSE IF x.opt \in {"floored", "c99", "pres", "no-pres", "f?"} THEN FlagOption(o, x)
  ELSE IF x.opt \in {"M", "i", "o"} THEN NameOption(o, x)
  ELSE IF x.opt = "O" THEN OptimizeOption(o, x) ELSE LongOption(o, x)

Exit(code) == phase' = "exit" /\ status' = code

ReadOption ==
  /\ phase = "options"
  /\ \E x \in choice.options :
       /\ given' = given \cup {x}
       /\ Cardinality(given') <= MaxOptions
       /\ opts' = Read(opts, x).set
       /\ IF Read(opts, x).ok THEN UNCHANGED <<phase, status>> ELSE Exit("usage")
  /\ UNCHANGED <<choice, disk, made>>

ReadArgument ==
  /\ phase \in {"options", "arguments"}
  /\ choice.args /= << >>
  /\ choice' = [choice EXCEPT !.args = Tail(@)]
  /\ LET a == Head(choice.args) IN
     \/ /\ Ext(a) \in {"vx", "VX"}
        /\ opts' = [opts EXCEPT !.sources = Append(@, a)]
        /\ phase' = "arguments" /\ UNCHANGED status
     \/ /\ Ext(a) \in {"o", "O", "obj", "OBJ"}
        /\ opts' = [opts EXCEPT !.extra_libs = Append(@, a)]
        /\ phase' = "arguments" /\ UNCHANGED status
     \/ /\ Ext(a) \notin {"vx", "VX", "o", "O", "obj", "OBJ"}
        /\ Exit("usage") /\ UNCHANGED opts
  /\ UNCHANGED <<given, disk, made>>

(***************************************************************************)
(* Decisions, in the order of main().                                      *)
(***************************************************************************)
DecideMode(o) ==
  IF o.comp_mode /= "undef" THEN o
  ELSE IF o.sources /= << >> THEN [o EXCEPT !.comp_mode = "obj"]
  ELSE [o EXCEPT !.comp_mode = "jit", !.jit_repl = TRUE]

\* A session is not optimized beyond level 1.
DecideOptimization(o) ==
  IF o.comp_mode /= "jit" THEN o
  ELSE [o EXCEPT !.codegenopt = "0", !.optimization_level = IF @ \in {"0", "1"} THEN @ ELSE "1"]

DecideSession(o) ==
  [o EXCEPT !.do_pres = IF @ = "undecided" THEN IF o.jit_repl THEN "yes" ELSE "no" ELSE @,
            !.jit_extra_thread = o.jit_repl]

DecideLink(o) ==
  IF o.link_mode /= "undef" THEN o
  ELSE [o EXCEPT !.link_mode = IF o.comp_mode = "jit" THEN "dont" ELSE "do"]

StripRefused(o) == o.strip_mode = "do" /\ o.link_mode /= "do"

DecideLto(o) ==
  [o EXCEPT !.strip_mode = IF @ = "undef" THEN "dont" ELSE @,
            !.lto_mode = IF @ /= "undef" THEN @
                         ELSE IF o.link_mode = "do" /\ o.comp_mode /= "dbg" THEN "thin" ELSE "none"]

DecideEmit(o) ==
  IF ~o.emit_llvm THEN o
  ELSE [o EXCEPT !.comp_mode = IF @ = "dbg" THEN @ ELSE "obj",
                 !.link_mode = "dont", !.strip_mode = "dont", !.lto_mode = "none"]

RunRefused(o) == o.run_program /\ (o.link_mode = "dont" \/ o.comp_mode = "jit")

Decide ==
  /\ phase \in {"options", "arguments"} /\ choice.args = << >>
  /\ LET linked  == DecideLink(DecideSession(DecideOptimization(DecideMode(opts))))
         decided == DecideEmit(DecideLto(linked))
         refused == \/ DecideMode(opts).comp_mode = "jit" /\ opts.optimization_level \in {"s", "z"}
                    \/ StripRefused(linked)
                    \/ RunRefused(decided)
     IN  /\ opts' = decided
         /\ IF refused THEN Exit("usage") ELSE phase' = "name" /\ UNCHANGED status
  /\ UNCHANGED <<given, choice, disk, made>>

(***************************************************************************)
(* Names of the object and of the program.                                 *)
(***************************************************************************)
NamedByOption(o) ==
  IF o.emit_llvm THEN [o EXCEPT !.output_file = IF is_llvm_ir(@) THEN @ ELSE Plus(@, "ll")]
  ELSE IF is_obj(o.output_file) THEN [o EXCEPT !.link_mode = "dont"]
  ELSE [o EXCEPT !.exe_file = o.output_file, !.output_file = Plus(@, "o")]

Default(o, suffix, base) == IF o.emit_llvm THEN Plus(base, "ll") ELSE Plus(base, suffix)

NamedBySource(o) ==
  LET source == o.sources[1]
      base   == IF Ext(source) = "vx" THEN Stem(source) ELSE Here(<<"a">>)
      exe    == IF Ext(source) = "vx" THEN base ELSE Plus(base, "out")
  IN  [o EXCEPT !.output_file = Default(o, "o", base),
                !.exe_file = IF o.link_mode = "dont" THEN @ ELSE exe]

NameRefused(o) ==
  IF o.output_file /= NoName
  THEN \/ o.comp_mode = "jit"
       \/ ~o.emit_llvm /\ ~is_obj(o.output_file) /\ o.link_mode = "dont"
  ELSE o.comp_mode /= "jit" /\ Len(o.sources) /= 1

NameOutput ==
  /\ phase = "name"
  /\ IF NameRefused(opts) THEN Exit("usage") /\ UNCHANGED opts
     ELSE /\ opts' = IF opts.output_file /= NoName THEN NamedByOption(opts)
                     ELSE IF opts.comp_mode = "jit" THEN opts ELSE NamedBySource(opts)
          /\ phase' = "setup" /\ UNCHANGED status
  /\ UNCHANGED <<given, choice, disk, made>>

(***************************************************************************)
(* After the compilation: write, link, strip, run.                         *)
(***************************************************************************)
OnDisk(n)   == \E f \in disk : f.name = n
Is(n, what) == [name |-> n, is |-> what] \in disk
Put(n, what) == disk' = {f \in disk : f.name /= n} \cup {[name |-> n, is |-> what]}

Written(o) == IF o.emit_llvm THEN "ir" ELSE IF o.lto_mode = "thin" THEN "bitcode" ELSE "object"

\* The output file may not open; once it has, what was in it is lost, even if the
\* IR cannot be written or the target does not know the kind of file.
Write ==
  /\ phase = "write"
  /\ \/ /\ Put(opts.output_file, Written(opts))
        /\ made' = made \cup {"write"}
        /\ phase' = IF opts.link_mode = "dont" THEN "strip" ELSE "link"
        /\ UNCHANGED status
     \/ Put(opts.output_file, "damaged") /\ Exit("1") /\ UNCHANGED made
     \/ Exit("1") /\ UNCHANGED <<disk, made>>
  /\ UNCHANGED <<opts, given, choice>>

\* As if the exit code of the linker were not looked at.
LinkUnchecked ==
  /\ phase = "link"
  /\ \/ /\ \A i \in 1..Len(opts.extra_libs) : OnDisk(opts.extra_libs[i])
        /\ Put(opts.exe_file, "program") /\ made' = made \cup {"link"}
     \/ UNCHANGED <<disk, made>>
  /\ phase' = "strip" /\ UNCHANGED status
  /\ UNCHANGED <<opts, given, choice>>

\* A tool that cannot be started counts as exit code 1.
Link ==
  /\ phase = "link"
  /\ \/ /\ \A i \in 1..Len(opts.extra_libs) : OnDisk(opts.extra_libs[i])
        /\ Put(opts.exe_file, "program") /\ made' = made \cup {"link"}
        /\ phase' = "strip" /\ UNCHANGED status
     \/ Exit("1") /\ UNCHANGED <<disk, made>>
  /\ UNCHANGED <<opts, given, choice>>

\* Without a name of a program, the tool has nothing to strip and complains.
Strip ==
  /\ phase = "strip"
  /\ \/ /\ opts.strip_mode = "do" /\ opts.exe_file /= NoName
        /\ Put(opts.exe_file, "stripped") /\ made' = made \cup {"strip"}
        /\ phase' = "run" /\ UNCHANGED status
     \/ opts.strip_mode = "do" /\ Exit("1") /\ UNCHANGED <<disk, made>>
     \/ opts.strip_mode /= "do" /\ phase' = "run" /\ UNCHANGED <<disk, made, status>>
  /\ UNCHANGED <<opts, given, choice>>

\* "./" goes in front of the name, also of one that starts at the root; no
\* name at all is a null pointer.
RunName(n) == [n EXCEPT !.dir = IF @ = "root" THEN "under" ELSE @]

RunProgram ==
  /\ phase = "run"
  /\ \/ ~opts.run_program /\ Exit("0") /\ UNCHANGED made
     \/ opts.run_program /\ opts.exe_file = NoName /\ Exit("crash") /\ UNCHANGED made
     \/ /\ opts.run_program /\ opts.exe_file /= NoName
        /\ Is(RunName(opts.exe_file), "program") \/ Is(RunName(opts.exe_file), "stripped")
        /\ made' = made \cup {"run"}
        /\ \E code \in {"0", "1"} : Exit(code)
     \/ opts.run_program /\ opts.exe_file /= NoName /\ Exit("1") /\ UNCHANGED made
  /\ UNCHANGED <<opts, given, choice, disk>>

DriverInit ==
  /\ phase = "options" /\ opts = Defaults /\ given = {} /\ status = "none"
  /\ disk = GivenFiles /\ made = {}
=============================================================================
