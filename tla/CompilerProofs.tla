--------------------------- MODULE CompilerProofs ---------------------------
(***************************************************************************)
(* What holds of the compiler for any options in any number and order, any *)
(* files and any program.                                                  *)
(***************************************************************************)
EXTENDS Compiler, TLAPS

\* What the options are stored in.
OptRecord(o) ==
  /\ DOMAIN o = {"comp_mode", "link_mode", "lto_mode", "strip_mode", "dump_IR", "emit_llvm",
                 "show_version", "run_program", "do_test", "jit_repl", "jit_extra_thread", "do_pres",
                 "idiv_mode", "optimization_level", "codegenopt", "MainName", "output_file",
                 "exe_file", "sources", "extra_libs"}
  /\ o.comp_mode \in {"undef", "obj", "dbg", "jit"}
  /\ o.link_mode \in {"undef", "do", "dont"}
  /\ o.output_file \in FileNames \cup {NoName} /\ o.exe_file \in FileNames \cup {NoName}
  /\ o.sources \in Seq(FileNames)

LEMMA OptionFacts ==
  ASSUME NEW x \in Options
  PROVE  /\ x.opt \in {"c", "g", "j", "J", "d", "r", "t", "V", "h", "floored", "c99", "pres", "no-pres",
                       "f?", "M", "emit-llvm", "no-lto", "strip", "?", "o", "i", "O"}
         /\ x.opt \in {"o", "i"} => x.arg \in FileNames
         /\ x.opt = "O" => x.arg \in Seq(STRING) \ {<< >>}
BY DEF Options

LEMMA GivenAfter ==
  ASSUME NEW x, given' = given \cup {x}
  PROVE  /\ Given({"c", "g", "j", "J"})' <=> Given({"c", "g", "j", "J"}) \/ x.opt \in {"c", "g", "j", "J"}
         /\ Given({"c"})' <=> Given({"c"}) \/ x.opt = "c"
         /\ Given({"g"})' <=> Given({"g"}) \/ x.opt = "g"
         /\ Given({"j", "J"})' <=> Given({"j", "J"}) \/ x.opt \in {"j", "J"}
         /\ Given({"d"})' <=> Given({"d"}) \/ x.opt = "d"
         /\ Given({"r"})' <=> Given({"r"}) \/ x.opt = "r"
         /\ Given({"strip"})' <=> Given({"strip"}) \/ x.opt = "strip"
         /\ Given({"emit-llvm"})' <=> Given({"emit-llvm"}) \/ x.opt = "emit-llvm"
         /\ Given({"o", "i"})' <=> Given({"o", "i"}) \/ x.opt \in {"o", "i"}
BY DEF Given

-----------------------------------------------------------------------------
(* The variables the options set.                                          *)

\* What the options read so far have made of them.
OptionsRead(o) ==
  /\ (o.comp_mode = "undef") <=> ~Given({"c", "g", "j", "J"})
  /\ (o.comp_mode = "dbg") <=> Given({"g"})
  /\ (o.comp_mode = "jit") <=> Given({"j", "J"})
  /\ Given({"c"}) => o.comp_mode \in {"obj", "dbg"}
  /\ ~(Given({"g"}) /\ Given({"d"}))
  /\ o.dump_IR <=> Given({"d"})
  /\ o.link_mode = IF Given({"c"}) THEN "dont" ELSE "undef"
  /\ o.strip_mode = IF Given({"strip"}) THEN "do" ELSE "undef"
  /\ o.emit_llvm <=> Given({"emit-llvm"})
  /\ o.run_program <=> Given({"r"})

\* The one file name that was given, and who gave it.
NameRead(o) ==
  /\ (o.output_file = NoName) <=> ~Given({"o", "i"})
  /\ \A x \in given : x.opt \in {"o", "i"} => o.output_file = x.arg

LEMMA ModeRead ==
  ASSUME OptRecord(opts), OptionsRead(opts),
         NEW x, given' = given \cup {x}, x.opt \in {"c", "g", "j", "J", "d"},
         ModeOption(opts, x).ok, opts' = ModeOption(opts, x).set
  PROVE  /\ OptRecord(opts)' /\ OptionsRead(opts)'
         /\ opts'.output_file = opts.output_file /\ opts'.exe_file = opts.exe_file
         /\ opts'.sources = opts.sources
<1> DEFINE SameButMode ==
             /\ opts'.strip_mode = opts.strip_mode /\ opts'.emit_llvm = opts.emit_llvm
             /\ opts'.run_program = opts.run_program /\ opts'.output_file = opts.output_file
             /\ opts'.exe_file = opts.exe_file /\ opts'.sources = opts.sources
<1>0. opts.comp_mode \in {"undef", "obj", "dbg", "jit"}
  BY DEF OptRecord
<1>1. CASE x.opt = "c"
  <2>1. /\ opts.comp_mode # "jit"
        /\ opts' = [opts EXCEPT !.link_mode = "dont", !.comp_mode = IF @ = "undef" THEN "obj" ELSE @]
    BY <1>1 DEF ModeOption, UsageIf, Ok, usage
  <2>2. /\ opts'.link_mode = "dont" /\ opts'.comp_mode = IF opts.comp_mode = "undef" THEN "obj" ELSE opts.comp_mode
        /\ opts'.dump_IR = opts.dump_IR /\ SameButMode
    BY <2>1 DEF OptRecord
  <2>3. OptionsRead(opts)'
    BY <1>0, <1>1, <2>1, <2>2, GivenAfter DEF OptionsRead
  <2>4. QED
    BY <2>1, <2>2, <2>3 DEF OptRecord
<1>2. CASE x.opt = "g"
  <2>1. /\ opts.comp_mode # "jit" /\ ~opts.dump_IR
        /\ opts' = [opts EXCEPT !.comp_mode = "dbg", !.optimization_level = "0", !.codegenopt = "0"]
    BY <1>2 DEF ModeOption, UsageIf, Ok, usage
  <2>2. /\ opts'.comp_mode = "dbg" /\ opts'.link_mode = opts.link_mode
        /\ opts'.dump_IR = opts.dump_IR /\ SameButMode
    BY <2>1 DEF OptRecord
  <2>3. OptionsRead(opts)'
    BY <1>0, <1>2, <2>1, <2>2, GivenAfter DEF OptionsRead
  <2>4. QED
    BY <2>1, <2>2, <2>3 DEF OptRecord
<1>3. CASE x.opt \in {"j", "J"}
  <2>1. /\ opts.comp_mode \in {"undef", "jit"}
        /\ opts' = [opts EXCEPT !.comp_mode = "jit", !.jit_repl = @ \/ x.opt = "J"]
    BY <1>3 DEF ModeOption, UsageIf, Ok, usage
  <2>2. /\ opts'.comp_mode = "jit" /\ opts'.link_mode = opts.link_mode
        /\ opts'.dump_IR = opts.dump_IR /\ SameButMode
    BY <2>1 DEF OptRecord
  <2>3. OptionsRead(opts)'
    BY <1>0, <1>3, <2>1, <2>2, GivenAfter DEF OptionsRead
  <2>4. QED
    BY <2>1, <2>2, <2>3 DEF OptRecord
<1>4. CASE x.opt = "d"
  <2>1. /\ opts.comp_mode # "dbg" /\ opts' = [opts EXCEPT !.dump_IR = TRUE]
    BY <1>4 DEF ModeOption, UsageIf, Ok, usage
  <2>2. /\ opts'.comp_mode = opts.comp_mode /\ opts'.link_mode = opts.link_mode
        /\ opts'.dump_IR = TRUE /\ SameButMode
    BY <2>1 DEF OptRecord
  <2>3. OptionsRead(opts)'
    BY <1>0, <1>4, <2>1, <2>2, GivenAfter DEF OptionsRead
  <2>4. QED
    BY <2>1, <2>2, <2>3 DEF OptRecord
<1>5. QED
  BY <1>1, <1>2, <1>3, <1>4

\* The fields all this is about, after one of the other options.
LEMMA OtherRead ==
  ASSUME OptRecord(opts), NEW x \in Options, x.opt \notin {"c", "g", "j", "J", "d"},
         Read(opts, x).ok, opts' = Read(opts, x).set
  PROVE  /\ DOMAIN opts' = DOMAIN opts
         /\ opts'.comp_mode = opts.comp_mode /\ opts'.link_mode = opts.link_mode
         /\ opts'.dump_IR = opts.dump_IR /\ opts'.exe_file = opts.exe_file
         /\ opts'.sources = opts.sources
         /\ opts'.strip_mode = IF x.opt = "strip" THEN "do" ELSE opts.strip_mode
         /\ opts'.emit_llvm <=> x.opt = "emit-llvm" \/ opts.emit_llvm
         /\ opts'.run_program <=> x.opt = "r" \/ opts.run_program
         /\ opts'.output_file = IF x.opt \in {"o", "i"} THEN x.arg ELSE opts.output_file
         /\ x.opt \in {"o", "i"} => opts.output_file = NoName
<1>1. CASE x.opt \in {"r", "t", "V", "h"}
  <2>1. Read(opts, x) = TaskOption(opts, x)
    BY <1>1 DEF Read
  <2>2. /\ x.opt = "r" => opts' = [opts EXCEPT !.run_program = TRUE]
        /\ x.opt = "t" => opts' = [opts EXCEPT !.do_test = TRUE]
        /\ x.opt = "V" => opts' = [opts EXCEPT !.show_version = TRUE]
        /\ x.opt # "h"
    BY <1>1, <2>1 DEF TaskOption, Ok, usage
  <2>3. QED
    <3>1. CASE x.opt = "r"
      BY <2>2, <3>1 DEF OptRecord
    <3>2. CASE x.opt = "t"
      BY <2>2, <3>2 DEF OptRecord
    <3>3. CASE x.opt = "V"
      BY <2>2, <3>3 DEF OptRecord
    <3>4. QED
      BY <1>1, <2>2, <3>1, <3>2, <3>3
<1>2. CASE x.opt \in {"floored", "c99", "pres", "no-pres", "f?"}
  <2>1. Read(opts, x) = FlagOption(opts, x)
    BY <1>2 DEF Read
  <2>2. /\ x.opt \in {"floored", "c99"} => opts' = [opts EXCEPT !.idiv_mode = x.opt]
        /\ x.opt = "pres" => opts' = [opts EXCEPT !.do_pres = "yes"]
        /\ x.opt = "no-pres" => opts' = [opts EXCEPT !.do_pres = "no"]
        /\ x.opt # "f?"
    BY <1>2, <2>1 DEF FlagOption, UsageIf, Ok, usage
  <2>3. QED
    <3>1. CASE x.opt \in {"floored", "c99"}
      BY <2>2, <3>1 DEF OptRecord
    <3>2. CASE x.opt = "pres"
      BY <2>2, <3>2 DEF OptRecord
    <3>3. CASE x.opt = "no-pres"
      BY <2>2, <3>3 DEF OptRecord
    <3>4. QED
      BY <1>2, <2>2, <3>1, <3>2, <3>3
<1>3. CASE x.opt \in {"M", "i", "o"}
  <2>1. Read(opts, x) = NameOption(opts, x)
    BY <1>3 DEF Read
  <2>2. /\ x.opt = "M" => opts' = [opts EXCEPT !.MainName = TRUE]
        /\ x.opt \in {"i", "o"} => opts.output_file = NoName /\ opts' = [opts EXCEPT !.output_file = x.arg]
    BY <1>3, <2>1 DEF NameOption, UsageIf, Ok, usage
  <2>3. QED
    <3>1. CASE x.opt = "M"
      BY <2>2, <3>1 DEF OptRecord
    <3>2. CASE x.opt \in {"i", "o"}
      <4>1. opts.output_file = NoName /\ opts' = [opts EXCEPT !.output_file = x.arg]
        BY <2>2, <3>2
      <4>2. QED
        BY <3>2, <4>1 DEF OptRecord
    <3>3. QED
      BY <1>3, <2>2, <3>1, <3>2
<1>4. CASE x.opt = "O"
  <2>1. Read(opts, x) = OptimizeOption(opts, x)
    BY <1>4 DEF Read
  <2>2. PICK l, m : OptimizeOption(opts, x).set \in {opts, [opts EXCEPT !.optimization_level = l, !.codegenopt = m]}
    BY DEF OptimizeOption, UsageIf, Ok, usage
  <2>3. opts' = opts \/ opts' = [opts EXCEPT !.optimization_level = l, !.codegenopt = m]
    BY <2>1, <2>2
  <2>4. QED
    BY <1>4, <2>3 DEF OptRecord
<1>5. CASE x.opt \in {"emit-llvm", "no-lto", "strip", "?"}
  <2>1. Read(opts, x) = LongOption(opts, x)
    BY <1>5 DEF Read
  <2>2. /\ x.opt = "emit-llvm" => opts' = [opts EXCEPT !.emit_llvm = TRUE]
        /\ x.opt = "no-lto" => opts' = [opts EXCEPT !.lto_mode = "none"]
        /\ x.opt = "strip" => opts' = [opts EXCEPT !.strip_mode = "do"]
        /\ x.opt # "?"
    BY <1>5, <2>1 DEF LongOption, UsageIf, Ok, usage
  <2>3. QED
    <3>1. CASE x.opt = "emit-llvm"
      BY <2>2, <3>1 DEF OptRecord
    <3>2. CASE x.opt = "no-lto"
      BY <2>2, <3>2 DEF OptRecord
    <3>3. CASE x.opt = "strip"
      BY <2>2, <3>3 DEF OptRecord
    <3>4. QED
      BY <1>5, <2>2, <3>1, <3>2, <3>3
<1>6. QED
  BY <1>1, <1>2, <1>3, <1>4, <1>5, OptionFacts

\* The state while main() reads the command line.
ReadingInv == OptRecord(opts) /\ OptionsRead(opts) /\ NameRead(opts) /\ opts.exe_file = NoName

LEMMA ReadOptionInv ==
  ASSUME ReadingInv, NEW x \in Options, given' = given \cup {x},
         Read(opts, x).ok, opts' = Read(opts, x).set
  PROVE  ReadingInv' /\ opts'.sources = opts.sources
<1>1. CASE x.opt \in {"c", "g", "j", "J", "d"}
  <2>1. ModeOption(opts, x).ok /\ opts' = ModeOption(opts, x).set
    BY <1>1 DEF Read
  <2>2. /\ OptRecord(opts)' /\ OptionsRead(opts)'
        /\ opts'.output_file = opts.output_file /\ opts'.exe_file = opts.exe_file
        /\ opts'.sources = opts.sources
    BY <1>1, <2>1, ModeRead DEF ReadingInv
  <2>3. NameRead(opts)'
    BY <1>1, <2>2, GivenAfter DEF ReadingInv, NameRead
  <2>4. QED
    BY <2>2, <2>3 DEF ReadingInv
<1>2. CASE x.opt \notin {"c", "g", "j", "J", "d"}
  <2>1. /\ DOMAIN opts' = DOMAIN opts
        /\ opts'.comp_mode = opts.comp_mode /\ opts'.link_mode = opts.link_mode
        /\ opts'.dump_IR = opts.dump_IR /\ opts'.exe_file = opts.exe_file
        /\ opts'.sources = opts.sources
        /\ opts'.strip_mode = IF x.opt = "strip" THEN "do" ELSE opts.strip_mode
        /\ opts'.emit_llvm <=> x.opt = "emit-llvm" \/ opts.emit_llvm
        /\ opts'.run_program <=> x.opt = "r" \/ opts.run_program
        /\ opts'.output_file = IF x.opt \in {"o", "i"} THEN x.arg ELSE opts.output_file
        /\ x.opt \in {"o", "i"} => opts.output_file = NoName
    BY <1>2, OtherRead DEF ReadingInv
  <2>2. OptRecord(opts)'
    BY <2>1, OptionFacts DEF ReadingInv, OptRecord
  <2>3. OptionsRead(opts)'
    BY <1>2, <2>1, GivenAfter DEF ReadingInv, OptionsRead
  <2>4. NameRead(opts)'
    <3>1. CASE x.opt \in {"o", "i"}
      <4>1. ~Given({"o", "i"}) /\ x.arg \in FileNames
        BY <2>1, <3>1, OptionFacts DEF ReadingInv, NameRead
      <4>2. \A y \in given : y.opt \notin {"o", "i"}
        BY <4>1 DEF Given
      <4>3. Given({"o", "i"})'
        BY <3>1 DEF Given
      <4>4. QED
        BY <2>1, <3>1, <4>1, <4>2, <4>3, NamesAssumption DEF NameRead
    <3>2. CASE x.opt \notin {"o", "i"}
      BY <2>1, <3>2, GivenAfter DEF ReadingInv, NameRead
    <3>3. QED
      BY <3>1, <3>2
  <2>5. QED
    BY <2>1, <2>2, <2>3, <2>4 DEF ReadingInv
<1>3. QED
  BY <1>1, <1>2

-----------------------------------------------------------------------------
(* Decisions.                                                              *)

LEMMA GivenOneOf ==
  /\ Given({"emit-llvm", "c"}) <=> Given({"emit-llvm"}) \/ Given({"c"})
  /\ Given({"c", "emit-llvm"}) <=> Given({"emit-llvm"}) \/ Given({"c"})
  /\ Given({"j", "J", "d"}) <=> Given({"j", "J"}) \/ Given({"d"})
  /\ Given({"j", "J", "r"}) <=> Given({"j", "J"}) \/ Given({"r"})
  /\ Given({"c", "g", "j", "J"}) <=> Given({"c"}) \/ Given({"g"}) \/ Given({"j", "J"})
BY DEF Given

\* What no decision changes.
SameRest(p, o) ==
  /\ DOMAIN p = DOMAIN o
  /\ p.emit_llvm <=> o.emit_llvm
  /\ p.run_program <=> o.run_program
  /\ p.output_file = o.output_file /\ p.exe_file = o.exe_file /\ p.sources = o.sources

LEMMA DecideModeFacts ==
  ASSUME NEW o, OptRecord(o)
  PROVE  /\ SameRest(DecideMode(o), o)
         /\ DecideMode(o).comp_mode = IF o.comp_mode # "undef" THEN o.comp_mode
                                      ELSE IF o.sources # << >> THEN "obj" ELSE "jit"
         /\ DecideMode(o).link_mode = o.link_mode /\ DecideMode(o).strip_mode = o.strip_mode
<1>1. CASE o.comp_mode # "undef"
  BY <1>1 DEF DecideMode, SameRest
<1>2. CASE o.comp_mode = "undef" /\ o.sources # << >>
  BY <1>2 DEF DecideMode, SameRest, OptRecord
<1>3. CASE o.comp_mode = "undef" /\ o.sources = << >>
  <2>1. DecideMode(o) = [o EXCEPT !.comp_mode = "jit", !.jit_repl = TRUE]
    BY <1>3 DEF DecideMode
  <2>2. QED
    BY <1>3, <2>1 DEF SameRest, OptRecord
<1>4. QED
  BY <1>1, <1>2, <1>3

LEMMA DecideOptimizationFacts ==
  ASSUME NEW o, OptRecord(o)
  PROVE  /\ SameRest(DecideOptimization(o), o)
         /\ DecideOptimization(o).comp_mode = o.comp_mode
         /\ DecideOptimization(o).link_mode = o.link_mode
         /\ DecideOptimization(o).strip_mode = o.strip_mode
<1> DEFINE level == IF o.optimization_level \in {"0", "1"} THEN o.optimization_level ELSE "1"
<1>1. DecideOptimization(o) \in {o, [o EXCEPT !.codegenopt = "0", !.optimization_level = level]}
  BY DEF DecideOptimization
<1> HIDE DEF level
<1>2. QED
  BY <1>1 DEF SameRest, OptRecord

LEMMA DecideSessionFacts ==
  ASSUME NEW o, OptRecord(o)
  PROVE  /\ SameRest(DecideSession(o), o)
         /\ DecideSession(o).comp_mode = o.comp_mode
         /\ DecideSession(o).link_mode = o.link_mode
         /\ DecideSession(o).strip_mode = o.strip_mode
<1> DEFINE pres == IF o.do_pres = "undecided" THEN IF o.jit_repl THEN "yes" ELSE "no" ELSE o.do_pres
<1>1. DecideSession(o) = [o EXCEPT !.do_pres = pres, !.jit_extra_thread = o.jit_repl]
  BY DEF DecideSession
<1> HIDE DEF pres
<1>2. QED
  BY <1>1 DEF SameRest, OptRecord

LEMMA DecideLinkFacts ==
  ASSUME NEW o, OptRecord(o)
  PROVE  /\ SameRest(DecideLink(o), o)
         /\ DecideLink(o).comp_mode = o.comp_mode /\ DecideLink(o).strip_mode = o.strip_mode
         /\ DecideLink(o).link_mode = IF o.link_mode # "undef" THEN o.link_mode
                                      ELSE IF o.comp_mode = "jit" THEN "dont" ELSE "do"
<1>1. CASE o.link_mode # "undef"
  BY <1>1 DEF DecideLink, SameRest
<1>2. CASE o.link_mode = "undef"
  <2>1. DecideLink(o) = [o EXCEPT !.link_mode = IF o.comp_mode = "jit" THEN "dont" ELSE "do"]
    BY <1>2 DEF DecideLink
  <2>2. QED
    BY <1>2, <2>1 DEF SameRest, OptRecord
<1>3. QED
  BY <1>1, <1>2

LEMMA DecideLtoFacts ==
  ASSUME NEW o, OptRecord(o)
  PROVE  /\ SameRest(DecideLto(o), o)
         /\ DecideLto(o).comp_mode = o.comp_mode /\ DecideLto(o).link_mode = o.link_mode
         /\ DecideLto(o).strip_mode = IF o.strip_mode = "undef" THEN "dont" ELSE o.strip_mode
<1> DEFINE strip == IF o.strip_mode = "undef" THEN "dont" ELSE o.strip_mode
           lto == IF o.lto_mode /= "undef" THEN o.lto_mode
                  ELSE IF o.link_mode = "do" /\ o.comp_mode /= "dbg" THEN "thin" ELSE "none"
<1>1. DecideLto(o) = [o EXCEPT !.strip_mode = strip, !.lto_mode = lto]
  BY DEF DecideLto
<1> HIDE DEF lto
<1>2. QED
  BY <1>1 DEF SameRest, OptRecord

LEMMA DecideEmitFacts ==
  ASSUME NEW o, OptRecord(o)
  PROVE  /\ SameRest(DecideEmit(o), o)
         /\ ~o.emit_llvm => /\ DecideEmit(o).comp_mode = o.comp_mode
                            /\ DecideEmit(o).link_mode = o.link_mode
                            /\ DecideEmit(o).strip_mode = o.strip_mode
         /\ o.emit_llvm => /\ DecideEmit(o).comp_mode = IF o.comp_mode = "dbg" THEN "dbg" ELSE "obj"
                           /\ DecideEmit(o).link_mode = "dont"
                           /\ DecideEmit(o).strip_mode = "dont"
<1> DEFINE comp == IF o.comp_mode = "dbg" THEN o.comp_mode ELSE "obj"
<1>1. CASE ~o.emit_llvm
  BY <1>1 DEF DecideEmit, SameRest
<1>2. CASE o.emit_llvm
  <2>1. DecideEmit(o) = [o EXCEPT !.comp_mode = comp, !.link_mode = "dont",
                                  !.strip_mode = "dont", !.lto_mode = "none"]
    BY <1>2 DEF DecideEmit
  <2>2. comp = IF o.comp_mode = "dbg" THEN "dbg" ELSE "obj"
    OBVIOUS
  <2> HIDE DEF comp
  <2>3. QED
    BY <1>2, <2>1, <2>2 DEF SameRest, OptRecord
<1>3. QED
  BY <1>1, <1>2

\* How the options determine what is made and whether it is linked.
Decided(o) ==
  /\ o.comp_mode = IF Given({"g"}) THEN "dbg"
                   ELSE IF Given({"emit-llvm", "c"}) THEN "obj"
                   ELSE IF Given({"j", "J"}) \/ o.sources = << >> THEN "jit" ELSE "obj"
  /\ ~ (Given({"g"}) /\ Given({"j", "J", "d"})) /\ ~ (Given({"c"}) /\ Given({"j", "J", "r"}))
  /\ o.emit_llvm <=> Given({"emit-llvm"})
  /\ o.run_program <=> Given({"r"})
  /\ o.strip_mode \in {"do", "dont"}
  /\ o.strip_mode = "do" => Given({"strip"})
  /\ o.link_mode = "do" /\ Given({"strip"}) => o.strip_mode = "do"

\* The state between the decisions and the names.
DecidedInv ==
  /\ OptRecord(opts) /\ Decided(opts) /\ NameRead(opts) /\ opts.exe_file = NoName
  /\ opts.link_mode \in {"do", "dont"}
  /\ (opts.link_mode = "do") <=> ~(opts.comp_mode = "jit" \/ Given({"c", "emit-llvm"}))
  /\ opts.comp_mode = "jit" => ~Given({"emit-llvm"})

LEMMA DecideInv ==
  ASSUME ReadingInv, Decide, phase' = "name"
  PROVE  DecidedInv' /\ opts'.sources = opts.sources
<1> DEFINE a == DecideMode(opts)
           b == DecideOptimization(a)
           c == DecideSession(b)
           d == DecideLink(c)
           e == DecideLto(d)
           f == DecideEmit(e)
<1>1. /\ opts' = f /\ ~RunRefused(f) /\ UNCHANGED given
  BY DEF Decide, Exit
<1>2. OptRecord(opts) /\ OptionsRead(opts) /\ NameRead(opts) /\ opts.exe_file = NoName
  BY DEF ReadingInv
<1>3. /\ OptRecord(a) /\ SameRest(a, opts)
      /\ a.comp_mode = IF opts.comp_mode # "undef" THEN opts.comp_mode
                       ELSE IF opts.sources # << >> THEN "obj" ELSE "jit"
      /\ a.link_mode = opts.link_mode /\ a.strip_mode = opts.strip_mode
  BY <1>2, DecideModeFacts DEF OptRecord, SameRest
<1> HIDE DEF a
<1>4. OptRecord(b) /\ SameRest(b, a) /\ b.comp_mode = a.comp_mode /\ b.link_mode = a.link_mode
      /\ b.strip_mode = a.strip_mode
  BY <1>3, DecideOptimizationFacts DEF OptRecord, SameRest
<1> HIDE DEF b
<1>5. OptRecord(c) /\ SameRest(c, b) /\ c.comp_mode = b.comp_mode /\ c.link_mode = b.link_mode
      /\ c.strip_mode = b.strip_mode
  BY <1>4, DecideSessionFacts DEF OptRecord, SameRest
<1> HIDE DEF c
<1>6. /\ OptRecord(d) /\ SameRest(d, c) /\ d.comp_mode = c.comp_mode /\ d.strip_mode = c.strip_mode
      /\ d.link_mode = IF c.link_mode # "undef" THEN c.link_mode
                       ELSE IF c.comp_mode = "jit" THEN "dont" ELSE "do"
  BY <1>5, DecideLinkFacts DEF OptRecord, SameRest
<1> HIDE DEF d
<1>7. /\ OptRecord(e) /\ SameRest(e, d) /\ e.comp_mode = d.comp_mode /\ e.link_mode = d.link_mode
      /\ e.strip_mode = IF d.strip_mode = "undef" THEN "dont" ELSE d.strip_mode
  BY <1>6, DecideLtoFacts DEF OptRecord, SameRest
<1> HIDE DEF e
<1>8. /\ SameRest(f, e)
      /\ ~e.emit_llvm => f.comp_mode = e.comp_mode /\ f.link_mode = e.link_mode /\ f.strip_mode = e.strip_mode
      /\ e.emit_llvm => /\ f.comp_mode = IF e.comp_mode = "dbg" THEN "dbg" ELSE "obj"
                        /\ f.link_mode = "dont" /\ f.strip_mode = "dont"
  BY <1>7, DecideEmitFacts
<1> HIDE DEF f
<1>9. /\ e.comp_mode = IF opts.comp_mode # "undef" THEN opts.comp_mode
                       ELSE IF opts.sources # << >> THEN "obj" ELSE "jit"
      /\ e.link_mode = IF opts.link_mode # "undef" THEN opts.link_mode
                       ELSE IF e.comp_mode = "jit" THEN "dont" ELSE "do"
      /\ e.strip_mode = IF opts.strip_mode = "undef" THEN "dont" ELSE opts.strip_mode
  BY <1>3, <1>4, <1>5, <1>6, <1>7
<1>10. SameRest(e, opts) /\ SameRest(f, opts)
  BY <1>3, <1>4, <1>5, <1>6, <1>7, <1>8 DEF SameRest
<1>11. /\ e.emit_llvm <=> Given({"emit-llvm"})
       /\ f.run_program <=> Given({"r"})
       /\ f.sources = opts.sources
  BY <1>2, <1>10 DEF SameRest, OptionsRead
<1>12. e.comp_mode = IF Given({"g"}) THEN "dbg" ELSE IF Given({"c"}) THEN "obj"
                     ELSE IF Given({"j", "J"}) \/ opts.sources = << >> THEN "jit" ELSE "obj"
  BY <1>2, <1>9, GivenOneOf DEF OptionsRead, OptRecord
<1>13. /\ e.link_mode = IF Given({"c"}) \/ e.comp_mode = "jit" THEN "dont" ELSE "do"
       /\ e.strip_mode = IF Given({"strip"}) THEN "do" ELSE "dont"
  BY <1>2, <1>9 DEF OptionsRead
<1>14. /\ f.comp_mode = IF Given({"g"}) THEN "dbg"
                   ELSE IF Given({"emit-llvm", "c"}) THEN "obj"
                   ELSE IF Given({"j", "J"}) \/ f.sources = << >> THEN "jit" ELSE "obj"
       /\ f.link_mode \in {"do", "dont"}
       /\ (f.link_mode = "do") <=> ~(f.comp_mode = "jit" \/ Given({"c", "emit-llvm"}))
       /\ f.comp_mode = "jit" => ~Given({"emit-llvm"})
  BY <1>8, <1>11, <1>12, <1>13, GivenOneOf
<1>15. /\ f.strip_mode \in {"do", "dont"} /\ (f.strip_mode = "do" => Given({"strip"}))
       /\ f.link_mode = "do" /\ Given({"strip"}) => f.strip_mode = "do"
  BY <1>8, <1>11, <1>13
<1>16. ~ (Given({"g"}) /\ Given({"j", "J", "d"})) /\ ~ (Given({"c"}) /\ Given({"j", "J", "r"}))
  <2>1. f.run_program => f.link_mode # "dont"
    BY <1>1 DEF RunRefused
  <2>2. ~(Given({"c"}) /\ Given({"r"}))
    BY <1>11, <1>14, <2>1, GivenOneOf
  <2>3. QED
    BY <1>2, <2>2, GivenOneOf DEF OptionsRead
<1>17. OptRecord(f) /\ NameRead(f) /\ f.exe_file = NoName
  BY <1>2, <1>10, <1>14 DEF OptRecord, SameRest, NameRead
<1>18. f.emit_llvm <=> Given({"emit-llvm"})
  BY <1>2, <1>10 DEF SameRest, OptionsRead
<1>19. Decided(f)
  BY <1>11, <1>14, <1>15, <1>16, <1>18 DEF Decided
<1>20. \A S : Given(S)' <=> Given(S)
  BY <1>1 DEF Given
<1>21. OptRecord(opts)' /\ NameRead(opts)' /\ Decided(opts)'
  BY <1>1, <1>17, <1>19, <1>20 DEF OptRecord, NameRead, Decided
<1>22. QED
  BY <1>1, <1>11, <1>14, <1>17, <1>20, <1>21 DEF DecidedInv

-----------------------------------------------------------------------------
(* Names of the object and of the program.                                 *)

\* What the user may name as files of the program.
Args == {n \in FileNames : \E c \in Cases : \E i \in 1..Len(c.args) : c.args[i] = n}

\* The names of the sources end as those of sources do, and no argument is the
\* name of another source with one more ".vx", which would be its program's name.
PlainSources ==
  \A f \in GivenFiles :
    f.is = "source" => /\ f.name \in FileNames /\ Ext(f.name) \in {"vx", "VX"}
                       /\ Plus(f.name, "vx") \notin Args

\* A source the user has not named as the output.
Spared(f) ==
  f.is = "source" /\ ~ (\E x \in given : x.opt \in {"o", "i"} /\ f.name \in {x.arg, Plus(x.arg, "o")})

NamesSpare(o) == \A f \in GivenFiles : Spared(f) => f.name \notin {o.output_file, o.exe_file}

\* The state from the setup of the compiler on.
AskedInv ==
  /\ OptRecord(opts) /\ Decided(opts)
  /\ opts.link_mode \in {"do", "dont"}
  /\ (opts.link_mode = "do") <=> ~ \/ opts.comp_mode = "jit" \/ Given({"c", "emit-llvm"})
                                   \/ \E x \in given : x.opt \in {"o", "i"} /\ is_obj(x.arg)
  /\ (opts.exe_file = NoName) <=> (opts.link_mode = "dont")
  /\ opts.link_mode = "do" => opts.exe_file # opts.output_file
  /\ PlainSources => NamesSpare(opts)

LEMMA RenamedFacts ==
  ASSUME NEW n \in FileNames, NEW p
  PROVE  [n EXCEPT !.parts = p] = [dir |-> n.dir, parts |-> p]
BY DEF FileNames

LEMMA PlusFacts ==
  ASSUME NEW n \in FileNames, NEW e \in Words
  PROVE  /\ Plus(n, e) \in FileNames /\ Plus(n, e) # n /\ Ext(Plus(n, e)) = e
         /\ Plus(n, e).parts = Append(n.parts, e) /\ Plus(n, e).dir = n.dir
<1> DEFINE p == Append(n.parts, e)
<1>1. n.parts \in Seq(Words) /\ n.parts # << >> /\ n.dir \in Words
  BY DEF FileNames
<1>2. Plus(n, e) = [n EXCEPT !.parts = p]
  BY DEF Plus
<1>3. /\ p \in Seq(Words) /\ Len(p) = Len(n.parts) + 1 /\ p[Len(p)] = e
      /\ Len(n.parts) \in Nat /\ Len(n.parts) > 0
  BY <1>1
<1> HIDE DEF p
<1>4. Plus(n, e) = [dir |-> n.dir, parts |-> p]
  BY <1>2, RenamedFacts
<1>5. Plus(n, e).parts = p /\ Plus(n, e).dir = n.dir
  BY <1>4
<1>6. p # << >> /\ p # n.parts /\ Len(p) > 1
  BY <1>1, <1>3
<1>7. Ext(Plus(n, e)) = e
  BY <1>3, <1>5, <1>6 DEF Ext
<1>8. Plus(n, e) \in FileNames
  BY <1>1, <1>3, <1>4, <1>6 DEF FileNames
<1>9. QED
  BY <1>5, <1>6, <1>7, <1>8 DEF p

\* The names made from the name of a source.
LEMMA StemFacts ==
  ASSUME NEW n \in FileNames, Ext(n) = "vx"
  PROVE  Stem(n) \in FileNames /\ Plus(Stem(n), "vx") = n
<1> DEFINE p == SubSeq(n.parts, 1, Len(n.parts) - 1)
<1>1. n.parts \in Seq(Words) /\ n.dir \in Words /\ n = [dir |-> n.dir, parts |-> n.parts]
  BY DEF FileNames
<1>2. Len(n.parts) > 1 /\ n.parts[Len(n.parts)] = "vx" /\ Len(n.parts) \in Nat /\ "vx" \in Words
  BY <1>1 DEF Ext
<1>a. Stem(n) = [n EXCEPT !.parts = p]
  BY DEF Stem
<1>4. p \in Seq(Words) /\ Len(p) = Len(n.parts) - 1 /\ \A i \in 1..Len(p) : p[i] = n.parts[i]
  BY <1>1, <1>2
<1> HIDE DEF p
<1>3. Stem(n) = [dir |-> n.dir, parts |-> p]
  BY <1>a, RenamedFacts
<1>5. p # << >>
  BY <1>2, <1>4
<1>6. Append(p, "vx") = n.parts
  <2>a. /\ Append(p, "vx") \in Seq(Words) /\ Len(Append(p, "vx")) = Len(p) + 1
        /\ Append(p, "vx")[Len(p) + 1] = "vx"
        /\ \A i \in 1..Len(p) : Append(p, "vx")[i] = p[i]
    BY <1>2, <1>4
  <2>1. Len(Append(p, "vx")) = Len(n.parts)
    BY <2>a, <1>2, <1>4
  <2>2. \A i \in 1..Len(n.parts) : Append(p, "vx")[i] = n.parts[i]
    BY <2>a, <1>2, <1>4
  <2>3. QED
    BY <1>1, <2>a, <2>1, <2>2
<1>7. Stem(n) \in FileNames
  BY <1>1, <1>3, <1>4, <1>5 DEF FileNames
<1>8. Plus(Stem(n), "vx") = [dir |-> n.dir, parts |-> n.parts]
  BY <1>3, <1>6, <1>7, PlusFacts, RenamedFacts DEF Plus
<1>9. QED
  BY <1>1, <1>6, <1>7, <1>8

LEMMA HereFacts ==
  /\ Here(<<"a">>) \in FileNames /\ Here(<<"a">>).parts = <<"a">>
<1>1. "a" \in Words /\ "here" \in Words
  BY DEF Words
<1>2. <<"a">> \in Seq(Words) /\ <<"a">> # << >>
  BY <1>1
<1>3. QED
  BY <1>1, <1>2 DEF Here, FileNames

\* What naming the files leaves as it is.
SameDecisions(p, o) ==
  /\ DOMAIN p = DOMAIN o
  /\ p.comp_mode = o.comp_mode /\ p.strip_mode = o.strip_mode
  /\ (p.emit_llvm <=> o.emit_llvm) /\ (p.run_program <=> o.run_program)
  /\ p.sources = o.sources

LEMMA NamedByOptionFacts ==
  ASSUME NEW o, OptRecord(o), o.output_file # NoName
  PROVE  LET p == NamedByOption(o) IN
         /\ SameDecisions(p, o)
         /\ o.emit_llvm => /\ p.output_file \in {o.output_file, Plus(o.output_file, "ll")}
                           /\ p.exe_file = o.exe_file /\ p.link_mode = o.link_mode
         /\ ~o.emit_llvm /\ is_obj(o.output_file)
              => p.output_file = o.output_file /\ p.exe_file = o.exe_file /\ p.link_mode = "dont"
         /\ ~o.emit_llvm /\ ~is_obj(o.output_file)
              => /\ p.output_file = Plus(o.output_file, "o") /\ p.exe_file = o.output_file
                 /\ p.link_mode = o.link_mode
<1> DEFINE name == IF is_llvm_ir(o.output_file) THEN o.output_file ELSE Plus(o.output_file, "ll")
           objname == Plus(o.output_file, "o")
<1>1. CASE o.emit_llvm
  <2>1. NamedByOption(o) = [o EXCEPT !.output_file = name]
    BY <1>1 DEF NamedByOption
  <2>2. name \in {o.output_file, Plus(o.output_file, "ll")}
    OBVIOUS
  <2> HIDE DEF name
  <2>3. QED
    BY <1>1, <2>1, <2>2 DEF SameDecisions, OptRecord
<1>2. CASE ~o.emit_llvm /\ is_obj(o.output_file)
  <2>1. NamedByOption(o) = [o EXCEPT !.link_mode = "dont"]
    BY <1>2 DEF NamedByOption
  <2>2. QED
    BY <1>2, <2>1 DEF SameDecisions, OptRecord
<1>3. CASE ~o.emit_llvm /\ ~is_obj(o.output_file)
  <2>1. NamedByOption(o) = [o EXCEPT !.exe_file = o.output_file, !.output_file = objname]
    BY <1>3 DEF NamedByOption
  <2>2. objname = Plus(o.output_file, "o")
    OBVIOUS
  <2> HIDE DEF objname
  <2>3. QED
    BY <1>3, <2>1, <2>2 DEF SameDecisions, OptRecord
<1>4. QED
  BY <1>1, <1>2, <1>3

LEMMA NamedBySourceFacts ==
  ASSUME NEW o, OptRecord(o), Len(o.sources) = 1
  PROVE  \E base \in FileNames, exe \in FileNames :
           LET p == NamedBySource(o) IN
           /\ SameDecisions(p, o) /\ p.link_mode = o.link_mode
           /\ p.output_file = Plus(base, IF o.emit_llvm THEN "ll" ELSE "o")
           /\ p.exe_file = IF o.link_mode = "dont" THEN o.exe_file ELSE exe
           /\ exe # Plus(base, "o")
           /\ Ext(exe) = "out" \/ Plus(exe, "vx") = o.sources[1]
<1> DEFINE source == o.sources[1]
           base == IF Ext(source) = "vx" THEN Stem(source) ELSE Here(<<"a">>)
           exe == IF Ext(source) = "vx" THEN base ELSE Plus(base, "out")
           out == Default(o, "o", base)
           exe2 == IF o.link_mode = "dont" THEN o.exe_file ELSE exe
<1>1. source \in FileNames
  BY DEF OptRecord
<1>2. NamedBySource(o) = [o EXCEPT !.output_file = out, !.exe_file = exe2]
  BY DEF NamedBySource
<1>3. base \in FileNames
  BY <1>1, StemFacts, HereFacts
<1>4. /\ exe \in FileNames /\ exe # Plus(base, "o")
      /\ Ext(exe) = "out" \/ Plus(exe, "vx") = o.sources[1]
  <2>1. CASE Ext(source) = "vx"
    <3>1. exe = base /\ base = Stem(source)
      BY <2>1
    <3>2. Plus(exe, "vx") = source
      BY <1>1, <2>1, <3>1, StemFacts
    <3> HIDE DEF base, exe
    <3>3. exe # Plus(base, "o")
      BY <1>3, <3>1, PlusFacts DEF Words
    <3>4. QED
      BY <1>3, <3>1, <3>2, <3>3
  <2>2. CASE Ext(source) # "vx"
    <3>1. exe = Plus(base, "out")
      BY <2>2
    <3> HIDE DEF base, exe
    <3>2. exe \in FileNames /\ Ext(exe) = "out" /\ Ext(Plus(base, "o")) = "o"
      <4>1. "out" \in Words /\ "o" \in Words
        BY DEF Words
      <4>2. QED
        BY <1>3, <3>1, <4>1, PlusFacts
    <3>3. QED
      BY <3>2
  <2>3. QED
    BY <2>1, <2>2
<1>5. out = Plus(base, IF o.emit_llvm THEN "ll" ELSE "o")
  BY DEF Default
<1> HIDE DEF base, exe, out
<1>6. exe2 = IF o.link_mode = "dont" THEN o.exe_file ELSE exe
  OBVIOUS
<1> HIDE DEF exe2
<1>7. LET p == NamedBySource(o) IN
      /\ SameDecisions(p, o) /\ p.link_mode = o.link_mode
      /\ p.output_file = out /\ p.exe_file = exe2
  BY <1>2 DEF SameDecisions, OptRecord
<1>8. QED
  BY <1>3, <1>4, <1>5, <1>6, <1>7

LEMMA NamesNamed ==
  ASSUME DecidedInv, opts.sources \in Seq(Args), NameOutput, phase' = "setup"
  PROVE  AskedInv'
<1>1. /\ OptRecord(opts) /\ Decided(opts) /\ NameRead(opts) /\ opts.exe_file = NoName
      /\ opts.link_mode \in {"do", "dont"}
      /\ (opts.link_mode = "do") <=> ~(opts.comp_mode = "jit" \/ Given({"c", "emit-llvm"}))
      /\ opts.comp_mode = "jit" => ~Given({"emit-llvm"})
  BY DEF DecidedInv
<1>2. /\ ~NameRefused(opts) /\ given' = given
      /\ opts' = IF opts.output_file /= NoName THEN NamedByOption(opts)
                 ELSE IF opts.comp_mode = "jit" THEN opts ELSE NamedBySource(opts)
  BY DEF NameOutput, Exit
<1>3. \A S : Given(S)' <=> Given(S)
  BY <1>2 DEF Given
<1>4. ASSUME SameDecisions(opts', opts), opts'.link_mode \in {opts.link_mode, "dont"}
      PROVE  Decided(opts)'
  <2>1. /\ opts'.comp_mode = opts.comp_mode /\ opts'.sources = opts.sources
        /\ opts'.strip_mode = opts.strip_mode
        /\ (opts'.emit_llvm <=> opts.emit_llvm) /\ (opts'.run_program <=> opts.run_program)
    BY <1>4 DEF SameDecisions
  <2>2. opts'.link_mode = "do" => opts.link_mode = "do"
    BY <1>4
  <2>3. QED
    BY <1>1, <1>3, <2>1, <2>2 DEF Decided
<1>5. opts.emit_llvm <=> Given({"emit-llvm"})
  BY <1>1 DEF Decided
<1>6. \A f \in GivenFiles : Spared(f)' <=> Spared(f)
  BY <1>2 DEF Spared
<1>7. CASE opts.output_file # NoName
  <2> DEFINE name == opts.output_file
  <2>1. name \in FileNames /\ Given({"o", "i"}) /\ \A x \in given : x.opt \in {"o", "i"} => x.arg = name
    BY <1>1, <1>7 DEF OptRecord, NameRead
  <2>2. (\E x \in given : x.opt \in {"o", "i"} /\ is_obj(x.arg)) <=> is_obj(name)
    BY <2>1 DEF Given
  <2>3. /\ opts.comp_mode # "jit"
        /\ ~opts.emit_llvm /\ ~is_obj(name) => opts.link_mode # "dont"
    BY <1>2, <1>7 DEF NameRefused
  <2>4. /\ SameDecisions(opts', opts)
        /\ opts.emit_llvm => /\ opts'.output_file \in {name, Plus(name, "ll")}
                             /\ opts'.exe_file = NoName /\ opts'.link_mode = opts.link_mode
        /\ ~opts.emit_llvm /\ is_obj(name)
             => opts'.output_file = name /\ opts'.exe_file = NoName /\ opts'.link_mode = "dont"
        /\ ~opts.emit_llvm /\ ~is_obj(name)
             => /\ opts'.output_file = Plus(name, "o") /\ opts'.exe_file = name
                /\ opts'.link_mode = opts.link_mode
    BY <1>1, <1>2, <1>7, NamedByOptionFacts
  <2>5. /\ Plus(name, "ll") \in FileNames /\ Ext(Plus(name, "ll")) = "ll"
        /\ Plus(name, "o") \in FileNames /\ Plus(name, "o") # name
    BY <2>1, PlusFacts DEF Words
  <2> HIDE DEF name
  <2>6. OptRecord(opts)'
    BY <1>1, <2>1, <2>4, <2>5 DEF OptRecord, SameDecisions
  <2>7. /\ opts'.link_mode \in {"do", "dont"}
        /\ (opts'.link_mode = "do") <=> ~ \/ opts'.comp_mode = "jit" \/ Given({"c", "emit-llvm"})
                                          \/ is_obj(name)
    BY <1>1, <1>5, <2>3, <2>4, GivenOneOf DEF SameDecisions
  <2>8. /\ (opts'.exe_file = NoName) <=> (opts'.link_mode = "dont")
        /\ opts'.link_mode = "do" => opts'.exe_file # opts'.output_file
    BY <1>1, <1>5, <2>1, <2>3, <2>4, <2>5, GivenOneOf, NamesAssumption
  <2>9. ASSUME PlainSources, NEW f \in GivenFiles, Spared(f)
        PROVE  f.name \notin {opts'.output_file, opts'.exe_file}
    <3>1. f.name \in FileNames /\ Ext(f.name) \in {"vx", "VX"}
      BY <2>9 DEF PlainSources, Spared
    <3>2. PICK x \in given : x.opt \in {"o", "i"}
      BY <2>1 DEF Given
    <3>3. f.name # name /\ f.name # Plus(name, "o")
      BY <2>1, <2>9, <3>2 DEF Spared
    <3>4. QED
      BY <2>4, <2>5, <3>1, <3>3, NamesAssumption
  <2>10. PlainSources => NamesSpare(opts)'
    BY <1>6, <2>9 DEF NamesSpare
  <2>11. (\E x \in given' : x.opt \in {"o", "i"} /\ is_obj(x.arg)) <=> is_obj(name)
    BY <1>2, <2>2
  <2>12. QED
    BY <1>3, <1>4, <2>4, <2>6, <2>7, <2>8, <2>10, <2>11 DEF AskedInv
<1>8. CASE opts.output_file = NoName
  <2>1. ~Given({"o", "i"}) /\ (\A x \in given' : x.opt \notin {"o", "i"})
    BY <1>1, <1>2, <1>8 DEF NameRead, Given
  <2>2. CASE opts.comp_mode = "jit"
    <3>1. opts' = opts /\ opts.link_mode = "dont"
      BY <1>1, <1>2, <1>8, <2>2
    <3>2. SameDecisions(opts', opts) /\ OptRecord(opts)'
      BY <1>1, <3>1 DEF SameDecisions, OptRecord
    <3>3. ASSUME PlainSources, NEW f \in GivenFiles, Spared(f)
          PROVE  f.name \notin {opts'.output_file, opts'.exe_file}
      BY <1>1, <1>8, <3>1, <3>3, NamesAssumption DEF PlainSources, Spared
    <3>4. PlainSources => NamesSpare(opts)'
      BY <1>6, <3>3 DEF NamesSpare
    <3>5. QED
      BY <1>1, <1>3, <1>4, <2>2, <3>1, <3>2, <3>4 DEF AskedInv
  <2>3. CASE opts.comp_mode # "jit"
    <3>1. Len(opts.sources) = 1 /\ opts' = NamedBySource(opts)
      BY <1>2, <1>8, <2>3 DEF NameRefused
    <3> DEFINE suffix == IF opts.emit_llvm THEN "ll" ELSE "o"
    <3>2. PICK base \in FileNames, exe \in FileNames :
            /\ SameDecisions(opts', opts) /\ opts'.link_mode = opts.link_mode
            /\ opts'.output_file = Plus(base, suffix)
            /\ opts'.exe_file = IF opts.link_mode = "dont" THEN opts.exe_file ELSE exe
            /\ exe # Plus(base, "o")
            /\ Ext(exe) = "out" \/ Plus(exe, "vx") = opts.sources[1]
      BY <1>1, <3>1, NamedBySourceFacts
    <3>3. Plus(base, suffix) \in FileNames /\ Ext(Plus(base, suffix)) \in {"ll", "o"}
      BY PlusFacts DEF Words
    <3>4. opts.link_mode = "do" => suffix = "o"
      BY <1>1, <1>5, GivenOneOf
    <3> HIDE DEF suffix
    <3>5. OptRecord(opts)'
      BY <1>1, <3>2, <3>3 DEF OptRecord, SameDecisions
    <3>6. ASSUME PlainSources, NEW f \in GivenFiles, Spared(f)
          PROVE  f.name \notin {opts'.output_file, opts'.exe_file}
      <4>1. f.name \in FileNames /\ Ext(f.name) \in {"vx", "VX"} /\ Plus(f.name, "vx") \notin Args
        BY <3>6 DEF PlainSources, Spared
      <4>2. opts.sources[1] \in Args
        BY <3>1
      <4>3. f.name # exe
        BY <3>2, <4>1, <4>2
      <4>4. QED
        BY <1>1, <3>2, <3>3, <4>1, <4>3, NamesAssumption
    <3>7. PlainSources => NamesSpare(opts)'
      BY <1>6, <3>6 DEF NamesSpare
    <3>8. /\ opts'.link_mode \in {"do", "dont"}
          /\ (opts'.link_mode = "do") <=> ~ \/ opts'.comp_mode = "jit" \/ Given({"c", "emit-llvm"})
                                            \/ \E x \in given' : x.opt \in {"o", "i"} /\ is_obj(x.arg)
      BY <1>1, <2>1, <3>2 DEF SameDecisions
    <3>9. /\ (opts'.exe_file = NoName) <=> (opts'.link_mode = "dont")
          /\ opts'.link_mode = "do" => opts'.exe_file # opts'.output_file
      BY <1>1, <3>2, <3>4, NamesAssumption
    <3>10. QED
      BY <1>3, <1>4, <3>2, <3>5, <3>7, <3>8, <3>9 DEF AskedInv
  <2>4. QED
    BY <2>2, <2>3
<1>9. QED
  BY <1>7, <1>8

-----------------------------------------------------------------------------
(* From the command line to the exit code.                                 *)

CmdLine == choice \in [options : SUBSET Options, args : Seq(Args)]

Wrote == OnDisk(opts.output_file) /\ ~ Is(opts.output_file, "damaged")

Linked(what) == opts.link_mode = "do" => Is(opts.exe_file, what)

OnTheLine == phase \in {"options", "arguments"}
Running == phase \in {"setup", "compile", "write", "link", "strip", "run"}
Before  == phase \in {"options", "arguments", "name", "setup", "compile", "write"}

\* What each phase may count on.
PhaseInv ==
  /\ OnTheLine => ReadingInv
  /\ OnTheLine \/ phase = "name" => opts.sources \in Seq(Args)
  /\ phase = "name" => DecidedInv
  /\ Running => AskedInv
  /\ phase \in {"write", "link", "strip", "run"} => opts.comp_mode # "jit"
  /\ Before => disk = GivenFiles
  /\ phase \in {"link", "strip", "run"} => Wrote
  /\ phase = "link" => opts.link_mode = "do"
  /\ phase = "strip" => Linked("program")
  /\ phase = "run" => Linked(IF Given({"strip"}) THEN "stripped" ELSE "program")
  /\ phase = "exit" \/ status = "none"

CompilerInv == CmdLine /\ PhaseInv /\ SuccessMeansDone /\ (PlainSources => SourcesKept)

LEMMA PutFacts ==
  ASSUME NEW n, NEW w, Put(n, w)
  PROVE  /\ [name |-> n, is |-> w] \in disk'
         /\ \A v : [name |-> n, is |-> v] \in disk' => v = w
         /\ \A m, v : m # n => ([name |-> m, is |-> v] \in disk' <=> [name |-> m, is |-> v] \in disk)
         /\ \A f \in disk : f.name # n => f \in disk'
BY DEF Put

\* Files that are spared outlive the writing of any other.
LEMMA SparedKept ==
  ASSUME SourcesKept, given' = given, NEW n, NEW w, Put(n, w),
         \A f \in GivenFiles : Spared(f) => f.name # n
  PROVE  SourcesKept'
<1>1. \A f \in GivenFiles : Spared(f) => f \in disk'
  BY PutFacts DEF SourcesKept, Spared
<1>2. QED
  BY <1>1 DEF SourcesKept, Spared

LEMMA AskedKept ==
  ASSUME AskedInv, opts' = opts, given' = given
  PROVE  AskedInv'
<1>1. \A S : Given(S)' <=> Given(S)
  BY DEF Given
<1>2. Decided(opts)' /\ OptRecord(opts)'
  BY <1>1 DEF AskedInv, Decided, OptRecord
<1>3. (\A f \in GivenFiles : Spared(f)' <=> Spared(f))
  BY DEF Spared
<1>4. (PlainSources => NamesSpare(opts)')
  BY <1>3 DEF AskedInv, NamesSpare
<1>5. QED
  BY <1>1, <1>2, <1>4 DEF AskedInv

\* An exit code other than 0 promises nothing.
LEMMA NoSuccess ==
  ASSUME status' # "0"
  PROVE  SuccessMeansDone'
BY DEF SuccessMeansDone

LEMMA ArgsAreNames == Args \subseteq FileNames
BY DEF Args

LEMMA InitInv == Init => CompilerInv
<1> SUFFICES ASSUME Init PROVE CompilerInv
  OBVIOUS
<1>1. /\ phase = "options" /\ opts = Defaults /\ given = {} /\ status = "none" /\ disk = GivenFiles
  BY DEF Init, DriverInit
<1>2. \A S : ~Given(S)
  BY <1>1 DEF Given
<1>3. opts.sources = << >> /\ opts.output_file = NoName /\ opts.exe_file = NoName
  BY <1>1 DEF Defaults
<1>4. OptRecord(opts)
  BY <1>1 DEF OptRecord, Defaults
<1>5. OptionsRead(opts)
  BY <1>1, <1>2 DEF OptionsRead, Defaults
<1>6. NameRead(opts)
  BY <1>1, <1>2, <1>3 DEF NameRead
<1>7. CmdLine
  <2>1. PICK c \in Cases : choice = [options |-> c.options, args |-> c.args]
    BY DEF Init
  <2>2. c.options \subseteq Options /\ c.args \in Seq(FileNames)
    BY CasesAssumption
  <2>3. \A i \in 1..Len(c.args) : c.args[i] \in Args
    BY <2>2 DEF Args
  <2>4. c.args \in Seq(Args)
    BY <2>2, <2>3
  <2>5. QED
    BY <2>1, <2>2, <2>4 DEF CmdLine
<1>8. PhaseInv
  BY <1>1, <1>3, <1>4, <1>5, <1>6 DEF PhaseInv, ReadingInv, OnTheLine, Running, Before
<1>9. QED
  BY <1>1, <1>7, <1>8 DEF CompilerInv, SuccessMeansDone, SourcesKept

LEMMA ReadOptionKeeps ==
  ASSUME CompilerInv, ReadOption
  PROVE  CompilerInv'
<1>1. PICK x \in choice.options :
        /\ given' = given \cup {x} /\ opts' = Read(opts, x).set
        /\ IF Read(opts, x).ok THEN UNCHANGED <<phase, status>> ELSE Exit("usage")
  BY DEF ReadOption
<1>2. phase = "options" /\ UNCHANGED <<choice, disk>>
  BY DEF ReadOption
<1>3. x \in Options
  BY DEF CompilerInv, CmdLine
<1>4. ReadingInv /\ opts.sources \in Seq(Args) /\ disk = GivenFiles /\ status = "none"
  BY <1>2 DEF CompilerInv, PhaseInv, OnTheLine, Before
<1>5. CmdLine' /\ SourcesKept'
  BY <1>2, <1>4 DEF CompilerInv, CmdLine, SourcesKept
<1>6. CASE Read(opts, x).ok
  <2>1. phase' = "options" /\ status' = "none" /\ disk' = GivenFiles
    BY <1>1, <1>2, <1>4, <1>6
  <2>2. ReadingInv' /\ opts'.sources \in Seq(Args)
    BY <1>1, <1>3, <1>4, <1>6, ReadOptionInv
  <2>3. PhaseInv'
    BY <2>1, <2>2 DEF PhaseInv, OnTheLine, Running, Before
  <2>4. QED
    BY <1>5, <2>1, <2>3, NoSuccess DEF CompilerInv
<1>7. CASE ~Read(opts, x).ok
  <2>1. phase' = "exit" /\ status' = "usage"
    BY <1>1, <1>7 DEF Exit
  <2>2. PhaseInv'
    BY <2>1 DEF PhaseInv, OnTheLine, Running, Before
  <2>3. QED
    BY <1>5, <2>1, <2>2, NoSuccess DEF CompilerInv
<1>8. QED
  BY <1>6, <1>7

\* A file on the command line adds to the sources, which no option depends on.
LEMMA SourceAdded ==
  ASSUME ReadingInv, given' = given, NEW a \in FileNames,
         opts' = [opts EXCEPT !.sources = Append(opts.sources, a)]
            \/ \E s : opts' = [opts EXCEPT !.extra_libs = s]
  PROVE  ReadingInv'
<1> DEFINE l == Append(opts.sources, a)
<1>1. OptRecord(opts) /\ OptionsRead(opts) /\ NameRead(opts) /\ opts.exe_file = NoName
  BY DEF ReadingInv
<1>2. l \in Seq(FileNames)
  BY <1>1 DEF OptRecord
<1> HIDE DEF l
<1>3. PICK s : opts' = [opts EXCEPT !.sources = l] \/ opts' = [opts EXCEPT !.extra_libs = s]
  BY DEF l
<1>4. /\ DOMAIN opts' = DOMAIN opts
      /\ opts'.comp_mode = opts.comp_mode /\ opts'.link_mode = opts.link_mode
      /\ opts'.strip_mode = opts.strip_mode /\ opts'.dump_IR = opts.dump_IR
      /\ opts'.emit_llvm = opts.emit_llvm /\ opts'.run_program = opts.run_program
      /\ opts'.output_file = opts.output_file /\ opts'.exe_file = opts.exe_file
      /\ opts'.sources \in {opts.sources, l}
  BY <1>1, <1>3 DEF OptRecord
<1>5. OptRecord(opts)'
  BY <1>1, <1>2, <1>4 DEF OptRecord
<1>6. \A S : Given(S)' <=> Given(S)
  BY DEF Given
<1>7. OptionsRead(opts)' /\ NameRead(opts)'
  BY <1>1, <1>4, <1>6 DEF OptionsRead, NameRead
<1>8. QED
  BY <1>1, <1>4, <1>5, <1>7 DEF ReadingInv

LEMMA ReadArgumentKeeps ==
  ASSUME CompilerInv, ReadArgument
  PROVE  CompilerInv'
<1> DEFINE a == Head(choice.args)
           rest == Tail(choice.args)
<1>1. /\ OnTheLine /\ choice.args # << >> /\ choice' = [choice EXCEPT !.args = rest]
      /\ UNCHANGED <<given, disk>>
  BY DEF ReadArgument, OnTheLine
<1>2. /\ ReadingInv /\ opts.sources \in Seq(Args) /\ disk = GivenFiles /\ status = "none"
      /\ choice \in [options : SUBSET Options, args : Seq(Args)]
  BY <1>1 DEF CompilerInv, PhaseInv, OnTheLine, Before, CmdLine
<1>3. a \in Args /\ rest \in Seq(Args)
  BY <1>1, <1>2
<1>4. \/ opts' = [opts EXCEPT !.sources = Append(opts.sources, a)] /\ phase' = "arguments" /\ status' = status
      \/ opts' = [opts EXCEPT !.extra_libs = Append(opts.extra_libs, a)] /\ phase' = "arguments" /\ status' = status
      \/ phase' = "exit" /\ status' = "usage"
  BY DEF ReadArgument, Exit
<1> HIDE DEF a, rest
<1>5. CmdLine'
  BY <1>1, <1>2, <1>3 DEF CmdLine
<1>6. SourcesKept'
  BY <1>1, <1>2 DEF SourcesKept
<1>7. CASE phase' = "exit" /\ status' = "usage"
  <2>1. PhaseInv'
    BY <1>7 DEF PhaseInv, OnTheLine, Running, Before
  <2>2. QED
    BY <1>5, <1>6, <1>7, <2>1, NoSuccess DEF CompilerInv
<1>8. CASE ~(phase' = "exit" /\ status' = "usage")
  <2>1. phase' = "arguments" /\ status' = "none" /\ disk' = GivenFiles
    BY <1>1, <1>2, <1>4, <1>8
  <2>2. ReadingInv'
    <3>1. a \in FileNames
      BY <1>3, ArgsAreNames
    <3>2. opts' = [opts EXCEPT !.sources = Append(opts.sources, a)]
            \/ \E s : opts' = [opts EXCEPT !.extra_libs = s]
      BY <1>4, <1>8
    <3>3. QED
      BY <1>1, <1>2, <3>1, <3>2, SourceAdded
  <2>3. opts'.sources \in Seq(Args)
    <3> DEFINE l == Append(opts.sources, a)
    <3>1. l \in Seq(Args)
      BY <1>2, <1>3
    <3> HIDE DEF l
    <3>2. opts'.sources \in {opts.sources, l}
      BY <1>2, <1>4, <1>8 DEF l, ReadingInv, OptRecord
    <3>3. QED
      BY <1>2, <3>1, <3>2
  <2>4. PhaseInv'
    BY <2>1, <2>2, <2>3 DEF PhaseInv, OnTheLine, Running, Before
  <2>5. QED
    BY <1>5, <1>6, <2>1, <2>4, NoSuccess DEF CompilerInv
<1>9. QED
  BY <1>7, <1>8

LEMMA DecideKeeps ==
  ASSUME CompilerInv, Decide
  PROVE  CompilerInv'
<1>1. OnTheLine /\ UNCHANGED <<choice, given, disk>>
  BY DEF Decide, OnTheLine
<1>2. /\ ReadingInv /\ opts.sources \in Seq(Args) /\ disk = GivenFiles /\ status = "none"
      /\ CmdLine' /\ SourcesKept'
  BY <1>1 DEF CompilerInv, PhaseInv, OnTheLine, Before, CmdLine, SourcesKept
<1>3. \/ phase' = "exit" /\ status' = "usage"
      \/ phase' = "name" /\ status' = status
  BY DEF Decide, Exit
<1>4. CASE phase' = "exit" /\ status' = "usage"
  <2>1. PhaseInv'
    BY <1>4 DEF PhaseInv, OnTheLine, Running, Before
  <2>2. QED
    BY <1>2, <1>4, <2>1, NoSuccess DEF CompilerInv
<1>5. CASE phase' = "name" /\ status' = status
  <2>1. DecidedInv' /\ opts'.sources = opts.sources
    BY <1>2, <1>5, DecideInv
  <2>2. PhaseInv'
    BY <1>1, <1>2, <1>5, <2>1 DEF PhaseInv, OnTheLine, Running, Before
  <2>3. QED
    BY <1>2, <1>5, <2>2, NoSuccess DEF CompilerInv
<1>6. QED
  BY <1>3, <1>4, <1>5

LEMMA NameOutputKeeps ==
  ASSUME CompilerInv, NameOutput
  PROVE  CompilerInv'
<1>1. phase = "name" /\ UNCHANGED <<choice, given, disk>>
  BY DEF NameOutput
<1>2. /\ DecidedInv /\ opts.sources \in Seq(Args) /\ disk = GivenFiles /\ status = "none"
      /\ CmdLine' /\ SourcesKept'
  BY <1>1 DEF CompilerInv, PhaseInv, Before, CmdLine, SourcesKept
<1>3. \/ phase' = "exit" /\ status' = "usage"
      \/ phase' = "setup" /\ status' = status
  BY DEF NameOutput, Exit
<1>4. CASE phase' = "exit" /\ status' = "usage"
  <2>1. PhaseInv'
    BY <1>4 DEF PhaseInv, OnTheLine, Running, Before
  <2>2. QED
    BY <1>2, <1>4, <2>1, NoSuccess DEF CompilerInv
<1>5. CASE phase' = "setup" /\ status' = status
  <2>1. AskedInv'
    BY <1>2, <1>5, NamesNamed
  <2>2. PhaseInv'
    BY <1>1, <1>2, <1>5, <2>1 DEF PhaseInv, OnTheLine, Running, Before
  <2>3. QED
    BY <1>2, <1>5, <2>2, NoSuccess DEF CompilerInv
<1>6. QED
  BY <1>3, <1>4, <1>5

\* A step that leaves everything but the phase and the status alone.
LEMMA Untouched ==
  ASSUME CompilerInv, UNCHANGED <<opts, given, choice, disk>>
  PROVE  /\ CmdLine' /\ (PlainSources => SourcesKept')
         /\ Wrote' <=> Wrote
         /\ AskedInv => AskedInv'
         /\ \A w : Linked(w)' <=> Linked(w)
         /\ \A S : Given(S)' <=> Given(S)
<1>1. CmdLine'
  BY DEF CompilerInv, CmdLine
<1>2. PlainSources => SourcesKept'
  BY DEF CompilerInv, SourcesKept
<1>3. Wrote' <=> Wrote
  BY DEF Wrote, OnDisk, Is
<1>4. AskedInv => AskedInv'
  BY AskedKept
<1>5. \A w : Linked(w)' <=> Linked(w)
  BY DEF Linked, Is
<1>6. \A S : Given(S)' <=> Given(S)
  BY DEF Given
<1>7. QED
  BY <1>1, <1>2, <1>3, <1>4, <1>5, <1>6

LEMMA SetupKeeps ==
  ASSUME CompilerInv, Setup
  PROVE  CompilerInv'
<1>1. phase = "setup" /\ UNCHANGED <<opts, given, choice, disk>>
  BY DEF Setup
<1>2. AskedInv' /\ CmdLine' /\ (PlainSources => SourcesKept') /\ disk = GivenFiles /\ status = "none"
  BY <1>1, Untouched DEF CompilerInv, PhaseInv, Running, Before
<1>3. \/ phase' = "exit" /\ status' = "version"
      \/ phase' = "compile" /\ status' = status
  <2>1. CASE opts.show_version
    <3>1. Exit("version")
      BY <2>1 DEF Setup
    <3>2. QED
      BY <3>1 DEF Exit
  <2>2. CASE ~opts.show_version
    BY <2>2 DEF Setup
  <2>3. QED
    BY <2>1, <2>2
<1>4. PhaseInv'
  BY <1>1, <1>2, <1>3 DEF PhaseInv, OnTheLine, Running, Before
<1>5. QED
  BY <1>2, <1>3, <1>4, NoSuccess DEF CompilerInv

LEMMA CompiledKeeps ==
  ASSUME CompilerInv, Compiled
  PROVE  CompilerInv'
<1>1. phase = "compile" /\ UNCHANGED <<opts, given, choice, disk>>
  BY DEF Compiled
<1>2. AskedInv' /\ CmdLine' /\ (PlainSources => SourcesKept') /\ disk = GivenFiles /\ status = "none"
  BY <1>1, Untouched DEF CompilerInv, PhaseInv, Running, Before
<1>3. \/ phase' = "exit" /\ (status' # "0" \/ opts.comp_mode = "jit")
      \/ phase' = "write" /\ status' = status /\ opts.comp_mode # "jit"
  BY DEF Compiled, Exit
<1>4. PhaseInv'
  BY <1>1, <1>2, <1>3 DEF PhaseInv, OnTheLine, Running, Before
<1>5. SuccessMeansDone'
  BY <1>1, <1>2, <1>3 DEF SuccessMeansDone
<1>6. QED
  BY <1>2, <1>4, <1>5 DEF CompilerInv

LEMMA WriteKeeps ==
  ASSUME CompilerInv, Write
  PROVE  CompilerInv'
<1> DEFINE out == opts.output_file
<1>1. phase = "write" /\ UNCHANGED <<opts, given, choice>>
  BY DEF Write
<1>2. AskedInv /\ opts.comp_mode # "jit" /\ disk = GivenFiles /\ status = "none"
      /\ (PlainSources => SourcesKept) /\ CmdLine'
  BY <1>1 DEF CompilerInv, PhaseInv, Running, Before, CmdLine
<1>3. AskedInv'
  BY <1>1, <1>2, AskedKept
<1>4. \/ /\ Put(out, Written(opts)) /\ status' = status
         /\ phase' = IF opts.link_mode = "dont" THEN "strip" ELSE "link"
      \/ Put(out, "damaged") /\ phase' = "exit" /\ status' = "1"
      \/ disk' = disk /\ phase' = "exit" /\ status' = "1"
  BY DEF Write, Exit
<1>5. ASSUME PlainSources PROVE SourcesKept'
  <2>1. \A f \in GivenFiles : Spared(f) => f.name # out
    BY <1>2, <1>5 DEF AskedInv, NamesSpare
  <2>2. CASE \E w : Put(out, w)
    BY <1>1, <1>2, <1>5, <2>1, <2>2, SparedKept
  <2>3. CASE disk' = disk
    BY <1>1, <1>2, <1>5, <2>3 DEF SourcesKept
  <2>4. QED
    BY <1>4, <2>2, <2>3
<1>6. CASE phase' = "exit" /\ status' = "1"
  <2>1. PhaseInv'
    BY <1>6 DEF PhaseInv, OnTheLine, Running, Before
  <2>2. QED
    BY <1>2, <1>5, <1>6, <2>1, NoSuccess DEF CompilerInv
<1>7. CASE /\ Put(out, Written(opts)) /\ status' = status
           /\ phase' = IF opts.link_mode = "dont" THEN "strip" ELSE "link"
  <2>1. Written(opts) # "damaged"
    BY DEF Written
  <2>2. Wrote'
    <3>1. /\ [name |-> out, is |-> Written(opts)] \in disk'
          /\ [name |-> out, is |-> "damaged"] \notin disk'
      BY <1>7, <2>1, PutFacts
    <3>2. QED
      BY <1>1, <3>1 DEF Wrote, OnDisk, Is
  <2>3. opts.link_mode \in {"do", "dont"}
    BY <1>2 DEF AskedInv
  <2>4. (phase' = "link" => opts'.link_mode = "do") /\ (phase' = "strip" => opts'.link_mode = "dont")
    BY <1>1, <1>7, <2>3
  <2>5. PhaseInv'
    BY <1>1, <1>2, <1>3, <1>7, <2>2, <2>4 DEF PhaseInv, OnTheLine, Running, Before, Linked
  <2>6. QED
    BY <1>2, <1>5, <1>7, <2>5, NoSuccess DEF CompilerInv
<1>8. QED
  BY <1>4, <1>6, <1>7

\* Writing the program leaves the object alone: it has another name.
LEMMA ProgramPut ==
  ASSUME Wrote, opts' = opts, opts.exe_file # opts.output_file, NEW w, Put(opts.exe_file, w)
  PROVE  Wrote' /\ Linked(w)'
<1> DEFINE out == opts.output_file
           exe == opts.exe_file
<1>1. (\E f \in disk' : f.name = out) /\ [name |-> out, is |-> "damaged"] \notin disk'
  <2>1. PICK f \in disk : f.name = out
    BY DEF Wrote, OnDisk
  <2>2. f \in disk'
    BY <2>1, PutFacts
  <2>3. [name |-> out, is |-> "damaged"] \notin disk'
    BY PutFacts DEF Wrote, Is
  <2>4. QED
    BY <2>1, <2>2, <2>3
<1>2. [name |-> exe, is |-> w] \in disk'
  BY PutFacts
<1>3. QED
  BY <1>1, <1>2 DEF Wrote, OnDisk, Is, Linked

LEMMA LinkKeeps ==
  ASSUME CompilerInv, Link
  PROVE  CompilerInv'
<1> DEFINE exe == opts.exe_file
<1>1. phase = "link" /\ UNCHANGED <<opts, given, choice>>
  BY DEF Link
<1>2. AskedInv /\ opts.comp_mode # "jit" /\ Wrote /\ opts.link_mode = "do" /\ status = "none"
      /\ (PlainSources => SourcesKept) /\ CmdLine'
  BY <1>1 DEF CompilerInv, PhaseInv, Running, CmdLine
<1>3. AskedInv'
  BY <1>1, <1>2, AskedKept
<1>4. \/ Put(exe, "program") /\ phase' = "strip" /\ status' = status
      \/ disk' = disk /\ phase' = "exit" /\ status' = "1"
  BY DEF Link, Exit
<1>5. ASSUME PlainSources PROVE SourcesKept'
  <2>1. \A f \in GivenFiles : Spared(f) => f.name # exe
    BY <1>2, <1>5 DEF AskedInv, NamesSpare
  <2>2. CASE Put(exe, "program")
    BY <1>1, <1>2, <1>5, <2>1, <2>2, SparedKept
  <2>3. CASE disk' = disk
    BY <1>1, <1>2, <1>5, <2>3 DEF SourcesKept
  <2>4. QED
    BY <1>4, <2>2, <2>3
<1>6. CASE phase' = "exit" /\ status' = "1"
  <2>1. PhaseInv'
    BY <1>6 DEF PhaseInv, OnTheLine, Running, Before
  <2>2. QED
    BY <1>2, <1>5, <1>6, <2>1, NoSuccess DEF CompilerInv
<1>7. CASE Put(exe, "program") /\ phase' = "strip" /\ status' = status
  <2>1. Wrote' /\ Linked("program")'
    BY <1>1, <1>2, <1>7, ProgramPut DEF AskedInv
  <2>2. PhaseInv'
    BY <1>1, <1>2, <1>3, <1>7, <2>1 DEF PhaseInv, OnTheLine, Running, Before
  <2>3. QED
    BY <1>2, <1>5, <1>7, <2>2, NoSuccess DEF CompilerInv
<1>8. QED
  BY <1>4, <1>6, <1>7

LEMMA StripKeeps ==
  ASSUME CompilerInv, Strip
  PROVE  CompilerInv'
<1> DEFINE exe == opts.exe_file
<1>1. phase = "strip" /\ UNCHANGED <<opts, given, choice>>
  BY DEF Strip
<1>2. AskedInv /\ opts.comp_mode # "jit" /\ Wrote /\ Linked("program") /\ status = "none"
      /\ (PlainSources => SourcesKept) /\ CmdLine'
  BY <1>1 DEF CompilerInv, PhaseInv, Running, CmdLine
<1>3. AskedInv'
  BY <1>1, <1>2, AskedKept
<1>4. \/ /\ opts.strip_mode = "do" /\ exe # NoName /\ Put(exe, "stripped")
         /\ phase' = "run" /\ status' = status
      \/ disk' = disk /\ phase' = "exit" /\ status' = "1"
      \/ opts.strip_mode # "do" /\ disk' = disk /\ phase' = "run" /\ status' = status
  BY DEF Strip, Exit
<1>5. ASSUME PlainSources PROVE SourcesKept'
  <2>1. \A f \in GivenFiles : Spared(f) => f.name # exe
    BY <1>2, <1>5 DEF AskedInv, NamesSpare
  <2>2. CASE Put(exe, "stripped")
    BY <1>1, <1>2, <1>5, <2>1, <2>2, SparedKept
  <2>3. CASE disk' = disk
    BY <1>1, <1>2, <1>5, <2>3 DEF SourcesKept
  <2>4. QED
    BY <1>4, <2>2, <2>3
<1>6. CASE phase' = "exit" /\ status' = "1"
  <2>1. PhaseInv'
    BY <1>6 DEF PhaseInv, OnTheLine, Running, Before
  <2>2. QED
    BY <1>2, <1>5, <1>6, <2>1, NoSuccess DEF CompilerInv
<1>7. Given({"strip"})' <=> Given({"strip"})
  BY <1>1 DEF Given
<1>8. /\ opts.strip_mode = "do" => Given({"strip"})
      /\ opts.link_mode = "do" /\ Given({"strip"}) => opts.strip_mode = "do"
  BY <1>2 DEF AskedInv, Decided
<1>9. CASE /\ opts.strip_mode = "do" /\ exe # NoName /\ Put(exe, "stripped")
           /\ phase' = "run" /\ status' = status
  <2>1. opts.exe_file # opts.output_file
    BY <1>2, <1>9 DEF AskedInv
  <2>2. Wrote' /\ Linked("stripped")'
    BY <1>1, <1>2, <1>9, <2>1, ProgramPut
  <2>3. PhaseInv'
    BY <1>1, <1>2, <1>3, <1>7, <1>8, <1>9, <2>2 DEF PhaseInv, OnTheLine, Running, Before
  <2>4. QED
    BY <1>2, <1>5, <1>9, <2>3, NoSuccess DEF CompilerInv
<1>10. CASE opts.strip_mode # "do" /\ disk' = disk /\ phase' = "run" /\ status' = status
  <2>1. Wrote' /\ Linked("program")'
    BY <1>1, <1>2, <1>10 DEF Wrote, OnDisk, Is, Linked
  <2>2. Linked(IF Given({"strip"}) THEN "stripped" ELSE "program")'
    BY <1>1, <1>7, <1>8, <1>10, <2>1 DEF Linked
  <2>3. PhaseInv'
    BY <1>1, <1>2, <1>3, <1>10, <2>1, <2>2 DEF PhaseInv, OnTheLine, Running, Before
  <2>4. QED
    BY <1>2, <1>5, <1>10, <2>3, NoSuccess DEF CompilerInv
<1>11. QED
  BY <1>4, <1>6, <1>9, <1>10

LEMMA RunProgramKeeps ==
  ASSUME CompilerInv, RunProgram
  PROVE  CompilerInv'
<1>1. phase = "run" /\ UNCHANGED <<opts, given, choice, disk>> /\ phase' = "exit"
  BY DEF RunProgram, Exit
<1>2. AskedInv /\ Wrote /\ Linked(IF Given({"strip"}) THEN "stripped" ELSE "program")
  BY <1>1 DEF CompilerInv, PhaseInv, Running
<1>3. CmdLine' /\ (PlainSources => SourcesKept')
  BY <1>1, Untouched
<1>4. PhaseInv'
  BY <1>1 DEF PhaseInv, OnTheLine, Running, Before
<1>5. status' = "0" /\ Given({"r"}) => "run" \in made'
  <2>1. opts.run_program <=> Given({"r"})
    BY <1>2 DEF AskedInv, Decided
  <2>2. QED
    BY <2>1 DEF RunProgram, Exit
<1>6. \A S : Given(S)' <=> Given(S)
  BY <1>1 DEF Given
<1>7. SuccessMeansDone'
  BY <1>1, <1>2, <1>5, <1>6 DEF SuccessMeansDone, Wrote, Linked, OnDisk, Is
<1>8. QED
  BY <1>3, <1>4, <1>7 DEF CompilerInv

LEMMA NextInv == CompilerInv /\ [Next]_vars => CompilerInv'
<1> SUFFICES ASSUME CompilerInv, [Next]_vars PROVE CompilerInv'
  OBVIOUS
<1>1. CASE DriverStep
  BY <1>1, ReadOptionKeeps, ReadArgumentKeeps, DecideKeeps, NameOutputKeeps, WriteKeeps, LinkKeeps,
     StripKeeps, RunProgramKeeps DEF DriverStep
<1>2. CASE Setup
  BY <1>2, SetupKeeps
<1>3. CASE Compiled
  BY <1>3, CompiledKeeps
<1>4. CASE Compile \/ UNCHANGED vars
  <2>1. UNCHANGED driverVars
    BY <1>4 DEF Compile, vars
  <2>2. UNCHANGED <<phase, opts, given, choice, disk, made, status>>
    BY <2>1 DEF driverVars
  <2>3. PhaseInv'
    <3>1. phase' = phase /\ status' = status /\ disk' = disk /\ opts' = opts /\ given' = given
      BY <2>2
    <3>2. ReadingInv => ReadingInv'
      BY <3>1 DEF ReadingInv, OptRecord, OptionsRead, NameRead, Given
    <3>3. DecidedInv => DecidedInv'
      BY <3>1 DEF DecidedInv, OptRecord, Decided, NameRead, Given
    <3>4. (OnTheLine' <=> OnTheLine) /\ (Running' <=> Running) /\ (Before' <=> Before)
      BY <3>1 DEF OnTheLine, Running, Before
    <3>5. PhaseInv
      BY DEF CompilerInv
    <3>6. /\ (AskedInv => AskedInv') /\ (Wrote' <=> Wrote)
          /\ (\A w : Linked(w)' <=> Linked(w)) /\ (\A S : Given(S)' <=> Given(S))
      BY <2>2, Untouched
    <3>7. /\ Linked("program")' <=> Linked("program")
          /\ Linked(IF Given({"strip"}) THEN "stripped" ELSE "program")'
               <=> Linked(IF Given({"strip"}) THEN "stripped" ELSE "program")
      BY <3>1 DEF Linked, Is, Given
    <3>8. QED
      BY <3>1, <3>2, <3>3, <3>4, <3>5, <3>6, <3>7 DEF PhaseInv
  <2>4. SuccessMeansDone'
    BY <2>2 DEF CompilerInv, SuccessMeansDone, OnDisk, Is, Given
  <2>5. QED
    BY <2>2, <2>3, <2>4, Untouched DEF CompilerInv
<1>5. QED
  BY <1>1, <1>2, <1>3, <1>4 DEF Next

LEMMA SpecInv == Spec => []CompilerInv
<1>1. CompilerInv /\ [Next]_vars => CompilerInv'
  BY NextInv
<1>2. QED
  BY InitInv, <1>1, PTL DEF Spec

\* What is made and whether it is linked is a function of the set of options, for
\* any options in any number: main() reads them one after the other, each case
\* seeing what the earlier ones have set, and decides afterwards.
THEOREM OptionsInAnyOrder == Spec => []OrderDoesNotMatter
<1>1. CompilerInv => OrderDoesNotMatter
  <2> SUFFICES ASSUME CompilerInv, phase \in {"setup", "compile", "write", "link", "strip", "run"}
               PROVE  AskedInv /\ Decided(opts)
    BY DEF AskedInv, Decided, OrderDoesNotMatter
  <2>1. AskedInv
    BY DEF CompilerInv, PhaseInv, Running
  <2>2. QED
    BY <2>1 DEF AskedInv
<1>2. QED
  BY SpecInv, <1>1, PTL

\* Whatever fails, exit code 0 comes only with the object, the program and the run
\* that were asked for: the object is not overwritten by the program made of it.
THEOREM SuccessIsHonest == Spec => []SuccessMeansDone
<1>1. CompilerInv => SuccessMeansDone
  BY DEF CompilerInv
<1>2. QED
  BY SpecInv, <1>1, PTL

\* No name main() makes of the options and the sources is that of a source, if
\* no source is called like another with one more ".vx".
THEOREM FilesKept ==
  ASSUME PlainSources
  PROVE  Spec => []FilesAsAsked
<1>1. CompilerInv => FilesAsAsked
  BY DEF CompilerInv, FilesAsAsked
<1>2. QED
  BY SpecInv, <1>1, PTL

-----------------------------------------------------------------------------
(* Modules: where the statements of a program are generated.               *)

IsSeq(s) == \E S : s \in Seq(S)

LoaderFields == {"module", "input", "line", "rest", "as", "from", "source_stack", "modulestack",
                 "source_files", "source_index", "Modules", "symbols", "ImportedSymbols",
                 "GlobalExprList", "body", "last_defined_type", "finished", "typed", "have_return",
                 "state"}

\* The statements read but not generated yet are of the module that is open; in
\* a session nothing is put off.
HomeInv(L) ==
  /\ DOMAIN L = LoaderFields
  /\ IsSeq(L.body) /\ IsSeq(L.GlobalExprList)
  /\ \A i \in 1..Len(L.body) : L.body[i].of.own = L.body[i].in
  /\ ~mode.repl => \A i \in 1..Len(L.GlobalExprList) : L.GlobalExprList[i].own = L.module

\* Nothing this is about has changed.
SameHome(M, L) ==
  /\ DOMAIN M = DOMAIN L
  /\ M.module = L.module /\ M.GlobalExprList = L.GlobalExprList /\ M.body = L.body

LEMMA HomeKept ==
  ASSUME NEW L, NEW M, HomeInv(L), SameHome(M, L)
  PROVE  HomeInv(M)
BY DEF HomeInv, SameHome

LEMMA Longer ==
  ASSUME NEW s, IsSeq(s), NEW e
  PROVE  /\ IsSeq(Append(s, e)) /\ Len(Append(s, e)) = Len(s) + 1 /\ Len(s) \in Nat
         /\ Append(s, e)[Len(s) + 1] = e
         /\ \A i \in 1..Len(s) : Append(s, e)[i] = s[i]
<1>1. PICK S : s \in Seq(S)
  BY DEF IsSeq
<1> DEFINE T == S \cup {e}
<1>2. s \in Seq(T) /\ e \in T
  BY <1>1
<1> HIDE DEF T
<1>3. Append(s, e) \in Seq(T)
  BY <1>2
<1>4. QED
  BY <1>2, <1>3 DEF IsSeq

LEMMA Joined ==
  ASSUME NEW s, IsSeq(s), NEW t, IsSeq(t)
  PROVE  /\ IsSeq(s \o t) /\ Len(s \o t) = Len(s) + Len(t) /\ Len(s) \in Nat /\ Len(t) \in Nat
         /\ \A i \in 1..Len(s) : (s \o t)[i] = s[i]
         /\ \A i \in 1..Len(t) : (s \o t)[Len(s) + i] = t[i]
<1>1. PICK S, R : s \in Seq(S) /\ t \in Seq(R)
  BY DEF IsSeq
<1> DEFINE T == S \cup R
<1>2. s \in Seq(T) /\ t \in Seq(T)
  BY <1>1
<1> HIDE DEF T
<1>3. s \o t \in Seq(T)
  BY <1>2
<1>4. QED
  BY <1>2, <1>3 DEF IsSeq

\* process_body() generates all statements of this module.
LEMMA ProcessBody ==
  ASSUME NEW L, HomeInv(L)
  PROVE  LET M == process_body(L) IN
         /\ HomeInv(M) /\ M.module = L.module
         /\ ~mode.repl /\ M.state # "error" => M.GlobalExprList = << >>
<1> DEFINE new == [i \in 1..Len(L.GlobalExprList) |-> [of |-> L.GlobalExprList[i], in |-> L.module]]
           bad == \E i \in 1..Len(L.GlobalExprList) : ~L.GlobalExprList[i].ok
           grown == L.body \o new
           M == process_body(L)
<1>0. DOMAIN L = LoaderFields /\ IsSeq(L.body) /\ IsSeq(L.GlobalExprList)
  BY DEF HomeInv
<1>1. CASE mode.repl
  BY <1>1 DEF process_body
<1>2. CASE ~mode.repl /\ bad
  <2>1. M = [L EXCEPT !.state = "error"]
    BY <1>2 DEF process_body, Failed
  <2>2. SameHome(M, L) /\ M.state = "error"
    BY <1>0, <2>1 DEF SameHome, LoaderFields
  <2>3. HomeInv(M)
    BY <2>2, HomeKept
  <2>4. QED
    BY <2>2, <2>3 DEF SameHome
<1>3. CASE ~mode.repl /\ ~bad
  <2>1. M = [L EXCEPT !.body = grown, !.GlobalExprList = << >>]
    BY <1>3 DEF process_body
  <2>2. IsSeq(new) /\ Len(new) = Len(L.GlobalExprList)
        /\ \A i \in 1..Len(new) : new[i].of.own = new[i].in
    <3>1. Len(L.GlobalExprList) \in Nat
      BY <1>0 DEF IsSeq
    <3>2. \A i \in 1..Len(L.GlobalExprList) : L.GlobalExprList[i].own = L.module
      BY <1>3 DEF HomeInv
    <3> DEFINE S == {[of |-> L.GlobalExprList[i], in |-> L.module] : i \in 1..Len(L.GlobalExprList)}
    <3>3. \A i \in 1..Len(L.GlobalExprList) : new[i] \in S
      OBVIOUS
    <3>4. new \in [1..Len(L.GlobalExprList) -> S]
      BY <3>3
    <3> HIDE DEF S
    <3>5. new \in Seq(S) /\ Len(new) = Len(L.GlobalExprList)
      BY <3>1, <3>4
    <3>6. \A i \in 1..Len(L.GlobalExprList) :
            new[i].of = L.GlobalExprList[i] /\ new[i].in = L.module
      OBVIOUS
    <3>7. QED
      BY <3>2, <3>5, <3>6 DEF IsSeq
  <2> HIDE DEF new, M
  <2>3. /\ IsSeq(grown)
        /\ \A i \in 1..Len(grown) : grown[i].of.own = grown[i].in
    <3>1. /\ IsSeq(grown) /\ Len(grown) = Len(L.body) + Len(new) /\ Len(L.body) \in Nat /\ Len(new) \in Nat
          /\ \A i \in 1..Len(L.body) : grown[i] = L.body[i]
          /\ \A i \in 1..Len(new) : grown[Len(L.body) + i] = new[i]
      <4>1. IsSeq(L.body) /\ IsSeq(new)
        BY <1>0, <2>2
      <4>2. QED
        BY <4>1, Joined
    <3>2. \A i \in 1..Len(L.body) : L.body[i].of.own = L.body[i].in
      BY DEF HomeInv
    <3> HIDE DEF grown
    <3>3. ASSUME NEW i \in 1..Len(grown) PROVE grown[i].of.own = grown[i].in
      <4>1. CASE i \in 1..Len(L.body)
        BY <3>1, <3>2, <4>1
      <4>2. CASE i \notin 1..Len(L.body)
        <5>1. i - Len(L.body) \in 1..Len(new) /\ Len(L.body) + (i - Len(L.body)) = i
          BY <3>1, <4>2
        <5>2. grown[i] = new[i - Len(L.body)]
          BY <3>1, <5>1
        <5>3. QED
          BY <2>2, <5>1, <5>2
      <4>3. QED
        BY <4>1, <4>2
    <3>4. QED
      BY <3>1, <3>3
  <2> HIDE DEF grown
  <2>4. DOMAIN M = LoaderFields /\ M.body = grown /\ M.GlobalExprList = << >> /\ M.module = L.module
    BY <1>0, <2>1 DEF LoaderFields
  <2>5. IsSeq(<< >>) /\ Len(<< >>) = 0
    BY DEF IsSeq
  <2>6. HomeInv(M)
    BY <2>3, <2>4, <2>5 DEF HomeInv
  <2>7. QED
    BY <2>4, <2>6 DEF M
<1>4. QED
  BY <1>1, <1>2, <1>3

LEMMA ImportHome ==
  ASSUME NEW L, NEW m, HomeInv(L)
  PROVE  HomeInv(import_from_module(L, m))
<1> DEFINE imps == [L.ImportedSymbols EXCEPT ![L.module] =
                      IF L.from = {} THEN @ \cup {[prefix |-> L.as, name |-> "", mod |-> m, kind |-> "prefix"]} ELSE @]
           prefixed == [L EXCEPT !.ImportedSymbols = imps]
           pubs == [prefixed.symbols EXCEPT ![m] = Public(@)]
           erased == [prefixed EXCEPT !.symbols = pubs]
           brought == [erased.ImportedSymbols EXCEPT ![L.module] = @ \cup Brought(erased, m)]
           M == [erased EXCEPT !.ImportedSymbols = brought]
<1>1. import_from_module(L, m) \in {L, M}
  BY DEF import_from_module
<1>2. DOMAIN L = LoaderFields
  BY DEF HomeInv
<1> HIDE DEF imps, pubs, brought
<1>3. SameHome(M, L)
  BY <1>2 DEF SameHome, LoaderFields
<1> HIDE DEF M
<1>4. QED
  BY <1>1, <1>3, HomeKept

LEMMA MovedHome ==
  ASSUME NEW L, NEW M, HomeInv(L), ~mode.repl => L.GlobalExprList = << >>,
         DOMAIN M = DOMAIN L, M.GlobalExprList = L.GlobalExprList, M.body = L.body
  PROVE  HomeInv(M)
<1>1. Len(<< >>) = 0
  OBVIOUS
<1>2. QED
  BY <1>1 DEF HomeInv

LEMMA FailedHome ==
  ASSUME NEW L, HomeInv(L)
  PROVE  HomeInv(Failed(L))
<1>1. SameHome(Failed(L), L)
  BY DEF Failed, SameHome, HomeInv, LoaderFields
<1>2. QED
  BY <1>1, HomeKept

LEMMA PopHome ==
  ASSUME NEW L, HomeInv(L)
  PROVE  HomeInv(pop_state(L))
<1> DEFINE done == process_body(L)
           back == Top(L.source_stack)
           M == [done EXCEPT !.module = back.module, !.input = back.input, !.line = back.line,
                             !.rest = back.rest, !.as = back.as, !.from = back.from,
                             !.source_stack = Pop(done.source_stack), !.source_files = Pop(done.source_files),
                             !.source_index = Pop(done.source_index), !.modulestack = Pop(done.modulestack)]
<1>1. HomeInv(done) /\ (~mode.repl /\ done.state # "error" => done.GlobalExprList = << >>)
  BY ProcessBody
<1>2. pop_state(L) = IF done.state = "error" THEN done ELSE import_from_module(M, L.module)
  BY DEF pop_state
<1> HIDE DEF done, back
<1>3. DOMAIN M = DOMAIN done /\ M.GlobalExprList = done.GlobalExprList /\ M.body = done.body
  BY <1>1 DEF HomeInv, LoaderFields
<1> HIDE DEF M
<1>4. ASSUME done.state # "error" PROVE HomeInv(M)
  BY <1>1, <1>3, <1>4, MovedHome
<1>5. QED
  BY <1>1, <1>2, <1>4, ImportHome

LEMMA OpenedHome ==
  ASSUME NEW L, NEW f, HomeInv(L)
  PROVE  HomeInv(Opened(L, f))
<1> DEFINE at == IF f = Stdin THEN L.typed ELSE 0
           M == [L EXCEPT !.input = f, !.line = at, !.rest = << >>]
<1>1. Opened(L, f) \in {M, Failed(L)}
  BY DEF Opened
<1> HIDE DEF at
<1>2. SameHome(M, L)
  BY DEF SameHome, HomeInv, LoaderFields
<1> HIDE DEF M
<1>3. QED
  BY <1>1, <1>2, HomeKept, FailedHome

LEMMA OpenNextHome ==
  ASSUME NEW L, HomeInv(L)
  PROVE  HomeInv(OpenNext(L))
<1> DEFINE n == Top(L.source_index)
           index == [L.source_index EXCEPT ![Len(L.source_index)] = n + 1]
           M == [L EXCEPT !.source_index = index]
           E == [L EXCEPT !.state = "eof"]
           file == Top(L.source_files)[n + 1]
<1>1. OpenNext(L) \in {Opened(M, file), pop_state(L), Opened(L, Stdin), E}
  BY DEF OpenNext
<1> HIDE DEF index, file, n
<1>2. SameHome(M, L) /\ SameHome(E, L)
  BY DEF SameHome, HomeInv, LoaderFields
<1> HIDE DEF M, E
<1>3. QED
  BY <1>1, <1>2, HomeKept, PopHome, OpenedHome

LEMMA PushHome ==
  ASSUME NEW L, HomeInv(L), NEW path, NEW as, NEW from
  PROVE  HomeInv(push_state(L, path, as, from))
<1> DEFINE done == process_body(L)
           skipped == [done EXCEPT !.rest = << >>]
           this == [done EXCEPT !.as = as, !.from = from]
           files == program.glob[path]
           new == Pushed(this, path, files)
<1>1. HomeInv(done) /\ (~mode.repl /\ done.state # "error" => done.GlobalExprList = << >>)
  BY ProcessBody
<1>2. push_state(L, path, as, from) \in
        {done, skipped, import_from_module(this, path)}
        \cup IF done.state = "error" THEN {} ELSE {OpenNext(new)}
  BY DEF push_state
<1> HIDE DEF done, files
<1>3. SameHome(skipped, done) /\ SameHome(this, done)
  BY <1>1 DEF SameHome, HomeInv, LoaderFields
<1> HIDE DEF skipped, this
<1>4. HomeInv(skipped) /\ HomeInv(this)
  BY <1>1, <1>3, HomeKept
<1>5. DOMAIN new = DOMAIN this /\ new.GlobalExprList = this.GlobalExprList /\ new.body = this.body
  <2> DEFINE S1 == IF path = << >> THEN this.source_files ELSE Append(this.source_files, files)
             S2 == IF path = << >> THEN this.source_index ELSE Append(this.source_index, 0)
             S3 == Append(this.source_stack, Paused(this))
             S4 == Append(this.modulestack, path)
             S5 == this.Modules \cup {path}
  <2>1. new = [this EXCEPT !.source_stack = S3, !.modulestack = S4, !.Modules = S5, !.module = path,
                           !.input = NoFile, !.line = 0, !.rest = << >>, !.as = "", !.from = {},
                           !.source_files = S1, !.source_index = S2]
    BY DEF Pushed
  <2> HIDE DEF S1, S2, S3, S4, S5, new
  <2>2. QED
    BY <1>4, <2>1 DEF HomeInv, LoaderFields
<1> HIDE DEF new
<1>6. ASSUME done.state # "error" PROVE HomeInv(new)
  <2>1. ~mode.repl => this.GlobalExprList = << >>
    BY <1>1, <1>3, <1>6 DEF SameHome
  <2>2. QED
    BY <1>4, <1>5, <2>1, MovedHome
<1>7. QED
  BY <1>1, <1>2, <1>4, <1>6, ImportHome, OpenNextHome

\* A statement that is put off is one of the module that is open.
LEMMA PutOff ==
  ASSUME NEW L, HomeInv(L), NEW e, e.own = L.module, NEW M,
         DOMAIN M = DOMAIN L, M.module = L.module, M.body = L.body,
         M.GlobalExprList = Append(L.GlobalExprList, e)
  PROVE  HomeInv(M)
<1> DEFINE s == L.GlobalExprList
           l == Append(s, e)
<1>1. /\ IsSeq(l) /\ Len(l) = Len(s) + 1 /\ Len(s) \in Nat /\ l[Len(s) + 1] = e
      /\ \A i \in 1..Len(s) : l[i] = s[i]
  BY Longer DEF HomeInv
<1> HIDE DEF l
<1>2. ~mode.repl => \A i \in 1..Len(l) : l[i].own = L.module
  BY <1>1 DEF HomeInv
<1>3. M.GlobalExprList = l
  BY DEF l
<1>4. QED
  BY <1>1, <1>2, <1>3 DEF HomeInv

LEMMA NextFileHome ==
  ASSUME NEW L, HomeInv(L)
  PROVE  HomeInv(next_input_file(L))
<1> DEFINE fresh == [L EXCEPT !.last_defined_type = NoType]
           e == Entry(fresh, TRUE)
           l == Append(fresh.GlobalExprList, e)
           console == [fresh EXCEPT !.GlobalExprList = l]
           first == IF mode.jit THEN fresh ELSE console
<1>1. next_input_file(L) = IF L.input = BuiltinFile THEN push_state(first, << >>, "", {}) ELSE OpenNext(fresh)
  BY DEF next_input_file
<1>2. SameHome(fresh, L)
  BY DEF SameHome, HomeInv, LoaderFields
<1> HIDE DEF fresh
<1>3. HomeInv(fresh)
  BY <1>2, HomeKept
<1>4. e.own = fresh.module
  BY DEF Entry
<1> HIDE DEF e
<1>5. DOMAIN console = DOMAIN fresh /\ console.module = fresh.module /\ console.body = fresh.body
      /\ console.GlobalExprList = Append(fresh.GlobalExprList, e)
  BY <1>3 DEF HomeInv, LoaderFields
<1> HIDE DEF l, console
<1>6. HomeInv(console)
  BY <1>3, <1>4, <1>5, PutOff
<1>7. HomeInv(first)
  BY <1>3, <1>6
<1> HIDE DEF first
<1>8. QED
  BY <1>1, <1>3, <1>7, PushHome, OpenNextHome

\* A statement that is collected is generated at once or put off.
LEMMA CollectHome ==
  ASSUME NEW L, HomeInv(L), L.module = ld.module, NEW ok
  PROVE  HomeInv(Collect(L, ok))
<1> DEFINE e == Entry(ld, ok)
           list == Append(L.GlobalExprList, e)
           ran == Append(L.body, [of |-> e, in |-> L.module])
           state == IF L.have_return THEN "returned" ELSE L.state
           A == [L EXCEPT !.GlobalExprList = list, !.state = state]
           B == [L EXCEPT !.body = ran]
           C == [L EXCEPT !.rest = << >>]
<1>0. DOMAIN L = LoaderFields /\ e.own = L.module
  BY DEF HomeInv, Entry
<1>1. Collect(L, ok) \in {A, B, C}
  BY DEF Collect, purgeLine
<1> HIDE DEF e, state
<1>2. HomeInv(A)
  <2> HIDE DEF list
  <2>1. DOMAIN A = DOMAIN L /\ A.module = L.module /\ A.body = L.body /\ A.GlobalExprList = list
    BY <1>0 DEF LoaderFields
  <2> HIDE DEF A
  <2>2. QED
    BY <1>0, <2>1, PutOff DEF list
<1>3. HomeInv(B)
  <2>1. /\ IsSeq(ran) /\ Len(ran) = Len(L.body) + 1 /\ Len(L.body) \in Nat
        /\ ran[Len(L.body) + 1] = [of |-> e, in |-> L.module]
        /\ \A i \in 1..Len(L.body) : ran[i] = L.body[i]
    BY Longer DEF HomeInv
  <2> HIDE DEF ran
  <2>2. \A i \in 1..Len(ran) : ran[i].of.own = ran[i].in
    BY <1>0, <2>1 DEF HomeInv
  <2>3. /\ DOMAIN B = DOMAIN L /\ B.module = L.module /\ B.body = ran
        /\ B.GlobalExprList = L.GlobalExprList
    BY <1>0 DEF LoaderFields
  <2> HIDE DEF B
  <2>4. QED
    BY <2>1, <2>2, <2>3 DEF HomeInv
<1>4. HomeInv(C)
  <2>1. SameHome(C, L)
    BY <1>0 DEF SameHome, LoaderFields
  <2>2. QED
    BY <2>1, HomeKept DEF C
<1>5. QED
  BY <1>1, <1>2, <1>3, <1>4

\* Dropping the rest of the line, or declaring a name, leaves the lists alone.
LEMMA PurgedHome ==
  ASSUME NEW L, HomeInv(L)
  PROVE  HomeInv(purgeLine(L)) /\ purgeLine(L).module = L.module
<1>1. SameHome(purgeLine(L), L)
  BY DEF purgeLine, SameHome, HomeInv, LoaderFields
<1>2. QED
  BY <1>1, HomeKept DEF SameHome

LEMMA DeclaredHome ==
  ASSUME NEW L, HomeInv(L), NEW kind, NEW name, NEW pub
  PROVE  HomeInv(Declared(L, kind, name, pub)) /\ Declared(L, kind, name, pub).module = L.module
<1> DEFINE syms == [L.symbols EXCEPT ![L.module] = @ \cup {[kind |-> kind, name |-> name, pub |-> pub]}]
           M == [L EXCEPT !.symbols = syms]
<1>1. Declared(L, kind, name, pub) = M
  BY DEF Declared
<1> HIDE DEF syms
<1>2. SameHome(M, L)
  BY DEF SameHome, HomeInv, LoaderFields
<1> HIDE DEF M
<1>3. QED
  BY <1>1, <1>2, HomeKept DEF SameHome

LEMMA StateHome ==
  ASSUME NEW L, HomeInv(L), NEW s
  PROVE  LET M == [L EXCEPT !.state = s] IN HomeInv(M) /\ M.module = L.module
<1>1. SameHome([L EXCEPT !.state = s], L)
  BY DEF SameHome, HomeInv, LoaderFields
<1>2. QED
  BY <1>1, HomeKept DEF SameHome

LEMMA StartHome ==
  ASSUME HomeInv(ld)
  PROVE  HomeInv(Next1) /\ Next1.module = ld.module /\ HomeInv(Start) /\ Start.module = ld.module
<1> DEFINE tail == Tail(ld.rest)
           n == [ld EXCEPT !.rest = tail]
<1>1. Next1 = n
  BY DEF Next1
<1> HIDE DEF tail
<1>2. SameHome(n, ld)
  BY DEF SameHome, HomeInv, LoaderFields
<1> HIDE DEF n
<1>3. HomeInv(n) /\ n.module = ld.module
  BY <1>2, HomeKept DEF SameHome
<1> DEFINE fin == n.finished \cup {<<n.module, n.last_defined_type>>}
           M == [n EXCEPT !.finished = fin, !.last_defined_type = NoType]
<1>4. Start \in {n, M}
  BY <1>1 DEF Start, finish_constructors_and_destructor
<1> HIDE DEF fin
<1>5. SameHome(M, n)
  BY <1>3 DEF SameHome, HomeInv, LoaderFields
<1> HIDE DEF M
<1>6. HomeInv(M) /\ M.module = ld.module
  BY <1>3, <1>5, HomeKept DEF SameHome
<1>7. QED
  BY <1>1, <1>3, <1>4, <1>6

LEMMA StatementHome ==
  ASSUME HomeInv(ld), Statement, UNCHANGED mode
  PROVE  HomeInv(ld')
<1>0. HomeInv(Next1) /\ Next1.module = ld.module /\ HomeInv(Start) /\ Start.module = ld.module
  BY StartHome
<1>1. CASE Expression
  BY <1>0, <1>1, CollectHome DEF Expression
<1>2. CASE Use
  <2>1. ld' \in {Collect(Start, TRUE), purgeLine(Start)}
    BY <1>2 DEF Use
  <2>2. QED
    BY <1>0, <2>1, CollectHome, PurgedHome
<1>3. CASE SyntaxError
  BY <1>0, <1>3, PurgedHome DEF SyntaxError
<1>4. CASE Return
  <2> DEFINE have == Start.have_return \/ ~mode.repl \/ (This.value /\ mode.jit)
             returned == [Start EXCEPT !.have_return = have]
             C == Collect(returned, TRUE)
             s == IF returned.have_return THEN "returned" ELSE C.state
  <2>1. ld' \in {[C EXCEPT !.state = s], purgeLine(returned)}
    BY <1>4 DEF Return
  <2> HIDE DEF have
  <2>2. SameHome(returned, Start)
    BY <1>0 DEF SameHome, HomeInv, LoaderFields
  <2> HIDE DEF returned
  <2>3. HomeInv(returned) /\ returned.module = ld.module
    BY <1>0, <2>2, HomeKept DEF SameHome
  <2>4. HomeInv(C)
    BY <2>3, CollectHome
  <2> HIDE DEF C, s
  <2>5. QED
    BY <2>1, <2>3, <2>4, PurgedHome, StateHome
<1>5. CASE Global
  <2> DEFINE D == Declared(Start, "var", This.name, This.pub)
             C == Collect(D, TRUE)
             R == [C EXCEPT !.state = "reading"]
  <2>1. ld' \in {Collect(Start, TRUE), purgeLine(Start), purgeLine(R)}
    BY <1>5 DEF Global
  <2>2. HomeInv(D) /\ D.module = ld.module
    BY <1>0, DeclaredHome
  <2> HIDE DEF D
  <2>3. HomeInv(C)
    BY <2>2, CollectHome
  <2> HIDE DEF C
  <2>4. HomeInv(R)
    BY <2>3, StateHome
  <2>5. QED
    BY <1>0, <2>1, <2>4, CollectHome, PurgedHome
<1>6. CASE HandleDefinition
  <2> DEFINE D == Declared(Start, "fn", This.name, This.pub)
             C == Collect(D, TRUE)
             R == [C EXCEPT !.state = "reading"]
  <2>1. ld' \in {Next1, R, D}
    BY <1>6 DEF HandleDefinition
  <2>2. HomeInv(D) /\ D.module = ld.module
    BY <1>0, DeclaredHome
  <2> HIDE DEF D
  <2>3. HomeInv(C)
    BY <2>2, CollectHome
  <2> HIDE DEF C
  <2>4. HomeInv(R)
    BY <2>3, StateHome
  <2>5. QED
    BY <1>0, <2>1, <2>2, <2>4
<1>7. CASE HandleMethod
  BY <1>0, <1>7 DEF HandleMethod
<1>8. CASE HandleExtern
  <2>1. ld' \in {purgeLine(Next1), Declared(Next1, "fn", This.name, TRUE)}
    BY <1>8 DEF HandleExtern
  <2>2. QED
    BY <1>0, <2>1, DeclaredHome, PurgedHome
<1>9. CASE HandleTypeDef
  <2> DEFINE D == Declared(Start, "type", This.name, TRUE)
             R == [D EXCEPT !.last_defined_type = This.name]
  <2>1. ld' \in {purgeLine(Start), R}
    BY <1>9 DEF HandleTypeDef
  <2>2. HomeInv(D)
    BY <1>0, DeclaredHome
  <2> HIDE DEF D
  <2>3. SameHome(R, D)
    BY <2>2 DEF SameHome, HomeInv, LoaderFields
  <2> HIDE DEF R
  <2>4. QED
    BY <1>0, <2>1, <2>2, <2>3, PurgedHome, HomeKept
<1>10. CASE HandleImport
  <2>1. ld' \in {purgeLine(Start), push_state(Start, Resolved(This), Prefix(This), This.from)}
    BY <1>10 DEF HandleImport
  <2>2. QED
    BY <1>0, <2>1, PurgedHome, PushHome
<1>11. CASE Load
  <2> DEFINE ran == Collect(Start, TRUE)
             files == [ran.source_files EXCEPT ![Len(ld.source_files)] = Append(@, This.name)]
             M == [ran EXCEPT !.last_defined_type = NoType, !.source_files = files]
  <2>1. ld' \in {ran, OpenNext(M)}
    BY <1>11 DEF Load
  <2>2. HomeInv(ran)
    BY <1>0, CollectHome
  <2> HIDE DEF ran, files
  <2>3. SameHome(M, ran)
    BY <2>2 DEF SameHome, HomeInv, LoaderFields
  <2> HIDE DEF M
  <2>4. QED
    BY <2>1, <2>2, <2>3, HomeKept, OpenNextHome
<1>12. QED
  BY <1>1, <1>2, <1>3, <1>4, <1>5, <1>6, <1>7, <1>8, <1>9, <1>10, <1>11 DEF Statement

LEMMA LoadStepHome ==
  ASSUME HomeInv(ld), LoadStep
  PROVE  HomeInv(ld')
<1>0. UNCHANGED mode
  BY DEF LoadStep
<1>1. CASE Statement
  BY <1>0, <1>1, StatementHome
<1>2. CASE NextLine
  <2> DEFINE at == ld.line + 1
             rest == Lines(ld.input)[ld.line + 1]
             typed == IF ld.input = Stdin THEN ld.typed + 1 ELSE ld.typed
             M == [ld EXCEPT !.line = at, !.rest = rest, !.typed = typed]
  <2>1. ld' = M
    BY <1>2 DEF NextLine
  <2> HIDE DEF at, rest, typed
  <2>2. SameHome(M, ld)
    BY DEF SameHome, HomeInv, LoaderFields
  <2> HIDE DEF M
  <2>3. QED
    BY <2>1, <2>2, HomeKept
<1>3. CASE fdgetline
  BY <1>3, NextFileHome, PurgedHome DEF fdgetline
<1>4. CASE FinishMain
  <2> DEFINE e == Entry(ld, TRUE)
             V == [ld EXCEPT !.GlobalExprList = Append(@, e)]
             value == IF mode.test \/ ~ld.have_return THEN V ELSE ld
             done == process_body(value)
             D == [done EXCEPT !.state = "done"]
             S == [ld EXCEPT !.state = "done"]
  <2>1. ld' \in {S, Failed(ld), D}
    BY <1>4 DEF FinishMain
  <2>2. e.own = ld.module
    BY DEF Entry
  <2> HIDE DEF e
  <2>3. DOMAIN V = DOMAIN ld /\ V.module = ld.module /\ V.body = ld.body
        /\ V.GlobalExprList = Append(ld.GlobalExprList, e)
    BY DEF HomeInv, LoaderFields
  <2> HIDE DEF V
  <2>4. HomeInv(V)
    BY <2>2, <2>3, PutOff
  <2>5. HomeInv(value)
    BY <2>4
  <2> HIDE DEF value
  <2>6. HomeInv(done)
    BY <2>5, ProcessBody
  <2> HIDE DEF done
  <2>7. HomeInv(D) /\ HomeInv(S)
    BY <2>6, StateHome
  <2>8. QED
    BY <2>1, <2>7, FailedHome
<1>5. QED
  BY <1>1, <1>2, <1>3, <1>4 DEF LoadStep

LEMMA LoaderInitHome ==
  ASSUME NEW p
  PROVE  /\ DOMAIN LoaderInit(p) = LoaderFields
         /\ LoaderInit(p).body = << >> /\ LoaderInit(p).GlobalExprList = << >>
BY DEF LoaderInit, LoaderFields

\* Every statement of main is generated with the module open that it is written
\* in, however imports nest: each change of the module generates what was read
\* before it.
THEOREM StatementsStayHome == Spec => []GeneratedInOwnModule
<1> DEFINE I == HomeInv(ld)
<1>1. Init => I
  <2>1. Len(<< >>) = 0 /\ IsSeq(<< >>)
    BY DEF IsSeq
  <2>2. QED
    BY <2>1, LoaderInitHome DEF Init, HomeInv
<1>2. I /\ [Next]_vars => I'
  <2> SUFFICES ASSUME I, [Next]_vars PROVE I'
    OBVIOUS
  <2>1. CASE Compile
    <3>1. HomeInv(ld') /\ UNCHANGED mode
      BY <2>1, LoadStepHome DEF Compile, LoadStep
    <3>2. QED
      BY <3>1 DEF HomeInv
  <2>2. CASE Setup /\ ~opts.show_version
    <3>1. ld' = LoaderInit(program')
      BY <2>2 DEF Setup
    <3>2. Len(<< >>) = 0 /\ IsSeq(<< >>)
      BY DEF IsSeq
    <3>3. QED
      BY <3>1, <3>2, LoaderInitHome DEF HomeInv
  <2>3. CASE UNCHANGED loaderVars
    <3>1. ld' = ld /\ mode' = mode
      BY <2>3 DEF loaderVars
    <3>2. QED
      BY <3>1 DEF HomeInv
  <2>4. Setup /\ opts.show_version => UNCHANGED loaderVars
    BY DEF Setup
  <2>5. Compiled \/ DriverStep \/ UNCHANGED vars => UNCHANGED loaderVars
    BY DEF Compiled, DriverStep, vars
  <2>6. QED
    BY <2>1, <2>2, <2>3, <2>4, <2>5 DEF Next
<1>3. I => GeneratedInOwnModule
  BY DEF HomeInv, GeneratedInOwnModule
<1>4. QED
  BY <1>1, <1>2, <1>3, PTL DEF Spec

-----------------------------------------------------------------------------
(* Modules: what one sees of another.                                      *)

\* The open modules are one within the other, each once, and were all recorded. The
\* context a module was imported from is that of the module below it.
StackOk(stack, paused, module, Modules) ==
  /\ IsSeq(stack) /\ IsSeq(paused) /\ Len(paused) = Len(stack)
  /\ module = IF Len(stack) = 0 THEN Builtin ELSE stack[Len(stack)]
  /\ \A i \in 1..Len(stack) : stack[i] \in Paths /\ stack[i] \in Modules
  /\ \A i, j \in 1..Len(stack) : stack[i] = stack[j] => i = j
  /\ \A i \in 2..Len(stack) : paused[i].module = stack[i - 1]

\* A module has one variable of a name.
TablesOk(symbols) ==
  /\ DOMAIN symbols = Keys
  /\ \A k \in Keys : \A s \in symbols[k] : s.kind \in {"fn", "var", "type"}
  /\ \A k \in Keys : \A s, t \in symbols[k] :
       s.kind = "var" /\ t.kind = "var" /\ s.name = t.name => s = t

NotOpen(stack, m) == \A i \in 1..Len(stack) : stack[i] # m

\* What is imported from module m is there and public.
Offers(symbols, e) ==
  /\ Kinds(symbols[e.mod], e.kind, e.name) # {}
  /\ \A s \in Kinds(symbols[e.mod], e.kind, e.name) : s.kind = "type" \/ s.pub

\* Imports are from modules that were read to their end; they are never read again.
ImportsOk(imports, symbols, stack, Modules) ==
  /\ DOMAIN imports = Keys
  /\ \A k \in Keys : \A e \in imports[k] :
       e.kind # "prefix" =>
         e.mod \in Paths /\ e.mod \in Modules /\ NotOpen(stack, e.mod) /\ Offers(symbols, e)

ApartInv(L) ==
  /\ DOMAIN L = LoaderFields
  /\ StackOk(L.modulestack, L.source_stack, L.module, L.Modules)
  /\ TablesOk(L.symbols)
  /\ ImportsOk(L.ImportedSymbols, L.symbols, L.modulestack, L.Modules)

SameApart(M, L) ==
  /\ DOMAIN M = DOMAIN L
  /\ M.modulestack = L.modulestack /\ M.source_stack = L.source_stack /\ M.module = L.module
  /\ M.Modules = L.Modules /\ M.symbols = L.symbols /\ M.ImportedSymbols = L.ImportedSymbols

\* A step that touches none of the tables and stacks keeps them in order.
LEMMA ApartKept ==
  ASSUME NEW L, NEW M, ApartInv(L), SameApart(M, L)
  PROVE  ApartInv(M)
BY DEF ApartInv, SameApart

\* process_body() touches none of them, nor does a failure.
LEMMA ProcessedApart ==
  ASSUME NEW L, ApartInv(L)
  PROVE  SameApart(process_body(L), L) /\ SameApart(Failed(L), L)
<1> DEFINE new == [i \in 1..Len(L.GlobalExprList) |-> [of |-> L.GlobalExprList[i], in |-> L.module]]
           grown == L.body \o new
           M == [L EXCEPT !.body = grown, !.GlobalExprList = << >>]
<1>1. process_body(L) \in {L, Failed(L), M}
  BY DEF process_body
<1> HIDE DEF grown
<1>2. SameApart(L, L) /\ SameApart(M, L) /\ SameApart(Failed(L), L)
  BY DEF ApartInv, SameApart, Failed, LoaderFields
<1> HIDE DEF M
<1>3. QED
  BY <1>1, <1>2

\* Erasing the private functions of a module takes nothing from those that import it.
LEMMA ErasedTables ==
  ASSUME NEW symbols, TablesOk(symbols), NEW m \in Keys, NEW erased,
         erased = [symbols EXCEPT ![m] = Public(@)]
  PROVE  /\ TablesOk(erased)
         /\ \A e : e.mod \in Keys /\ Offers(symbols, e) => Offers(erased, e)
         /\ \A s \in erased[m] : s.kind = "type" \/ s.pub =>
              \A t \in Kinds(erased[m], s.kind, s.name) : t.kind = "type" \/ t.pub
<1>1. /\ DOMAIN symbols = Keys /\ DOMAIN erased = Keys
      /\ \A k \in Keys : erased[k] = IF k = m THEN Public(symbols[m]) ELSE symbols[k]
  BY DEF TablesOk
<1>2. \A k \in Keys : erased[k] \subseteq symbols[k]
  BY <1>1 DEF Public
<1>3. TablesOk(erased)
  BY <1>1, <1>2 DEF TablesOk
<1>4. ASSUME NEW e, e.mod \in Keys, Offers(symbols, e) PROVE Offers(erased, e)
  <2>1. Kinds(erased[e.mod], e.kind, e.name) \subseteq Kinds(symbols[e.mod], e.kind, e.name)
    BY <1>2, <1>4 DEF Kinds
  <2>2. PICK s \in Kinds(symbols[e.mod], e.kind, e.name) : s.kind = "type" \/ s.pub
    BY <1>4 DEF Offers
  <2>3. s \in symbols[e.mod] /\ s.kind = e.kind /\ s.name = e.name
    BY DEF Kinds
  <2>4. s \in erased[e.mod]
    BY <1>1, <1>4, <2>2, <2>3 DEF Public
  <2>5. s \in Kinds(erased[e.mod], e.kind, e.name)
    BY <2>3, <2>4 DEF Kinds
  <2>6. QED
    BY <1>4, <2>1, <2>5 DEF Offers
<1>5. ASSUME NEW s \in erased[m], s.kind = "type" \/ s.pub,
             NEW t \in Kinds(erased[m], s.kind, s.name)
      PROVE  t.kind = "type" \/ t.pub
  <2>1. t \in erased[m] /\ t.kind = s.kind /\ t.name = s.name
    BY DEF Kinds
  <2>2. s.kind \in {"fn", "var", "type"}
    BY <1>3 DEF TablesOk
  <2>3. CASE s.kind = "fn"
    BY <1>1, <2>1, <2>3 DEF Public
  <2>4. CASE s.kind = "var"
    <3>1. t = s
      BY <1>3, <2>1, <2>4 DEF TablesOk
    <3>2. QED
      BY <1>5, <3>1
  <2>5. QED
    BY <2>1, <2>2, <2>3, <2>4
<1>6. QED
  BY <1>3, <1>4, <1>5

\* What an import adds names a symbol of the module that others may see.
LEMMA BroughtFrom ==
  ASSUME NEW L, NEW m, NEW e \in Brought(L, m)
  PROVE  e.mod = m /\ \E s \in L.symbols[m] : e.name = s.name /\ e.kind = s.kind /\ (s.kind = "type" \/ s.pub)
<1> DEFINE prefix == IF L.from = {} THEN L.as ELSE ""
<1>1. PICK s \in Exported(L, m) : e = [prefix |-> prefix, name |-> s.name, mod |-> m, kind |-> s.kind]
  BY DEF Brought
<1> HIDE DEF prefix
<1>2. e.mod = m /\ e.name = s.name /\ e.kind = s.kind
  BY <1>1
<1>3. s \in L.symbols[m] /\ (s.kind = "type" \/ s.pub)
  BY DEF Exported
<1>4. QED
  BY <1>2, <1>3

\* An import of a module that is not open brings what that offers.
LEMMA ImportApart ==
  ASSUME NEW L, ApartInv(L), NEW m, m \in Paths, m \in L.Modules, NotOpen(L.modulestack, m)
  PROVE  ApartInv(import_from_module(L, m))
<1> DEFINE imps == [L.ImportedSymbols EXCEPT ![L.module] =
                      IF L.from = {} THEN @ \cup {[prefix |-> L.as, name |-> "", mod |-> m, kind |-> "prefix"]} ELSE @]
           prefixed == [L EXCEPT !.ImportedSymbols = imps]
           pubs == [prefixed.symbols EXCEPT ![m] = Public(@)]
           erased == [prefixed EXCEPT !.symbols = pubs]
           brought == [erased.ImportedSymbols EXCEPT ![L.module] = @ \cup Brought(erased, m)]
           M == [erased EXCEPT !.ImportedSymbols = brought]
<1>1. import_from_module(L, m) \in {L, M}
  BY DEF import_from_module
<1>2. /\ DOMAIN L = LoaderFields /\ m \in Keys /\ m # Builtin
      /\ TablesOk(L.symbols) /\ DOMAIN L.symbols = Keys /\ DOMAIN L.ImportedSymbols = Keys
      /\ StackOk(L.modulestack, L.source_stack, L.module, L.Modules)
      /\ ImportsOk(L.ImportedSymbols, L.symbols, L.modulestack, L.Modules)
  BY LoaderAssumption DEF ApartInv, TablesOk, ImportsOk, Keys
<1>3. /\ DOMAIN imps = Keys
      /\ \A k \in Keys : \A e \in imps[k] : e \in L.ImportedSymbols[k] \/ e.kind = "prefix"
  <2> DEFINE new == [prefix |-> L.as, name |-> "", mod |-> m, kind |-> "prefix"]
             here == L.ImportedSymbols[L.module]
             more == IF L.from = {} THEN here \cup {new} ELSE here
  <2>1. imps = [L.ImportedSymbols EXCEPT ![L.module] = more]
    OBVIOUS
  <2>2. new.kind = "prefix"
    OBVIOUS
  <2> HIDE DEF imps, new
  <2>3. \A e \in more : e \in here \/ e.kind = "prefix"
    BY <2>2
  <2> HIDE DEF more
  <2>4. QED
    BY <1>2, <2>1, <2>3
<1> HIDE DEF imps
<1>4. DOMAIN prefixed = LoaderFields /\ prefixed.symbols = L.symbols /\ prefixed.ImportedSymbols = imps
  BY <1>2 DEF LoaderFields
<1>5. pubs = [L.symbols EXCEPT ![m] = Public(@)]
  BY <1>4
<1> HIDE DEF pubs
<1>6. DOMAIN erased = LoaderFields /\ erased.symbols = pubs /\ erased.ImportedSymbols = imps
  BY <1>2 DEF LoaderFields
<1>7. ASSUME NEW e \in Brought(erased, m)
      PROVE  e.mod = m /\ \E s \in pubs[m] : e.name = s.name /\ e.kind = s.kind /\ (s.kind = "type" \/ s.pub)
  <2> HIDE DEF erased
  <2>1. QED
    BY <1>6, BroughtFrom
<1>8. /\ DOMAIN brought = Keys
      /\ \A k \in Keys : \A e \in brought[k] : e \in imps[k] \/ e \in Brought(erased, m)
  <2> HIDE DEF erased
  <2>1. brought = [imps EXCEPT ![L.module] = @ \cup Brought(erased, m)]
    BY <1>6
  <2> HIDE DEF brought
  <2>2. QED
    BY <1>3, <2>1
<1>9. /\ DOMAIN M = LoaderFields /\ M.symbols = pubs /\ M.ImportedSymbols = brought
      /\ M.modulestack = L.modulestack /\ M.source_stack = L.source_stack /\ M.module = L.module
      /\ M.Modules = L.Modules
  <2> HIDE DEF brought
  <2>1. QED
    BY <1>2 DEF LoaderFields
<1> HIDE DEF M, brought, prefixed, erased
<1>10. /\ TablesOk(pubs)
       /\ \A e : e.mod \in Keys /\ Offers(L.symbols, e) => Offers(pubs, e)
       /\ \A s \in pubs[m] : s.kind = "type" \/ s.pub =>
            \A t \in Kinds(pubs[m], s.kind, s.name) : t.kind = "type" \/ t.pub
  BY <1>2, <1>5, ErasedTables
<1>11. ImportsOk(brought, pubs, L.modulestack, L.Modules)
  <2> SUFFICES ASSUME NEW k \in Keys, NEW e \in brought[k], e.kind # "prefix"
               PROVE  /\ e.mod \in Paths /\ e.mod \in L.Modules /\ NotOpen(L.modulestack, e.mod)
                      /\ Offers(pubs, e)
    BY <1>8 DEF ImportsOk
  <2>1. CASE e \in L.ImportedSymbols[k]
    <3>1. /\ e.mod \in Paths /\ e.mod \in L.Modules /\ NotOpen(L.modulestack, e.mod)
          /\ Offers(L.symbols, e)
      BY <1>2, <2>1 DEF ImportsOk
    <3>2. e.mod \in Keys
      BY <3>1 DEF Keys
    <3>3. QED
      BY <1>10, <3>1, <3>2
  <2>2. CASE e \in Brought(erased, m)
    <3>1. PICK s \in pubs[m] : e.name = s.name /\ e.kind = s.kind /\ (s.kind = "type" \/ s.pub)
      BY <1>7, <2>2
    <3>2. e.mod = m
      BY <1>7, <2>2
    <3>3. s \in Kinds(pubs[m], e.kind, e.name)
      BY <3>1 DEF Kinds
    <3>4. Offers(pubs, e)
      BY <1>10, <3>1, <3>2, <3>3 DEF Offers
    <3>5. QED
      BY <3>2, <3>4
  <2>3. QED
    BY <1>3, <1>8, <2>1, <2>2
<1>12. ApartInv(M)
  BY <1>2, <1>9, <1>10, <1>11 DEF ApartInv
<1>13. QED
  BY <1>1, <1>12

-----------------------------------------------------------------------------
(* The stack of open modules.                                              *)

LEMMA Shorter ==
  ASSUME NEW s, IsSeq(s), Len(s) > 0
  PROVE  /\ IsSeq(Pop(s)) /\ Len(Pop(s)) = Len(s) - 1 /\ Len(s) \in Nat
         /\ \A i \in 1..(Len(s) - 1) : Pop(s)[i] = s[i]
<1>1. PICK S : s \in Seq(S)
  BY DEF IsSeq
<1>2. Len(s) \in Nat /\ Pop(s) = SubSeq(s, 1, Len(s) - 1)
  BY <1>1 DEF Pop
<1>3. SubSeq(s, 1, Len(s) - 1) \in Seq(S)
  BY <1>1, <1>2
<1>4. Len(SubSeq(s, 1, Len(s) - 1)) = Len(s) - 1
  <2>1. Len(s) - 1 \in Nat /\ Len(s) - 1 <= Len(s)
    BY <1>2
  <2> DEFINE n == Len(s) - 1
  <2>2. n \in Nat /\ n <= Len(s)
    BY <2>1
  <2> HIDE DEF n
  <2>3. Len(SubSeq(s, 1, n)) = n
    BY <1>1, <2>2
  <2>4. QED
    BY <2>3 DEF n
<1>5. \A i \in 1..(Len(s) - 1) : SubSeq(s, 1, Len(s) - 1)[i] = s[i]
  BY <1>1, <1>2
<1>6. QED
  BY <1>2, <1>3, <1>4, <1>5 DEF IsSeq

\* The module that ends is not among those that stay open.
LEMMA StackPopped ==
  ASSUME NEW stack, NEW paused, NEW module, NEW Modules, StackOk(stack, paused, module, Modules),
         Len(paused) > 1
  PROVE  /\ StackOk(Pop(stack), Pop(paused), Top(paused).module, Modules)
         /\ module \in Paths /\ module \in Modules /\ NotOpen(Pop(stack), module)
         /\ \A m : NotOpen(stack, m) => NotOpen(Pop(stack), m)
<1> DEFINE n == Len(stack)
           s == Pop(stack)
           p == Pop(paused)
<1>1. /\ IsSeq(stack) /\ IsSeq(paused) /\ Len(paused) = n /\ n > 1
      /\ module = IF n = 0 THEN Builtin ELSE stack[n]
      /\ \A i \in 1..n : stack[i] \in Paths /\ stack[i] \in Modules
      /\ \A i, j \in 1..n : stack[i] = stack[j] => i = j
      /\ \A i \in 2..n : paused[i].module = stack[i - 1]
  BY DEF StackOk
<1>2. /\ n \in Nat /\ IsSeq(s) /\ IsSeq(p) /\ Len(s) = n - 1 /\ Len(p) = n - 1
      /\ \A i \in 1..(n - 1) : s[i] = stack[i] /\ p[i] = paused[i]
  <2>1. Len(stack) > 0 /\ Len(paused) > 0 /\ n \in Nat
    <3>1. n \in Nat
      BY <1>1 DEF IsSeq
    <3>2. QED
      BY <1>1, <3>1
  <2>2. QED
    BY <1>1, <2>1, Shorter
<1>3. module = stack[n] /\ Top(paused).module = stack[n - 1]
  BY <1>1, <1>2 DEF Top
<1> HIDE DEF n, s, p
<1>4. n \in 1..n /\ \A i \in 1..(n - 1) : i \in 1..n /\ i # n
  BY <1>1, <1>2
<1>5. module \in Paths /\ module \in Modules /\ NotOpen(s, module)
  BY <1>1, <1>2, <1>3, <1>4 DEF NotOpen
<1>6. \A m : NotOpen(stack, m) => NotOpen(s, m)
  BY <1>2, <1>4 DEF NotOpen, n
<1>7. StackOk(s, p, stack[n - 1], Modules)
  <2>1. stack[n - 1] = IF Len(s) = 0 THEN Builtin ELSE s[Len(s)]
    BY <1>1, <1>2
  <2>2. \A i \in 1..Len(s) : s[i] \in Paths /\ s[i] \in Modules
    BY <1>1, <1>2, <1>4
  <2>3. \A i, j \in 1..Len(s) : s[i] = s[j] => i = j
    BY <1>1, <1>2, <1>4
  <2>4. \A i \in 2..Len(s) : p[i].module = s[i - 1]
    <3> SUFFICES ASSUME NEW i \in 2..Len(s) PROVE p[i].module = s[i - 1]
      OBVIOUS
    <3>1. i \in 2..n /\ i \in 1..(n - 1) /\ i - 1 \in 1..(n - 1)
      BY <1>1, <1>2
    <3>2. QED
      BY <1>1, <1>2, <3>1
  <2>5. QED
    BY <1>2, <2>1, <2>2, <2>3, <2>4 DEF StackOk
<1>8. QED
  BY <1>3, <1>5, <1>6, <1>7 DEF s, p

\* A module is opened once.
LEMMA StackPushed ==
  ASSUME NEW stack, NEW paused, NEW module, NEW Modules, StackOk(stack, paused, module, Modules),
         NEW path \in Paths, path \notin Modules, NEW here, here.module = module
  PROVE  /\ StackOk(Append(stack, path), Append(paused, here), path, Modules \cup {path})
         /\ \A m \in Modules : NotOpen(stack, m) => NotOpen(Append(stack, path), m)
<1> DEFINE n == Len(stack)
           s == Append(stack, path)
           p == Append(paused, here)
           M == Modules \cup {path}
<1>1. /\ IsSeq(stack) /\ IsSeq(paused) /\ Len(paused) = n
      /\ module = IF n = 0 THEN Builtin ELSE stack[n]
      /\ \A i \in 1..n : stack[i] \in Paths /\ stack[i] \in Modules
      /\ \A i, j \in 1..n : stack[i] = stack[j] => i = j
      /\ \A i \in 2..n : paused[i].module = stack[i - 1]
  BY DEF StackOk
<1>2. /\ n \in Nat /\ IsSeq(s) /\ IsSeq(p) /\ Len(s) = n + 1 /\ Len(p) = n + 1
      /\ s[n + 1] = path /\ p[n + 1] = here
      /\ \A i \in 1..n : s[i] = stack[i] /\ p[i] = paused[i]
  BY <1>1, Longer
<1>3. \A i \in 1..n : s[i] # path
  BY <1>1, <1>2
<1>4. Modules \subseteq M /\ path \in M
  OBVIOUS
<1> HIDE DEF n, s, p, M
<1>5. \A i \in 1..(n + 1) : i \in 1..n \/ i = n + 1
  BY <1>2
<1>6. \A m \in Modules : NotOpen(stack, m) => NotOpen(s, m)
  BY <1>2, <1>5 DEF NotOpen, n
<1>7. StackOk(s, p, path, M)
  <2>1. path = IF Len(s) = 0 THEN Builtin ELSE s[Len(s)]
    BY <1>2
  <2>2. \A i \in 1..Len(s) : s[i] \in Paths /\ s[i] \in M
    BY <1>1, <1>2, <1>4, <1>5
  <2>3. \A i, j \in 1..Len(s) : s[i] = s[j] => i = j
    BY <1>1, <1>2, <1>3, <1>5
  <2>4. \A i \in 2..Len(s) : p[i].module = s[i - 1]
    <3> SUFFICES ASSUME NEW i \in 2..Len(s) PROVE p[i].module = s[i - 1]
      OBVIOUS
    <3>1. CASE i \in 2..n
      <4>1. i \in 1..n /\ i - 1 \in 1..n
        BY <1>2, <3>1
      <4>2. QED
        BY <1>1, <1>2, <3>1, <4>1
    <3>2. CASE i = n + 1
      <4>1. n # 0 /\ i - 1 = n /\ n \in 1..n
        BY <1>2, <3>2
      <4>2. QED
        BY <1>1, <1>2, <3>2, <4>1
    <3>3. QED
      BY <1>2, <3>1, <3>2
  <2>5. QED
    BY <1>2, <2>1, <2>2, <2>3, <2>4 DEF StackOk
<1>8. QED
  BY <1>6, <1>7 DEF s, p, M

-----------------------------------------------------------------------------
(* What the loader does keeps the modules apart.                           *)

LEMMA OpenedApart ==
  ASSUME NEW L, NEW f, ApartInv(L)
  PROVE  ApartInv(Opened(L, f))
<1> DEFINE at == IF f = Stdin THEN L.typed ELSE 0
           M == [L EXCEPT !.input = f, !.line = at, !.rest = << >>]
<1>1. Opened(L, f) \in {M, Failed(L)}
  BY DEF Opened
<1> HIDE DEF at
<1>2. SameApart(M, L)
  BY DEF SameApart, ApartInv, LoaderFields
<1> HIDE DEF M
<1>3. QED
  BY <1>1, <1>2, ApartKept, ProcessedApart

LEMMA PopApart ==
  ASSUME NEW L, ApartInv(L), Len(L.source_stack) > 1
  PROVE  ApartInv(pop_state(L))
<1> DEFINE done == process_body(L)
           back == Top(done.source_stack)
           paused == Pop(done.source_stack)
           stack == Pop(done.modulestack)
           files == Pop(done.source_files)
           index == Pop(done.source_index)
           M == [done EXCEPT !.module = back.module, !.input = back.input, !.line = back.line,
                             !.rest = back.rest, !.as = back.as, !.from = back.from,
                             !.source_stack = paused, !.source_files = files,
                             !.source_index = index, !.modulestack = stack]
<1>1. SameApart(done, L)
  BY ProcessedApart
<1>2. ApartInv(done)
  BY <1>1, ApartKept
<1>3. done.source_stack = L.source_stack
  BY <1>1 DEF SameApart
<1>4. pop_state(L) \in {done, import_from_module(M, L.module)}
  BY <1>3 DEF pop_state
<1> HIDE DEF done
<1>5. DOMAIN done = LoaderFields
  BY <1>2 DEF ApartInv
<1>6. /\ StackOk(stack, paused, back.module, done.Modules)
      /\ done.module \in Paths /\ done.module \in done.Modules /\ NotOpen(stack, done.module)
      /\ \A m : NotOpen(done.modulestack, m) => NotOpen(stack, m)
  <2>1. StackOk(done.modulestack, done.source_stack, done.module, done.Modules)
    BY <1>2 DEF ApartInv
  <2>2. Len(done.source_stack) > 1
    BY <1>3
  <2>3. QED
    BY <2>1, <2>2, StackPopped
<1> HIDE DEF back, paused, stack, files, index
<1>7. /\ DOMAIN M = LoaderFields /\ M.module = back.module /\ M.source_stack = paused
      /\ M.modulestack = stack /\ M.Modules = done.Modules /\ M.symbols = done.symbols
      /\ M.ImportedSymbols = done.ImportedSymbols
  BY <1>5 DEF LoaderFields
<1> HIDE DEF M
<1>8. ImportsOk(M.ImportedSymbols, M.symbols, M.modulestack, M.Modules)
  BY <1>2, <1>6, <1>7 DEF ApartInv, ImportsOk
<1>9. ApartInv(M)
  BY <1>2, <1>6, <1>7, <1>8 DEF ApartInv
<1>10. L.module = done.module
  BY <1>1 DEF SameApart
<1>11. ApartInv(import_from_module(M, L.module))
  BY <1>6, <1>7, <1>9, <1>10, ImportApart
<1>12. QED
  BY <1>2, <1>4, <1>11

LEMMA OpenNextApart ==
  ASSUME NEW L, ApartInv(L)
  PROVE  ApartInv(OpenNext(L))
<1> DEFINE n == Top(L.source_index)
           index == [L.source_index EXCEPT ![Len(L.source_index)] = n + 1]
           M == [L EXCEPT !.source_index = index]
           E == [L EXCEPT !.state = "eof"]
           file == Top(L.source_files)[n + 1]
<1>1. \/ OpenNext(L) \in {Opened(M, file), Opened(L, Stdin), E}
      \/ Len(L.source_stack) > 1 /\ OpenNext(L) = pop_state(L)
  BY DEF OpenNext
<1> HIDE DEF index, file, n
<1>2. SameApart(M, L) /\ SameApart(E, L)
  BY DEF SameApart, ApartInv, LoaderFields
<1> HIDE DEF M, E
<1>3. ApartInv(M) /\ ApartInv(E)
  BY <1>2, ApartKept
<1>4. QED
  BY <1>1, <1>3, PopApart, OpenedApart

LEMMA PushApart ==
  ASSUME NEW L, ApartInv(L), NEW path \in Paths, NEW as, NEW from
  PROVE  ApartInv(push_state(L, path, as, from))
<1> DEFINE done == process_body(L)
           skipped == [done EXCEPT !.rest = << >>]
           this == [done EXCEPT !.as = as, !.from = from]
           files == program.glob[path]
           new == Pushed(this, path, files)
<1>1. ApartInv(done) /\ done.Modules = L.Modules /\ done.modulestack = L.modulestack
  BY ProcessedApart, ApartKept DEF SameApart
<1>2. \/ push_state(L, path, as, from) \in {done, skipped}
      \/ /\ ~cyclic(L, path)
         /\ push_state(L, path, as, from) =
              IF path \in L.Modules THEN import_from_module(this, path) ELSE OpenNext(new)
  BY DEF push_state
<1> HIDE DEF done, files
<1>3. SameApart(skipped, done) /\ SameApart(this, done)
  BY <1>1 DEF SameApart, ApartInv, LoaderFields
<1> HIDE DEF skipped, this
<1>4. ApartInv(skipped) /\ ApartInv(this)
  BY <1>1, <1>3, ApartKept
<1>5. this.Modules = L.Modules /\ (~cyclic(L, path) => NotOpen(this.modulestack, path))
  BY <1>1, <1>3 DEF SameApart, cyclic, NotOpen
<1>6. ASSUME ~cyclic(L, path), path \in L.Modules
      PROVE  ApartInv(import_from_module(this, path))
  BY <1>4, <1>5, <1>6, ImportApart
<1>7. ASSUME path \notin L.Modules PROVE ApartInv(new)
  <2> DEFINE S1 == IF path = << >> THEN this.source_files ELSE Append(this.source_files, files)
             S2 == IF path = << >> THEN this.source_index ELSE Append(this.source_index, 0)
             here == Paused(this)
             S3 == Append(this.source_stack, here)
             S4 == Append(this.modulestack, path)
             S5 == this.Modules \cup {path}
  <2>1. new = [this EXCEPT !.source_stack = S3, !.modulestack = S4, !.Modules = S5, !.module = path,
                           !.input = NoFile, !.line = 0, !.rest = << >>, !.as = "", !.from = {},
                           !.source_files = S1, !.source_index = S2]
    BY DEF Pushed
  <2>2. here.module = this.module
    BY DEF Paused
  <2>3. StackOk(this.modulestack, this.source_stack, this.module, this.Modules)
    BY <1>4 DEF ApartInv
  <2>4. path \notin this.Modules
    BY <1>5, <1>7
  <2> HIDE DEF here
  <2>5. /\ StackOk(S4, S3, path, S5)
        /\ \A m \in this.Modules : NotOpen(this.modulestack, m) => NotOpen(S4, m)
    BY <2>2, <2>3, <2>4, StackPushed
  <2>6. \A m \in this.Modules : m \in S5
    OBVIOUS
  <2>7. DOMAIN this = LoaderFields
    BY <1>4 DEF ApartInv
  <2> HIDE DEF S1, S2, S3, S4, S5, new
  <2>8. /\ DOMAIN new = LoaderFields /\ new.source_stack = S3 /\ new.modulestack = S4
        /\ new.Modules = S5 /\ new.module = path
        /\ new.symbols = this.symbols /\ new.ImportedSymbols = this.ImportedSymbols
    BY <2>1, <2>7 DEF LoaderFields
  <2>9. ImportsOk(new.ImportedSymbols, new.symbols, S4, S5)
    BY <1>4, <2>5, <2>6, <2>8 DEF ApartInv, ImportsOk
  <2>10. TablesOk(new.symbols)
    BY <1>4, <2>8 DEF ApartInv
  <2>11. QED
    BY <2>5, <2>8, <2>9, <2>10 DEF ApartInv
<1> HIDE DEF new
<1>8. QED
  BY <1>1, <1>2, <1>4, <1>6, <1>7, OpenNextApart

LEMMA NextFileApart ==
  ASSUME NEW L, ApartInv(L)
  PROVE  ApartInv(next_input_file(L))
<1> DEFINE fresh == [L EXCEPT !.last_defined_type = NoType]
           l == Append(fresh.GlobalExprList, Entry(fresh, TRUE))
           console == [fresh EXCEPT !.GlobalExprList = l]
           first == IF mode.jit THEN fresh ELSE console
<1>1. next_input_file(L) = IF L.input = BuiltinFile THEN push_state(first, << >>, "", {}) ELSE OpenNext(fresh)
  BY DEF next_input_file
<1>2. SameApart(fresh, L)
  BY DEF SameApart, ApartInv, LoaderFields
<1> HIDE DEF fresh
<1>3. ApartInv(fresh)
  BY <1>2, ApartKept
<1> HIDE DEF l
<1>4. SameApart(console, fresh)
  BY <1>3 DEF SameApart, ApartInv, LoaderFields
<1> HIDE DEF console
<1>5. ApartInv(first)
  BY <1>3, <1>4, ApartKept
<1> HIDE DEF first
<1>6. << >> \in Paths
  BY LoaderAssumption
<1>7. QED
  BY <1>1, <1>3, <1>5, <1>6, PushApart, OpenNextApart

\* Collecting a statement, dropping a line and ending touch no table.
LEMMA CollectApart ==
  ASSUME NEW L, ApartInv(L), NEW ok
  PROVE  ApartInv(Collect(L, ok))
<1> DEFINE list == Append(L.GlobalExprList, Entry(ld, ok))
           ran == Append(L.body, [of |-> Entry(ld, ok), in |-> L.module])
           state == IF L.have_return THEN "returned" ELSE L.state
           A == [L EXCEPT !.GlobalExprList = list, !.state = state]
           B == [L EXCEPT !.body = ran]
           C == [L EXCEPT !.rest = << >>]
<1>1. Collect(L, ok) \in {A, B, C}
  BY DEF Collect, purgeLine
<1> HIDE DEF list, ran, state
<1>2. SameApart(A, L) /\ SameApart(B, L) /\ SameApart(C, L)
  BY DEF SameApart, ApartInv, LoaderFields
<1> HIDE DEF A, B, C
<1>3. QED
  BY <1>1, <1>2, ApartKept

LEMMA PurgedApart ==
  ASSUME NEW L, ApartInv(L), NEW s
  PROVE  ApartInv(purgeLine(L)) /\ ApartInv([L EXCEPT !.state = s])
<1>1. SameApart(purgeLine(L), L) /\ SameApart([L EXCEPT !.state = s], L)
  BY DEF purgeLine, SameApart, ApartInv, LoaderFields
<1>2. QED
  BY <1>1, ApartKept

LEMMA StartApart ==
  ASSUME ApartInv(ld)
  PROVE  ApartInv(Next1) /\ ApartInv(Start)
<1> DEFINE tail == Tail(ld.rest)
           n == [ld EXCEPT !.rest = tail]
<1>1. Next1 = n
  BY DEF Next1
<1> HIDE DEF tail
<1>2. SameApart(n, ld)
  BY DEF SameApart, ApartInv, LoaderFields
<1> HIDE DEF n
<1>3. ApartInv(n)
  BY <1>2, ApartKept
<1> DEFINE fin == n.finished \cup {<<n.module, n.last_defined_type>>}
           M == [n EXCEPT !.finished = fin, !.last_defined_type = NoType]
<1>4. Start \in {n, M}
  BY <1>1 DEF Start, finish_constructors_and_destructor
<1> HIDE DEF fin
<1>5. SameApart(M, n)
  BY <1>3 DEF SameApart, ApartInv, LoaderFields
<1> HIDE DEF M
<1>6. QED
  BY <1>1, <1>3, <1>4, <1>5, ApartKept

\* A new symbol takes nothing from what other modules offer.
LEMMA DeclaredTables ==
  ASSUME NEW symbols, TablesOk(symbols), NEW module \in Keys, NEW s, s.kind \in {"fn", "var", "type"},
         s.kind = "var" => Kinds(symbols[module], "var", s.name) = {},
         NEW grown, grown = [symbols EXCEPT ![module] = @ \cup {s}]
  PROVE  TablesOk(grown) /\ \A e : e.mod \in Keys /\ e.mod # module /\ Offers(symbols, e) => Offers(grown, e)
<1>1. /\ DOMAIN grown = Keys
      /\ \A k \in Keys : grown[k] = IF k = module THEN symbols[module] \cup {s} ELSE symbols[k]
  BY DEF TablesOk
<1>2. \A k \in Keys : \A t \in grown[k] : t.kind \in {"fn", "var", "type"}
  BY <1>1 DEF TablesOk
<1>3. \A k \in Keys : \A t, u \in grown[k] :
        t.kind = "var" /\ u.kind = "var" /\ t.name = u.name => t = u
  <2> SUFFICES ASSUME NEW k \in Keys, NEW t \in grown[k], NEW u \in grown[k],
                      t.kind = "var", u.kind = "var", t.name = u.name
               PROVE  t = u
    OBVIOUS
  <2>1. CASE t \in symbols[k] /\ u \in symbols[k]
    BY <2>1 DEF TablesOk
  <2>2. CASE k = module /\ (t = s \/ u = s)
    <3>1. s.kind = "var" /\ s.name = t.name /\ s.name = u.name
      BY <2>2
    <3>2. \A v \in symbols[module] : ~(v.kind = "var" /\ v.name = s.name)
      BY <3>1 DEF Kinds
    <3>3. QED
      BY <1>1, <2>2, <3>1, <3>2
  <2>3. QED
    BY <1>1, <2>1, <2>2
<1>4. ASSUME NEW e, e.mod \in Keys, e.mod # module, Offers(symbols, e) PROVE Offers(grown, e)
  BY <1>1, <1>4 DEF Offers
<1>5. QED
  BY <1>1, <1>2, <1>3, <1>4 DEF TablesOk

LEMMA DeclaredApart ==
  ASSUME NEW L, ApartInv(L), NEW kind \in {"fn", "var", "type"}, NEW name, NEW pub,
         kind = "var" => Kinds(L.symbols[L.module], "var", name) = {}
  PROVE  ApartInv(Declared(L, kind, name, pub))
<1> DEFINE s == [kind |-> kind, name |-> name, pub |-> pub]
           syms == [L.symbols EXCEPT ![L.module] = @ \cup {s}]
           M == [L EXCEPT !.symbols = syms]
<1>1. Declared(L, kind, name, pub) = M
  BY DEF Declared
<1>2. s.kind = kind /\ s.name = name
  OBVIOUS
<1> HIDE DEF s
<1>3. /\ DOMAIN L = LoaderFields /\ TablesOk(L.symbols)
      /\ StackOk(L.modulestack, L.source_stack, L.module, L.Modules)
      /\ ImportsOk(L.ImportedSymbols, L.symbols, L.modulestack, L.Modules)
  BY DEF ApartInv
<1>4. L.module \in Keys /\ \A m \in Paths : NotOpen(L.modulestack, m) => m # L.module
  <2> DEFINE n == Len(L.modulestack)
  <2>1. n \in Nat
    BY <1>3 DEF StackOk, IsSeq
  <2>2. CASE n = 0
    BY <1>3, <2>2, LoaderAssumption DEF StackOk, Keys
  <2>3. CASE n # 0
    <3>1. n \in 1..n
      BY <2>1, <2>3
    <3>2. L.module = L.modulestack[n] /\ L.modulestack[n] \in Paths
      BY <1>3, <2>3, <3>1 DEF StackOk
    <3>3. QED
      BY <3>1, <3>2 DEF Keys, NotOpen
  <2>4. QED
    BY <2>2, <2>3
<1>5. TablesOk(syms) /\ \A e : e.mod \in Keys /\ e.mod # L.module /\ Offers(L.symbols, e) => Offers(syms, e)
  BY <1>2, <1>3, <1>4, DeclaredTables
<1> HIDE DEF syms
<1>6. ImportsOk(L.ImportedSymbols, syms, L.modulestack, L.Modules)
  <2> SUFFICES ASSUME NEW k \in Keys, NEW e \in L.ImportedSymbols[k], e.kind # "prefix"
               PROVE  /\ e.mod \in Paths /\ e.mod \in L.Modules /\ NotOpen(L.modulestack, e.mod)
                      /\ Offers(syms, e)
    BY <1>3 DEF ImportsOk
  <2>1. /\ e.mod \in Paths /\ e.mod \in L.Modules /\ NotOpen(L.modulestack, e.mod)
        /\ Offers(L.symbols, e)
    BY <1>3 DEF ImportsOk
  <2>2. e.mod \in Keys /\ e.mod # L.module
    BY <1>4, <2>1 DEF Keys
  <2>3. QED
    BY <1>5, <2>1, <2>2
<1>7. /\ DOMAIN M = LoaderFields /\ M.symbols = syms /\ M.ImportedSymbols = L.ImportedSymbols
      /\ M.modulestack = L.modulestack /\ M.source_stack = L.source_stack /\ M.module = L.module
      /\ M.Modules = L.Modules
  BY <1>3 DEF LoaderFields
<1> HIDE DEF M
<1>8. QED
  BY <1>1, <1>3, <1>5, <1>6, <1>7 DEF ApartInv

LEMMA StatementApart ==
  ASSUME ApartInv(ld), Statement
  PROVE  ApartInv(ld')
<1>0. ApartInv(Next1) /\ ApartInv(Start)
  BY StartApart
<1>1. CASE Expression \/ Use \/ SyntaxError \/ HandleMethod
  <2>1. \E ok : ld' \in {Collect(Start, ok), purgeLine(Start), Next1}
    BY <1>1 DEF Expression, Use, SyntaxError, HandleMethod
  <2>2. QED
    BY <1>0, <2>1, CollectApart, PurgedApart
<1>2. CASE Return
  <2> DEFINE have == Start.have_return \/ ~mode.repl \/ (This.value /\ mode.jit)
             returned == [Start EXCEPT !.have_return = have]
             C == Collect(returned, TRUE)
             s == IF returned.have_return THEN "returned" ELSE C.state
  <2>1. ld' \in {[C EXCEPT !.state = s], purgeLine(returned)}
    BY <1>2 DEF Return
  <2> HIDE DEF have
  <2>2. SameApart(returned, Start)
    BY <1>0 DEF SameApart, ApartInv, LoaderFields
  <2> HIDE DEF returned
  <2>3. ApartInv(returned)
    BY <1>0, <2>2, ApartKept
  <2>4. ApartInv(C)
    BY <2>3, CollectApart
  <2> HIDE DEF C, s
  <2>5. ApartInv([C EXCEPT !.state = s]) /\ ApartInv(purgeLine(returned))
    BY <2>3, <2>4, PurgedApart
  <2>6. QED
    BY <2>1, <2>5
<1>3. CASE Global
  <2> DEFINE D == Declared(Start, "var", This.name, This.pub)
             C == Collect(D, TRUE)
             R == [C EXCEPT !.state = "reading"]
  <2>1. \/ ld' \in {Collect(Start, TRUE), purgeLine(Start)}
        \/ Found(Start, "var", "", This.name) = {} /\ ld' = purgeLine(R)
    BY <1>3 DEF Global
  <2>2. ASSUME Found(Start, "var", "", This.name) = {} PROVE ApartInv(D)
    <3>1. Kinds(Start.symbols[Start.module], "var", This.name) = {}
      BY <2>2 DEF Found
    <3>2. QED
      BY <1>0, <3>1, DeclaredApart
  <2> HIDE DEF D
  <2>3. ASSUME ApartInv(D) PROVE ApartInv(R)
    <3>1. ApartInv(C)
      BY <2>3, CollectApart
    <3> HIDE DEF C
    <3>2. QED
      BY <3>1, PurgedApart
  <2> HIDE DEF R
  <2>4. QED
    BY <1>0, <2>1, <2>2, <2>3, CollectApart, PurgedApart
<1>4. CASE HandleDefinition
  <2> DEFINE D == Declared(Start, "fn", This.name, This.pub)
             C == Collect(D, TRUE)
             R == [C EXCEPT !.state = "reading"]
  <2>1. ld' \in {Next1, R, D}
    BY <1>4 DEF HandleDefinition
  <2>2. ApartInv(D)
    BY <1>0, DeclaredApart
  <2> HIDE DEF D
  <2>3. ApartInv(C)
    BY <2>2, CollectApart
  <2> HIDE DEF C
  <2>4. ApartInv(R)
    BY <2>3, PurgedApart
  <2>5. QED
    BY <1>0, <2>1, <2>2, <2>4
<1>5. CASE HandleExtern
  <2>1. ld' \in {purgeLine(Next1), Declared(Next1, "fn", This.name, TRUE)}
    BY <1>5 DEF HandleExtern
  <2>2. ApartInv(Declared(Next1, "fn", This.name, TRUE))
    BY <1>0, DeclaredApart
  <2>3. QED
    BY <1>0, <2>1, <2>2, PurgedApart
<1>6. CASE HandleTypeDef
  <2> DEFINE D == Declared(Start, "type", This.name, TRUE)
             R == [D EXCEPT !.last_defined_type = This.name]
  <2>1. ld' \in {purgeLine(Start), R}
    BY <1>6 DEF HandleTypeDef
  <2>2. ApartInv(D)
    BY <1>0, DeclaredApart
  <2> HIDE DEF D
  <2>3. SameApart(R, D)
    BY <2>2 DEF SameApart, ApartInv, LoaderFields
  <2> HIDE DEF R
  <2>4. QED
    BY <1>0, <2>1, <2>2, <2>3, PurgedApart, ApartKept
<1>7. CASE HandleImport
  <2>1. \/ ld' = purgeLine(Start)
        \/ Resolved(This) \in Paths /\ ld' = push_state(Start, Resolved(This), Prefix(This), This.from)
    BY <1>7 DEF HandleImport
  <2>2. ASSUME Resolved(This) \in Paths
        PROVE  ApartInv(push_state(Start, Resolved(This), Prefix(This), This.from))
    BY <1>0, <2>2, PushApart
  <2>3. QED
    BY <1>0, <2>1, <2>2, PurgedApart
<1>8. CASE Load
  <2> DEFINE ran == Collect(Start, TRUE)
             files == [ran.source_files EXCEPT ![Len(ld.source_files)] = Append(@, This.name)]
             M == [ran EXCEPT !.last_defined_type = NoType, !.source_files = files]
  <2>1. ld' \in {ran, OpenNext(M)}
    BY <1>8 DEF Load
  <2>2. ApartInv(ran)
    BY <1>0, CollectApart
  <2> HIDE DEF ran, files
  <2>3. SameApart(M, ran)
    BY <2>2 DEF SameApart, ApartInv, LoaderFields
  <2> HIDE DEF M
  <2>4. QED
    BY <2>1, <2>2, <2>3, ApartKept, OpenNextApart
<1>9. QED
  BY <1>1, <1>2, <1>3, <1>4, <1>5, <1>6, <1>7, <1>8 DEF Statement

LEMMA LoadStepApart ==
  ASSUME ApartInv(ld), LoadStep
  PROVE  ApartInv(ld')
<1>1. CASE Statement
  BY <1>1, StatementApart
<1>2. CASE NextLine
  <2> DEFINE at == ld.line + 1
             rest == Lines(ld.input)[ld.line + 1]
             typed == IF ld.input = Stdin THEN ld.typed + 1 ELSE ld.typed
             M == [ld EXCEPT !.line = at, !.rest = rest, !.typed = typed]
  <2>1. ld' = M
    BY <1>2 DEF NextLine
  <2> HIDE DEF at, rest, typed
  <2>2. SameApart(M, ld)
    BY DEF SameApart, ApartInv, LoaderFields
  <2> HIDE DEF M
  <2>3. QED
    BY <2>1, <2>2, ApartKept
<1>3. CASE fdgetline
  BY <1>3, NextFileApart, PurgedApart DEF fdgetline
<1>4. CASE FinishMain
  <2> DEFINE l == Append(ld.GlobalExprList, Entry(ld, TRUE))
             V == [ld EXCEPT !.GlobalExprList = l]
             value == IF mode.test \/ ~ld.have_return THEN V ELSE ld
             done == process_body(value)
             D == [done EXCEPT !.state = "done"]
             S == [ld EXCEPT !.state = "done"]
  <2>1. ld' \in {S, Failed(ld), D}
    BY <1>4 DEF FinishMain
  <2> HIDE DEF l
  <2>2. SameApart(V, ld)
    BY DEF SameApart, ApartInv, LoaderFields
  <2> HIDE DEF V
  <2>3. ApartInv(value)
    BY <2>2, ApartKept
  <2> HIDE DEF value
  <2>4. ApartInv(done)
    BY <2>3, ProcessedApart, ApartKept
  <2> HIDE DEF done
  <2>5. ApartInv(D) /\ ApartInv(S)
    BY <2>4, PurgedApart
  <2>6. QED
    BY <2>1, <2>5, ProcessedApart, ApartKept
<1>5. QED
  BY <1>1, <1>2, <1>3, <1>4 DEF LoadStep

LEMMA LoaderInitApart ==
  ASSUME NEW p
  PROVE  ApartInv(LoaderInit(p))
<1> DEFINE L == LoaderInit(p)
<1>1. /\ DOMAIN L = LoaderFields /\ L.module = Builtin /\ L.modulestack = << >> /\ L.source_stack = << >>
      /\ L.symbols = [k \in Keys |-> {}] /\ L.ImportedSymbols = [k \in Keys |-> {}]
  BY LoaderInitHome DEF LoaderInit
<1> HIDE DEF L
<1>2. IsSeq(<< >>) /\ Len(<< >>) = 0
  BY DEF IsSeq
<1>3. StackOk(L.modulestack, L.source_stack, L.module, L.Modules)
  BY <1>1, <1>2 DEF StackOk
<1>4. TablesOk(L.symbols) /\ ImportsOk(L.ImportedSymbols, L.symbols, L.modulestack, L.Modules)
  BY <1>1 DEF TablesOk, ImportsOk
<1>5. ApartInv(L)
  BY <1>1, <1>3, <1>4 DEF ApartInv
<1>6. QED
  BY <1>5 DEF L

\* Modules touch each other only through what they import, and an import brings what
\* is there, complete and public: a module is imported from once it was read to its
\* end, and nothing is added to it, or taken away that others may see, afterwards.
THEOREM ModulesStayApart == Spec => []ModulesKeptApart
<1> DEFINE I == ApartInv(ld)
<1>1. Init => I
  BY LoaderInitApart DEF Init
<1>2. I /\ [Next]_vars => I'
  <2> SUFFICES ASSUME I, [Next]_vars PROVE I'
    OBVIOUS
  <2>1. CASE Compile
    BY <2>1, LoadStepApart DEF Compile
  <2>2. CASE Setup /\ ~opts.show_version
    BY <2>2, LoaderInitApart DEF Setup
  <2>3. CASE UNCHANGED loaderVars
    BY <2>3 DEF loaderVars
  <2>4. Setup /\ opts.show_version => UNCHANGED loaderVars
    BY DEF Setup
  <2>5. Compiled \/ DriverStep \/ UNCHANGED vars => UNCHANGED loaderVars
    BY DEF Compiled, DriverStep, vars
  <2>6. QED
    BY <2>1, <2>2, <2>3, <2>4, <2>5 DEF Next
<1>3. I => ImportsPublic
  BY DEF ApartInv, ImportsOk, NotOpen, Offers, ImportsPublic
<1>4. Spec => []ImportsPublic
  BY <1>1, <1>2, <1>3, PTL DEF Spec
<1>5. GeneratedInOwnModule /\ ImportsPublic => ModulesKeptApart
  BY DEF ModulesKeptApart
<1>6. QED
  BY <1>4, <1>5, StatementsStayHome, PTL
=============================================================================
