----------------------------- MODULE MCCompiler -----------------------------
(* Programs that import, with the options that change how they are read, and *)
(* one small program with every set of at most three options.                *)
EXTENDS Compiler, TLC

F(p) == [dir |-> "here", parts |-> p]
AVx == F(<<"a", "vx">>)    BVx == F(<<"b", "vx">>)    BigVx == [dir |-> "root", parts |-> <<"c", "VX">>]
LibO == F(<<"lib", "o">>)  AO == F(<<"a", "o">>)      AOut == F(<<"a", "out">>)  Txt == F(<<"t", "txt">>)
M1 == F(<<"m1">>) M2 == F(<<"m2">>) S1 == F(<<"s1">>)
Std == F(<<"stdin">>) Prelude == F(<<"builtin">>) Null == F(<< >>)

M == <<"m">>
S == <<"m", "s">>
BuiltinKey == <<"builtin">>
SomePaths == {<< >>, M, S}

X(k)         == [kind |-> k]
Glob(n, p)   == [kind |-> "global", name |-> n, pub |-> p]
Fn(n, p)     == [kind |-> "fn", name |-> n, pub |-> p, test |-> FALSE]
TestFn       == [kind |-> "fn", name |-> "test_a", pub |-> FALSE, test |-> TRUE]
Import(d, p) == [kind |-> "import", dots |-> d, path |-> p, as |-> "", from |-> {}, star |-> FALSE]
As(p, n)     == [Import(0, p) EXCEPT !.as = n]
From(p, ns)  == [Import(0, p) EXCEPT !.from = ns]
Star(p)      == [Import(0, p) EXCEPT !.star = TRUE]
Reads(q, n)  == [kind |-> "use", prefix |-> q, name |-> n]
Ret(v)       == [kind |-> "return", value |-> v]
Named(k, n)  == [kind |-> k, name |-> n]

MainLines == {<<Import(0, M), X("expr")>>, <<X("expr"), As(M, "x")>>, <<From(M, {"f", "g"})>>, <<Star(M)>>,
              <<Reads("m", "f"), Reads("", "g")>>, <<Glob("a", TRUE), X("bad")>>, <<Ret(FALSE)>>, <<X("wrong")>>}
\* What is in m and, if m imports it, in m.s: no file, one that imports m, or others.
Leaf == {<< <<Glob("g", TRUE)>>, <<Fn("f", TRUE), Fn("f", FALSE), Named("type", "t")>>,
            <<Named("decl", "g")>>, <<Glob("f", FALSE)>> >>,
         << <<Named("type", "t"), X("method"), X("expr")>> >>}
Importer == << <<Named("decl", "f"), X("expr"), Import(1, <<"s">>)>>, <<Named("decl", "h")>> >>
SFiles == {<< <<X("expr"), Import(2, << >>)>>, <<Reads("m", "f")>> >>, << <<Glob("g", TRUE)>>, <<Glob("g", FALSE), Glob("h", FALSE)>> >>}
Libraries == [m : Leaf, s : {<< >>}, files : {<< >>}]
             \cup [m : {Importer}, s : SFiles, files : {<<S1>>}] \cup [m : {Importer}, s : {<< >>}, files : {<< >>}]
BuiltinText == << <<Fn("f", TRUE), Named("type", "t")>>, <<TestFn>> >>
Typed == << <<X("expr"), Named("load", M2)>> >>

ProgramOf(a, m, s, ss) ==
  [sources |-> << >>, glob |-> (<< >> :> << >>) @@ (M :> <<M1, M2>>) @@ (S :> ss),
   text |-> (AVx :> a) @@ (M1 :> m) @@ (M2 :> << <<X("expr")>> >>) @@ (S1 :> s) @@ (Std :> Typed)
            @@ (BVx :> << >>) @@ (BigVx :> << <<X("expr")>> >>) @@ (Prelude :> BuiltinText)]

Opt(l)    == [opt |-> l]
Arg(l, n) == [opt |-> l, arg |-> n]

Reading1 == {Opt("t"), Opt("j"), Opt("J")}
Every == {Opt(l) : l \in {"c", "g", "j", "J", "d", "r", "t", "V", "h", "floored", "c99", "pres", "no-pres", "f?",
                          "emit-llvm", "no-lto", "strip", "?", "M"}}
         \cup {Arg("o", F(<<"x">>)), Arg("o", F(<<"x", "o">>)), Arg("i", F(<<"x", "ll">>)),
               Arg("O", <<"3">>), Arg("O", <<"s", "1">>), Arg("O", <<"x">>)}

Imports1 == {[options |-> Reading1, args |-> <<AVx>>,
              program |-> ProgramOf(<<l1, l2, <<X("expr")>>>>, lib.m, lib.s, lib.files)] :
               l1 \in MainLines, l2 \in MainLines, lib \in Libraries}
Options1 == {[options |-> Every, args |-> a,
              program |-> ProgramOf(<< <<X("expr")>> >>, << >>, << >>, << >>)] :
               a \in {<< >>, <<AVx>>, <<AVx, LibO>>, <<AVx, AO>>, <<AVx, BVx>>, <<BigVx>>, <<Txt>>}}
SomeCases == Imports1 \cup Options1
SomePrograms == {c.program : c \in SomeCases}
Files == {[name |-> n, is |-> "source"] : n \in {AVx, BVx, BigVx}} \cup {[name |-> LibO, is |-> "object"]}
         \cup {[name |-> AOut, is |-> "program"]}
=============================================================================
