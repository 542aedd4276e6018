------------------------------ MODULE MCFrontend ------------------------------
(* Widths, prototypes, operands and calls to check the front end with: i2 *)
(* to i8 stand for i8 to i64, floats of 5 and 7 bits for f32 and f64.      *)
EXTENDS Frontend

MCSizeType == Integer(8)
Sig(b) == FT(Integer(b), {"signed"})
Uns(b) == FT(Integer(b), {})
F64 == FT(Float(7), {})
T == FT(Struct("t"), {})
MCKnown == [t |-> T, u |-> FT(Struct("u"), {}), v |-> FT(Struct("v"), {}), int |-> Sig(6)]
MCFieldTypes == [t |-> <<>>, u |-> <<[type |-> "t", times |-> 1]>>,
                 v |-> <<[type |-> "u", times |-> 1], [type |-> "t", times |-> 2]>>]
MCPath == <<>>
MCFields == [t |-> {"a"}, u |-> {}, v |-> {}]
MCLarge == {Struct("t")}
Plain == [word |-> "", first |-> "f", then |-> "", second |-> "", setter |-> FALSE,
        args |-> <<>>, varargs |-> FALSE, ret |-> Sig(6), c_api |-> FALSE]
As(word, type) == [word |-> word, type |-> type]
Fn(word, type) == [Plain EXCEPT !.args = <<As(word, type)>>]
Of(word, then, args, ret) ==
    [Plain EXCEPT !.word = word, !.first = "t", !.then = then, !.second = "x",
                !.args = args, !.ret = ret]
I == <<As("", Sig(6))>>
Setter(ft) == [Of("", ".", <<As("", ft)>>, ft) EXCEPT !.setter = TRUE]
MCHeaders ==
    {Fn("", ft) : ft \in {Sig(6), Uns(6), Vec(Sig(6)), Vec(F64), T}}
    \cup {Fn("ref", Sig(6)), [Fn("const", T) EXCEPT !.ret = F64]}
    \cup {[Fn("", Sig(8)) EXCEPT !.varargs = TRUE], [Fn("", Sig(6)) EXCEPT !.c_api = TRUE],
          [Fn("", Sig(6)) EXCEPT !.ret = Sig(8)], [Fn("", T) EXCEPT !.first = "int", !.ret = Void]}
    \cup {Of("", ".", <<>>, Sig(6)), Of("const", ".", <<>>, Sig(6)),
          Of("", ".", I, Sig(6)), Setter(Sig(6)), Setter(Sig(8))}
    \cup {Of("", "", I, Void), Of("", "", <<>>, Sig(6)), Of("init", "", I, Void)}
    \cup {Of(word, "", <<>>, Void) : word \in {"", "init", "clone", "~"}}
    \cup {[Of(word, "", <<>>, Void) EXCEPT !.first = "u"] : word \in {"clone", "~"}}
    \cup {[Of("~", "", <<>>, Void) EXCEPT !.first = "v"]}
    \cup {Of("", "-", <<>>, T), Of("", "-", I, T),
          [Of("", "-", <<As("", T)>>, T) EXCEPT !.first = "int"]}
Arg(ft, unknown) == [type |-> ft.type, attr |-> ft.attr, unknown |-> unknown, list |-> FALSE]
MCExamples ==
    {<<Arg(ft, FALSE)>> : ft \in {Sig(4), Sig(6), Uns(6), F64}}
    \cup {<<Arg(Sig(6), TRUE)>>, <<Arg(T, FALSE)>>, <<Arg(T, FALSE), Arg(Sig(6), FALSE)>>}

Variable(ft, v) == Leaf("variable", ft.type, ft.attr, v)
MCLeaves ==
    {Variable(Sig(2), -2), Variable(Uns(2), 3)}
    \cup {Variable(Sig(6), -6), Variable(Uns(6), 2), Variable(Uns(6), 63)}
    \cup {Variable(Sig(8), -128), Variable(FT(Float(5), {}), 3)}
    \cup {Variable(FT(Float(5), {"signed"}), 2), Leaf("literal", Float(7), {"signed"}, 3)}
    \cup {Leaf("literal", Integer(6), {"signed"}, -1)}
MCPieces ==
    {Var("a"), Numeral("1"), Numeral("-1"), Call("f", <<>>), Op("-", <<Var("a"), Var("b")>>),
     Op("prefix-", <<Var("b")>>), Op("postfix-", <<Var("a")>>)}
MCSigned1 == [written \in {<<"-", "1">>} |-> "-1"]
=============================================================================
