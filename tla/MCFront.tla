------------------------------ MODULE MCFront -------------------------------
(***************************************************************************)
(* The front-end bench: in one behaviour one part of the Verilog front end *)
(* works on one of its cases, on the places, which are whatever that part  *)
(* keeps. The cases come first.                                            *)
(***************************************************************************)
EXTENDS Integers, Sequences, TLC

CONSTANT None

-----------------------------------------------------------------------------
(* Statements.                                                             *)

Digit(v) == [op |-> "const", v |-> v]
Const(digits) == [op |-> "const", bits |-> digits]
Kw(v) == Const(<<Digit(v)>>)
Pat(v, w) == Const(<<Digit(v), Digit(w)>>)     \* the low bit first
Rd(v) == [op |-> "var", v |-> v]
NotOf(e) == [op |-> "not", a |-> e]
AndOf(a, b) == [op |-> "and", a |-> a, b |-> b]
RdMem(m, e) == [op |-> "read", mem |-> m, a |-> e]

Whole(v) == [of |-> "var", v |-> v]
Slice(v, m, l) == [of |-> "slice", v |-> v, m |-> m, l |-> l]
At(v, e) == [of |-> "index", v |-> v, at |-> e, width |-> 1, up |-> TRUE, signed |-> FALSE]
Part(v, e, w, up, signed) == [of |-> "index", v |-> v, at |-> e, width |-> w, up |-> up, signed |-> signed]
InMem(m, e, low, w) == [of |-> "mem", v |-> m, at |-> e, low |-> low, width |-> w]
Joined(parts) == [of |-> "concat", parts |-> parts]

Eq(lhs, rhs) == [op |-> "set", lhs |-> lhs, rhs |-> rhs, how |-> "="]
Le(lhs, rhs) == [op |-> "set", lhs |-> lhs, rhs |-> rhs, how |-> "<="]
Begin(stmts) == [op |-> "block", stmts |-> stmts]
If(cond, then, els) == [op |-> "if", cond |-> cond, then |-> then, els |-> els]
Item(pats, body) == [pats |-> pats, body |-> body]
CaseOf(kind, on, items, default) ==
  [op |-> "case", kind |-> kind, on |-> on, items |-> items, default |-> default, parallel |-> FALSE, full |-> FALSE]
Loop3(v, n, body) ==
  [op |-> "for", init |-> Eq(Whole(v), Pat("0", "0")), cond |-> [op |-> "below", a |-> Rd(v), n |-> n],
   step |-> Eq(Whole(v), [op |-> "next", a |-> Rd(v)]), body |-> body]

-----------------------------------------------------------------------------
(* Programs: variables a, b, c of one bit, s, y, q of two.                 *)

Range1(hi, lo) == [msb |-> hi, lsb |-> lo]
OneTwo == [a |-> Range1(0, 0), b |-> Range1(0, 0), s |-> Range1(1, 0), y |-> Range1(1, 0)]
Prog(mode, body) ==
  [mode |-> mode, vars |-> OneTwo, inits |-> <<>>, mems |-> <<>>, locals |-> <<>>, loops |-> {}, body |-> body]
With(p, vars) == [p EXCEPT !.vars = vars @@ @]

Comb == {
  \* latches, and a bit assigned on every path
  Prog("comb", If(Rd("a"), Eq(At("y", Kw("0")), Rd("b")), Eq(Whole("y"), Rd("s")))),
  Prog("comb", Begin(<<Eq(At("y", Kw("1")), Rd("a")), If(Rd("b"), Eq(Whole("y"), Rd("s")), None)>>)),
  \* all four values covered, with don't-cares and without
  Prog("comb", CaseOf("case", Rd("s"), <<Item(<<Pat("0", "0")>>, Eq(Whole("y"), Rd("a"))),
                                         Item(<<Pat("1", "0"), Pat("0", "1")>>, Eq(Whole("y"), Rd("b"))),
                                         Item(<<Pat("1", "1")>>, Eq(At("y", Kw("0")), Rd("a")))>>, None)),
  Prog("comb", CaseOf("casez", Rd("s"), <<Item(<<Pat("1", "z")>>, Eq(Whole("y"), Rd("a"))),
                                          Item(<<Pat("z", "1")>>, Eq(Whole("y"), Rd("b"))),
                                          Item(<<Pat("z", "0")>>, Eq(Whole("y"), Rd("s")))>>, None)),
  Prog("comb", CaseOf("casex", Rd("s"), <<Item(<<Pat("x", "1")>>, Eq(Whole("y"), Rd("a")))>>, None)),
  \* an x in a pattern of a plain case matches nothing
  Prog("comb", CaseOf("case", Rd("s"), <<Item(<<Pat("x", "1")>>, Eq(Whole("y"), Rd("a"))),
                                         Item(<<Pat("1", "0")>>, Eq(Whole("y"), Rd("b")))>>,
                      Eq(Whole("y"), Rd("s")))),
  [Prog("comb", [CaseOf("case", Rd("s"), <<Item(<<Pat("1", "0")>>, Eq(Whole("y"), Rd("a"))),
                                           Item(<<Pat("0", "1")>>, Eq(At("y", Kw("0")), Rd("b")))>>, None)
                 EXCEPT !.full = TRUE]) EXCEPT !.mode = "comb"],
  \* what is assigned is read back
  Prog("comb", Begin(<<Eq(Whole("y"), Rd("s")), If(Rd("a"), Eq(At("y", Kw("0")), NotOf(Rd("b"))), None),
                       Eq(At("y", Kw("1")), AndOf(Rd("y"), Rd("a")))>>)),
  \* a variable index, ascending ranges, parts that reach outside
  Prog("comb", Begin(<<Eq(Whole("y"), Pat("0", "0")), Eq(At("y", Rd("s")), Rd("a"))>>)),
  With(Prog("comb", Begin(<<Eq(Whole("y"), Const(<<Digit("0"), Digit("1"), Digit("0")>>)),
                            Eq(Part("y", Rd("s"), 2, TRUE, FALSE), Rd("s"))>>)), [y |-> Range1(1, 3)]),
  With(Prog("comb", Begin(<<Eq(Whole("y"), Const(<<Digit("0"), Digit("1"), Digit("0")>>)),
                            Eq(Part("y", Rd("s"), 2, FALSE, TRUE), Rd("s"))>>)), [y |-> Range1(3, 1)]),
  With(Prog("comb", Eq(Part("y", Rd("s"), 2, TRUE, TRUE), Rd("s"))), [y |-> Range1(1, -1)]),
  With(Prog("comb", Eq(Joined(<<Slice("y", 2, 1), At("y", Kw("0"))>>), Rd("s"))), [y |-> Range1(2, 0)]),
  With(Prog("comb", Begin(<<Eq(Slice("y", 0, 1), Rd("s")), Eq(Part("y", Pat("0", "1"), 2, FALSE, FALSE), Rd("s"))>>)),
       [y |-> Range1(0, 2)]),
  \* a loop
  [With(Prog("comb", Loop3("i", 2, If(Rd("a"), Eq(At("y", Rd("i")), Rd("b")), None))), [i |-> Range1(1, 0)])
     EXCEPT !.loops = {"i"}] }

Nested(x) ==
  CaseOf("case", Rd("s"), <<Item(<<Pat("0", "0"), Pat("1", "1")>>, If(Rd("a"), Le(Whole("y"), Rd("s")), None)),
                            Item(<<Pat("0", "1")>>, Le(At("y", Kw("1")), Rd("b")))>>, x)
Clocked == {
  Prog("clocked", Nested(None)),
  Prog("clocked", Nested(Le(At("y", Rd("b")), Rd("a")))),
  \* signals as patterns, the first that holds is taken
  Prog("clocked", CaseOf("case", Kw("1"), <<Item(<<Rd("a")>>, Le(Whole("y"), Rd("s"))),
                                            Item(<<Rd("b")>>, Le(At("y", Kw("0")), Rd("a")))>>, None)),
  Prog("clocked", CaseOf("casez", Rd("s"), <<Item(<<Pat("1", "z")>>, Le(Whole("y"), NotOf(Rd("s")))),
                                             Item(<<Pat("0", "0")>>, Le(At("y", Kw("0")), Rd("b"))),
                                             Item(<<Pat("z", "1")>>, Le(At("y", Kw("1")), Rd("a")))>>, None)),
  [Prog("clocked", [CaseOf("case", Rd("s"), <<Item(<<Pat("0", "0")>>, Le(Whole("y"), Rd("a"))),
                                              Item(<<Pat("1", "0")>>, Begin(<<>>)),
                                              Item(<<Pat("0", "1")>>, Le(Whole("y"), Rd("b")))>>, None)
                    EXCEPT !.parallel = TRUE]) EXCEPT !.mode = "clocked"],
  \* a temporary, and a swap
  Prog("clocked", Begin(<<Eq(Whole("a"), Rd("b")), If(Rd("s"), Eq(Whole("a"), NotOf(Rd("a"))), None),
                          Le(At("y", Kw("0")), Rd("a")), Le(At("y", Kw("1")), AndOf(Rd("y"), Rd("b")))>>)),
  Prog("clocked", Begin(<<Le(Whole("a"), Rd("b")), Le(Whole("b"), Rd("a"))>>)),
  \* both ways is an error
  Prog("clocked", If(Rd("a"), Le(Whole("b"), Rd("s")), Eq(Whole("b"), Rd("y")))),
  \* a task
  [Prog("clocked", Begin(<<Eq(Whole("b"), Rd("a")),
                           [op |-> "call", ins |-> <<[l |-> "in", e |-> Rd("s")]>>,
                            body |-> Begin(<<Eq([of |-> "local", v |-> "out"], NotOf([op |-> "local", l |-> "in"])),
                                             If(Rd("b"), Eq(Whole("b"), Kw("0")), Eq([of |-> "local", v |-> "in"], Kw("1")))>>),
                            outs |-> <<[lhs |-> Whole("y"), l |-> "out"], [lhs |-> Whole("s"), l |-> "in"]>>]>>))
     EXCEPT !.locals = [in |-> 2, out |-> 2]] }

Ram == [m |-> [lo |-> 1, words |-> 2, width |-> 2, regs |-> FALSE, vars |-> <<>>]]
Regs == [m |-> [lo |-> 1, words |-> 2, width |-> 2, regs |-> TRUE, vars |-> <<"m1", "m2">>]]
MemVars == [a |-> Range1(0, 0), s |-> Range1(1, 0), y |-> Range1(1, 0)]
WordVars == [m1 |-> Range1(1, 0), m2 |-> Range1(1, 0)]
MemProg(mode, regs, body) ==
  [mode |-> mode, vars |-> IF regs THEN MemVars @@ WordVars ELSE MemVars, inits |-> <<>>,
   mems |-> IF regs THEN Regs ELSE Ram, locals |-> <<>>, loops |-> {}, body |-> body]
TwoWrites ==
  Begin(<<If(Rd("a"), Le(InMem("m", Rd("s"), 0, 2), Rd("y")), Le(InMem("m", Rd("y"), 1, 1), Rd("a"))),
          Le(InMem("m", Rd("y"), 0, 1), Kw("1"))>>)
Mems == {
  MemProg("clocked", FALSE, TwoWrites),
  MemProg("clocked", TRUE, TwoWrites),
  MemProg("clocked", FALSE, Begin(<<Le(Whole("y"), RdMem("m", Rd("s"))), Le(InMem("m", Rd("s"), 0, 2), Rd("y"))>>)),
  MemProg("clocked", FALSE, Eq(InMem("m", Rd("s"), 0, 2), Rd("y"))),
  MemProg("comb", TRUE, Begin(<<Eq(InMem("m", Rd("s"), 0, 2), Rd("y")), Eq(InMem("m", Pat("1", "0"), 1, 1), Rd("a")),
                                Eq(Whole("y"), RdMem("m", Rd("s")))>>)) }

InitProg(body) ==
  [mode |-> "initial", vars |-> [y |-> Range1(2, 0), i |-> Range1(1, 0)],
   inits |-> [y |-> <<Digit("x"), Digit("0"), Digit("x")>>, i |-> <<Digit("x"), Digit("x")>>],
   mems |-> <<>>, locals |-> <<>>, loops |-> {"i"}, body |-> body]
Initial == {
  InitProg(Loop3("i", 3, If(NotOf(Rd("i")), Le(At("y", Rd("i")), Kw("1")), None))),
  InitProg(CaseOf("case", Rd("y"), <<Item(<<Const(<<Digit("0"), Digit("0"), Digit("x")>>)>>, Eq(At("y", Kw("0")), Kw("1")))>>,
                  Begin(<<Eq(At("y", Kw("1")), Kw("1")), Eq(At("y", Pat("1", "1")), Kw("0"))>>))) }

MCPrograms == Comb \cup Clocked \cup Mems \cup Initial

-----------------------------------------------------------------------------
(* Texts for the preprocessor: macros A, B and M.                          *)

T(t) == [op |-> "token", t |-> t]
IfDef(n) == [op |-> "ifdef", n |-> n]
IfNdef(n) == [op |-> "ifndef", n |-> n]
ElsIf(n) == [op |-> "elsif", n |-> n]
Else == [op |-> "else"]
EndIf == [op |-> "endif"]
Def(n, body) == [op |-> "define", n |-> n, params |-> None, body |-> body]
DefWith(n, params, body) == [op |-> "define", n |-> n, params |-> params, body |-> body]
Undef(n) == [op |-> "undef", n |-> n]
Use(n, args) == [op |-> "use", n |-> n, args |-> args]
Incl(n) == [op |-> "include", n |-> n]
Formal(f, default) == [f |-> f, default |-> default]

MCFiles == [h |-> <<IfNdef("B"), Def("B", <<T("h")>>), T("once"), EndIf>>, loop |-> <<Incl("loop")>>]
Twice == DefWith("M", <<Formal("x", None), Formal("y", <<T("d")>>)>>, <<T("x"), T("y"), T("x")>>)
Openers == {IfDef("A"), IfNdef("A"), IfDef("B")}
MCTexts ==
  {<<d, f, T("p"), m, T("q"), n, T("r"), EndIf, T("s")>> :
     d \in {Def("A", <<>>), Def("B", <<>>), T("o")}, f \in Openers,
     m \in {ElsIf("A"), ElsIf("B"), Else}, n \in {ElsIf("A"), ElsIf("B"), Else}}
  \cup {<<f, T("p"), g, T("q"), m, T("r"), EndIf, n, T("s"), EndIf>> :
     f \in Openers, g \in Openers, m \in {ElsIf("B"), Else}, n \in {ElsIf("A"), Else}}
  \cup {
    <<IfDef("A"), Undef("A"), Def("B", <<>>), Use("M", None), Incl("none"), EndIf, IfDef("B"), T("p"), EndIf>>,
    <<Def("A", <<T("p")>>), Use("A", None), Undef("A"), Use("A", None)>>,
    <<Incl("h"), Incl("h"), Use("B", None)>>, <<Incl("none")>>, <<Incl("loop")>>,
    <<Def("A", <<T("p"), Use("B", None)>>), Def("B", <<T("q"), Use("A", None)>>), Use("A", None)>>,
    <<Twice, Use("M", <<<<T("a")>>>>), Use("M", <<<<T("y")>>, <<T("x")>>>>), Use("M", <<<<>>, <<>>>>)>>,
    <<Twice, Use("M", <<<<>>>>)>>, <<Twice, Use("M", None)>>, <<Twice, Use("M", <<<<T("a")>>, <<>>, <<>>>>)>>,
    <<DefWith("A", <<>>, <<T("p")>>), Use("A", <<<<>>>>), Use("A", <<<<T("q")>>>>)>>,
    <<Twice, DefWith("A", <<Formal("z", None)>>, <<Use("M", <<<<T("z")>>, <<T("z"), T("b")>>>>)>>), Use("A", <<<<Use("B", None)>>>>)>>,
    <<Twice, Def("B", <<T("b")>>), Use("M", <<<<Use("B", None)>>>>)>>,
    <<Def("A", <<IfDef("B"), T("p"), Else, T("q"), EndIf>>), Use("A", None), Def("B", <<>>), Use("A", None)>>,
    <<EndIf>>, <<Else>>, <<ElsIf("A")>>, <<IfDef("A"), T("p")>>, <<IfDef("A"), IfDef("B"), EndIf>>,
    <<IfDef("A"), EndIf, T("p"), EndIf>> }

-----------------------------------------------------------------------------
(* Designs of several modules.                                             *)

K(k) == [op |-> "k", k |-> k]
P(n) == [op |-> "p", n |-> n]
Two(op, a, b) == [op |-> op, a |-> a, b |-> b]
ParamOf(n, e, local, header, width) ==
  [op |-> "param", n |-> n, e |-> e, local |-> local, header |-> header, width |-> width]
Wire(n) == [op |-> "net", n |-> n]
Drive(lhs, path) == [op |-> "assign", lhs |-> lhs, path |-> path]
Inst(n, m, given) == [op |-> "inst", n |-> n, m |-> m, given |-> given]
By(n, e) == [n |-> n, e |-> e]
Defparam(inst, n, e) == [op |-> "defparam", inst |-> inst, n |-> n, e |-> e]
BlockOf(n, items) == [n |-> n, items |-> items]
IfGen(c, then, els) == [op |-> "if", c |-> c, then |-> then, els |-> els]
CaseGen(e, arms) == [op |-> "case", e |-> e, arms |-> arms]
ArmOf(keys, block) == [keys |-> keys, block |-> block]
ForGen(n, from, below, block) == [op |-> "for", n |-> n, from |-> from, below |-> below, block |-> block]
BlockGen(block) == [op |-> "block", block |-> block]

\* A leaf with a header: only P and Q can be given; a cell by its width.
Leaf == <<ParamOf("P", K(1), FALSE, TRUE, 0), ParamOf("Q", Two("add", P("P"), K(1)), FALSE, TRUE, 2),
          ParamOf("L", Two("add", P("Q"), P("P")), TRUE, FALSE, 0), Wire("x"), Drive("y", <<"L">>)>>
\* Names of a loop, of an if, of chains without names.
Blocky == <<ParamOf("N", K(2), FALSE, FALSE, 0), Wire("x"),
  ForGen("i", K(0), P("N"), BlockOf("g",
    <<Wire("t"), Drive("x", <<"i">>), Drive("t", <<"x">>),
      IfGen(Two("eq", P("i"), K(0)), BlockOf(None, <<Wire("x"), Drive("x", <<"t">>), Drive("imp", <<"i">>)>>),
                                     BlockOf("h", <<Drive("t", <<<<"g", 0>>, "t">>), Drive("x", <<"i">>)>>))>>)),
  IfGen(Two("eq", P("N"), K(1)), BlockOf(None, <<Wire("a"), Drive("a", <<"x">>)>>),
    BlockOf(None, <<IfGen(Two("below", P("N"), K(3)), BlockOf(None, <<Wire("b"), Drive("b", <<<<"g", 1>>, "t">>)>>),
                                                     BlockOf("other", <<Drive("x", <<"N">>)>>))>>)),
  Drive("x", <<<<"g", 0>>, <<"genblk", 1>>, "imp">>) >>
Cased == <<ParamOf("N", K(0), FALSE, FALSE, 0), Wire("x"),
  CaseGen(P("N"), <<ArmOf(<<K(1), K(2)>>, BlockOf("low", <<Inst("u", "leaf", <<By("Q", P("N"))>>)>>)),
                    ArmOf(<<>>, BlockOf(None, <<Drive("x", <<"N">>), Inst("u", "leaf", <<>>)>>)),
                    ArmOf(<<K(2), K(5)>>, BlockOf("high", <<ParamOf("M", Two("add", P("N"), K(1)), TRUE, FALSE, 0),
                                                            Inst("u", "leaf", <<By(None, P("M"))>>)>>))>>),
  BlockGen(BlockOf(None, <<Wire("w"), Drive("w", <<"x">>)>>)) >>

TopOf(items) == [top |-> "top", sources |-> ("leaf" :> Leaf) @@ ("blocky" :> Blocky) @@ ("cased" :> Cased) @@ ("top" :> items)]
MCHierarchies ==
  {TopOf(<<Inst("a", m, g), Inst("b", m, h), Inst("c", m, <<>>)>>) : m \in {"leaf"},
     g \in {<<By(None, K(2))>>, <<By("P", K(2))>>, <<By("Q", K(2))>>, <<By("Q", K(2)), By("P", K(1))>>},
     h \in {<<By(None, K(2)), By(None, K(6))>>, <<By("P", K(2))>>, <<By("P", K(1)), By("Q", K(2))>>}}
  \cup {TopOf(<<Inst("a", m, <<By("N", K(k))>>), Inst("b", m, <<By(None, K(j))>>)>>) :
           m \in {"blocky", "cased"}, k \in 0 .. 3, j \in {1, 2, 5}}
  \cup {
    TopOf(<<ForGen("i", K(1), K(4), BlockOf("g", <<Inst("u", "leaf", <<By("P", Two("add", P("i"), K(0)))>>)>>)),
            Inst("v", "leaf", <<By("P", K(3))>>)>>),
    TopOf(<<Defparam("a", "P", K(3)), Inst("a", "leaf", <<By("P", K(1)), By("Q", K(1))>>), Inst("b", "leaf", <<By("P", K(3))>>)>>),
    TopOf(<<ForGen("i", K(0), K(2), BlockOf("g", <<Defparam("u", "Q", P("i")), Inst("u", "leaf", <<>>)>>))>>),
    TopOf(<<Defparam("a", "L", K(3)), Inst("a", "leaf", <<>>)>>),
    TopOf(<<Inst("a", "leaf", <<By("L", K(1))>>)>>), TopOf(<<Inst("a", "none", <<>>)>>),
    TopOf(<<Inst("a", "leaf", <<By(None, K(1)), By(None, K(1)), By(None, K(1))>>)>>),
    TopOf(<<Inst("a", "top", <<>>)>>), TopOf(<<Wire("a"), Wire("a")>>),
    TopOf(<<Drive("a", <<"b">>)>>), TopOf(<<Drive("a", <<<<"g", 0>>, "t">>), ForGen("i", K(0), K(1), BlockOf("g", <<Wire("t")>>))>>) }

-----------------------------------------------------------------------------
(* Expressions of a, signed, b, unsigned and ascending, and s, of one bit. *)

Named(msb, lsb, signed) == [msb |-> msb, lsb |-> lsb, signed |-> signed]
MCNames == [a |-> Named(1, 0, TRUE), b |-> Named(1, 2, FALSE), s |-> Named(0, 0, TRUE)]

Name(n) == [op |-> "name", n |-> n]
Num(bits, signed) == [op |-> "num", bits |-> bits, signed |-> signed, sized |-> TRUE]
Unsized(bits) == [op |-> "num", bits |-> bits, signed |-> TRUE, sized |-> FALSE]
Un(f, a) == [op |-> "un", f |-> f, a |-> a]
Bin(f, a, b) == [op |-> "bin", f |-> f, a |-> a, b |-> b]
Cond(c, a, b) == [op |-> "cond", c |-> c, a |-> a, b |-> b]
Cat(parts) == [op |-> "concat", parts |-> parts]
Rep(n, parts) == [op |-> "repeat", n |-> n, parts |-> parts]
AsSigned(e) == [op |-> "sign", signed |-> TRUE, a |-> e]
AsUnsigned(e) == [op |-> "sign", signed |-> FALSE, a |-> e]
BitOf(n, e) == [op |-> "index", n |-> n, at |-> e]
SliceOf(n, m, l) == [op |-> "slice", n |-> n, m |-> m, l |-> l]
PartOf(n, e, width, up) == [op |-> "part", n |-> n, at |-> e, width |-> width, up |-> up]
CallOf(f, args) == [op |-> "call", f |-> f, args |-> args]

MCFuns ==
  [mean |-> [ret |-> [width |-> 3, signed |-> TRUE],
             params |-> <<[n |-> "p", msb |-> 2, lsb |-> 0, signed |-> TRUE],
                          [n |-> "r", msb |-> 0, lsb |-> 1, signed |-> FALSE]>>,
             body |-> Bin("ashr", Bin("sub", Name("p"), BitOf("r", Num(<<"1", "0">>, FALSE))), Num(<<"1">>, FALSE))]]

Both == {"add", "sub", "mul", "div", "mod", "xor", "xnor", "and", "or", "pow", "shl", "shr", "ashr", "lt", "ge", "gt",
         "le", "eq", "ne", "eqx", "nex", "logic_and", "logic_or"}
Atoms == {Name("a"), Name("b"), Num(<<"1", "1">>, TRUE)}
Pairs == {Bin(f, l, r) : f \in Both, l \in Atoms, r \in {Name("a"), Name("b")}}

Deep == {
  Bin("add", Bin("mul", Name("a"), Name("a")), Num(<<"0", "1">>, FALSE)),
  Bin("ashr", Bin("add", Name("a"), Name("s")), Name("b")),
  Bin("shr", Un("neg", Name("a")), Num(<<"1">>, FALSE)),
  Bin("lt", Bin("sub", Name("a"), Name("s")), Num(<<"1", "0", "0">>, TRUE)),
  Bin("eq", Bin("add", Name("a"), Name("b")), Name("a")),
  Bin("sub", AsSigned(Name("b")), AsUnsigned(Name("a"))),
  Bin("div", AsSigned(Cat(<<Name("b"), Name("s")>>)), Name("a")),
  Bin("mod", Un("not", Name("a")), AsSigned(Name("b"))),
  Un("neg", Cat(<<Name("s"), Num(<<"1">>, FALSE), Name("a")>>)),
  Rep(2, <<Name("s"), Num(<<"0">>, FALSE)>>),
  Cond(Name("b"), Name("a"), Name("s")),
  Cond(Name("s"), Name("a"), Num(<<"1">>, FALSE)),
  Cond(Num(<<"0", "1">>, FALSE), Name("a"), BitOf("b", Num(<<"1", "1">>, FALSE))),
  Cond(Bin("logic_or", Num(<<"0">>, FALSE), Name("a")), Unsized(<<"1", "x">>), Name("s")),
  Bin("logic_and", Num(<<"0">>, FALSE), Bin("div", Name("a"), Num(<<"0">>, FALSE))),
  Bin("add", Unsized(<<"0", "x">>), Name("a")),
  Bin("and", [op |-> "fill", v |-> "1"], Name("a")),
  BitOf("b", Name("a")), BitOf("b", Name("b")), BitOf("a", Num(<<"1">>, TRUE)), BitOf("a", Name("s")),
  BitOf("b", Bin("add", Name("b"), Num(<<"1", "1">>, FALSE))),
  SliceOf("b", 1, 2), SliceOf("a", 1, 1), SliceOf("a", 2, 0),
  PartOf("b", Name("b"), 2, TRUE), PartOf("b", Name("b"), 2, FALSE), PartOf("a", Name("b"), 2, FALSE),
  PartOf("b", Num(<<"1", "0">>, FALSE), 2, TRUE), PartOf("b", Num(<<"0", "1">>, FALSE), 2, FALSE),
  PartOf("a", Num(<<"x">>, FALSE), 1, TRUE), PartOf("a", Name("s"), 2, TRUE),
  [op |-> "clog2", a |-> Num(<<"1", "0", "1">>, FALSE)], [op |-> "clog2", a |-> Num(<<"0", "0", "1">>, FALSE)],
  [op |-> "bits", a |-> Bin("add", Name("a"), Cat(<<Name("a"), Name("s")>>))],
  CallOf("mean", <<Name("a"), Name("a")>>),
  Bin("add", CallOf("mean", <<Bin("add", Name("b"), Name("b")), Name("s")>>), Name("a")) }
  \cup {Un(f, Name("b")) : f \in {"pos", "neg", "not", "lnot", "rand", "rnand", "ror", "rnor", "rxor", "rxnor"}}

MCExpressions ==
  {[e |-> e, to |-> 4, exact |-> e.op = "bin" /\ e.f \in {"eqx", "nex"}] : e \in Pairs \cup Deep}
    \cup {[e |-> e, to |-> 1, exact |-> FALSE] : e \in {p \in Pairs : p.f \in {"add", "ashr", "div"}}}

-----------------------------------------------------------------------------
(* always blocks with edges: signals clk, r, p, i.                         *)

Sig(s) == [op |-> "id", s |-> s]
NotSig(e) == [op |-> "not", a |-> e]
EqSig(e, v) == [op |-> "eq", a |-> e, v |-> v]
NeSig(e, v) == [op |-> "ne", a |-> e, v |-> v]
Up(s) == [sig |-> s, edge |-> "pos"]
Down(s) == [sig |-> s, edge |-> "neg"]
Test(cond, values) == [cond |-> cond, values |-> values]
AlwaysOf(events, tests, d) == [events |-> events, tests |-> tests, d |-> d]

MCBlocks == {
  AlwaysOf(<<Up("clk")>>, <<Test(Sig("i"), <<"0", "q">>)>>, <<"i", "1">>),
  AlwaysOf(<<Up("clk"), Down("r")>>, <<Test(NotSig(Sig("r")), <<"0", "1">>)>>, <<"i", "i">>),
  AlwaysOf(<<Up("r"), Down("clk")>>, <<Test(EqSig(NotSig(Sig("r")), FALSE), <<"1", "q">>),
                                       Test(Sig("i"), <<"0", "1">>)>>, <<"q", "i">>),
  AlwaysOf(<<Up("clk"), Up("r")>>, <<Test(Sig("r"), <<"i", "0">>)>>, <<"1", "i">>),
  AlwaysOf(<<Up("clk"), Down("r"), Up("p")>>, <<Test(Sig("p"), <<"0", "1">>),
                                                Test(NeSig(Sig("r"), TRUE), <<"1", "1">>)>>, <<"i", "i">>),
  \* rejected: the level is not the edge's, no test, another signal, a test
  \* of two signals, no constant
  AlwaysOf(<<Up("clk"), Up("r")>>, <<Test(NotSig(Sig("r")), <<"0", "1">>)>>, <<"i", "i">>),
  AlwaysOf(<<Up("clk"), Up("r")>>, <<>>, <<"i", "i">>),
  AlwaysOf(<<Up("clk"), Up("r")>>, <<Test(Sig("i"), <<"0", "1">>)>>, <<"i", "i">>),
  AlwaysOf(<<Up("clk"), Up("r")>>, <<Test([op |-> "and", a |-> Sig("r"), b |-> Sig("i")], <<"0", "1">>)>>, <<"i", "i">>),
  AlwaysOf(<<Up("clk"), Up("r"), Up("p")>>, <<Test(Sig("r"), <<"0", "1">>), Test(Sig("p"), <<"i", "1">>)>>,
           <<"i", "i">>) }

-----------------------------------------------------------------------------
(* Nets and their drivers.                                                 *)

JoinedNets(cells, inputs, assigns) ==
  [nets |-> 1 .. 3, inputs |-> inputs, assigns |-> assigns, outs |-> <<>>, inits |-> <<>>,
   vars |-> {}, cells |-> cells]
CellAt(n, tri) == [out |-> n, tri |-> tri]
\* Low and high.
Low == 0
High == -1
JoinPairs == {p \in (1 .. 3) \X (1 .. 3) : p[1] # p[2]} \cup {<<2, Low>>, <<3, Low>>, <<3, High>>}

Out(var, nets, values, temp, reg) == [var |-> var, nets |-> nets, values |-> values, temp |-> temp, reg |-> reg]
BlockNets(assigns, outs, inits, vars) ==
  [nets |-> 1 .. 5, inputs |-> {1}, assigns |-> assigns, outs |-> outs, inits |-> inits, vars |-> vars, cells |-> {}]
Blocked == {
  \* a temporary of two blocks, and one that another block assigns too
  BlockNets(<<<<5, 4>>>>, <<Out("t", <<2>>, <<1>>, TRUE, FALSE), Out("t", <<2>>, <<3>>, TRUE, FALSE),
                            Out("y", <<4>>, <<1>>, FALSE, FALSE)>>, <<>>, {}),
  BlockNets(<<>>, <<Out("t", <<2>>, <<1>>, TRUE, FALSE), Out("t", <<2>>, <<1>>, FALSE, TRUE)>>, 2 :> High, {{2}}),
  \* different bits, and the same bit, of a variable
  BlockNets(<<>>, <<Out("y", <<2, 3>>, <<1, 4>>, FALSE, FALSE), Out("y", <<4>>, <<1>>, FALSE, TRUE)>>,
            (3 :> Low) @@ (4 :> High), {2 .. 4}),
  BlockNets(<<>>, <<Out("y", <<2, 3>>, <<1, 4>>, FALSE, FALSE), Out("y", <<3>>, <<1>>, FALSE, TRUE)>>, <<>>, {}),
  \* a register on a net that is also assigned
  BlockNets(<<<<2, 3>>>>, <<Out("q", <<2>>, <<1>>, FALSE, TRUE), Out("r", <<3>>, <<1>>, FALSE, TRUE)>>, <<>>, {}),
  BlockNets(<<<<2, Low>>>>, <<Out("q", <<2>>, <<1>>, FALSE, TRUE)>>, <<>>, {}) }
\* Initial values of a register, of logic, of an assigned net, of what nothing
\* drives and of an input: bits of one variable or of several.
Started ==
  {BlockNets(<<<<4, 1>>>>, <<Out("q", <<2>>, <<1>>, FALSE, TRUE), Out("y", <<3>>, <<2>>, FALSE, FALSE)>>,
             [n \in 1 .. 5 |-> IF n \in {3, 5} THEN Low ELSE High], vars) :
     vars \in {{{1}, {2}, {3}, {4}, {5}}, {{1}, {2, 3, 5}, {4}}, {{1}, {2, 3}, {4, 5}}, {{1}, {2}, {3, 4}, {5}},
               {{1}, {2, 4}, {3, 5}}, {{1}, 2 .. 5}}}

MCDrivers ==
  Blocked \cup Started \cup {JoinedNets(cells, inputs, assigns) :
     inputs \in {{1}, {1, 3}},
     cells \in {{CellAt(2, FALSE)}, {CellAt(2, TRUE), CellAt(3, TRUE)}, {CellAt(2, FALSE), CellAt(3, TRUE)}},
     assigns \in [1 .. 3 -> JoinPairs]}

\* `casez` with overlapping patterns, and a case on signals.
HoldFirst == {
  Prog("clocked", CaseOf("casez", Rd("s"), <<Item(<<Pat("z", "1")>>, Begin(<<>>)),
                                             Item(<<Pat("1", "z")>>, Le(Whole("y"), Rd("b")))>>, None)),
  Prog("clocked", CaseOf("case", Kw("1"), <<Item(<<Rd("a")>>, Begin(<<>>)),
                                            Item(<<Rd("b")>>, Le(Whole("y"), Rd("s")))>>, None)) }

-----------------------------------------------------------------------------
VARIABLES bench, one, two, three, four, five, six, seven

places == <<one, two, three, four, five, six, seven>>
front == <<bench, places>>

Spare3 == <<bench, four, five, six, seven>>
Spare4 == <<bench, five, six, seven>>
Spare6 == <<bench, seven>>
Spare7 == <<bench>>

-----------------------------------------------------------------------------
Bodies == INSTANCE Procedure WITH
  Programs <- MCPrograms,
  program <- one, work <- two, env <- three

Edges == INSTANCE Drivers WITH
  Blocks <- MCBlocks, Designs <- MCDrivers,
  always <- one, edges <- two, resets <- three, taken <- four,
  signals <- five, kept <- six, says <- seven, design <- one, links <- two,
  todo <- three, regs <- four, init <- five, conflict <- six, result <- seven

Values == INSTANCE Expression WITH
  Names <- MCNames, Funs <- MCFuns, Expressions <- MCExpressions,
  INTEGER_BITS <- 4,
  expression <- one, nets <- two, made <- three

Text == INSTANCE Preprocessor WITH
  Files <- MCFiles, Sources <- MCTexts, MAX_DEPTH <- 3,
  source <- one, lexers <- two, conds <- three, macros <- four, out <- five,
  result <- six

Modules == INSTANCE Elaborate WITH
  Designs <- MCHierarchies,
  design <- one, frames <- two, out <- three, result <- four

-----------------------------------------------------------------------------
Init ==
  \/ bench = "block" /\ Bodies!Init /\ four = None /\ five = None /\ six = None /\ seven = None
  \/ bench = "process" /\ Edges!AlwaysInit
  \/ bench = "drivers" /\ Edges!Init
  \/ bench = "expression" /\ Values!Init /\ four = None /\ five = None /\ six = None /\ seven = None
  \/ bench = "text" /\ Text!Init /\ seven = None
  \/ bench = "hierarchy" /\ Modules!Init /\ five = None /\ six = None /\ seven = None

Next ==
  \/ bench = "block" /\ Bodies!Next /\ UNCHANGED Spare3
  \/ bench = "process" /\ Edges!AlwaysNext /\ UNCHANGED Spare7
  \/ bench = "drivers" /\ Edges!Next /\ UNCHANGED Spare7
  \/ bench = "expression" /\ Values!Next /\ UNCHANGED Spare3
  \/ bench = "text" /\ Text!Next /\ UNCHANGED Spare6
  \/ bench = "hierarchy" /\ Modules!Next /\ UNCHANGED Spare4

Spec == Init /\ [][Next]_front

-----------------------------------------------------------------------------
\* What is built of an always block, or a function or an initial block, is
\* what running its statements in order would leave in every variable and
\* memory, for every input: priorities of the arms, latches, non-blocking
\* and dynamic writes (elab/stmt.rs).
BlockSame == bench = "block" => Bodies!BlockSame

\* The registers of an always block with edges, with the resets found in
\* its first tests, hold what running the block at each of its events would
\* leave, whatever order the signals change in (elab/proc.rs).
RegistersFollow == bench = "process" => Edges!RegistersFollow

\* A module is accepted exactly if no net of it has two drivers, a tri-
\* state one beside another not tri-state included, however assignments
\* join nets; an input port joined to a constant is none (items.rs
\* check_drivers, build.rs join).
AcceptedIffOneDriver == bench = "drivers" => Edges!AcceptedIffOneDriver

\* An initial value is kept on the register that starts with it, or is what
\* the net is tied to; those of a variable that is an input or continuously
\* driven in any bit stay where they are (proc.rs finish_processes, items.rs
\* finish).
InitHasAPlace == bench = "drivers" => Edges!InitHasAPlace

\* An expression built of cells, folded wherever its operands are known,
\* has the value the standard gives it: operand widths, signs and contexts,
\* selects out of range, x (elab/expr.rs, fold.rs).
ByTheStandard == bench = "expression" => Values!ByTheStandard

\* Learning one more bit of an operand never changes a bit of the result
\* that was known: folding agrees with what the cells would compute later
\* (fold.rs).
KnownStaysKnown == [][bench = "expression" => Values!KnownStays]_front

\* The tokens kept, and the error, are those of reading the text as nested
\* conditionals: a branch after one taken is never taken, one in a skipped
\* part neither, macros mean what they do where they are used (pp.rs).
ReadAsNested == bench = "text" => Text!ReadAsNested

\* Every instance reaches a netlist module made with the values its own
\* parameters have where it stands, and holding the instances it should,
\* though modules are shared by their parameters (elab/mod.rs, items.rs).
SharedAsIfOwn == bench = "hierarchy" => Modules!SharedAsIfOwn

\* A name means the declaration of the innermost scope around it, a block
\* of a generate loop the one with that index, whatever was elaborated
\* before (elab/items.rs generate, expr.rs lookup).
NamesAreLexical == bench = "hierarchy" => Modules!NamesAreLexical

-----------------------------------------------------------------------------
\* Always blocks, functions and initial blocks become what running them
\* would leave, registers and resets included, and a module is accepted
\* exactly if every net of it then has one driver; initial values stay with
\* registers and undriven nets, but for variables that are assigned or inputs.
BlocksAndDrivers ==
  /\ BlockSame
  /\ RegistersFollow
  /\ AcceptedIffOneDriver
  /\ InitHasAPlace

\* Expressions have the value the standard gives them, known operands
\* folded or not.
ExpressionsKept ==
  /\ [](ByTheStandard)
  /\ KnownStaysKnown

\* Conditionals and macros are read as nested, and names, parameters and
\* instances mean what they mean where they stand.
TextAndNames ==
  /\ ReadAsNested
  /\ SharedAsIfOwn
  /\ NamesAreLexical

-----------------------------------------------------------------------------
PriorityBench == INSTANCE Procedure WITH
  Programs <- HoldFirst,
  program <- one, work <- two, env <- three

PriorityInit == bench = "block" /\ PriorityBench!Init /\ four = None /\ five = None /\ six = None /\ seven = None
PrioritySpec == PriorityInit /\ [][PriorityBench!Next /\ UNCHANGED Spare3]_front

\* An arm is taken where no arm of an earlier group is ("Set when this arm
\* is taken (given that no earlier group's was)", elab/stmt.rs): the block
\* leaves what running it does.
EarlierArmWins == PriorityBench!BlockSame

=============================================================================
