------------------------------ MODULE MCSynth -------------------------------
(***************************************************************************)
(* The synthesis bench: in one behaviour one pass works on one of its      *)
(* cases, on the places one .. nine, which are whatever the pass keeps.    *)
(* The cases come first.                                                   *)
(***************************************************************************)
EXTENDS Integers, Sequences, FiniteSets

CONSTANT None

-----------------------------------------------------------------------------
(* Registers as the netlist has them.                                      *)

Polarities == {[s \in {"clk", "en", "r", "s"} |-> s \in on] : on \in {{}, {"clk", "en", "r", "s"}, {"clk", "r"}}}
FlopKinds == {"plain", "async", "sync", "load", "setclr", "latch", "alatch", "srlatch", "sr"}
MCFlops ==
  {f \in [kind : FlopKinds, en : BOOLEAN, over : {"always", "reset", "enable"}, value : BOOLEAN,
          pol : Polarities, init : BOOLEAN, mux : BOOLEAN, lab : BOOLEAN] :
     /\ f.kind # "sync" => f.over = "always"
     /\ f.kind = "sync" => f.en = (f.over # "always")
     /\ f.kind \notin {"async", "sync", "alatch"} => ~f.value
     /\ f.kind \in {"latch", "alatch", "srlatch", "sr"} => ~f.en
     /\ f.mux => f.kind \in {"plain", "async", "sync"}
     /\ f.lab => f.mux \/ f.kind = "sync"}

-----------------------------------------------------------------------------
(* Registers whose D is a tree of multiplexers.                            *)

DffLeaf(v) == [leaf |-> v]
DffLeaves == {DffLeaf(v) : v \in {"q", "0", "1", "i"}}
DffMux(s, a, b, one) == [s |-> s, a |-> a, b |-> b, one |-> one]
DffOne == {DffMux("s", a, b, TRUE) : a \in DffLeaves, b \in DffLeaves}
DffTwo ==
  {DffMux(s, d, l, TRUE) : s \in {"s", "t"}, l \in {DffLeaf("q"), DffLeaf("0")},
                           d \in {DffMux("s", a, b, o) : a \in {DffLeaf("q"), DffLeaf("i")}, b \in DffLeaves, o \in BOOLEAN}}
    \cup {DffMux(s, l, d, TRUE) : s \in {"s", "t"}, l \in {DffLeaf("q"), DffLeaf("1"), DffLeaf("i")},
                           d \in {DffMux("s", a, b, TRUE) : a \in DffLeaves, b \in {DffLeaf("q"), DffLeaf("i")}}}
When(s, v) == [sig |-> s, val |-> v]
DffEnables == {{}, {{When("t", "1")}}, {{When("1", "1")}}, {{When("0", "1")}}}
DffResets(v) == {None} \cup {[any |-> {c}, value |-> v] : c \in {When("t", "0"), When("0", "1"), When("1", "1")}}
MCRegisters ==
  {r \in [d : DffLeaves \cup DffOne \cup DffTwo, en : DffEnables, arst : DffResets("0"), srst : DffResets("1"),
          over : BOOLEAN, init : {"0", "x"}, frozen : {FALSE}] :
     /\ r.arst = None \/ r.srst = None
     /\ r.over => r.srst # None /\ r.en # {}
     /\ r.d \in DffTwo => r.arst = None /\ r.init = "0"}

-----------------------------------------------------------------------------
(* Machines of two registers and one input.                                *)

Lit(v) == [op |-> "const", in |-> v]
Of(n) == [op |-> "leaf", in |-> n]
Gate1(x) == [op |-> "not", in |-> <<x>>]
Gate2(op, x, z) == [op |-> op, in |-> <<x, z>>]
Mux3(x, z, s) == [op |-> "mux", in |-> <<x, z, s>>]

ConstDs ==
  {Of("a"), Of("b"), Gate2("and", Of("a"), Of("i")), Gate2("and", Of("i"), Gate1(Of("i"))),
   Mux3(Of("a"), Of("b"), Of("i")), Gate2("xor", Of("a"), Of("b")),
   Mux3(Gate2("and", Of("a"), Of("j")), Of("b"), Of("i")), Gate1(Of("a"))}
ConstRegister(d, en, reset, kind, value, init, stuck) ==
  [d |-> d, en |-> en, reset |-> reset, kind |-> kind, value |-> value, init |-> init, stuck |-> stuck]
MCSeqMachines ==
  {[a |-> ConstRegister(d, en, r.reset, r.kind, v, init, st), b |-> ConstRegister(e, None, None, "plain", FALSE, FALSE, FALSE)] :
     d \in ConstDs, e \in {Of("a"), Of("b"), Gate2("and", Of("a"), Of("i"))},
     en \in {None, Of("i"), Lit(FALSE)}, v \in BOOLEAN, init \in BOOLEAN, st \in {FALSE},
     r \in {[reset |-> None, kind |-> "plain"], [reset |-> Of("i"), kind |-> "reset"],
            [reset |-> Of("j"), kind |-> "enable"], [reset |-> Of("j"), kind |-> "async"]}}
    \cup {[a |-> ConstRegister(Of("i"), None, None, "plain", FALSE, TRUE, TRUE),
           b |-> ConstRegister(d, None, None, "plain", FALSE, TRUE, FALSE)] : d \in ConstDs}

NeverRegister(d, en, reset, kind, value, init) == ConstRegister(d, en, reset, kind, value, init, FALSE)
NeverDs == {Of("i"), Gate1(Of("i")), Of("b"), Gate2("and", Of("b"), Of("i"))}
MCNeverMachines ==
  {[regs |-> [a |-> NeverRegister(d, en, r.reset, r.kind, v, init),
              b |-> NeverRegister(e, None, None, "plain", FALSE, FALSE)],
    early |-> early, late |-> late] :
     d \in NeverDs, e \in {Gate1(Of("b")), Of("i")},
     early \in {Of("i"), Of("b"), Gate2("and", Of("a"), Of("i"))},
     late \in {Of("a"), Gate2("and", Of("a"), Of("b")), Gate2("and", Gate1(Of("a")), Of("i"))},
     v \in {FALSE}, init \in {FALSE, TRUE, None}, en \in {None, Of("j")},
     r \in {[reset |-> None, kind |-> "plain"], [reset |-> Of("i"), kind |-> "reset"]}}
    \cup {[regs |-> [a |-> NeverRegister(d, None, Of("i"), "async", FALSE, FALSE),
              b |-> NeverRegister(Of("i"), None, None, "plain", FALSE, TRUE)],
           early |-> Of("i"), late |-> late] :
            d \in NeverDs, late \in {Of("a"), Gate2("and", Of("a"), Of("b")), Gate2("and", Gate1(Of("a")), Gate1(Of("b")))}}

-----------------------------------------------------------------------------
(* State registers of two bits, two multiplexers.                          *)

FsmBit(b) == [bit |-> b]
FsmQ(n) == [q |-> n]
FsmCell(c, n) == [cell |-> c, bit |-> n]
FsmFixed == {<<FsmBit(FALSE), FsmBit(TRUE)>>, <<FsmBit(TRUE), FsmBit(TRUE)>>, <<FsmBit(TRUE), FsmBit(FALSE)>>}
FsmWords == FsmFixed \cup {<<FsmQ(1), FsmQ(2)>>, <<FsmQ(2), FsmQ(1)>>, <<FsmQ(1), FsmBit(TRUE)>>, <<FsmQ(1), [other |-> TRUE]>>}
FsmSecond == {<<w, v>> : w \in FsmFixed, v \in {<<FsmQ(1), FsmQ(2)>>, <<FsmBit(FALSE), FsmBit(FALSE)>>, <<FsmQ(2), FsmQ(2)>>}}
FsmInner == FsmWords \cup {<<FsmCell(2, 1), FsmCell(2, 2)>>, <<FsmCell(2, 2), FsmCell(2, 1)>>}
MCFsms ==
  {[d |-> d, mux |-> <<m, n>>, init |-> <<FALSE, TRUE>>, reset |-> r] :
     d \in {<<FsmCell(1, 1), FsmCell(1, 2)>>, <<FsmCell(1, 1), FsmCell(2, 2)>>, <<FsmCell(1, 2), FsmQ(1)>>},
     m \in {<<w, v>> : w \in FsmInner, v \in FsmInner}, n \in FsmSecond,
     r \in {{}, {<<FALSE, FALSE>>}}}

-----------------------------------------------------------------------------
(* Divisions.                                                              *)

DivWidths == {[aw |-> 3, bw |-> 3, yw |-> 3], [aw |-> 4, bw |-> 3, yw |-> 4],
              [aw |-> 2, bw |-> 3, yw |-> 1], [aw |-> 3, bw |-> 2, yw |-> 4]}
MCDivisions ==
  UNION {{[op |-> op, signed |-> s, aw |-> w.aw, bw |-> w.bw, yw |-> w.yw, a |-> a, b |-> b, const |-> c] :
            op \in {"div", "mod", "divfloor", "modfloor"}, s \in BOOLEAN, c \in BOOLEAN,
            a \in 0 .. 2^w.aw - 1, b \in 1 .. 2^w.bw - 1} : w \in DivWidths}

-----------------------------------------------------------------------------
(* Cells on every word of a few bits.                                      *)

Operands(w) == [sig : [1 .. w -> {0, 1}], signed : BOOLEAN]
Plain(w) == [sig : [1 .. w -> {0, 1}], signed : {FALSE}]
MapCell(op, a, b, yw, sel) == [op |-> op, a |-> a, b |-> b, yw |-> yw, sel |-> sel]
MCCells ==
  {MapCell(op, a, b, w, <<>>) : op \in {"ne", "lt", "le", "gt", "ge"}, a \in Operands(1) \cup Operands(2),
                                b \in Operands(3) \cup Operands(2), w \in {1, 2}}
    \cup {MapCell(op, a, b, w, <<>>) : op \in {"add", "sub", "mul"}, a \in Operands(1) \cup Operands(3), b \in Operands(2), w \in {1, 2, 4}}
    \cup {MapCell(op, a, b, w, <<>>) : op \in {"shl", "shr", "sshl", "sshr"}, a \in Operands(1) \cup Operands(3),
                                       b \in Plain(1) \cup Plain(2) \cup Plain(4), w \in {1, 2, 4}}
    \cup {MapCell(op, a, b, w, <<>>) : op \in {"shift", "shiftx"}, a \in Operands(1) \cup Operands(3),
                                       b \in Operands(0) \cup Operands(1) \cup Operands(2) \cup Operands(5), w \in {1, 2}}
    \cup {MapCell("bmux", a, [sig |-> <<0, 1>>, signed |-> FALSE], 1, s) : a \in Plain(4), s \in [1 .. 2 -> {0, 1}]}
    \cup {MapCell("bmux", a, [sig |-> <<0, 1>>, signed |-> FALSE], 2, s) : a \in Plain(4), s \in [1 .. 1 -> {0, 1}]}
    \cup {MapCell("pmux", a, b, 2, s) : a \in Plain(4), b \in Plain(2), s \in {<<0, 0>>, <<0, 1>>, <<1, 0>>}}
    \cup {MapCell("demux", a, [sig |-> <<0, 1>>, signed |-> FALSE], 8, s) : a \in Plain(2), s \in [1 .. 2 -> {0, 1}]}

-----------------------------------------------------------------------------
(* Sums, comparisons, and trees of sums: all operands have values.         *)

AluCell(op, a, b, signed, w) == [op |-> op, a |-> a, b |-> b, signed |-> signed, w |-> w]
AluValues ==
  [a : {<<0>>, <<1>>, <<0, 1>>, <<1, 1>>},
   b : {<<0, 0>>, <<1, 0>>, <<0, 1>>, <<1, 1>>, <<1, 0, 1>>, <<1, 1, 0>>}, k : {<<1, 0>>}]
AluFirst ==
  {AluCell("sub", "a", "b", s, w) : s \in BOOLEAN, w \in 1 .. 4}
    \cup {AluCell("add", "a", "b", FALSE, 3)} \cup {AluCell(op, "a", "b", TRUE, 1) : op \in {"lt", "gt"}}
AluSecond == {AluCell(op, "a", "b", s, 1) : op \in {"lt", "ge"}, s \in BOOLEAN}
AluThird ==
  {AluCell(op, "b", "a", s, 1) : op \in {"gt", "le"}, s \in BOOLEAN} \cup {AluCell("lt", "k", "a", FALSE, 1)}
MCModules ==
  {[value |-> v, constants |-> {"k"}, cells |-> <<x, y, z>>] : v \in AluValues, x \in AluFirst, y \in AluSecond, z \in AluThird}

SumLeaf(sig, ready) == [sig |-> sig, cell |-> 0, bits |-> Len(sig), alone |-> FALSE, ready |-> ready]
SumOf(c, alone, n) == [sig |-> <<>>, cell |-> c, bits |-> n, alone |-> alone, ready |-> 2]
SumCell(op, w, s, a, b) == [op |-> op, w |-> w, signed |-> s, a |-> a, b |-> b]
SumLeaves == {SumLeaf(<<1, 0>>, 0), SumLeaf(<<1, 1>>, 1), SumLeaf(<<0, 1, 1>>, 3)}
SumOps == {"add", "sub"}
MCTrees ==
  {<<SumCell(o, 3, s, SumOf(2, al, 3), SumOf(3, TRUE, n)), SumCell(p, 3, s, x, SumLeaf(<<1, 1>>, 1)),
     SumCell(r, 4, s, SumLeaf(<<1, 0>>, 2), y)>> :
     o \in SumOps, p \in SumOps, r \in SumOps, s \in BOOLEAN, al \in BOOLEAN, n \in {2, 4}, x \in SumLeaves, y \in SumLeaves}
    \cup {<<SumCell(o, 3, s, x, SumOf(2, TRUE, 3)), SumCell(p, 3, s, y, SumOf(3, al, 3)), SumCell(r, w, s, x, y)>> :
     o \in SumOps, p \in SumOps, r \in SumOps, s \in BOOLEAN, al \in BOOLEAN, w \in {2, 3}, x \in SumLeaves, y \in SumLeaves}

-----------------------------------------------------------------------------
(* Operands that are wider than they need be.                              *)

WordsOf(n, bits) == UNION {[1 .. m -> bits] : m \in 0 .. n}
NarrowOperands == [sig : WordsOf(2, {0, 1, 2, 3}), signed : BOOLEAN] \cup [sig : {<<2, 3, 3>>, <<0, 2, 0>>, <<0, 0, 4>>}, signed : BOOLEAN]
OtherOperands == {[sig |-> w, signed |-> s] : w \in {<<>>, <<0, 2>>, <<0, 0, 3>>, <<4, 2, 2>>, <<1, 4, 0>>}, s \in BOOLEAN}
MCArith ==
  {c \in {[op |-> op, a |-> x, b |-> z, w |-> w, read |-> r] : op \in {"add", "sub", "mul", "lt"}, x \in NarrowOperands,
            z \in OtherOperands, w \in {1, 3, 4}, r \in {1 .. 4, {1, 3}}} :
     /\ c.op = "lt" => c.w = 1
     /\ c.op \in {"mul", "lt"} => c.read = 1 .. 4}
    \cup {[op |-> "neg", a |-> x, b |-> [sig |-> <<>>, signed |-> TRUE], w |-> 3, read |-> 1 .. 2] :
            x \in {o \in NarrowOperands : o.sig # <<>>}}

-----------------------------------------------------------------------------
(* Multiplexers: undefined inputs, trees, tables, constants.               *)

UndefSelects ==
  {[on |-> "k", is |-> l] : l \in {<<0>>, <<1>>, <<0, 2>>, <<2, 2>>}} \cup {[on |-> "m", is |-> <<1>>], [net |-> "m"]}
MCMuxes ==
  [kind : {"mux"}, a : 0 .. 2, b : [1 .. 1 -> 0 .. 2], s : {<<[net |-> "m"]>>}]
    \cup [kind : {"pmux"}, a : 0 .. 2, b : [1 .. 2 -> 0 .. 2], s : [1 .. 2 -> UndefSelects]]
    \cup [kind : {"pmux"}, a : {0, 2}, b : {<<0, 1, 2>>, <<2, 1, 0>>}, s : [1 .. 3 -> UndefSelects]]
MCSignals == [k : 0 .. 3, m : 0 .. 1]

Choice(sels, words) == [sels |-> sels, words |-> words]
OneSelect == {<<"s">>, <<"t">>, <<"one">>, <<"zero">>}
TwoSelects == {<<"s", "t">>, <<"t", "u">>, <<"u", "zero">>, <<"s", "one">>}
MCMuxTrees ==
  {t \in {[cells |-> [a |-> x, b |-> y, c |-> z], alone |-> al] :
            x \in {Choice(s, <<"b", "c">>) : s \in OneSelect}
                    \cup {Choice(s, w) : s \in TwoSelects, w \in {<<"b", "leaf", "c">>, <<"leaf", "b", "c">>}},
            y \in {Choice(s, <<"leaf", "leaf">>) : s \in OneSelect}
                    \cup {Choice(s, w) : s \in TwoSelects, w \in {<<"leaf", "leaf", "leaf">>, <<"leaf", "leaf", "c">>}},
            z \in {Choice(s, <<"leaf", "leaf">>) : s \in OneSelect} \cup {Choice(s, <<"leaf", "leaf", "leaf">>) : s \in TwoSelects},
            al \in {{"b", "c"}, {"b"}}} :
     ~("c" \in t.alone /\ \E p \in DOMAIN t.cells["b"].words : t.cells["b"].words[p] = "c")}
MCConsts == [one |-> TRUE, zero |-> FALSE]

Keyed(key, v, word) == [key |-> key, eq |-> [i \in DOMAIN key |-> (v \div 2^(i - 1)) % 2], word |-> word]
TwoBits(n) == <<n % 2, n \div 2>>
Key3 == <<2, 3, 4>>
Key4 == <<2, 3, 0, 4, 5>>
Key5 == <<2, 3, 4, 5, 6>>
MCTables ==
  {[default |-> TwoBits(d), cases |-> <<Keyed(Key3, i, TwoBits(w)), Keyed(Key3, j, TwoBits(v)), Keyed(Key3, 7, TwoBits(3))>>] :
     d \in {0, 3}, i \in 0 .. 7, j \in 0 .. 6, w \in {1, 2}, v \in 0 .. 3}
    \cup {[default |-> TwoBits(d), cases |-> <<Keyed(Key4, i, TwoBits(1)), Keyed(Key4, j, TwoBits(2)), Keyed(Key4, 27, TwoBits(3))>>] :
     d \in {0, 2}, i \in {0, 1, 4, 8, 16}, j \in {2, 3, 9, 17, 24}}
    \cup {[default |-> TwoBits(0), cases |-> <<Keyed(Key5, i, TwoBits(1)), Keyed(Key5, j, TwoBits(2)), Keyed(Key5, k, TwoBits(3))>>] :
     i \in {0, 5, 12}, j \in {1, 10, 30}, k \in {2, 21, 31}}
    \cup {[default |-> TwoBits(1), cases |-> <<Keyed(Key3, 1, TwoBits(2)), Keyed(Key4, 1, TwoBits(2))>>]}

Selected(kind, sels, words) == [kind |-> kind, sels |-> sels, words |-> words]
RestructureRoots ==
  {Selected("mux", <<"s">>, <<"b", "c">>), Selected("mux", <<"s">>, <<"c", "b">>),
   Selected("pmux", <<"s", "t">>, <<"b", "c", "x">>), Selected("pmux", <<"s", "t">>, <<"x", "b", "c">>),
   Selected("pmux", <<"s", "t">>, <<"c", "x", "b">>)}
RestructureInner ==
  {Selected("mux", <<s>>, w) : s \in {"s", "t", "u"}, w \in {<<"x", "y">>, <<"y", "x">>, <<"x", "z">>}}
    \cup {Selected("pmux", <<"t", "u">>, w) : w \in {<<"x", "y", "x">>, <<"y", "x", "z">>, <<"z", "x", "x">>}}
MCRestructured ==
  {[cells |-> [a |-> x, b |-> y, c |-> z], root |-> "a", alone |-> al] :
     x \in RestructureRoots, y \in RestructureInner, z \in RestructureInner, al \in {{"b", "c"}, {"b"}}}

FoldWords == {<<0, 1>>, <<2, 2>>, <<3, 0>>, <<4, 2>>}
FoldSelects == {0, 1, 4, 5, 6}
MCFolded ==
  [kind : {"pmux"}, a : {<<0, 1>>, <<2, 2>>, <<4, 2>>}, b : [1 .. 3 -> FoldWords], s : [1 .. 3 -> FoldSelects]]
    \cup {[kind |-> "mux", a |-> <<x>>, b |-> <<<<z>>>>, s |-> <<s>>] : x \in 0 .. 4, z \in 0 .. 4, s \in FoldSelects \cup {3}}
    \cup {[kind |-> "bmux", a |-> <<>>, b |-> [i \in 1 .. 8 |-> TwoBits(IF i = n THEN m ELSE i % 4)], s |-> s] :
            n \in {1, 4, 8}, m \in {0, 3}, s \in [1 .. 3 -> {0, 1, 4, 5, 6}]}

-----------------------------------------------------------------------------
(* Gates, and instances joined to their parent.                            *)

G(op, in) == [op |-> op, in |-> in]
TwoInput == {"and", "or", "nand", "nor", "andnot", "ornot", "xor", "xnor"}
MCGates ==
  {<<x, y, z, t>> :
     x \in {G("not", <<2>>), G("and", <<2, 3>>), G("buf", <<3>>), G("xnor", <<1, 2>>)},
     y \in {G(op, <<i, j>>) : op \in TwoInput, i \in {2, 5}, j \in {1, 3, 5}}
             \cup {G("mux", <<i, j, 5>>) : i \in {0, 2, 3}, j \in {1, 2, 3}} \cup {G("not", <<5>>)},
     z \in {G(op, <<i, j>>) : op \in {"and", "nor", "andnot", "xor"}, i \in {2, 6}, j \in {5, 6}}
             \cup {G("mux", <<3, i, 6>>) : i \in {2, 5, 6}} \cup {G("not", <<6>>)},
     t \in {G("not", <<7>>), G("or", <<6, 7>>), G("ornot", <<5, 7>>), G("mux", <<6, 7, 5>>), G("nand", <<7, 3>>)}}

PortBit(inner, out, outer) == [inner |-> inner, out |-> out, outer |-> outer]
MCInstances ==
  {<< <<PortBit(10, FALSE, a), PortBit(11, TRUE, 3), PortBit(10, TRUE, c)>>,
      <<PortBit(10, TRUE, d), PortBit(k, TRUE, e), PortBit(10, FALSE, f)>> >> :
     a \in {2, 1}, c \in {3, 4, None}, d \in {3, 4, 5}, e \in {2, 4}, k \in {0, 1, 11, 10}, f \in {2, 0, 5}}
    \cup {<< <<PortBit(1, TRUE, 2)>>, <<PortBit(10, FALSE, a), PortBit(10, TRUE, b)>>, <<PortBit(10, FALSE, c), PortBit(10, TRUE, d)>> >> :
     a \in 2 .. 5, b \in 2 .. 5, c \in 2 .. 5, d \in 2 .. 5}

-----------------------------------------------------------------------------
(* Memories.                                                               *)

LayerEn(s) == [s |-> s, a |-> "q", b |-> "me"]
LayerHold(s) == [s |-> s, a |-> "me", b |-> "q"]
LayerReset(s, v) == [s |-> s, a |-> "me", b |-> v]
LayerBypass == [s |-> "we", a |-> "me", b |-> "wd"]
LayerPass == [s |-> "1", a |-> "0", b |-> "me"]
LayerDrop == [s |-> "0", a |-> "0", b |-> "me"]
PortLayers ==
  {<<>>, <<LayerEn("e")>>, <<LayerHold("e")>>, <<LayerReset("r", "1")>>, <<LayerBypass>>, <<LayerDrop>>,
   <<LayerEn("e"), LayerHold("f")>>, <<LayerReset("r", "1"), LayerEn("e")>>, <<LayerEn("e"), LayerReset("r", "0")>>,
   <<LayerBypass, LayerEn("e")>>, <<LayerBypass, LayerHold("f")>>, <<LayerPass, LayerEn("e"), LayerPass>>,
   <<LayerBypass, LayerPass, LayerReset("r", "1")>>, <<LayerEn("e"), LayerReset("r", "1"), LayerHold("f")>>,
   <<LayerReset("r", "1"), LayerHold("f"), LayerEn("e")>>}
Ctl(sig, pos) == [sig |-> sig, pos |-> pos]
PortRegisters ==
  {[en |-> en, reset |-> None, over |-> "reset", value |-> FALSE] : en \in {None, Ctl("f", TRUE), Ctl("e", FALSE)}}
    \cup {[en |-> en, reset |-> Ctl("r", p), over |-> o, value |-> TRUE] :
            en \in {None, Ctl("f", TRUE)}, p \in BOOLEAN, o \in {"enable", "reset"}}
MCDesigns ==
  [layers : PortLayers, ff : PortRegisters, addr : {"register", "write", "read"},
   wr : {{"we"}, {"we", "e"}, {"we", "r"}}, hold : {None, Ctl("f", TRUE)}]

Initial(p, a, d, e) == [priority |-> p, addr |-> a, data |-> d, en |-> e]
MemInits ==
  {<<>>, <<Initial(2, 1, <<TRUE, TRUE>>, <<TRUE, TRUE>>), Initial(1, 0, <<FALSE, FALSE, FALSE, FALSE, FALSE, FALSE>>, <<TRUE, TRUE>>)>>,
   <<Initial(1, 1, <<TRUE, TRUE, TRUE, TRUE>>, <<FALSE, TRUE>>), Initial(2, 2, <<FALSE, FALSE, TRUE, TRUE>>, <<TRUE, FALSE>>)>>}
MemPort(i, wins, shared) == [id |-> i, wins |-> wins, shared |-> shared, data |-> IF i = 1 THEN <<TRUE, FALSE>> ELSE <<FALSE, TRUE>>]
MCMemories ==
  {m \in [size : {3}, width : {2}, start : {0, 1}, inits : MemInits,
          rd : [transparent : {"all", "none", "some"}, en : BOOLEAN, reset : {"none", "enabled", "always"}, value : {<<TRUE, TRUE>>}],
          wr : {<<MemPort(2, {1}, TRUE), MemPort(1, {}, FALSE)>>}] :
     /\ ~(m.rd.transparent = "all" /\ m.rd.en)
     /\ m.start = 0 => m.inits = <<>> \/ (m.rd.en /\ m.rd.reset = "enabled")
     /\ m.rd.en => m.start = 0
     /\ m.start = 1 => Len(m.inits) = 2 /\ m.inits[1].priority = 1}

-----------------------------------------------------------------------------
VARIABLES bench, one, two, three, four, five, six, seven, eight, nine

places == <<one, two, three, four, five, six, seven, eight, nine>>
synth == <<bench, places>>

Spare2 == <<bench, three, four, five, six, seven, eight, nine>>
Spare3 == <<bench, four, five, six, seven, eight, nine>>
Spare4 == <<bench, five, six, seven, eight, nine>>
Spare5 == <<bench, six, seven, eight, nine>>
Spare6 == <<bench, seven, eight, nine>>
Spare9 == <<bench>>

-----------------------------------------------------------------------------
Flops == INSTANCE Flop WITH
  Flops <- MCFlops,
  cell <- one, pins <- two, shown <- three, lcell <- four, slice <- five

Constants == INSTANCE Registers WITH
  Machines <- MCSeqMachines, Inputs <- {"i", "j"}, EXACT_INPUTS <- 1,
  Pairs <- MCNeverMachines, PairInputs <- {"i", "j"}, MAX_VARS <- 6,
  Fsms <- MCFsms, MAX_VALUES <- 3,
  machine <- one, alive <- two, searching <- three, q <- four, pair <- one,
  held <- two, ran <- three, fsm <- one, values <- two, todo <- three,
  found <- four, state <- five,
  Dffs <- MCRegisters, src <- one, r <- two, stage <- three

Division == INSTANCE Arithmetic WITH
  Divisions <- MCDivisions, Modules <- MCModules, SMALL_COMPARE <- 2,
  Trees <- MCTrees, Orders <- {"AsWritten", "Arrival"}, SUM_LEVELS <- 1,
  Arith <- MCArith, Nets <- {2, 3, 4},
  division <- one, digit <- two, q <- three, rem <- four, y <- five,
  module <- one, nodes <- two, upcoming <- three, answer <- four,
  tree <- one, order <- two, terms <- three, done <- four, cell <- one,
  left <- two, opA <- three, opB <- four, wired <- five, pc <- six

Reads == INSTANCE Memories WITH
  Designs <- MCDesigns, MAX_LAYERS <- 3, Memories <- MCMemories,
  Addresses <- {1, 2},
  design <- one, reader <- two, mem <- three, asked <- four, q <- five,
  qm <- six, qe <- seven, qr <- eight, last <- nine, memory <- one,
  words <- two, rq <- three, ra <- four, port <- five, beaten <- six

Gates == INSTANCE Gates WITH
  Cells <- MCCells, Cases <- MCTables, LowBits <- 2, MIN_KEY <- 3,
  MAX_KEY <- 5, Designs <- MCGates, First <- 4, Nets <- {2, 3, 4, 5},
  Instances <- MCInstances,
  cell <- one, answer <- two, case <- one, table <- two, order <- three,
  out <- four, design <- one, upto <- two, subst <- three, inv <- four,
  seen <- five, kept <- six, instances <- one, port <- two, map <- three,
  parent <- four, konst <- five

Defined == INSTANCE Muxes WITH
  Undefs <- MCMuxes, Signals <- MCSignals, Deads <- MCMuxTrees,
  TreeSelects <- {"s", "t", "u"}, Consts <- MCConsts, Muxes <- MCFolded,
  Nets <- {3, 4, 5, 6}, Trees <- MCRestructured, Selects <- {"s", "t", "u"},
  MIN_MUXES <- 2,
  original <- one, now <- two, exclusive <- three, phase <- four,
  dead <- one, live <- two, visits <- three, mux <- one, next <- two,
  cases <- three, result <- four, tree <- one, todo <- two, members <- three,
  leaves <- four, built <- five

-----------------------------------------------------------------------------
Init ==
  \/ bench = "flop" /\ Flops!Init /\ six = None /\ seven = None /\ eight = None /\ nine = None
  \/ bench = "dff" /\ Constants!DffInit /\ four = None /\ five = None /\ six = None /\ seven = None /\ eight = None /\ nine = None
  \/ bench = "seqconst" /\ Constants!ConstInit /\ five = None /\ six = None /\ seven = None /\ eight = None /\ nine = None
  \/ bench = "hazard" /\ Constants!NeverInit /\ four = None /\ five = None /\ six = None /\ seven = None /\ eight = None /\ nine = None
  \/ bench = "divmod" /\ Division!DivInit /\ six = None /\ seven = None /\ eight = None /\ nine = None
  \/ bench = "fsm" /\ Constants!FsmInit /\ six = None /\ seven = None /\ eight = None /\ nine = None
  \/ bench = "memory" /\ Reads!PortInit
  \/ bench = "arrays" /\ Reads!MapInit /\ seven = None /\ eight = None /\ nine = None
  \/ bench = "techmap" /\ Gates!TechInit /\ three = None /\ four = None /\ five = None /\ six = None /\ seven = None /\ eight = None /\ nine = None
  \/ bench = "alumacc" /\ Division!MaccInit /\ five = None /\ six = None /\ seven = None /\ eight = None /\ nine = None
  \/ bench = "sums" /\ Division!SumInit /\ five = None /\ six = None /\ seven = None /\ eight = None /\ nine = None
  \/ bench = "wreduce" /\ Division!NarrowInit /\ seven = None /\ eight = None /\ nine = None
  \/ bench = "undef" /\ Defined!UndefInit /\ five = None /\ six = None /\ seven = None /\ eight = None /\ nine = None
  \/ bench = "muxtree" /\ Defined!TreeInit /\ four = None /\ five = None /\ six = None /\ seven = None /\ eight = None /\ nine = None
  \/ bench = "rom" /\ Gates!RomInit /\ five = None /\ six = None /\ seven = None /\ eight = None /\ nine = None
  \/ bench = "gates" /\ Gates!GateInit /\ seven = None /\ eight = None /\ nine = None
  \/ bench = "fold" /\ Defined!FoldInit /\ five = None /\ six = None /\ seven = None /\ eight = None /\ nine = None
  \/ bench = "restructure" /\ Defined!FlatInit /\ six = None /\ seven = None /\ eight = None /\ nine = None
  \/ bench = "flatten" /\ Gates!FlatInit /\ six = None /\ seven = None /\ eight = None /\ nine = None

Next ==
  \/ bench = "flop" /\ Flops!Next /\ UNCHANGED Spare5
  \/ bench = "dff" /\ Constants!DffNext /\ UNCHANGED Spare3
  \/ bench = "seqconst" /\ Constants!ConstNext /\ UNCHANGED Spare4
  \/ bench = "hazard" /\ Constants!NeverNext /\ UNCHANGED Spare3
  \/ bench = "divmod" /\ Division!DivNext /\ UNCHANGED Spare5
  \/ bench = "fsm" /\ Constants!FsmNext /\ UNCHANGED Spare5
  \/ bench = "memory" /\ Reads!PortNext /\ UNCHANGED Spare9
  \/ bench = "arrays" /\ Reads!MapNext /\ UNCHANGED Spare6
  \/ bench = "techmap" /\ Gates!TechNext /\ UNCHANGED Spare2
  \/ bench = "alumacc" /\ Division!MaccNext /\ UNCHANGED Spare4
  \/ bench = "sums" /\ Division!SumNext /\ UNCHANGED Spare4
  \/ bench = "wreduce" /\ Division!NarrowNext /\ UNCHANGED Spare6
  \/ bench = "undef" /\ Defined!UndefNext /\ UNCHANGED Spare4
  \/ bench = "muxtree" /\ Defined!TreeNext /\ UNCHANGED Spare3
  \/ bench = "rom" /\ Gates!RomNext /\ UNCHANGED Spare4
  \/ bench = "gates" /\ Gates!GateNext /\ UNCHANGED Spare6
  \/ bench = "fold" /\ Defined!FoldNext /\ UNCHANGED Spare4
  \/ bench = "restructure" /\ Defined!FlatNext /\ UNCHANGED Spare5
  \/ bench = "flatten" /\ Gates!FlatNext /\ UNCHANGED Spare5

Spec == Init /\ [][Next]_synth

-----------------------------------------------------------------------------
\* Whatever the world does, the LE circuit shows what the register would
\* (cyclone2/synth/ff.rs).
CycloneSame == bench = "flop" => Flops!CycloneSame

\* ... and so does the slice, for what it maps (xc7/synth/ff.rs).
SliceSame == bench = "flop" => Flops!SliceSame

\* A register whose multiplexers became controls goes where it might have
\* gone before (opt/dff.rs).
StillSame == bench = "dff" => Constants!StillSame

\* A register that became a constant could not have left that value
\* (opt/dff.rs).
ConstantIsHeld == bench = "dff" => Constants!ConstantIsHeld

\* A register the search found constant never leaves its power-up value
\* (opt/seqconst.rs).
StaysConstant == bench = "seqconst" => Constants!StaysConstant

\* A read proven never to follow a write never does, from power-up on
\* (hazard.rs).
NeverFollows == bench = "hazard" => Constants!NeverFollows

\* The stages give the quotient and the remainder of every sign and
\* rounding (divmod.rs).
Divides == bench = "divmod" => Division!Divides

\* At every stage what is divided so far and what is left make up the
\* dividend (divmod.rs).
PartialQuotient == bench = "divmod" => Division!PartialQuotient

\* A state register never holds a value that was not found (fsm.rs).
OnlyThese == bench = "fsm" => Constants!OnlyThese

\* A comparison of the bits that tell a state apart is the comparison of
\* them all (fsm.rs).
StateCompares == bench = "fsm" => Constants!ComparesRight

\* A read port with registers merged into it gives what the registers gave
\* (memory.rs).
PortSame == bench = "memory" => Reads!PortSame

\* A read moved an edge earlier is loaded with the same word (memory.rs).
EarlySame == bench = "memory" => Reads!EarlySame

\* A memory made of registers gives what its ports would (memory.rs).
MapSame == bench = "arrays" => Reads!MapSame

\* A write never loses to one it has priority over (memory.rs).
PriorityKept == bench = "arrays" => Reads!PriorityKept

\* A word starts as the last of its initialisations by priority left it
\* (memory.rs).
StartsAsGiven == bench = "arrays" => Reads!StartsAsGiven

\* The gates of a cell compute the cell, for every word (techmap.rs).
GatesCompute == bench = "techmap" => Gates!GatesCompute

\* A comparison read off a shared subtraction is the comparison
\* (alumacc.rs).
ComparesRight == bench = "alumacc" => Division!ComparesRight

\* Whatever pairs the adders make, what is left adds up to the sum as
\* written (alumacc.rs).
StillTheSum == bench = "sums" => Division!StillTheSum

\* Narrowing an operation changes no bit anybody reads, but for a signed operand
\* that loses all its bits, and counts as a zero from then on (wreduce.rs).
SameResult == bench = "wreduce" => Division!SameResult

\* Resolving x only chooses: what the multiplexer gives it could have given
\* before (undef.rs).
OnlyChooses == bench = "undef" => Defined!OnlyChooses

\* ... and in the end the netlist means one thing (undef.rs).
MeansOneThing == bench = "undef" => Defined!MeansOneThing

\* An input of a multiplexer tree marked dead is never the one chosen
\* (opt/muxtree.rs).
DeadNeverChosen == bench = "muxtree" => Defined!DeadNeverChosen

\* The look-up tables and multiplexers give the word the case does
\* (rom.rs).
TableSame == bench = "rom" => Gates!TableSame

\* Simplified and merged gates give every output what it was
\* (opt/gates.rs).
GatesSame == bench = "gates" => Gates!GatesSame

\* No two gates left are the same, and every gate left reads nets that are
\* driven (opt/gates.rs).
NoTwins == bench = "gates" => Gates!NoTwins

\* A constant folded into a multiplexer only chooses what an x is
\* (opt/word.rs).
FoldsChoose == [][bench = "fold" => Defined!Chooses]_synth

\* A multiplexer tree made one multiplexer gives the word the tree did
\* (restructure.rs).
TreeSame == bench = "restructure" => Defined!TreeSame

\* ... and one of its selects at most is on (restructure.rs).
SelectsExclusive == bench = "restructure" => Defined!SelectsExclusive

\* After flattening two nets are one exactly if the instances wire them
\* together (flatten.rs).
JoinedAsWired == bench = "flatten" => Gates!JoinedAsWired

-----------------------------------------------------------------------------
\* Whatever synthesis does to a register or concludes about one, what the
\* register shows is what it would have shown: onto the families, merged
\* with multiplexers, found constant, told apart by fewer bits.
RegistersKept ==
  /\ CycloneSame
  /\ SliceSame
  /\ StillSame
  /\ ConstantIsHeld
  /\ StaysConstant
  /\ NeverFollows
  /\ OnlyThese
  /\ StateCompares

\* Memories read through registers that moved into them, and memories made
\* of registers, give what was written, and keep the priorities of writes.
MemoriesKept ==
  /\ PortSame
  /\ EarlySame
  /\ MapSame
  /\ PriorityKept
  /\ StartsAsGiven

\* Arithmetic, gates, tables and joined modules compute, for every input,
\* what the cells they replace do, the sums SameResult names as it says.
CellsKept ==
  /\ Divides
  /\ PartialQuotient
  /\ ComparesRight
  /\ StillTheSum
  /\ SameResult
  /\ GatesCompute
  /\ TableSame
  /\ GatesSame
  /\ NoTwins
  /\ JoinedAsWired

\* Whatever is dropped from, folded into or joined to a multiplexer, it
\* only chooses what it could have chosen.
ChoicesKept ==
  /\ [](OnlyChooses /\ MeansOneThing /\ DeadNeverChosen /\ TreeSame /\ SelectsExclusive)
  /\ FoldsChoose

=============================================================================
