------------------------------- MODULE MCBack -------------------------------
(***************************************************************************)
(* The back-end bench: in one behaviour one part of the mapping, packing   *)
(* and placement works on one of its cases, on the places, which are       *)
(* whatever that part keeps. The cases come first.                         *)
(***************************************************************************)
EXTENDS Integers, Sequences, TLC, SequencesExt

CONSTANT None

-----------------------------------------------------------------------------
(* Gates on the nets a = 1, b = 2, c = 3, d = 4.                           *)

G(op, ins) == [op |-> op, ins |-> ins]
GateNets(gates, read, keep, cost) == [gates |-> gates, read |-> read, keep_best_cut |-> keep, cost |-> cost, max_bit |-> 20]
Uniform == [n \in 0 .. 6 |-> 1]
BySize == [n \in 0 .. 6 |-> IF n = 0 THEN 1 ELSE n]

MCNetlists == {
  \* a loop, constants, a leaf in both polarities, one node of two outputs
  GateNets((11 :> G("and", <<1, 12>>)) @@ (12 :> G("or", <<11, 2>>)), <<12>>, FALSE, Uniform),
  GateNets((11 :> G("and", <<1, -2>>)) @@ (12 :> G("nor", <<1, -1>>)) @@ (13 :> G("xor", <<2, 2>>)) @@ (14 :> G("not", <<12>>))
           @@ (15 :> G("not", <<13>>)), <<11, 12, 13, 14, 15>>, FALSE, Uniform),
  GateNets((11 :> G("nand", <<1, 2>>)) @@ (12 :> G("and", <<2, 1>>)) @@ (13 :> G("xor", <<11, 3>>)) @@ (14 :> G("ornot", <<3, 11>>))
           @@ (15 :> G("buf", <<12>>)), <<11, 13, 14, 15>>, TRUE, Uniform),
  GateNets((11 :> G("mux", <<1, 2, 3>>)) @@ (12 :> G("xnor", <<11, 4>>)) @@ (13 :> G("andnot", <<12, 1>>)), <<12, 13>>, TRUE, BySize),
  GateNets((11 :> G("xor", <<1, 2>>)) @@ (12 :> G("xor", <<11, 3>>)) @@ (13 :> G("mux", <<1, 3, 11>>)), <<12, 13>>, TRUE, Uniform),
  GateNets((11 :> G("and", <<1, 2>>)) @@ (12 :> G("and", <<11, 3>>)) @@ (13 :> G("and", <<12, 4>>)) @@ (14 :> G("nor", <<11, 4>>)),
           <<13, 14>>, FALSE, Uniform) }

-----------------------------------------------------------------------------
(* Memories.                                                               *)

Wr(clk, addr, data, en, over) == [clk |-> clk, addr |-> addr, data |-> data, en |-> en, over |-> over]
Rd(addr, en, transparent, collision_x) ==
  [clk |-> "c", addr |-> addr, en |-> en, srst |-> "0", ce |-> FALSE, value |-> <<0, 0>>, rising |-> TRUE, arst |-> "0",
   start |-> <<0, 0>>,   transparent |-> transparent, collision_x |-> collision_x, reg |-> None]
Into(r, reg) == [r EXCEPT !.reg = reg]
Clocked(r, clk) == [r EXCEPT !.clk = clk]
Resets(r, s, ce) == [r EXCEPT !.srst = s, !.ce = ce, !.value = <<1, 0>>]
Reg(clk, en, clr) == [clk |-> clk, en |-> en, clr |-> clr, exported |-> FALSE, ones |-> FALSE]
Memory(size, width, signals, wr, rd) ==
  [size |-> size, width |-> width, signals |-> signals, clocks |-> {"c"}, wr |-> wr, rd |-> rd, differs |-> {},
   logic |-> FALSE, init |-> [w \in 1 .. size |-> [k \in 1 .. width |-> (w + k) % 2]]]
TwoClock(m) == [m EXCEPT !.clocks = {"c", "d"}]

e1 == {"e"}
MCMemories == {
  \* roms, with and without an output register, one and two reads
  Memory(4, 1, {"a", "b", "e", "clr"}, <<>>, <<Into(Rd(<<"a", "b">>, e1, {}, {}), Reg("c", {}, "clr"))>>),
  Memory(3, 2, {"a", "b", "e", "g"}, <<>>, <<Resets(Rd(<<"a", "0">>, {}, {}, {}), "g", FALSE), Rd(<<"b", "a">>, e1, {}, {})>>),
  \* one port, seeing its write; its enable can be the block's or not
  Memory(2, 1, {"a", "e", "v", "g"}, <<Wr("c", <<"a">>, <<"v">>, <<{"e", "g"}>>, {})>>, <<Rd(<<"a">>, e1, {1}, {})>>),
  Memory(2, 1, {"a", "e", "v", "w"}, <<Wr("c", <<"a">>, <<"v">>, <<{"w"}>>, {})>>, <<Into(Rd(<<"a">>, e1, {1}, {}), Reg("c", {"v"}, "0"))>>),
  Memory(2, 1, {"a", "e", "w", "g"}, <<Wr("c", <<"a">>, <<"e">>, <<{"w"}>>, {})>>, <<Resets(Rd(<<"a">>, e1, {1}, {}), "g", TRUE)>>),
  \* a read beside a write: old data, new data by logic, bytes
  Memory(4, 1, {"a", "b", "e", "w"}, <<Wr("c", <<"a", "b">>, <<"e">>, <<{"w"}>>, {})>>,
         <<Into(Rd(<<"b", "a">>, e1, {}, {}), Reg("c", {}, "w"))>>),
  Memory(2, 2, {"a", "b", "u", "w"}, <<Wr("c", <<"a">>, <<"b", "x">>, <<{"w"}, {"0"}>>, {}), Wr("c", <<"a">>, <<"x", "u">>, <<{"0"}, {"u"}>>, {1})>>,
         <<Rd(<<"b">>, {"u"}, {1, 2}, {})>>),
  Memory(2, 2, {"a", "b", "u", "w"}, <<Wr("c", <<"a">>, <<"b", "x">>, <<{"w"}, {"0"}>>, {}), Wr("c", <<"a">>, <<"x", "u">>, <<{"0"}, {"u"}>>, {1})>>,
         <<Resets(Rd(<<"b">>, {"w"}, {}, {1, 2}), "a", FALSE)>>),
  \* two clocks
  TwoClock(Memory(2, 1, {"a", "b", "e", "w"}, <<Wr("d", <<"a">>, <<"e">>, <<{"w"}>>, {})>>,
           <<Into(Rd(<<"b">>, e1, {}, {}), Reg("d", {}, "0"))>>)),
  \* two reads beside a write, one at its address; a word half as wide
  Memory(2, 1, {"a", "b", "e", "w"}, <<Wr("c", <<"a">>, <<"b">>, <<{"w"}>>, {})>>, <<Rd(<<"a">>, {"w"}, {1}, {}), Rd(<<"b">>, e1, {}, {})>>),
  Memory(4, 1, {"a", "b", "v", "w"}, <<Wr("c", <<"0", "a">>, <<"v">>, <<{"w"}>>, {}), Wr("c", <<"1", "a">>, <<"b">>, <<{"w"}>>, {1})>>,
         <<Rd(<<"b", "a">>, {}, {}, {})>>),
  \* two writes: one of them wins, or they never meet
  Memory(2, 1, {"a", "b", "u", "w"}, <<Wr("c", <<"a">>, <<"1">>, <<{"u"}>>, {}), Wr("c", <<"b">>, <<"0">>, <<{"w"}>>, {1})>>,
         <<Rd(<<"a">>, {}, {1}, {}), Rd(<<"b">>, {}, {2}, {})>>),
  Memory(2, 1, {"a", "b", "u", "w"}, <<Wr("c", <<"a">>, <<"1">>, <<{"u"}>>, {2}), Wr("c", <<"b">>, <<"0">>, <<{"w"}>>, {})>>,
         <<Rd(<<"b">>, {"w"}, {2}, {})>>),
  [Memory(4, 1, {"a", "b", "u", "w"}, <<Wr("c", <<"a", "b">>, <<"1">>, <<{"u"}>>, {}), Wr("c", <<"b", "a">>, <<"0">>, <<{"w", "ne"}>>, {1})>>,
          <<Rd(<<"a", "b">>, {}, {1}, {})>>) EXCEPT !.differs = {<<"a", "b">>}],
  \* a wide write loses to a narrow one
  Memory(4, 1, {"a", "b", "c0", "u", "w"},
         <<Wr("c", <<"0", "a">>, <<"1">>, <<{"u"}>>, {}), Wr("c", <<"1", "a">>, <<"b">>, <<{"u"}>>, {1}), Wr("c", <<"c0", "b">>, <<"0">>, <<{"w"}>>, {1, 2})>>,
         <<Rd(<<"0", "a">>, {}, {1, 2}, {}), Rd(<<"1", "a">>, {}, {1, 2}, {}), Rd(<<"c0", "b">>, {}, {3}, {})>>),
  \* more reads than a block has ports, none a block has, one that wants logic
  Memory(2, 1, {"a", "b", "e", "w"}, <<Wr("c", <<"e">>, <<"a">>, <<{"w"}>>, {})>>, <<Rd(<<"a">>, {}, {}, {}), Rd(<<"b">>, {}, {1}, {})>>),
  Memory(2, 1, {"a", "e"}, <<Wr("c", <<"a">>, <<"e">>, <<{}>>, {})>>, <<Rd(<<"e">>, {}, {}, {})>>),
  [Memory(2, 1, {"a", "e"}, <<>>, <<Rd(<<"a">>, e1, {}, {})>>) EXCEPT !.logic = TRUE] }
\* A word whose bytes are written before and after another write.
MCBetween == {
  Memory(2, 2, {"a", "b", "u", "w"},
         <<Wr("c", <<"a">>, <<"1", "x">>, <<{"u"}, {"0"}>>, {}), Wr("c", <<"b">>, <<"0", "0">>, <<{"w"}, {"w"}>>, {1}),
           Wr("c", <<"a">>, <<"x", "1">>, <<{"0"}, {"b"}>>, {1, 2})>>, <<>>),
  Memory(2, 2, {"a", "b", "u", "w"},
         <<Wr("c", <<"a">>, <<"1", "x">>, <<{"u"}, {"0"}>>, {}), Wr("c", <<"a">>, <<"x", "1">>, <<{"0"}, {"b"}>>, {1}),
           Wr("c", <<"b">>, <<"0", "0">>, <<{"w"}, {"w"}>>, {1, 2})>>, <<Rd(<<"b">>, {}, {3}, {})>>) }

\* The same for block RAM: values as wide as the words, registers with a reset.
Ram(r, value, start) == [r EXCEPT !.value = value, !.start = start]
RamResets(r, s, ce) == [r EXCEPT !.srst = s, !.ce = ce]
RamReg(en, rst, first, value, start) ==
  [clk |-> "c", en |-> en, rst |-> rst, first |-> first, value |-> value, start |-> start, exported |-> FALSE]
Z == <<0>>
ZZ == <<0, 0>>
All(n, s) == [k \in 1 .. n |-> s]
MCRams == {
  \* roms: an output register with a reset, two reads with resets of their own
  Memory(4, 1, {"a", "e", "g", "r"}, <<>>,
         <<Into(Ram(Rd(<<"a", "g">>, e1, {}, {}), Z, <<1>>), RamReg({"g"}, "r", TRUE, <<1>>, <<2>>))>>),
  Memory(4, 1, {"a", "e", "g", "r"}, <<>>,
         <<Into(RamResets(Ram(Rd(<<"a", "1">>, e1, {}, {}), <<1>>, Z), "r", TRUE), RamReg({"g"}, "a", FALSE, <<2>>, <<0>>))>>),
  Memory(3, 2, {"a", "b", "e", "g"}, <<>>,
         <<RamResets(Ram(Rd(<<"a", "0">>, {"e"}, {}, {}), <<1, 0>>, <<0, 1>>), "g", FALSE),
           RamResets(Ram(Rd(<<"b", "a">>, e1, {}, {}), <<0, 1>>, ZZ), "g", TRUE)>>),
  \* one port: written first, held while written, its enable or registers to hold it
  Memory(2, 1, {"a", "e", "v", "g"}, <<Wr("c", <<"a">>, <<"v">>, <<{"e", "g"}>>, {})>>,
         <<RamResets(Ram(Rd(<<"a">>, e1, {1}, {}), Z, Z), "v", FALSE)>>),
  Memory(2, 1, {"a", "e", "v", "w"}, <<Wr("c", <<"a">>, <<"v">>, <<{"w"}>>, {})>>, <<RamResets(Ram(Rd(<<"a">>, e1, {}, {}), <<1>>, <<1>>), "v", TRUE)>>),
  Memory(4, 1, {"a", "e", "v", "w"}, <<Wr("c", <<"a", "e">>, <<"v">>, <<{"w"}>>, {})>>,
         <<Into(Ram(Rd(<<"a", "e">>, {"!w"}, {}, {}), Z, <<1>>), RamReg({"e"}, "0", TRUE, <<2>>, <<2>>))>>),
  \* a read beside a write: old data, undefined, new data by logic, bytes, two clocks
  Memory(4, 1, {"a", "b", "e", "w"}, <<Wr("c", <<"a", "b">>, <<"e">>, <<{"w"}>>, {})>>,
         <<Into(RamResets(Ram(Rd(<<"b", "a">>, e1, {}, {}), <<1>>, Z), "w", FALSE), RamReg({}, "a", TRUE, <<1>>, <<0>>))>>),
  Memory(2, 2, {"a", "b", "u", "w"}, <<Wr("c", <<"a">>, <<"b", "x">>, <<{"w"}, {"0"}>>, {}), Wr("c", <<"a">>, <<"x", "u">>, <<{"0"}, {"u"}>>, {1})>>,
         <<Rd(<<"b">>, {"u"}, {1, 2}, {})>>),
  Memory(2, 2, {"a", "b", "u", "w"}, <<Wr("c", <<"a">>, <<"b", "u">>, <<{"w"}, {"w"}>>, {})>>, <<Rd(<<"b">>, {"u"}, {}, {1})>>),
  TwoClock(Memory(2, 1, {"a", "b", "e", "w"}, <<Wr("d", <<"a">>, <<"e">>, <<{"w"}>>, {})>>, <<Ram(Rd(<<"b">>, e1, {}, {}), Z, <<1>>)>>)),
  \* two reads beside a write: one sees it, the other what it overwrites
  Memory(2, 1, {"a", "b", "e", "w"}, <<Wr("c", <<"a">>, <<"b">>, <<{"w"}>>, {})>>, <<Rd(<<"a">>, {"w"}, {1}, {}), Rd(<<"b">>, e1, {}, {})>>),
  \* words half as wide, and more of them than a block has
  Memory(4, 1, {"a", "b", "v", "w"}, <<Wr("c", <<"0", "a">>, <<"v">>, <<{"w"}>>, {}), Wr("c", <<"1", "a">>, <<"b">>, <<{"w"}>>, {1})>>,
         <<Rd(<<"b", "a">>, {}, {}, {})>>),
  Memory(16, 1, {"a", "b", "w", "r"}, <<Wr("c", <<"a", "1", "0", "b">>, <<"r">>, <<{"w"}>>, {})>>,
         <<Into(Ram(Rd(<<"1", "a", "0", "b">>, {"r"}, {}, {}), Z, Z), RamReg({"a"}, "0", TRUE, <<0>>, <<0>>))>>),
  Memory(4, 4, {"a", "b", "v", "w"}, <<Wr("c", <<"a", "0">>, <<"v", "b", "v", "1">>, All(4, {"w"}), {})>>,
         <<Ram(Rd(<<"b", "0">>, {}, {}, {}), All(4, 0), All(4, 0))>>),
  \* a word cut over the two ports of a block
  Memory(2, 8, {"a", "v", "u", "w"}, <<Wr("c", <<"a">>, <<"v", "1", "0", "v", "u", "1", "0", "u">>, All(4, {"w"}) \o All(4, {"u"}), {})>>,
         <<Ram(Rd(<<"a">>, {}, {1}, {}), All(8, 0), All(8, 0))>>),
  \* two writes: one wins, one narrower wins, they never meet
  Memory(2, 1, {"a", "b", "u", "w"}, <<Wr("c", <<"a">>, <<"1">>, <<{"u"}>>, {}), Wr("c", <<"b">>, <<"0">>, <<{"w"}>>, {1})>>,
         <<Rd(<<"a">>, {}, {1}, {2}), Rd(<<"b">>, {}, {2}, {1})>>),
  Memory(2, 1, {"a", "b", "u", "w"}, <<Wr("c", <<"a">>, <<"1">>, <<{"u"}>>, {2}), Wr("c", <<"b">>, <<"0">>, <<{"w"}>>, {})>>,
         <<Rd(<<"b">>, {"w"}, {2}, {})>>),
  [Memory(4, 1, {"a", "b", "u", "w"}, <<Wr("c", <<"a", "b">>, <<"1">>, <<{"u"}>>, {}), Wr("c", <<"b", "a">>, <<"0">>, <<{"w", "ne"}>>, {1})>>,
          <<Rd(<<"a", "b">>, {}, {1}, {2})>>) EXCEPT !.differs = {<<"a", "b">>}],
  Memory(4, 1, {"a", "b", "c0", "u", "w"},
         <<Wr("c", <<"0", "a">>, <<"1">>, <<{"u"}>>, {}), Wr("c", <<"1", "a">>, <<"b">>, <<{"u"}>>, {1}), Wr("c", <<"c0", "b">>, <<"0">>, <<{"w"}>>, {1, 2})>>,
         <<Ram(Rd(<<"0", "a">>, {}, {1, 2}, {3}), Z, Z), Ram(Rd(<<"1", "a">>, {}, {1, 2}, {3}), Z, Z), Ram(Rd(<<"c0", "b">>, {}, {3}, {1, 2}), Z, Z)>>),
  \* more reads than a block has ports; none a block has; few words; one that wants logic
  Memory(2, 1, {"a", "b", "e", "w"}, <<Wr("c", <<"e">>, <<"a">>, <<{"w"}>>, {})>>, <<Rd(<<"a">>, {}, {}, {}), Rd(<<"b">>, {}, {}, {1})>>),
  Memory(2, 1, {"a", "e"}, <<>>, <<[Rd(<<"a">>, e1, {}, {}) EXCEPT !.arst = "e"]>>),
  Memory(1, 1, {"a", "e"}, <<>>, <<Rd(<<"a">>, e1, {}, {})>>),
  \* resets of reads whose new data is in logic: the other port's, their own, a
  \* masked write's
  Memory(2, 1, {"a", "b", "v", "r"}, <<Wr("c", <<"a">>, <<"v">>, <<{}>>, {})>>, <<RamResets(Rd(<<"b">>, {}, {1}, {}), "r", FALSE)>>),
  Memory(2, 1, {"a", "b", "e", "v"}, <<Wr("c", <<"a">>, <<"v">>, <<{"e", "b"}>>, {})>>,
         <<RamResets(Ram(Rd(<<"a">>, e1, {1}, {}), <<1>>, Z), "v", FALSE), Rd(<<"b">>, {}, {}, {})>>),
  Memory(2, 1, {"a", "b", "e", "v"}, <<Wr("c", <<"a">>, <<"v">>, <<{}>>, {})>>,
         <<RamResets(Ram(Rd(<<"b">>, e1, {1}, {}), <<1>>, Z), "v", FALSE)>>),
  Memory(2, 1, {"a", "b", "u", "w"}, <<Wr("c", <<"a">>, <<"1">>, <<{"u"}>>, {}), Wr("c", <<"b">>, <<"0">>, <<{"w"}>>, {1})>>,
         <<RamResets(Ram(Rd(<<"a">>, {"u"}, {1}, {2}), Z, Z), "w", TRUE), Rd(<<"b">>, {}, {2}, {1})>>),
  \* held while written, in two rows of blocks, into a register, and beyond them
  Memory(16, 1, {"a", "b", "w"}, <<Wr("c", <<"a", "0", "0", "b">>, <<"1">>, <<{"w"}>>, {})>>, <<Rd(<<"a", "0", "0", "b">>, {"!w"}, {}, {})>>),
  Memory(16, 1, {"a", "b", "e", "w"}, <<Wr("c", <<"a", "0", "0", "b">>, <<"1">>, <<{"w"}>>, {})>>,
         <<Into(Ram(Rd(<<"a", "0", "0", "b">>, {"!w"}, {}, {}), Z, Z), RamReg({"e"}, "0", TRUE, <<0>>, <<0>>))>>),
  Memory(16, 1, {"a", "b", "w", "r"}, <<Wr("c", <<"a", "0", "0", "b">>, <<"1">>, <<{"w"}>>, {})>>,
         <<RamResets(Ram(Rd(<<"a", "0", "0", "b">>, {"!w"}, {}, {}), <<1>>, Z), "r", FALSE)>>),
  Memory(4, 1, {"a", "b", "w"}, <<Wr("c", <<"a", "0", "b">>, <<"1">>, <<{"w"}>>, {})>>, <<Rd(<<"a", "0", "b">>, {"!w"}, {}, {})>>),
  [Memory(2, 1, {"a", "e"}, <<>>, <<Rd(<<"a">>, e1, {}, {})>>) EXCEPT !.logic = TRUE] }
-----------------------------------------------------------------------------
\* Placement: LEs of two inputs, LABs two slots high.
Le(ins) == [inputs |-> ins, ff |-> None, packed |-> FALSE]
NoCtl == <<None, FALSE>>
Ff(ins, clk, ena) ==
  [inputs |-> ins, packed |-> FALSE,
   ff |-> [clk |-> <<clk, FALSE>>, ena |-> ena, sclr |-> NoCtl, sload |-> NoCtl, aclr |-> NoCtl, sync_kind |-> 0]]
Net(les, blocks, fixed) == [les |-> les, blocks |-> blocks, fixed |-> fixed]
MCPlacements ==
  LET three == <<<<0, 0>>, <<0, 1>>, <<2, 0>>>>
  IN  { \* a chain of three and two more
        [labs |-> <<<<0, 0>>, <<0, 1>>, <<0, 2>>, <<2, 1>>>>, sites |-> <<>>, blocks |-> <<>>,
         les |-> <<Le(<<"a">>), Le(<<"a">>), Le(<<"b">>), Le(<<"s">>), Le(<<"a", "b">>)>>,
         driver |-> [n \in {"a", "b", "s", "t"} |-> CASE n = "s" -> 1 [] n = "t" -> 4 [] OTHER -> None],
         chains |-> <<<<1, 2, 3>>>>,
         nets |-> [s |-> Net(<<1, 4>>, <<>>, <<>>), t |-> Net(<<4, 5>>, <<>>, << <<2, 2>> >>)]],
        \* registers with enables, and nets whose boxes several share
        [labs |-> three, sites |-> <<>>, blocks |-> <<>>, chains |-> <<>>,
         les |-> <<Ff(<<"a", "e">>, "c", <<"e", FALSE>>), Ff(<<"f">>, "c", <<"f", FALSE>>),
                   Ff(<<"q">>, "c", NoCtl), Le(<<"q", "a", "r">>)>>,
         driver |-> [n \in {"a", "e", "f", "q", "r"} |-> CASE n = "q" -> 1 [] n = "r" -> 3 [] OTHER -> None],
         nets |-> [q |-> Net(<<1, 3, 4>>, <<>>, <<>>), r |-> Net(<<3, 3, 4>>, <<>>, <<>>),
                   a |-> Net(<<1, 2, 4>>, <<>>, << <<2, 0>> >>)]],
        \* two blocks and what reads them
        [labs |-> <<<<0, 0>>, <<4, 0>>>>, chains |-> <<>>,
         sites |-> <<[xy |-> <<2, 0>>, kind |-> "m"], [xy |-> <<2, 1>>, kind |-> "m"], [xy |-> <<6, 0>>, kind |-> "x"],
                     [xy |-> <<2, 2>>, kind |-> "m"]>>,
         blocks |-> <<"m", "m", "x">>,
         les |-> <<Le(<<"u", "v">>), Le(<<"v">>)>>,
         driver |-> [n \in {"u", "v"} |-> None],
         nets |-> [u |-> Net(<<1>>, <<1, 3>>, <<>>), v |-> Net(<<1, 2>>, <<2>>, <<>>)]],
        \* one LE may leave the edge of a net's box, another go there
        [labs |-> <<<<0, 0>>, <<2, 0>>, <<4, 0>>, <<4, 1>>>>, sites |-> <<>>, blocks |-> <<>>, chains |-> <<>>,
         les |-> <<Le(<<"u">>), Le(<<"u">>)>>, driver |-> [n \in {"u"} |-> None],
         nets |-> [u |-> Net(<<1, 2>>, <<>>, << <<0, 0>>, <<0, 1>> >>), v |-> Net(<<2>>, <<>>, << <<4, 1>> >>)]] }
MCCrowds ==
  { \* no room for all the clusters of two, unless one is filled up with others
    [labs |-> <<<<0, 0>>, <<2, 0>>>>, sites |-> <<>>, blocks |-> <<>>, chains |-> <<>>,
     les |-> <<Le(<<"a", "b">>), Le(<<"e", "a", "b">>), Le(<<"e", "f", "g">>), Le(<<"f">>)>>,
     driver |-> [n \in {"a", "b", "e", "f", "g"} |-> None],
     nets |-> [a |-> Net(<<1, 3>>, <<>>, <<>>), b |-> Net(<<2, 4>>, <<>>, <<>>), e |-> Net(<<1, 4>>, <<>>, <<>>)]],
    \* registers of three enables: only two to a LAB, and few LABs
    [labs |-> <<<<0, 0>>, <<2, 0>>>>, sites |-> <<>>, blocks |-> <<>>, chains |-> <<>>,
     les |-> <<Ff(<<"a">>, "c", NoCtl), Ff(<<"e">>, "c", <<"e", FALSE>>), Le(<<"a">>), Le(<<"b">>)>>,
     driver |-> [n \in {"a", "b", "e"} |-> None],
     nets |-> [a |-> Net(<<1, 3>>, <<>>, <<>>)]] }

-----------------------------------------------------------------------------
Four == 0..15
Bits2(x) == <<x % 2, (x \div 2) % 2, (x \div 4) % 2, (x \div 8) % 2>>
\* Masks by what they compute of A, B, C and D.
MaskOf(F(_, _, _, _)) == {x \in Four : F(Bits2(x)[1], Bits2(x)[2], Bits2(x)[3], Bits2(x)[4]) = 1}
BufA == MaskOf(LAMBDA a, b, c, d : a)
NotA == MaskOf(LAMBDA a, b, c, d : 1 - a)
AndAB == MaskOf(LAMBDA a, b, c, d : a * b)
XorAB == MaskOf(LAMBDA a, b, c, d : (a + b) % 2)
\* D chooses the sum, or with D = 0 the carry.
SumABC == MaskOf(LAMBDA a, b, c, d : IF d = 1 THEN (a + b + c) % 2 ELSE (a + b + c) \div 2)

Cell(kind, mask, tied, at) == [kind |-> kind, mask |-> mask, inv |-> {}, tied |-> tied, at |-> at]
Lut(mask, at) == Cell("lut", mask, None, at)
Tie(v, n) == Cell("const", {}, v, [Y |-> n])
Register(at) == Cell("ff", {}, None, at)
Pin(at) == Cell("obuf", {}, <<>>, at)

MCPacked ==
  { \* a counter of two with an enable through an inverter, its first bits constant
    [inputs |-> {"clk", "e"},
     cells |-> [zero |-> Tie(0, "z"), one |-> Tie(1, "o"),
                l1 |-> Lut(SumABC, [DATAA |-> "q1", DATAB |-> "o", CIN |-> "z", COMBOUT |-> "s1", COUT |-> "c1"]),
                l2 |-> Lut(SumABC, [DATAA |-> "q2", DATAB |-> "z", CIN |-> "c1", COMBOUT |-> "s2", COUT |-> "c2"]),
                l3 |-> Lut(SumABC, [DATAA |-> "e", DATAB |-> "z", CIN |-> "c2", COMBOUT |-> "s3"]),
                f1 |-> Register([DATAIN |-> "s1", CLK |-> "clk", ENA |-> "n", ACLR |-> "z", REGOUT |-> "q1"]),
                f2 |-> Register([DATAIN |-> "s2", CLK |-> "clk", ENA |-> "n", SCLR |-> "q2", REGOUT |-> "q2"]),
                i |-> Lut(NotA, [DATAA |-> "e", COMBOUT |-> "n"]),
                p1 |-> Pin([DATAOUT |-> "q2"]), p2 |-> Pin([DATAOUT |-> "s3"])]],
    \* an inverter before a register, the LUT before it feeding others
    [inputs |-> {"clk", "a", "b"},
     cells |-> [d |-> Lut(AndAB, [DATAA |-> "a", DATAB |-> "b", COMBOUT |-> "x"]),
                i |-> Lut(NotA, [DATAA |-> "x", COMBOUT |-> "y"]),
                l |-> Lut(XorAB, [DATAA |-> "x", DATAB |-> "y", COMBOUT |-> "w"]),
                f |-> Register([DATAIN |-> "y", CLK |-> "clk", ENA |-> "x", REGOUT |-> "q"]),
                g |-> Register([DATAIN |-> "b", CLK |-> "y", ACLR |-> "x", REGOUT |-> "r"]),
                p |-> Pin([DATAOUT |-> "q", OE |-> "x"]), o |-> Pin([DATAOUT |-> "r", OE |-> "w"])]],
    \* the same before a LUT a block reads too, which inverts nothing
    [inputs |-> {"clk", "a", "b"},
     cells |-> [d |-> Lut(AndAB, [DATAA |-> "a", DATAB |-> "b", COMBOUT |-> "x"]),
                i |-> Lut(NotA, [DATAA |-> "x", COMBOUT |-> "y"]),
                f |-> Register([DATAIN |-> "y", CLK |-> "clk", REGOUT |-> "q"]),
                m |-> Cell("m4k", {}, <<>>, [WE |-> "x", DI |-> "y"]),
                t |-> Cell("mult", {}, <<>>, [A |-> "y", B |-> "q"]),
                p |-> Pin([DATAOUT |-> "q"])]],
    \* buffers in a row, and a LUT reading the same signal twice
    [inputs |-> {"clk", "a"},
     cells |-> [b |-> Lut(BufA, [DATAA |-> "a", COMBOUT |-> "x"]),
                i |-> Lut(NotA, [DATAA |-> "x", COMBOUT |-> "y"]),
                l |-> Lut(XorAB, [DATAA |-> "x", DATAB |-> "y", COMBOUT |-> "w"]),
                f |-> Register([DATAIN |-> "x", CLK |-> "clk", REGOUT |-> "q"]),
                g |-> Register([DATAIN |-> "w", CLK |-> "clk", REGOUT |-> "r"]),
                h |-> Register([DATAIN |-> "w", CLK |-> "clk", SCLR |-> "a", REGOUT |-> "t"]),
                p |-> Pin([DATAOUT |-> "x", OE |-> "q"]), o |-> Pin([DATAOUT |-> "r", OE |-> "t"])]],
    \* registers that are constants, or load only a 1
    [inputs |-> {"clk", "a", "b"},
     cells |-> [zero |-> Tie(0, "z"), one |-> Tie(1, "o"), other |-> Tie(0, "k"),
                f |-> Register([DATAIN |-> "z", CLK |-> "clk", ENA |-> "a", REGOUT |-> "q"]),
                g |-> Register([DATAIN |-> "a", CLK |-> "clk", ENA |-> "a", SCLR |-> "b", REGOUT |-> "r"]),
                h |-> Register([DATAIN |-> "s", SDATA |-> "k", SLOAD |-> "a", CLK |-> "clk", REGOUT |-> "t"]),
                l |-> Lut(XorAB, [DATAA |-> "q", DATAB |-> "o", COMBOUT |-> "n"]),
                s |-> Lut(XorAB, [DATAA |-> "t", DATAB |-> "n", COMBOUT |-> "s"]),
                p |-> Pin([DATAOUT |-> "r", OE |-> "n"]), o |-> Pin([DATAOUT |-> "t", OE |-> "z"])]],
    \* an inverter before one register's data and another's load path
    [inputs |-> {"clk", "a", "b"},
     cells |-> [d |-> Lut(AndAB, [DATAA |-> "a", DATAB |-> "b", COMBOUT |-> "x"]),
                i |-> Lut(NotA, [DATAA |-> "x", COMBOUT |-> "y"]),
                f |-> Register([DATAIN |-> "y", CLK |-> "clk", REGOUT |-> "q"]),
                l |-> Lut(XorAB, [DATAA |-> "r", DATAB |-> "b", COMBOUT |-> "w"]),
                g |-> Register([DATAIN |-> "w", SDATA |-> "y", SLOAD |-> "a", CLK |-> "clk", REGOUT |-> "r"]),
                p |-> Pin([DATAOUT |-> "q"]), o |-> Pin([DATAOUT |-> "r"])]] }

-----------------------------------------------------------------------------
\* LEs: LUTs of four inputs and registers on their own.
Comb(reads, out) == [reads |-> reads, out |-> out, cin |-> None, cout |-> None]
Beside(d, q) == [datain |-> d, sdata |-> None, sload |-> None, q |-> q]
Alone(d, q) == [datain |-> None, sdata |-> d, sload |-> None, q |-> q]
MCLes ==
  { \* two registers that want the same LUT, a wide LUT, and a carry pair
    [luts |-> <<Comb(<<"a", "b", None, None>>, "x"), Comb(<<"a", "b", "d", "e">>, "y"),
                [Comb(<<"x", None, None, None>>, "s") EXCEPT !.cout = "c"],
                [Comb(<<"y", None, None, None>>, "t") EXCEPT !.cin = "c"]>>,
     ffs |-> <<Alone("a", "q"), Alone("x", "r"), Beside("t", "u")>>],
    \* registers whose LUTs are near for one and farther for the other
    [luts |-> <<Comb(<<"q", None, None, None>>, "x"), Comb(<<"x", "r", None, None>>, "y"),
                Comb(<<"y", "a", "b", "d">>, "z")>>,
     ffs |-> <<Alone("a", "q"), Alone("y", "r"), Alone("x", "p")>>],
    \* one LUT free, nearer to the second register
    [luts |-> <<Comb(<<"a", "b", "d", "e">>, "y"), Comb(<<"y", "b", None, None>>, "z")>>,
     ffs |-> <<Alone("a", "p"), Alone("y", "r"), Beside("y", "w")>>],
    \* a LUT and a register out of each other's reach, both read in the LAB
    [luts |-> <<Comb(<<"a", "b", "e", None>>, "x"), Comb(<<"x", "a", None, None>>, "y"), Comb(<<"q", "d", None, None>>, "z")>>,
     ffs |-> <<Alone("d", "q"), Beside("z", "r")>>] }

-----------------------------------------------------------------------------
\* Pins and clocks: two PLLs, each with an output pin of its own.
MCChip ==
  [pads |-> [k1 |-> "clock", k2 |-> "clock", d1 |-> "io", o1 |-> "io", o2 |-> "io"],
   controls |-> {"G1", "G2", "G3"}, plls |-> {"P1", "P2"}, outs |-> {"X1", "X2"},
   wired |-> [X1 |-> "o1", X2 |-> "o2"],
   reach |-> << "k1", "COMBOUT" >> :> <<"P1", "G1", "G2">> @@ << "k2", "COMBOUT" >> :> <<"P2", "P1", "G2">>
             @@ << "d1", "COMBOUT" >> :> <<>>
             @@ << "P1", "CLK0" >> :> <<"G1", "G2">> @@ << "P2", "CLK0" >> :> <<"G2", "G3">>
             @@ << "P1", "CLK2" >> :> <<"G2", "X1">> @@ << "P2", "CLK2" >> :> <<"X2", "G3", "G2">>]
Port(kind, at) == [kind |-> kind, at |-> at]
Buf(kind, at) == [kind |-> kind, at |-> at]
Fed(clk, d) == [kind |-> "ff", at |-> [CLK |-> clk, DATAIN |-> d, REGOUT |-> "q"]]
Pll(in, z, t) == [kind |-> "pll", at |-> [INCLK |-> in, CLK0 |-> z, CLK2 |-> t]]
MCClocks ==
  { \* a PLL whose counter drives its own pin, and one whose does not
    [pins |-> [a |-> "k1", b |-> "o1", e |-> "k2", f |-> "d1"],
     cells |-> [a |-> Port("topin", [O |-> "a"]), ia |-> Buf("ibuf", [PAD |-> "a", COMBOUT |-> "ca"]),
                e |-> Port("topin", [O |-> "e"]), ie |-> Buf("ibuf", [PAD |-> "e", COMBOUT |-> "ce"]),
                p |-> Pll("ca", None, "x"), r |-> Pll("ce", "z", "y"),
                b |-> Port("topout", [I |-> "b"]), ob |-> Buf("obuf", [PAD |-> "b", DATAOUT |-> "x"]),
                f |-> Port("topout", [I |-> "f"]), of |-> Buf("obuf", [PAD |-> "f", DATAOUT |-> "y"]),
                g |-> Fed("z", "ce")]],
    \* the same, where the clock that misses its pin has a global already
    [pins |-> [a |-> "k1", b |-> "o2", e |-> "k2"],
     cells |-> [a |-> Port("topin", [O |-> "a"]), ia |-> Buf("ibuf", [PAD |-> "a", COMBOUT |-> "ca"]),
                p |-> Pll("ca", "z", "x"),
                b |-> Port("topout", [I |-> "b"]), ob |-> Buf("obuf", [PAD |-> "b", DATAOUT |-> "x"]),
                g |-> Fed("x", "z"), h |-> Fed("ca", "x")]],
    \* a clock from a pin, one from the core, and a tri-state pin
    [pins |-> [a |-> "k1", b |-> "d1", e |-> "k2"],
     cells |-> [a |-> Port("topin", [O |-> "a"]), ia |-> Buf("ibuf", [PAD |-> "a", COMBOUT |-> "ca"]),
                e |-> Port("topin", [O |-> "e"]), ie |-> Buf("ibuf", [PAD |-> "e", COMBOUT |-> "ce"]),
                b |-> Port("topinout", [I |-> None, O |-> "b"]),
                ob |-> Buf("iobuf", [PAD |-> "b", DATAOUT |-> "ca", COMBOUT |-> "cb"]),
                g |-> Fed("ca", "ce"), h |-> [Fed("q", "ca") EXCEPT !.at.REGOUT = "t"]]],
    \* more clocks than the pins reach controls for
    [pins |-> [a |-> "k2", b |-> "d1", e |-> "o2"],
     cells |-> [a |-> Port("topin", [O |-> "a"]), ia |-> Buf("ibuf", [PAD |-> "a", COMBOUT |-> "ca"]),
                b |-> Port("topin", [O |-> "b"]), ib |-> Buf("ibuf", [PAD |-> "b", COMBOUT |-> "cb"]),
                g |-> Fed("ca", "cb"), h |-> [Fed("cb", "ca") EXCEPT !.at.REGOUT = "t"]]] }

-----------------------------------------------------------------------------
\* Blocks on their pins.  A cell's ports: an address and data of a side.
Addresses(s, w, given) ==
  [x \in {<<"ADDR", s, i>> : i \in 0..11} |->
     IF x[3] < w THEN "zero" ELSE IF x[3] \in DOMAIN given THEN given[x[3]] ELSE s \o "a" \o ToString(x[3])]
DataIn(s, cols, given) ==
  [x \in {<<"DATAIN", s, c>> : c \in cols} |->
     IF x[3] \in DOMAIN given THEN given[x[3]] ELSE s \o "d" \o ToString(x[3])]
DataOut(cols) == [x \in {<<"DATAOUT", c>> : c \in cols} |-> "q" \o ToString(x[2])]
OnClk == <<"CLK", 0>> :> "clk"
Shape(mode, a, b, base, slice, bytes) ==
  [mode |-> mode, a |-> a, b |-> b, clock |-> 0, out |-> {}, base |-> base, slice |-> slice, bytes |-> bytes]
MemCell(shape, synthesized, at, used) ==
  [kind |-> "m4k", shape |-> shape, synthesized |-> synthesized, at |-> at,
   used |-> {<<"DATAOUT", c>> : c \in used}, via |-> [k |-> [of |-> "r", inv |-> FALSE], l |-> [of |-> "r", inv |-> TRUE]]]
MCBlocks ==
  { \* a byte with a constant bit and padding, from the yosys flow
    MemCell(Shape("SimpleDual", 9, 9, 9, 8, FALSE), FALSE,
      OnClk @@ (<<"WE", "A">> :> "k") @@ Addresses("A", 3, <<>>) @@ Addresses("B", 3, 11 :> "zero")
      @@ DataIn("A", 0..8, 3 :> "one" @@ 6 :> "zero" @@ 8 :> "zero") @@ DataOut(0..8), 0..7),
    \* two bytes written, one read, with byte enables and a second clock
    MemCell([Shape("SimpleDual", 18, 9, 9, 8, TRUE) EXCEPT !.clock = 1], TRUE,
      OnClk @@ (<<"CLK", 1>> :> "clk1") @@ (<<"ENA", 0>> :> "one") @@ (<<"ENA", 1>> :> "l") @@ (<<"CLR", 0>> :> "zero")
      @@ (<<"WE", "A">> :> "we") @@ (<<"BYTEENA", "A", 0>> :> "be0") @@ (<<"BYTEENA", "A", 1>> :> "one")
      @@ Addresses("A", 4, <<>>) @@ Addresses("B", 3, 11 :> "one")
      @@ DataIn("A", 0..17, 0 :> "k" @@ 10 :> "zero" @@ 8 :> "undriven" @@ 17 :> "undriven") @@ DataOut(0..7), 0..7),
    \* a ROM, its data and the bits below its address tied
    MemCell(Shape("Single", 4, None, 4, 4, FALSE), TRUE,
      OnClk @@ (<<"WE", "A">> :> "zero") @@ Addresses("A", 2, 5 :> "one") @@ DataIn("A", 0..3, [c \in 0..3 |-> "zero"])
      @@ DataOut(0..3), {0, 2}),
    \* a wide read-only port: port A then has nothing
    MemCell(Shape("SimpleDual", 36, 36, 36, 36, FALSE), TRUE,
      OnClk @@ Addresses("A", 5, [i \in 5..11 |-> "undriven"]) @@ Addresses("B", 5, <<>>) @@ DataOut(0..35), 0..35),
    \* both ports write
    MemCell(Shape("TrueDual", 18, 9, 9, 9, FALSE), TRUE,
      OnClk @@ (<<"WE", "A">> :> "wa") @@ (<<"WE", "B">> :> "wb") @@ Addresses("A", 4, <<>>) @@ Addresses("B", 3, <<>>)
      @@ DataIn("A", 0..17, 9 :> "one") @@ DataIn("B", 0..8, 2 :> "one") @@ DataOut(0..17 \cup 18..26), {1, 9, 20}),
    \* refused: no clock, a write always on, pins that meet
    MemCell(Shape("Single", 4, None, 4, 4, FALSE), TRUE, (<<"CLK", 0>> :> "one") @@ Addresses("A", 2, <<>>), {}),
    MemCell(Shape("Single", 4, None, 4, 4, FALSE), TRUE,
      OnClk @@ (<<"WE", "A">> :> "one") @@ Addresses("A", 2, <<>>), {}),
    MemCell(Shape("SimpleDual", 18, 9, 9, 9, FALSE), TRUE,
      OnClk @@ (<<"WE", "A">> :> "we") @@ Addresses("A", 4, 5 :> "undriven") @@ Addresses("B", 3, <<>>), {}) }

Row(o, nets) == [x \in {<<o, i>> : i \in 0..(Len(nets) - 1)} |-> nets[x[2] + 1]]
Product(n) == [x \in {<<"P", k>> : k \in 0..(n - 1)} |-> "p" \o ToString(x[2])]
MultCell(a, b, sa, sb, regs, more, via) ==
  [kind |-> "mult", width |-> [A |-> Len(a), B |-> Len(b)], signed |-> [A |-> sa, B |-> sb], regs |-> regs,
   at |-> Row("A", a) @@ Row("B", b) @@ Product(Len(a) + Len(b)) @@ more,
   used |-> {<<"P", k>> : k \in 0..(Len(a) + Len(b) - 1)}, via |-> via]
MCMults ==
  {MultCell(<<"x0", "x1", "x2">>, <<"y0", "y1">>, sa, sb, FALSE, <<>>, <<>>) : sa \in BOOLEAN, sb \in BOOLEAN}
  \cup {MultCell(<<"x0", "nx1">>, <<"one", "zero">>, sa, TRUE, TRUE,
                 (<<"CLK">> :> "clk") @@ (<<"ENA">> :> "one") @@ (<<"ACLR">> :> "nr"),
                 [nx1 |-> [of |-> "x1", inv |-> TRUE], x1 |-> [of |-> "x2", inv |-> FALSE],
                  nr |-> [of |-> "r", inv |-> TRUE]]) : sa \in BOOLEAN}
  \cup {MultCell(<<"x0", "one", "zero">>, <<"x0", "y1", "y2", "nx">>, FALSE, TRUE, FALSE, <<>>,
                 [nx |-> [of |-> "x0", inv |-> TRUE]]),
        MultCell(<<"x0">>, <<"y0">>, FALSE, FALSE, FALSE, (<<"ENA">> :> "en"), <<>>),
        MultCell(<<"x0">>, <<"y0">>, FALSE, FALSE, TRUE, (<<"CLK">> :> "clk") @@ (<<"ENA">> :> "zero"), <<>>)}

-----------------------------------------------------------------------------
Mul(name, a, b, s, y) == [is |-> "mul", name |-> name, a |-> a, b |-> b, as |-> s, bs |-> s, y |-> y]
Zeroes(n) == [i \in 1..n |-> "0"]
Flops(d, q) ==
  [is |-> "ff", name |-> "r", d |-> d, q |-> q, clk |-> "clk", neg |-> FALSE, en |-> None, how |-> "plain",
   rst |-> None, value |-> Zeroes(Len(d)), init |-> Zeroes(Len(d))]
Enabled(f, n) == [f EXCEPT !.en = [sig |-> n, pos |-> TRUE]]
Reset(f, how, n) == [f EXCEPT !.how = how, !.rst = [sig |-> n, pos |-> TRUE]]
Design(cells, inputs, outs, left) ==
  [cells |-> cells, inputs |-> inputs, clocks |-> {"clk"}, outs |-> outs, left |-> left]
TwoClocks(d) == [d EXCEPT !.clocks = @ \cup {"other"}]
Ys(n) == [k \in 1..n |-> "y" \o ToString(k)]
Ps(n) == [k \in 1..n |-> "p" \o ToString(k)]
Zs4 == <<"z1", "z2", "z3", "z4">>
Outs(s) == {s[i] : i \in DOMAIN s}

A2 == <<"a0", "a1">>
QA == <<"qa0", "qa1">>
QB == <<"qb0", "qb1">>
MCProducts ==
  { \* unsigned, signed and cut, one operand padded with a constant
    Design(<<Mul("m", <<"a0", "a1", "a2">>, A2, FALSE, Ys(5))>>, {"a0", "a1", "a2"}, Outs(Ys(5)), 9),
    Design(<<Mul("m", <<"a0", "a1", "a2">>, <<"a1", "a2", "a3">>, TRUE, Ys(6))>>, {"a0", "a1", "a2", "a3"}, Outs(Ys(6)), 9),
    Design(<<Mul("m", <<"a0", "a1", "a2">>, <<"a1", "a2", "a3">>, FALSE, Ys(6))>>, {"a0", "a1", "a2", "a3"}, Outs(Ys(6)), 9),
    Design(<<Mul("m", <<"a0", "a1", "a2", "a3">>, <<"a2", "a1", "a1">>, TRUE, Ys(4))>>, {"a0", "a1", "a2", "a3"}, Outs(Ys(4)), 9),
    Design(<<Mul("m", <<"a0", "a1", "0">>, <<"1", "a1", "0", "0">>, FALSE, Ys(5))>>, {"a0", "a1"}, Outs(Ys(5)), 9),
    \* a constant, a bit, and more products than blocks
    Design(<<Mul("m", A2, <<"1", "1">>, FALSE, Ys(3)), Mul("n", A2, <<"a2">>, FALSE, <<"z1", "z2">>)>>,
           {"a0", "a1", "a2"}, Outs(Ys(3)) \cup {"z1", "z2"}, 9),
    Design(<<Mul("m", A2, A2, FALSE, Ys(3)), Mul("n", <<"y1", "y3">>, A2, FALSE, <<"z1", "z2", "z3">>)>>,
           {"a0", "a1"}, {"z1", "z2", "z3"}, 1),
    \* registers on the operands and the product, under one enable
    Design(<<Enabled(Flops(A2, QA), "en"), Enabled(Flops(<<"a1", "a0">>, QB), "en"), Mul("m", QA, QB, FALSE, Ys(4)),
             Enabled(Flops(Ys(4), Ps(4)), "en")>>, {"a0", "a1", "en"}, Outs(Ps(4)), 9),
    \* under enables of their own, the other operand's registered too
    Design(<<Enabled(Flops(A2, QA), "en"), Flops(<<"a1", "a0">>, QB), Mul("m", QA, QB, TRUE, Ys(4)),
             Flops(Ys(4), Ps(4))>>, {"a0", "a1", "en"}, Outs(Ps(4)), 9),
    \* two registers after it, one after the other
    Design(<<Mul("m", A2, A2, TRUE, Ys(4)), Reset(Flops(Ys(4), Ps(4)), "sync", "r"), Enabled(Flops(Ps(4), Zs4), "en")>>,
           {"a0", "a1", "r", "en"}, Outs(Zs4), 9),
    \* cleared, and read by more than the product
    Design(<<Reset(Flops(A2, QA), "async", "r"), Reset(Flops(A2, QB), "async", "r"), Mul("m", QA, QB, FALSE, Ys(4))>>,
           {"a0", "a1", "r"}, Outs(Ys(4)) \cup {"qb0"}, 9),
    Design(<<Reset(Enabled(Flops(A2, QA), "en"), "sync", "r"), Mul("m", QA, A2, FALSE, Ys(4)), Reset(Flops(Ys(4), Ps(4)), "sync", "r"),
             Flops(Ps(4), Zs4)>>, {"a0", "a1", "r", "en"}, Outs(Zs4), 9),
    \* registers the blocks do not have
    Design(<<[Flops(A2, QA) EXCEPT !.neg = TRUE], [Flops(A2, QB) EXCEPT !.init = <<"0", "1">>],
             Mul("m", QA, QB, FALSE, Ys(4))>>, {"a0", "a1"}, Outs(Ys(4)), 9),
    Design(<<[Reset(Flops(A2, QA), "async", "r") EXCEPT !.value = <<"1", "0">>],
             Reset(Enabled(Flops(A2, QB), "en"), "enfirst", "r"), Mul("m", QA, QB, FALSE, Ys(4))>>,
           {"a0", "a1", "r", "en"}, Outs(Ys(4)), 9),
    \* a register per limb
    Design(<<Flops(<<"a0", "a1", "a2">>, <<"qa0", "qa1", "qa2">>), Mul("m", <<"qa0", "qa1", "qa2">>, A2, FALSE, Ys(5)),
             Flops(Ys(5), Ps(5))>>, {"a0", "a1", "a2"}, Outs(Ps(5)), 9),
    \* limbs of different widths under enables, and on clocks, of their own
    Design(<<Enabled(Flops(<<"a0", "a1", "a2">>, <<"qa0", "qa1", "qa2">>), "en"), Flops(<<"a1", "a0">>, QB),
             Mul("m", <<"qa0", "qa1", "qa2">>, QB, FALSE, Ys(5))>>, {"a0", "a1", "a2", "en"}, Outs(Ys(5)), 9),
    TwoClocks(Design(<<[Flops(<<"a0", "a1", "a0">>, <<"qa0", "qa1", "qa2">>) EXCEPT !.clk = "other"], Flops(<<"a1", "a0">>, QB),
                       Mul("m", <<"qa0", "qa1", "qa2">>, QB, FALSE, Ys(5))>>, {"a0", "a1"}, Outs(Ys(5)), 9)),
    \* a constant 1 in a registered operand, cleared and reset
    Design(<<Flops(<<"a0">>, <<"qa0">>), Mul("m", <<"qa0", "1">>, A2, FALSE, Ys(4))>>, {"a0", "a1"}, Outs(Ys(4)), 9),
    Design(<<Reset(Enabled(Flops(<<"a0">>, <<"qa0">>), "en"), "async", "r"), Mul("m", <<"1", "qa0">>, A2, TRUE, Ys(4)),
             Reset(Enabled(Flops(Ys(4), Ps(4)), "en"), "async", "r")>>, {"a0", "a1", "en", "r"}, Outs(Ps(4)), 9),
    Design(<<Reset(Flops(<<"a0">>, <<"qa0">>), "sync", "r"), Mul("m", <<"1", "qa0">>, A2, TRUE, Ys(4))>>,
           {"a0", "a1", "r"}, Outs(Ys(4)), 9) }
\* A product's register that is the next one's operand register.
MCPipelines ==
  {Design(<<Mul("m", A2, A2, FALSE, Ys(3)), Flops(Ys(3), Ps(3)), Mul("n", Ps(3), A2, FALSE, <<"z1", "z2", "z3">>)>>,
          {"a0", "a1"}, {"z1", "z2", "z3"}, 9)}
-----------------------------------------------------------------------------
VLut(name, in, on, q) == [is |-> "lut", name |-> name, in |-> in, init |-> on, o |-> q]
AndOf(n) == {[i \in 1..n |-> 1]}
XorOf(n) == {v \in [1..n -> {0, 1}] : Cardinality({i \in 1..n : v[i] = 1}) % 2 = 1}
FirstNotRest(n) == {v \in [1..n -> {0, 1}] : v[1] = 1 /\ \A i \in 2..n : v[i] = 0}
VFf(name, d, q) ==
  [is |-> "ff", name |-> name, clk |-> "clk", ce |-> "1", sr |-> "0", d |-> d, q |-> q, neg |-> FALSE, set |-> 0,
   sync |-> TRUE, init |-> 0]
VCarry(name, ci, cyinit, s, di, ys, co) ==
  [is |-> "carry", name |-> name, ci |-> ci, cyinit |-> cyinit, s |-> s, di |-> di, o |-> ys, co |-> co]
VIn(n) == [is |-> "pad", type |-> "ibuf", name |-> n \o ".i", pad |-> n, i |-> "0", t |-> "0", o |-> n \o "i"]
VOut(n, b) == [is |-> "pad", type |-> "obuf", name |-> n \o ".o", pad |-> n, i |-> b, t |-> "0", o |-> None]
VClock == [is |-> "bufg", name |-> "g", i |-> "ki", o |-> "clk"]
MCSites == [P1 |-> "IOB_1", P2 |-> "IOB_2", P3 |-> "IOB_3", P4 |-> "IOB_4", P5 |-> "IOB_5", P6 |-> "IOB_6"]
VDesign(vs, inputs) ==
  [cells |-> vs, inputs |-> inputs,
   ports |-> [k |-> "k", a |-> "a", b |-> "b", d |-> "d", y |-> "y", z |-> "z"],
   pins |-> [k |-> "P1", a |-> "P2", b |-> "P3", d |-> "P4", y |-> "P5", z |-> "P6"]]
VCmt(rst, fb) ==
  [is |-> "cmt", name |-> "pll", conf |-> None,
   pins |-> <<"CLKIN1", 0>> :> "ki" @@ <<"CLKFBIN", 0>> :> fb @@ <<"CLKFBOUT", 0>> :> "fb" @@ <<"RST", 0>> :> rst
            @@ <<"CLKOUT", 1>> :> "c1" @@ <<"LOCKED", 0>> :> "0"]
VDsp(name, a, p, pcin, pcout) ==
  [is |-> "dsp", name |-> name, conf |-> None, idle |-> {<<"CEM", 0>>},
   pins |-> <<"A", 1>> :> a @@ <<"CEM", 0>> :> "0" @@ <<"P", 0>> :> p @@ <<"PCIN", 0>> :> pcin @@ <<"PCOUT", 0>> :> pcout]

MCSliced ==
  { \* a counter of three: a register, a constant and LUTs on the carry bits
    VDesign(<<VClock, VLut("l1", <<"q1", "ai">>, XorOf(2), "s1"), VLut("l2", <<"q2">>, AndOf(1), "s2"),
              VCarry("c1", "0", "1", <<"s1", "s2">>, <<"ai", "0">>, <<"o1", "o2">>, <<None, "co2">>),
              VCarry("c2", "co2", "0", <<"q3", "1">>, <<"q3", "s2">>, <<"o3", None>>, <<None, "co4">>),
              [VFf("f1", "o1", "q1") EXCEPT !.ce = "ai"], VFf("f2", "o2", "q2"), VFf("f3", "o3", "q3"),
              VOut("y", "q3"), VOut("z", "co4")>>, {"ki", "ai"}),
    \* one LUT on two carry bits, which are head and next of nothing
    VDesign(<<VClock, VLut("l1", <<"ai", "bi">>, XorOf(2), "s"),
              VCarry("c1", "x", "ai", <<"s", "s">>, <<"ai", "bi">>, <<"o1", "o2">>, <<"c1", None>>),
              [VFf("f1", "o1", "q1") EXCEPT !.sr = "bi", !.set = 1, !.init = 1], [VFf("f2", "o1", "q2") EXCEPT !.neg = TRUE],
              VLut("l2", <<"q1", "q2", "o2", "c1">>, XorOf(4), "y"), VOut("y", "y")>>, {"ki", "ai", "bi"}),
    \* LUTs that pair, in another order of inputs, with registers of one
    \* control set and of two
    VDesign(<<VClock, VLut("l1", <<"ai", "bi", "di">>, FirstNotRest(3), "x1"), VLut("l2", <<"bi", "ai">>, FirstNotRest(2), "x2"),
              VFf("f1", "x1", "q1"), VFf("f2", "x2", "q2"), VOut("y", "q1"), VOut("z", "q2")>>, {"ki", "ai", "bi", "di"}),
    VDesign(<<VClock, VLut("l1", <<"ai", "bi">>, FirstNotRest(2), "x1"), VLut("l2", <<"bi", "ai">>, FirstNotRest(2), "x2"),
              VLut("l3", <<"bi", "ai", "q1">>, XorOf(3), "x3"),
              VFf("f1", "x1", "q1"), [VFf("f2", "x2", "q2") EXCEPT !.sync = FALSE, !.sr = "ai"], VOut("y", "x3"), VOut("z", "q2")>>,
            {"ki", "ai", "bi"}),
    \* LUTs whose output goes further than the register
    VDesign(<<VClock, VLut("l1", <<"ai", "bi">>, AndOf(2), "x1"), VLut("l2", <<"bi", "ai">>, XorOf(2), "x2"),
              VFf("f1", "x1", "q1"), VFf("f2", "x2", "q2"), VFf("f3", "x2", "q3"), VLut("l3", <<"x1", "q2", "x1">>, XorOf(3), "x3"),
              VOut("y", "x3"), VOut("z", "q3")>>, {"ki", "ai", "bi"}),
    VDesign(<<VClock, VLut("l1", <<"ai", "bi">>, AndOf(2), "x1"), VLut("l2", <<"bi", "ai">>, XorOf(2), "x2"),
              VFf("f1", "x1", "q1"), VLut("l3", <<"x1", "q1">>, XorOf(2), "x3"), VOut("y", "x3"), VOut("z", "x2")>>, {"ki", "ai", "bi"}),
    VDesign(<<VClock, VLut("l1", <<"ai", "bi">>, AndOf(2), "x1"), VLut("l2", <<"bi", "ai">>, FirstNotRest(2), "x2"),
              VFf("f2", "x2", "q2"), VOut("y", "x1"), VOut("z", "q2")>>, {"ki", "ai", "bi"}),
    \* constants on inputs, enables and resets
    VDesign(<<VClock, VLut("l1", <<"ai", "1", "x">>, FirstNotRest(3) \cup {<<1, 1, 0>>}, "x1"), VLut("l2", <<>>, {<<>>}, "one"),
              [VFf("f1", "x1", "q1") EXCEPT !.ce = "0", !.init = 1], [VFf("f2", "x1", "q2") EXCEPT !.sr = "1", !.set = 1, !.sync = FALSE],
              [VFf("f3", "one", "q3") EXCEPT !.ce = "x", !.sr = "x"], [VFf("f4", "1", "q4") EXCEPT !.ce = "one"],
              VLut("l3", <<"q1", "q2", "q3", "q4">>, XorOf(4), "x3"), VOut("y", "x3")>>, {"ki", "ai"}),
    \* a RAM of three memories, the last's address the write address
    VDesign(<<VClock,
              [is |-> "ram", name |-> "r", clk |-> "clk", neg |-> FALSE, we |-> "bi",
               addr |-> <<<<"ai">>, <<"1">>, <<"di">>>>, di |-> <<<<"ai", "di">>, <<"di", "1">>, <<"0", "ai">>>>,
               do |-> <<<<"x1", "x2">>, <<"x3", None>>, <<None, "x4">>>>,
               init |-> [k \in 1..3 |-> (<<0>> :> <<0, 1>> @@ <<1>> :> <<1, 1>>)]],
              VLut("l", <<"x1", "x2", "x3", "x4">>, XorOf(4), "y"), VOut("y", "x1"), VOut("z", "y")>>, {"ki", "ai", "bi", "di"}),
    \* tri-state pins, blocks, and DSPs that cascade
    VDesign(<<VIn("k"), VIn("a"), VClock, VCmt("0", "fb"),
              [VOut("y", "ai") EXCEPT !.type = "obuft", !.t = "bi"], [VOut("z", "1") EXCEPT !.type = "iobuf", !.t = "ai", !.o = "zi"],
              [is |-> "bscan", name |-> "j", conf |-> 1, pins |-> <<"TDO", 0>> :> "0" @@ <<"TDI", 0>> :> "tdi" @@ <<"TCK", 0>> :> "0"],
              [is |-> "ps7", name |-> "ps", pins |-> <<"FCLKCLKTRIG", 0>> :> "0"],
              VDsp("d1", "ai", "0", "0", "pc"), VDsp("d2", "1", "p", "pc", "0"), VDsp("d3", "ai", "p3", "0", "0")>>, {"bi"}),
    \* refused
    VDesign(<<VIn("k"), VCmt("1", "fb")>>, {}), VDesign(<<VIn("k"), VCmt("0", "0")>>, {}), VDesign(<<VIn("e")>>, {}),
    [VDesign(<<VIn("a")>>, {}) EXCEPT !.pins = [a |-> "P7"]],
    VDesign(<<[is |-> "ps7", name |-> "ps", pins |-> <<"FCLKCLKTRIG", 0>> :> "ai"]>>, {"ai"}),
    VDesign(<<[VFf("f", "1", "q") EXCEPT !.clk = "0"]>>, {}),
    VDesign(<<VClock, VFf("f1", "ai", "q"), VFf("f2", "bi", "q")>>, {"ki", "ai", "bi"}),
    VDesign(<<VLut("l", <<"o2">>, AndOf(1), "s"), VCarry("c1", "x2", "0", <<"s", "s">>, <<"0", "0">>, <<"o1", "o2">>, <<None, "x1">>),
              VCarry("c2", "x1", "0", <<"o1", "1">>, <<"1", "0">>, <<None, None>>, <<None, "x2">>)>>, {}),
    VDesign(<<[is |-> "unknown", name |-> "u"]>>, {}) }

-----------------------------------------------------------------------------
\* Two columns of slices; chains run from A0 to B0 and C0 to D0, and A1 to B1.
DieSlice(n, ty, half, x, y, up) == [name |-> n, ty |-> ty, half |-> half, tile |-> <<x, y>>, xy |-> <<x, y>>, up |-> up]
DieSite(n, ty, half, x, y) == DieSlice(n, ty, half, x, y, "none")
MCDie == <<
  DieSlice("A0", "SLICEM", 0, 2, 0, "B0"), DieSlice("A1", "SLICEL", 1, 2, 0, "B1"),
  DieSlice("B0", "SLICEM", 0, 2, 1, "none"), DieSlice("B1", "SLICEL", 1, 2, 1, "none"),
  DieSlice("C0", "SLICEL", 0, 6, 0, "D0"), DieSlice("D0", "SLICEL", 0, 6, 1, "none"),
  DieSite("RA0", "FIFO18E1", 0, 4, 0), DieSite("RA1", "RAMB18E1", 1, 4, 0), DieSite("RA", "RAMBFIFO36E1", 0, 4, 0),
  DieSite("RB0", "FIFO18E1", 0, 4, 1), DieSite("RB1", "RAMB18E1", 1, 4, 1), DieSite("RB", "RAMBFIFO36E1", 0, 4, 1),
  DieSite("DA0", "DSP48E1", 0, 5, 0), DieSite("DA1", "DSP48E1", 1, 5, 0),
  DieSite("DB0", "DSP48E1", 0, 5, 1), DieSite("DB1", "DSP48E1", 1, 5, 1),
  DieSite("G0", "BUFGCTRL", 0, 3, 0), DieSite("G1", "BUFGCTRL", 0, 3, 1),
  DieSite("PLL0", "PLLE2_ADV", 0, 0, 0), DieSite("PLL1", "PLLE2_ADV", 0, 0, 1),
  DieSite("P0", "IOB", 0, 0, 0), DieSite("P1", "IOB", 0, 0, 1)>>

DieNet(driver, users) == [driver |-> driver, users |-> users]
DieBle(lut, ff, cs) == [lut |-> lut, ff |-> ff, lut5 |-> None, ff5 |-> None, cs |-> cs]
DieCarry(c, luts, ffs) == [carry |-> c, lut6 |-> luts, lut5 |-> <<None, None>>, ff |-> ffs]
DieRam(luts, fives) == [lut6 |-> luts, lut5 |-> fives]
DieHard(c, upper, full) == [cell |-> c, upper |-> upper, full |-> full]
DieDesign(cells, nets, bles, moves, clocked, sites) ==
  [cells |-> cells, nets |-> nets, bles |-> bles, clocked |-> clocked, sites |-> sites,
   carries |-> moves[1], drams |-> moves[2], bram |-> moves[3], dsp |-> moves[4]]
NoClock == [c \in {} |-> 0]

MCDies == {
  \* a chain of two, registers of two control sets, a LUT
  DieDesign((1 :> "carry") @@ (2 :> "carry") @@ (3 :> "ff") @@ (4 :> "ff") @@ (5 :> "lut") @@ (6 :> "lut") @@ (7 :> "pad"),
            <<DieNet(1, {3, 7}), DieNet(3, {4, 5}), DieNet(None, {1, 3})>>,
            <<DieBle(5, None, None), DieBle(None, 3, 1), DieBle(None, 4, 2)>>,
            <<<<<<DieCarry(1, <<6, None>>, <<None, None>>), DieCarry(2, <<None, None>>, <<None, None>>)>>>>, <<>>, <<>>, <<>>>>,
            NoClock, (7 :> "P1")),
  \* two RAMs and registers of one control set
  DieDesign((1 :> "dram") @@ (2 :> "dram") @@ (3 :> "ff") @@ (4 :> "ff") @@ (5 :> "lut"),
            <<DieNet(1, {3}), DieNet(2, {4, 5})>>,
            <<DieBle(5, 3, 1), DieBle(None, 4, 1)>>,
            <<<<>>, <<DieRam(<<1>>, <<None>>), DieRam(<<2>>, <<None>>)>>, <<>>, <<>>>>,
            NoClock, <<>>),
  \* a chain and a RAM in each other's way
  DieDesign((1 :> "carry") @@ (2 :> "dram") @@ (3 :> "ff") @@ (4 :> "ff"),
            <<DieNet(1, {3}), DieNet(2, {4})>>,
            <<DieBle(None, 3, 1), DieBle(None, 4, 2)>>,
            <<<<<<DieCarry(1, <<None, None>>, <<None, None>>)>>>>, <<DieRam(<<2>>, <<None>>)>>, <<>>, <<>>>>,
            NoClock, <<>>),
  \* block RAMs of a whole tile and of half a one, cascaded DSPs, clocks
  DieDesign((1 :> "bram") @@ (2 :> "bram") @@ (3 :> "bram") @@ (4 :> "dsp") @@ (5 :> "dsp") @@ (6 :> "dsp") @@ (7 :> "pad")
              @@ (8 :> "cmt") @@ (9 :> "bufg") @@ (10 :> "bufg"),
            <<DieNet(1, {4}), DieNet(3, {6}), DieNet(7, {8}), DieNet(8, {9})>>,
            <<>>,
            <<<<>>, <<>>, <<DieHard(1, None, FALSE), DieHard(2, None, TRUE), DieHard(3, None, FALSE)>>,
              <<DieHard(4, 5, FALSE), DieHard(6, None, FALSE)>>>>,
            (8 :> 3) @@ (9 :> 4) @@ (10 :> None), (7 :> "P0")),
  \* a pin the device lacks, too many clock buffers, a chain too long
  DieDesign((1 :> "pad"), <<>>, <<>>, <<<<>>, <<>>, <<>>, <<>>>>, NoClock, (1 :> "P9")),
  DieDesign((1 :> "bufg") @@ (2 :> "bufg") @@ (3 :> "bufg"), <<>>, <<>>, <<<<>>, <<>>, <<>>, <<>>>>,
            (1 :> None) @@ (2 :> None) @@ (3 :> None), <<>>),
  DieDesign((1 :> "carry") @@ (2 :> "carry") @@ (3 :> "carry"), <<>>, <<>>,
            <<<<[i \in 1..3 |-> DieCarry(i, <<None, None>>, <<None, None>>)]>>, <<>>, <<>>, <<>>>>, NoClock, <<>>)}

-----------------------------------------------------------------------------
VARIABLES bench, one, two, three, four, five, six, seven, eight

places == <<one, two, three, four, five, six, seven, eight>>
back == <<bench, places>>

Spare5 == <<bench, six, seven, eight>>
Spare6 == <<bench, seven, eight>>
Spare8 == <<bench>>

-----------------------------------------------------------------------------
Luts == INSTANCE LutMap WITH
  Netlists <- MCNetlists, K <- 3, CUTS <- 2, AREA_PASSES <- 1,
  EXACT_PASSES <- 1,
  net <- one, aig <- two, at <- three, map <- four, cover <- five, out <- six

Blocks == INSTANCE M4kMap WITH
  Memories <- MCMemories, STEPS <- 3, BYTE <- 2, BLOCK <- 8,
  mem <- one, at <- two, ports <- three, plan <- four, rtl <- five, hw <- six

Rams == INSTANCE BramMap WITH
  Memories <- MCRams, STEPS <- 3, BYTE <- 2, BLOCK <- 16, LOGIC_WORDS <- 1,
  mem <- one, at <- two, plan <- three, rtl <- four, hw <- five

Labs == INSTANCE LabPlace WITH
  Designs <- MCPlacements \cup MCCrowds, LES_PER_LAB <- 2,
  MAX_LAB_INPUTS <- 3, MAX_PACKED_PER_LAB <- 1,
  d <- one, phase <- two, work <- three, s <- four, round <- five

Packing == INSTANCE Pack WITH
  Netlists <- MCPacked, Designs <- MCLes, FANOUT <- 3, REACH <- 2,
  LES_PER_LAB <- 4, MAX_LAB_INPUTS <- 4, MAX_PACKED_PER_LAB <- 2,
  design <- one, nl <- two, phase <- three, todo <- four, s <- five,
  sim <- six, cells <- one, les <- two, stage <- three, pairs <- four,
  labs <- five, moved <- six

Clocks == INSTANCE Pins WITH
  Designs <- MCClocks, Chip <- MCChip, Cells <- MCBlocks \cup MCMults,
  ROW <- 4, NINE <- 2,
  design <- one, nl <- two, port <- three, site <- four, phase <- five,
  off <- six, cell <- one, step <- two, pin <- three, tied <- four,
  invert <- five

Mults == INSTANCE Multipliers WITH
  Designs <- MCProducts, MAX_WIDTH <- 2, EDGES <- 3,
  DspDesigns <- MCProducts, A_UNSIGNED <- 2, A_SIGNED <- 3, B_UNSIGNED <- 1,
  B_SIGNED <- 2, P_WIDTH <- 9,
  design <- one, work <- two, hw <- three, edges <- four, run <- five

Slices == INSTANCE SlicePack WITH
  Designs <- MCSliced, Sites <- MCSites, PAIR_INPUTS <- 4, PAIR_SHARED <- 2,
  design <- one, phase <- two, at <- three, cells <- four, pairs <- five,
  sim <- six, o <- seven, cur <- eight

Die == INSTANCE SlicePlace WITH
  Designs <- MCDies, Db <- MCDie, SLOTS <- 2, WEIGHT <- 2,
  d <- one, g <- two, phase <- three, todo <- four, fixed <- five, s <- six

-----------------------------------------------------------------------------
Init ==
  \/ bench = "lutmap" /\ Luts!Init /\ seven = None /\ eight = None
  \/ bench = "m4k" /\ Blocks!Init /\ seven = None /\ eight = None
  \/ bench = "bram" /\ Rams!Init /\ six = None /\ seven = None /\ eight = None
  \/ bench = "placement" /\ Labs!Init /\ six = None /\ seven = None /\ eight = None
  \/ bench = "packing" /\ Packing!Init /\ seven = None /\ eight = None
  \/ bench = "les" /\ Packing!LeInit /\ seven = None /\ eight = None
  \/ bench = "clocks" /\ Clocks!PinInit /\ seven = None /\ eight = None
  \/ bench = "blocks" /\ Clocks!BlockInit /\ six = None /\ seven = None /\ eight = None
  \/ bench = "products" /\ Mults!MultInit /\ six = None /\ seven = None /\ eight = None
  \/ bench = "dsps" /\ Mults!DspInit /\ six = None /\ seven = None /\ eight = None
  \/ bench = "slices" /\ Slices!Init
  \/ bench = "die" /\ Die!Init /\ seven = None /\ eight = None

Next ==
  \/ bench = "lutmap" /\ Luts!Next /\ UNCHANGED Spare6
  \/ bench = "m4k" /\ Blocks!Next /\ UNCHANGED Spare6
  \/ bench = "bram" /\ Rams!Next /\ UNCHANGED Spare5
  \/ bench = "placement" /\ Labs!Next /\ UNCHANGED Spare5
  \/ bench = "packing" /\ Packing!Next /\ UNCHANGED Spare6
  \/ bench = "les" /\ Packing!LeNext /\ UNCHANGED Spare6
  \/ bench = "clocks" /\ Clocks!PinNext /\ UNCHANGED Spare6
  \/ bench = "blocks" /\ Clocks!BlockNext /\ UNCHANGED Spare5
  \/ bench = "products" /\ Mults!MultNext /\ UNCHANGED Spare5
  \/ bench = "dsps" /\ Mults!DspNext /\ UNCHANGED Spare5
  \/ bench = "slices" /\ Slices!Next /\ UNCHANGED Spare8
  \/ bench = "die" /\ Die!Next /\ UNCHANGED Spare6

Spec == Init /\ [][Next]_back

-----------------------------------------------------------------------------
\* The LUTs a module's logic is covered with, absorbed inverters and
\* constants included, compute what its gates compute, for every input
\* (lutmap.rs).
LutsSame == bench = "lutmap" => Luts!LutsSame

\* Recovering area never makes a path longer than the deepest the depth-
\* oriented pass left (lutmap.rs required, pass).
NeverDeeper == bench = "lutmap" => Luts!NeverDeeper

\* The passes that recover exact area never leave a cover of more LUTs
\* (lutmap.rs exact_pass).
AreaRecovered == bench = "lutmap" => Luts!AreaRecovered

\* Everything read through M4K blocks and the logic beside them, from any
\* synchronous port under any collision, enables and resets, is what the
\* memory says, at each clock edge (synth/m4k.rs).
M4kReadsSame == bench = "m4k" => Blocks!ReadsSame

\* Every word a read of the memory could return is kept in the blocks,
\* whatever ports wrote it in one edge (synth/m4k.rs).
M4kWordsKept == bench = "m4k" => Blocks!WordsKept

\* The same of block RAMs of the 7-series: port modes, enables split over
\* byte lanes, resets and bypasses (xc7 synth/bram.rs), but for the reset of a
\* read that sees its new data by logic, and a read held while its port writes
\* in one of several rows, which are what BramMap's Read says.
BramReadsSame == bench = "bram" => Rams!ReadsSame

\* Every word a read could return is kept in the block RAMs, whatever ports
\* wrote it in one edge (xc7 synth/bram.rs).
BramWordsKept == bench = "bram" => Rams!WordsKept

\* Every cluster fits a LAB, joins what shares a net, and splits no carry
\* chain (place.rs cluster_with, merge_clusters).
ClustersFit == bench = "placement" => Labs!ClustersFit

\* Whenever the placer is between moves every LAB meets its limits of LEs,
\* lines and packed registers; a move refused leaves everything where it
\* was (place.rs try_move, undo).
LabsLegal == bench = "placement" => Labs!LabsLegal

\* The boxes, the cost and the LAB tallies kept up to date by moves are
\* those computed from nothing (place.rs apply_cost, Bbox, lab_check).
CostsTrue == bench = "placement" => Labs!CostsTrue

\* A round of detailed placement, whose moves were scored apart and are
\* applied together, makes the placement no worse (place/detail.rs).
RoundGains == bench = "placement" => Labs!RoundGains

\* The packed netlist does what the given one does, at every clock edge and
\* for every input: folded constants and inverters, the load path, carry
\* polarity (pack/mod.rs, pack/mask.rs); but for a load path behind an inverter
\* pushed back, which loads the opposite.
FunctionKept == bench = "packing" => Packing!FunctionKept

\* Every LUT and register packed together can be one logic element: its
\* register's data comes from its LUT or over the load path (pack/mod.rs
\* pack_lut_ff).
Placeable == bench = "packing" => Packing!Placeable

\* A register that shares the LE of a LUT it does not belong to is fed by
\* input C or by nothing of the LUT's, and the LE has one of each (place.rs
\* pack_registers, merge_in_labs).
PackedOnC == bench = "les" => Packing!PackedOnC

\* A register shares with the nearest LUT that still had a place for it
\* (place.rs pack_registers).
NearestShare == bench = "les" => Packing!NearestShare

\* Registers moved in a placed LAB leave it the nets it reads, and cost no more
\* lines than those of LEs with two outputs read there (place.rs merge_in_labs).
LabsKeepSignals == bench = "les" => Packing!LabsKeepSignals

\* Every clock goes over a clock control, or over the dedicated wiring of a
\* PLL, and comes from the pin or PLL output it came from; each control
\* carries one (pack_clocks, place.rs fixed_cells, globals_for_pll_pins).
ClocksSound == bench = "clocks" => Clocks!ClocksSound

\* Pins, PLLs, external clock outputs and clock controls have sites of
\* their own, each wired to what feeds it where dedicated wiring is needed
\* (place.rs fixed_cells).
SitesSound == bench = "clocks" => Clocks!SitesSound

\* What a memory or multiplier block reads on its pins is what its cell
\* says: constants left off, tied or inverted, narrow operands, pins below
\* an address (pack_m4k, pack_mult).
PinsMean == bench = "blocks" => Clocks!PinsMean

\* Products mapped to embedded multipliers, limbs, partial sums and the
\* registers that moved into the blocks included, show what the given
\* netlist shows at every clock edge (cyclone2 synth/mult.rs), but for constants
\* among registers and registers only one of two blocks takes (AsRead).
MultsSame == bench = "products" => Mults!ProductsSame

\* The same of products mapped to DSP48E1s: cascades, the M and P registers
\* and synchronous resets included, with the same exceptions (xc7 synth/dsp.rs).
DspsSame == bench = "dsps" => Mults!DspProductsSame

\* The packed 7-series design shows on its pins what the given one does:
\* constants on pins, feed-throughs, paired LUTs, RAM32Ms, carry heads (xc7
\* pack.rs).
SlicesFunction == bench = "slices" => Slices!FunctionKept

\* What the 7-series placer is given can be slices: a place each, a LUT of
\* its own for every carry bit, one control set a slice, one way out for
\* the second LUT of a LUT6 (xc7 pack.rs pair_luts, place.rs build).
SlicesSound == bench = "slices" => Slices!SlicesSound

\* The placer's tables of what is where and its net costs, changed move by
\* move, say what the positions say, whatever was moved, swapped, refused
\* or undone (xc7 place.rs place, unplace, apply, undo).
TablesTrue == bench = "die" => Die!TablesTrue

\* The placement is one of the device: no two cells on one bel, whole tiles
\* for RAMB36E1s, chains up the carry wires, RAMs in SLICEMs, cascaded DSPs
\* one above the other (xc7 place.rs sites, moves_to, chain).
PlacementLegal == bench = "die" => Die!PlacementLegal

-----------------------------------------------------------------------------
\* Covering logic with LUTs keeps what it computes, its depth and what
\* recovering area saved.
LogicCovered ==
  /\ LutsSame
  /\ NeverDeeper
  /\ AreaRecovered

\* Memory blocks of both families are read and written as the memory was, the
\* two kinds of read named at BramReadsSame as stated there.
MemoriesMapped ==
  /\ M4kReadsSame
  /\ M4kWordsKept
  /\ BramReadsSame
  /\ BramWordsKept

\* Products in embedded multipliers and DSPs, with the registers that moved
\* in, show what they showed, with each operand as AsRead has it.
ProductsMapped ==
  /\ MultsSame
  /\ DspsSame

\* Packing keeps what the design does on every pin, a load path behind an
\* inverter pushed back excepted; what it packs together can be one logic
\* element or slice, and costs a LAB the lines it is said to.
PackedSame ==
  /\ FunctionKept
  /\ Placeable
  /\ PackedOnC
  /\ NearestShare
  /\ LabsKeepSignals
  /\ SlicesFunction
  /\ SlicesSound

\* Pins, clocks and PLLs sit where they are wired to, and block pins read
\* what their cells say.
PinsAndClocks ==
  /\ ClocksSound
  /\ SitesSound
  /\ PinsMean

\* A placement changed move by move stays legal, and its tables and costs
\* are those of where things are.
PlacedLegally ==
  /\ ClustersFit
  /\ LabsLegal
  /\ CostsTrue
  /\ RoundGains
  /\ TablesTrue
  /\ PlacementLegal

-----------------------------------------------------------------------------
PipelinesBench == INSTANCE Multipliers WITH
  Designs <- MCPipelines, MAX_WIDTH <- 2, EDGES <- 3,
  DspDesigns <- MCProducts, A_UNSIGNED <- 2, A_SIGNED <- 3, B_UNSIGNED <- 1,
  B_SIGNED <- 2, P_WIDTH <- 9,
  design <- one, work <- two, hw <- three, edges <- four, run <- five

PipelinesInit == bench = "products" /\ PipelinesBench!MultInit /\ six = None /\ seven = None /\ eight = None
PipelinesSpec == PipelinesInit /\ [][PipelinesBench!MultNext /\ UNCHANGED Spare5]_back

\* Of two products with a register between them each takes only registers
\* of its own (synth/mult.rs): the mapped netlist shows what the given one
\* does.
PipelinesSame == PipelinesBench!ProductsSame

-----------------------------------------------------------------------------
BetweenBench == INSTANCE M4kMap WITH
  Memories <- MCBetween, STEPS <- 3, BYTE <- 2, BLOCK <- 8,
  mem <- one, at <- two, ports <- three, plan <- four, rtl <- five, hw <- six

BetweenInit == bench = "m4k" /\ BetweenBench!Init /\ seven = None /\ eight = None
BetweenSpec == BetweenInit /\ [][BetweenBench!Next /\ UNCHANGED Spare6]_back

\* Byte writes merged into one port leave the words that the writes, by
\* their priority, would (synth/m4k.rs byte_writes).
MergedWordsKept == BetweenBench!WordsKept

=============================================================================
