------------------------------- MODULE Gates --------------------------------
(***************************************************************************)
(* Word cells made gates, constant tables, gates merged and simplified,    *)
(* and modules joined into one.                                            *)
(***************************************************************************)
EXTENDS Integers, Sequences, FiniteSets, Words

-----------------------------------------------------------------------------
(***************************************************************************)
(* Word-level cells to gates (crates/chipsmith-synth/src/techmap.rs): each *)
(* cell's decomposition, evaluated on every input of a few bits against    *)
(* what the cell means.  An x bit, which only $shiftx makes, is 2.         *)
(***************************************************************************)

CONSTANTS None, Cells   \* [op, a, b, yw, sel]: a and b are [sig, signed]

VARIABLES cell, answer

techmap == <<cell, answer>>

TechInit == cell \in Cells /\ answer = None

-----------------------------------------------------------------------------
Pad(bit) == Extend(<<bit>>, cell.yw, FALSE)
Wide(operand, w) == Extend(operand.sig, w, operand.signed)
BothSigned == cell.a.signed /\ cell.b.signed
WidestOperand == Wider(Len(cell.a.sig), Len(cell.b.sig))
CompareTo(operand) == [sig |-> operand.sig, signed |-> BothSigned]

NotEqual ==
  LET l == Extend(cell.a.sig, WidestOperand, BothSigned)
      r == Extend(cell.b.sig, WidestOperand, BothSigned)
  IN  AnyOf([i \in DOMAIN l |-> Parity(l[i], r[i])])

Lt ==
  LessOf(Alu(CompareTo(cell.a), CompareTo(cell.b), WidestOperand, 1, 1), WidestOperand, BothSigned, 1)
Eq == AllOf(Alu(CompareTo(cell.a), CompareTo(cell.b), WidestOperand, 1, 1).x)
Compare ==
  CASE cell.op = "lt" -> Lt [] cell.op = "le" -> Wider(Lt, Eq)
    [] cell.op = "gt" -> Flip(Wider(Lt, Eq)) [] cell.op = "ge" -> Flip(Lt)

Add(sub) == Alu(cell.a, cell.b, cell.yw, sub, sub).y

\* Partial products, one row a bit of B.
Mul ==
  LET w == cell.yw
      a == Wide(cell.a, w)
      b == Wide(cell.b, w)
      Row(i) == [k \in 1 .. w |-> IF k < i THEN 0 ELSE a[k - i + 1] * b[i]]
      acc[i \in 0 .. w] == IF i = 0 THEN Word(0, w) ELSE Ripple(acc[i - 1], Row(i), 0).y
  IN  acc[w]

Clog2(n) == CHOOSE k \in 0 .. n : 2^k >= n /\ (k = 0 \/ 2^(k - 1) < n)

\* Each stage moves by its amount where its bit of B is set.
Stages(buf, bits, Moved(_, _, _)) ==
  LET stage[i \in 0 .. Len(bits)] ==
        IF i = 0 THEN buf
        ELSE CHOOSE next \in {IF bits[i] = 1 THEN [k \in DOMAIN buf |-> Moved(was, k, 2^(i - 1))] ELSE was :
                              was \in {stage[i - 1]}} : TRUE
  IN  stage[Len(bits)]

\* How far a shift moves anything.
Reach(left) ==
  IF left THEN cell.yw ELSE IF cell.a.signed THEN Wider(Len(cell.a.sig), cell.yw) ELSE Len(cell.a.sig)

\* $shl, $shr, $sshl and $sshr: a barrel shifter.
Barrel ==
  LET left == cell.op \in {"shl", "sshl"}
      arith == cell.a.signed /\ cell.op = "sshr"
      width == Wider(Len(cell.a.sig), cell.yw)
      b == cell.b.sig
      bb == Less(Clog2(Reach(left)) + 1, Len(b))
      a == Wide(cell.a, width)
      fill == IF arith THEN a[Len(cell.a.sig)] ELSE 0
      start == IF AnyOf(SubSeq(b, bb + 1, Len(b))) = 1 THEN [k \in 1 .. width |-> fill] ELSE a
      Moved(was, k, n) ==
        IF left THEN (IF k > n THEN was[k - n] ELSE 0)
        ELSE IF k + n <= width THEN was[k + n]
        ELSE IF arith THEN was[width] ELSE 0
  IN  SubSeq(Stages(start, SubSeq(b, 1, bb), Moved), 1, cell.yw)

\* $shift and $shiftx: a negative B shifts left.
ShiftX ==
  LET aw == Len(cell.a.sig)
      b == cell.b.sig
      ext == IF cell.op = "shift" THEN 0 ELSE 2
      padding == IF cell.op = "shiftx" THEN ext
                 ELSE IF cell.a.signed THEN cell.a.sig[aw] ELSE 0
      bb == Less(Clog2(Wider(aw, cell.yw)) + (IF cell.b.signed THEN 2 ELSE 1), Len(b))
      amount == 2^(bb - 1)
      width == Wider(aw, cell.yw) + (IF cell.b.signed THEN amount ELSE 0)
      a == [k \in 1 .. width |->
              IF k <= aw THEN cell.a.sig[k] ELSE IF k <= cell.yw THEN padding ELSE ext]
      far == IF cell.b.signed THEN \E i \in bb + 1 .. Len(b) : b[i] # b[bb]
             ELSE \E i \in bb + 1 .. Len(b) : b[i] = 1
      near == IF far THEN [k \in 1 .. width |-> ext] ELSE a
      back == IF cell.b.signed /\ b[bb] = 1
                THEN [k \in 1 .. width |-> IF k > amount THEN near[k - amount] ELSE ext]
                ELSE near
      Moved(was, k, n) == IF k + n <= width THEN was[k + n] ELSE ext
  IN  IF bb = 0
        THEN [k \in 1 .. cell.yw |-> IF k <= aw THEN cell.a.sig[k] ELSE padding]
        ELSE SubSeq(Stages(back, SubSeq(b, 1, IF cell.b.signed THEN bb - 1 ELSE bb), Moved), 1, cell.yw)

-----------------------------------------------------------------------------
(* Multiplexers: sel picks among words laid end to end.                    *)

Chunk(i) == SubSeq(cell.a.sig, i * cell.yw + 1, (i + 1) * cell.yw)

\* Halved at each select bit, the lowest first ($bmux, and $lut of one bit).
Bmux ==
  LET halves[n \in 0 .. Len(cell.sel)] ==
        IF n = 0 THEN [i \in 0 .. 2^Len(cell.sel) - 1 |-> Chunk(i)]
        ELSE [i \in 0 .. 2^(Len(cell.sel) - n) - 1 |-> halves[n - 1][2 * i + cell.sel[n]]]
  IN  halves[Len(cell.sel)][0]

\* One word a select, ORed, else A ($pmux).
Pmux ==
  IF AnyOf(cell.sel) = 0 THEN cell.b.sig
  ELSE [k \in 1 .. cell.yw |-> AnyOf([j \in DOMAIN cell.sel |-> Less(cell.sel[j], Chunk(j - 1)[k])])]

Demux ==
  LET w == Len(cell.a.sig)
      Here(i) == \A k \in DOMAIN cell.sel : cell.sel[k] = (i \div 2^(k - 1)) % 2
  IN  [k \in 1 .. w * 2^Len(cell.sel) |->
         IF Here((k - 1) \div w) THEN cell.a.sig[((k - 1) % w) + 1] ELSE 0]

Lower ==
  /\ answer = None
  /\ answer' = CASE cell.op = "ne" -> Pad(NotEqual)
            [] cell.op \in {"lt", "le", "gt", "ge"} -> Pad(Compare)
            [] cell.op = "add" -> Add(0) [] cell.op = "sub" -> Add(1)
            [] cell.op = "mul" -> Mul
            [] cell.op \in {"shl", "shr", "sshl", "sshr"} -> Barrel
            [] cell.op \in {"shift", "shiftx"} -> ShiftX
            [] cell.op = "bmux" -> Bmux [] cell.op = "pmux" -> Pmux [] cell.op = "demux" -> Demux
  /\ UNCHANGED cell

TechNext == Lower

TechSpec == TechInit /\ [][TechNext]_techmap

-----------------------------------------------------------------------------
TechIs(test) == Word(IF test THEN 1 ELSE 0, cell.yw)
A == Meaning(cell.a.sig, cell.a.signed)
B == Meaning(cell.b.sig, cell.b.signed)
L == Meaning(cell.a.sig, BothSigned)
R == Meaning(cell.b.sig, BothSigned)
\* A as wide as the shift sees it.
V == Wide(cell.a, Wider(Len(cell.a.sig), cell.yw))

\* What Verilog (and RTLIL) say the cell computes.
Computes ==
  CASE cell.op = "ne" -> TechIs(L # R)
    [] cell.op = "lt" -> TechIs(L < R) [] cell.op = "le" -> TechIs(L <= R)
    [] cell.op = "gt" -> TechIs(L > R) [] cell.op = "ge" -> TechIs(L >= R)
    [] cell.op = "add" -> Word(A + B, cell.yw)
    [] cell.op = "sub" -> Word(A - B, cell.yw)
    [] cell.op = "mul" -> Word(A * B, cell.yw)
    [] cell.op \in {"shl", "sshl"} -> Word(A * 2^Number(cell.b.sig), cell.yw)
    [] cell.op = "shr" -> Word(Number(V) \div 2^Number(cell.b.sig), cell.yw)
    [] cell.op = "sshr" -> Word(Meaning(V, cell.a.signed) \div 2^Number(cell.b.sig), cell.yw)
    [] cell.op \in {"shift", "shiftx"} ->
         [k \in 1 .. cell.yw |->
            IF k + B >= 1 /\ k + B <= Len(cell.a.sig) THEN cell.a.sig[k + B]
            ELSE IF cell.op = "shiftx" THEN 2
            ELSE IF k + B > Len(cell.a.sig) /\ k + B <= cell.yw /\ cell.a.signed
                   THEN cell.a.sig[Len(cell.a.sig)] ELSE 0]
    [] cell.op = "bmux" -> Chunk(Number(cell.sel))
    [] cell.op = "demux" ->
         [k \in 1 .. Len(cell.a.sig) * 2^Len(cell.sel) |->
            IF (k - 1) \div Len(cell.a.sig) = Number(cell.sel)
              THEN cell.a.sig[((k - 1) % Len(cell.a.sig)) + 1] ELSE 0]
    [] cell.op = "pmux" ->
         IF Number(cell.sel) = 0 THEN cell.b.sig
         ELSE Chunk((CHOOSE j \in DOMAIN cell.sel : cell.sel[j] = 1) - 1)

\* The gates of every cell compute the cell: shifts by more than the word,
\* mixed signs and the smallest negative number included ($pmux with one
\* select set or none; more is undefined).
GatesCompute ==
  (answer # None /\ ~(cell.op = "pmux" /\ \E i, j \in DOMAIN cell.sel : i # j /\ cell.sel[i] = 1 /\ cell.sel[j] = 1))
    => answer = Computes

-----------------------------------------------------------------------------
(***************************************************************************)
(* A case that is a constant table, as look-up tables                      *)
(* (crates/chipsmith-synth/src/rom.rs): cofactors over the few key bits    *)
(* that leave the fewest, shared, under multiplexers of four in two LUTs.  *)
(* A key bit is named by its place; a key's value is the number they make. *)
(***************************************************************************)

CONSTANTS
  Cases,    \* [default, cases: a sequence of [key, eq, word]]: a key is a
            \* sequence of bits, constants 0 and 1, and nets from 2
  LowBits,  \* the inputs of a cofactor's LUT
  MIN_KEY, MAX_KEY

VARIABLES case, table, order, out

romtable == <<case, table, order, out>>

RomInit == case \in Cases /\ table = None /\ order = None /\ out = None

-----------------------------------------------------------------------------
(* The table (table).                                                      *)

Vars(key) == SelectSeq(key, LAMBDA bit : bit \notin {0, 1})
Key == Vars(case.cases[1].key)
\* A key bit that is constant agrees with the case's, or it never matches.
Matches(c) == \A i \in DOMAIN c.key : c.key[i] \in {0, 1} => c.key[i] = c.eq[i]
ValueOf(c) ==
  LET at == SelectSeq([i \in DOMAIN c.key |-> i], LAMBDA i : c.key[i] \notin {0, 1})
  IN  Number([j \in DOMAIN at |-> c.eq[at[j]]])

\* One key, and no value twice.
IsTable ==
  /\ \A i \in DOMAIN case.cases : Vars(case.cases[i].key) = Key
  /\ \A i, j \in DOMAIN case.cases :
       Matches(case.cases[i]) /\ Matches(case.cases[j]) /\ ValueOf(case.cases[i]) = ValueOf(case.cases[j]) => i = j
  /\ Len(Key) \in MIN_KEY .. MAX_KEY

Recognise ==
  /\ table = None /\ IsTable
  /\ table' = [v \in 0 .. 2^Len(Key) - 1 |->
       LET here == {i \in DOMAIN case.cases : Matches(case.cases[i]) /\ ValueOf(case.cases[i]) = v}
       IN  IF here = {} THEN case.default
           ELSE case.cases[CHOOSE i \in here : \A j \in here : j <= i].word]
  /\ UNCHANGED <<case, order, out>>

-----------------------------------------------------------------------------
(* Cofactors.                                                              *)

\* The key's value where these of its bits read n.
Spread(s, n) ==
  LET sum[p \in 0 .. Len(s)] == IF p = 0 THEN 0 ELSE sum[p - 1] + ((n \div 2^(p - 1)) % 2) * 2^(s[p] - 1)
  IN  sum[Len(s)]
Cofactor(j, lows, highs, h) == [l \in 0 .. 2^LowBits - 1 |-> table[Spread(lows, l) + Spread(highs, h)][j]]
Input(p) == [l \in 0 .. 2^LowBits - 1 |-> (l \div 2^(p - 1)) % 2]
\* A constant, or one of the inputs: no LUT.
Trivial(f) == (\A l \in DOMAIN f : f[l] = f[0]) \/ \E p \in 1 .. LowBits : f = Input(p)

Ascending(S) == CHOOSE s \in [1 .. Cardinality(S) -> S] : \A i, j \in DOMAIN s : i < j => s[i] < s[j]
Lut(lows) ==
  LET highs == Ascending(DOMAIN Key \ lows)
  IN  {f \in {Cofactor(j, Ascending(lows), highs, h) :
                j \in DOMAIN case.default, h \in 0 .. 2^Len(highs) - 1} : ~Trivial(f)}
Lowest(lows) == Spread(Ascending(lows), 2^LowBits - 1)

\* The bits that leave the fewest cofactors, the first such choice
\* (cofactor_order).
Order ==
  /\ table # None /\ order = None
  /\ LET choices == {S \in SUBSET DOMAIN Key : Cardinality(S) = LowBits}
         Better(S, T) == Cardinality(Lut(S)) < Cardinality(Lut(T))
                         \/ (Cardinality(Lut(S)) = Cardinality(Lut(T)) /\ Lowest(S) <= Lowest(T))
         best == CHOOSE S \in choices : \A T \in choices : Better(S, T)
     IN  order' = [lows |-> Ascending(best), highs |-> Ascending(DOMAIN Key \ best)]
  /\ UNCHANGED <<case, table, out>>

-----------------------------------------------------------------------------
(* The tree, at one value of the key.                                      *)

\* A multiplexer of four in two LUTs of four inputs: the first chooses of the
\* low two, or passes the low select on for the second.
Four(d, s0, s1) ==
  LET first == IF s1 = 1 THEN s0 ELSE IF s0 = 1 THEN d[1] ELSE d[0]
  IN  IF s1 = 1 THEN (IF first = 1 THEN d[3] ELSE d[2]) ELSE first

RECURSIVE Choose(_, _)
Choose(sel, data) ==
  CASE sel = <<>> -> data[0]
    [] Len(sel) = 1 -> IF sel[1] = 1 THEN data[1] ELSE data[0]
    [] OTHER ->
         Choose(SubSeq(sel, 3, Len(sel)),
                [i \in 0 .. 2^(Len(sel) - 2) - 1 |-> Four([k \in 0 .. 3 |-> data[4 * i + k]], sel[1], sel[2])])

BitOf(v, k) == (v \div 2^(k - 1)) % 2
Output(v, j) ==
  LET low == Number([p \in DOMAIN order.lows |-> BitOf(v, order.lows[p])])
      sel == [p \in DOMAIN order.highs |-> BitOf(v, order.highs[p])]
  IN  Choose(sel, [h \in 0 .. 2^Len(sel) - 1 |-> Cofactor(j, order.lows, order.highs, h)[low]])

Build ==
  /\ order # None /\ out = None
  /\ out' = [v \in DOMAIN table |-> [j \in DOMAIN case.default |-> Output(v, j)]]
  /\ UNCHANGED <<case, table, order>>

RomNext == Recognise \/ Order \/ Build

RomSpec == RomInit /\ [][RomNext]_romtable

-----------------------------------------------------------------------------
\* What the selects choose, one at a time on.
Chosen(v) ==
  LET on == {i \in DOMAIN case.cases : Matches(case.cases[i]) /\ ValueOf(case.cases[i]) = v}
  IN  IF on = {} THEN {case.default} ELSE {case.cases[i].word : i \in on}

\* The look-up tables give, at every value of the key, the word the case
\* chooses there, whichever key bits went into the cofactors.
TableSame == out # None => \A v \in DOMAIN out : Chosen(v) = {out[v]}

-----------------------------------------------------------------------------
(***************************************************************************)
(* Simplifying and merging gates in one sweep                              *)
(* (crates/chipsmith-synth/src/opt/gates.rs): a gate's inputs are final    *)
(* when it is visited.  Bits are constants 0 and 1 and nets from 2; gate i *)
(* of a design, in topological order, drives net First + i.                *)
(***************************************************************************)

CONSTANTS
  Designs,   \* sequences of [op, in: bits]
  First      \* the inputs are the nets from 2 to First

VARIABLES design, upto, subst, inv, seen, kept

\* subst: what a net is now; inv: what a net is the inverse of; seen: the
\* gates a later one can be; kept: the gates left, by the net they drive.
gateopt == <<design, upto, subst, inv, seen, kept>>

GateInit ==
  /\ design \in Designs /\ upto = 1
  /\ subst = [n \in {} |-> 0] /\ inv = [n \in {} |-> 0]
  /\ seen = {} /\ kept = [n \in {} |-> 0]

-----------------------------------------------------------------------------
(* What a gate simplifies to (simplify).                                   *)

Is(bit) == [is |-> "is", bit |-> bit, op |-> "", in |-> <<>>]
Not(bit) == [is |-> "not", bit |-> bit, op |-> "", in |-> <<>>]
Stays(op, in) == [is |-> "gate", bit |-> 0, op |-> op, in |-> in]

Sorted(a, b) == IF a <= b THEN <<a, b>> ELSE <<b, a>>
Const(bit) == bit \in {0, 1}
Inverses(a, b) == (a \in DOMAIN inv /\ inv[a] = b) \/ (b \in DOMAIN inv /\ inv[b] = a)
Inverted(r) == CASE r.is = "is" -> Not(r.bit) [] r.is = "not" -> Is(r.bit) [] OTHER -> r

AndOr(op, a, b) ==
  LET absorbing == IF op = "and" THEN 0 ELSE 1
      neutral == 1 - absorbing
  IN  CASE a = absorbing \/ b = absorbing \/ Inverses(a, b) -> Is(absorbing)
        [] a = neutral -> Is(b)
        [] b = neutral \/ a = b -> Is(a)
        [] OTHER -> Stays(op, Sorted(a, b))

\* NAND and NOR: the base's inverse, or themselves on its inputs.
NandNor(op, a, b) ==
  LET r == AndOr(IF op = "nand" THEN "and" ELSE "or", a, b)
  IN  IF r.is = "gate" THEN Stays(op, r.in) ELSE Inverted(r)

\* A & ~B and A | ~B, where B's inverse is known.
AndOrNot(op, a, b) ==
  LET base == IF op = "andnot" THEN "and" ELSE "or"
  IN  CASE Const(b) -> AndOr(base, a, 1 - b)
        [] b \in DOMAIN inv -> AndOr(base, a, inv[b])
        [] OTHER -> Stays(op, <<a, b>>)

XorXnor(op, a, b) ==
  LET Out(r) == IF op = "xnor" THEN Inverted(r) ELSE r
  IN  CASE Const(a) /\ Const(b) -> Out(Is(Parity(a, b)))
        [] a = 0 -> Out(Is(b)) [] b = 0 -> Out(Is(a))
        [] a = 1 -> Out(Not(b)) [] b = 1 -> Out(Not(a))
        [] a = b -> Out(Is(0))
        [] Inverses(a, b) -> Out(Is(1))
        [] OTHER -> Stays(op, Sorted(a, b))

\* A select that is an inverse: the inputs change places.
MuxOf(a, b, s) == IF s \in DOMAIN inv THEN Stays("mux", <<b, a, inv[s]>>) ELSE Stays("mux", <<a, b, s>>)

Mux(a, b, s) ==
  CASE s = 0 -> Is(a) [] s = 1 -> Is(b)
    [] a = b -> Is(a)
    [] a = 0 /\ b = 1 -> Is(s)
    [] a = 1 /\ b = 0 -> Not(s)
    [] a = 0 -> AndOr("and", s, b)
    [] b = 1 -> AndOr("or", s, a)
    [] s = a -> AndOr("and", s, b)
    [] s = b -> AndOr("or", s, a)
    [] OTHER -> MuxOf(a, b, s)

Simplify(op, in) ==
  CASE op = "buf" -> Is(in[1])
    [] op = "not" -> (CASE Const(in[1]) -> Is(1 - in[1])
                        [] in[1] \in DOMAIN inv -> Is(inv[in[1]])
                        [] OTHER -> Stays("not", in))
    [] op \in {"and", "or"} -> AndOr(op, in[1], in[2])
    [] op \in {"nand", "nor"} -> NandNor(op, in[1], in[2])
    [] op \in {"andnot", "ornot"} -> AndOrNot(op, in[1], in[2])
    [] op \in {"xor", "xnor"} -> XorXnor(op, in[1], in[2])
    [] op = "mux" -> Mux(in[1], in[2], in[3])

-----------------------------------------------------------------------------
With(f, x, y) == [z \in DOMAIN f \cup {x} |-> IF z = x THEN y ELSE f[z]]

\* What a bit ends up as, following chains of replacements (Subst::resolve).
Resolve(bit) ==
  LET chain[n \in 0 .. Cardinality(DOMAIN subst)] ==
        IF n = 0 THEN bit ELSE IF chain[n - 1] \in DOMAIN subst THEN subst[chain[n - 1]] ELSE chain[n - 1]
  IN  chain[Cardinality(DOMAIN subst)]

Y == First + upto
Op == design[upto].op
In == [i \in DOMAIN design[upto].in |-> Resolve(design[upto].in[i])]
Same(op, in) == {g \in seen : g.op = op /\ g.in = in}

Replace(bit) ==
  /\ subst' = With(subst, Y, bit)
  /\ UNCHANGED <<inv, seen, kept>>
Keep(op, in) ==
  /\ kept' = With(kept, Y, [op |-> op, in |-> in])
  /\ seen' = seen \cup {[op |-> op, in |-> in, y |-> Y]}
  /\ inv' = IF op = "not" THEN With(inv, Y, in[1]) ELSE inv
  /\ UNCHANGED subst

\* An inverter of a signal, or what already is one.
Invert(bit) ==
  IF Same("not", <<bit>>) # {} THEN Replace((CHOOSE g \in Same("not", <<bit>>) : TRUE).y)
  ELSE IF bit \in DOMAIN inv THEN Replace(inv[bit])
  ELSE IF Const(bit) THEN Replace(1 - bit)
  ELSE Keep("not", <<bit>>)

Visit ==
  /\ upto <= Len(design)
  /\ LET r == Simplify(Op, In)
     IN  CASE r.is = "is" -> Replace(r.bit)
           [] r.is = "not" -> Invert(r.bit)
           [] OTHER -> IF Same(r.op, r.in) # {} THEN Replace((CHOOSE g \in Same(r.op, r.in) : TRUE).y)
                       ELSE Keep(r.op, r.in)
  /\ upto' = upto + 1 /\ UNCHANGED design

GateNext == Visit

GateSpec == GateInit /\ [][GateNext]_gateopt

-----------------------------------------------------------------------------
Gate(op, in) ==
  CASE op = "buf" -> in[1] [] op = "not" -> Flip(in[1])
    [] op = "and" -> Less(in[1], in[2]) [] op = "or" -> Wider(in[1], in[2])
    [] op = "nand" -> Flip(Less(in[1], in[2])) [] op = "nor" -> Flip(Wider(in[1], in[2]))
    [] op = "andnot" -> Less(in[1], Flip(in[2])) [] op = "ornot" -> Wider(in[1], Flip(in[2]))
    [] op = "xor" -> Parity(in[1], in[2]) [] op = "xnor" -> Flip(Parity(in[1], in[2]))
    [] op = "mux" -> IF in[3] = 1 THEN in[2] ELSE in[1]

Visited == First + 1 .. First + upto - 1
\* Every net's value, the gates in order.
Values(env, Driver(_)) ==
  LET value[n \in 0 .. First + upto - 1] ==
        CASE n <= 1 -> n [] n <= First -> env[n]
          [] OTHER -> LET g == Driver(n) IN Gate(g.op, [i \in DOMAIN g.in |-> value[g.in[i]]])
  IN  value
Written(n) == design[n - First]
Left(n) == IF n \in DOMAIN kept THEN kept[n] ELSE [op |-> "buf", in |-> <<Resolve(n)>>]

\* Every gate's output is what it was, whatever the inputs are: read through
\* the replacements and the gates left.
GatesSame ==
  \A env \in [2 .. First -> {0, 1}] :
    LET was == Values(env, Written)
        now == Values(env, Left)
    IN  \A n \in Visited : now[n] = was[n]

\* No two gates left compute the same thing the same way, and every gate left
\* reads only nets that are still driven.
NoTwins ==
  /\ \A m, n \in DOMAIN kept : m # n /\ kept[m].op = kept[n].op =>
       kept[m].in # kept[n].in /\ (kept[m].op \in {"and", "or", "nand", "nor", "xor", "xnor"} =>
                                     kept[m].in # <<kept[n].in[2], kept[n].in[1]>>)
  /\ \A n \in DOMAIN kept : \A i \in DOMAIN kept[n].in :
       LET bit == kept[n].in[i] IN bit <= First \/ bit \in DOMAIN kept

-----------------------------------------------------------------------------
(***************************************************************************)
(* Inlining instances (crates/chipsmith-synth/src/flatten.rs): a port's    *)
(* nets become the connected ones, and nets the submodule joins are joined *)
(* in the parent, through a union-find.  Constants are 0 and 1, the        *)
(* parent's nets from 2 up; a submodule's own nets are made as they come.  *)
(***************************************************************************)

CONSTANTS
  Nets,       \* the parent's
  Instances   \* sequences of instances, each its port bits in order:
              \* [inner: a net's name or a constant, out, outer: a bit or None]

VARIABLES instances, port, map, parent, konst

\* port: <<instance, bit>> next; map: the instance's nets in the parent.
flatten == <<instances, port, map, parent, konst>>

Empty == [n \in {} |-> 0]
IsConst(bit) == bit \in {0, 1}

FlatInit ==
  /\ instances \in Instances /\ port = <<1, 1>>
  /\ map = [i \in DOMAIN instances |-> Empty]
  /\ parent = [n \in Nets |-> n] /\ konst = [n \in Nets |-> None]

-----------------------------------------------------------------------------
(* The union-find (Joins).                                                 *)

\* The root of a net, and the parents with every other step of the way to it
\* halved.
Path(n) ==
  LET way[i \in 0 .. Cardinality(Nets)] == IF i = 0 THEN n ELSE parent[way[i - 1]]
  IN  way
Find(n) == Path(n)[Cardinality(Nets)]
Halved(n) ==
  LET halves == {Path(n)[2 * i] : i \in 0 .. Cardinality(Nets) \div 2}
  IN  [m \in Nets |-> IF m \in halves THEN parent[parent[m]] ELSE parent[m]]

\* A root joined to another gives it its constant.
KonstMoved(x, y) == IF konst[x] # None THEN [konst EXCEPT ![y] = konst[x]] ELSE konst

JoinNets(a, b) ==
  LET x == Find(a)
      y == Find(b)
      halved == [m \in Nets |-> IF Halved(a)[m] # parent[m] THEN Halved(a)[m] ELSE Halved(b)[m]]
  IN  IF x = y THEN parent' = halved /\ UNCHANGED konst
      ELSE /\ parent' = [halved EXCEPT ![x] = y]
           /\ konst' = KonstMoved(x, y)
JoinConst(n, k) ==
  /\ parent' = Halved(n)
  /\ konst' = [konst EXCEPT ![Find(n)] = k]
Join(a, b) ==
  CASE ~IsConst(a) /\ ~IsConst(b) -> JoinNets(a, b)
    [] ~IsConst(a) /\ IsConst(b) -> JoinConst(a, b)
    [] IsConst(a) /\ ~IsConst(b) -> JoinConst(b, a)
    [] OTHER -> UNCHANGED <<parent, konst>>

-----------------------------------------------------------------------------
Bits == instances[port[1]]
Bit == Bits[port[2]]
Mapped == map[port[1]]

\* The first port a net is on gives it its place; another joins the two.
Place ==
  /\ ~IsConst(Bit.inner) /\ Bit.inner \notin DOMAIN Mapped /\ Bit.outer # None
  /\ map' = [map EXCEPT ![port[1]] =
               [n \in DOMAIN Mapped \cup {Bit.inner} |-> IF n = Bit.inner THEN Bit.outer ELSE Mapped[n]]]
  /\ UNCHANGED <<parent, konst>>
JoinTwo ==
  /\ ~IsConst(Bit.inner) /\ Bit.inner \in DOMAIN Mapped /\ Bit.outer # None
  /\ Join(Mapped[Bit.inner], Bit.outer)
  /\ UNCHANGED map
\* An output tied to a constant inside.
Tie ==
  /\ IsConst(Bit.inner) /\ Bit.outer # None /\ Bit.out
  /\ Join(Bit.outer, Bit.inner)
  /\ UNCHANGED map
Pass ==
  /\ Bit.outer = None \/ (IsConst(Bit.inner) /\ ~Bit.out)
  /\ UNCHANGED <<map, parent, konst>>

Done == port[1] > Len(instances)
PortBit ==
  /\ ~Done
  /\ Place \/ JoinTwo \/ Tie \/ Pass
  /\ port' = IF port[2] < Len(Bits) THEN <<port[1], port[2] + 1>> ELSE <<port[1] + 1, 1>>
  /\ UNCHANGED instances

FlatNext == PortBit

FlatSpec == FlatInit /\ [][FlatNext]_flatten

-----------------------------------------------------------------------------
\* What a bit of the parent is after apply.
Applied(bit) ==
  CASE IsConst(bit) -> bit
    [] konst[Find(bit)] # None -> konst[Find(bit)]
    [] OTHER -> Find(bit)

\* The connected port bits an instance has given so far.
Seen(i) == {k \in DOMAIN instances[i] :
              (i < port[1] \/ (i = port[1] /\ k < port[2])) /\ instances[i][k].outer # None}
\* What it wires together: the bits on one net of its, and an output and the
\* constant it is tied to.
Wired(i) ==
  LET bits == instances[i]
  IN  {<<bits[p[1]].outer, bits[p[2]].outer>> :
         p \in {p \in Seen(i) \X Seen(i) :
                 bits[p[1]].inner = bits[p[2]].inner /\ ~IsConst(bits[p[1]].inner)}}
      \cup {<<bits[k].outer, bits[k].inner>> : k \in {k \in Seen(i) : IsConst(bits[k].inner) /\ bits[k].out}}
Edges == UNION {Wired(i) : i \in DOMAIN instances}

\* The sets of bits nothing wires to a bit outside.
Closed ==
  LET edges == Edges
  IN  {S \in SUBSET (Nets \cup {0, 1}) : \A e \in edges : (e[1] \in S) = (e[2] \in S)}
Apart(m, n, closed) == \E S \in closed : (m \in S) # (n \in S)

\* At every port bit: nets are one exactly when the instances so far wire them
\* together, and constant exactly when wired to it (no module means both).
JoinedAsWired ==
  LET closed == Closed
  IN  Apart(0, 1, closed) =>
        \A m \in Nets, n \in Nets \cup {0, 1} : (Applied(m) = Applied(n)) = ~Apart(m, n, closed)
=============================================================================
