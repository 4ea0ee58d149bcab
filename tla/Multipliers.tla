---------------------------- MODULE Multipliers -----------------------------
(***************************************************************************)
(* Products onto embedded multipliers and DSPs, beside the netlist given.  *)
(***************************************************************************)
EXTENDS Integers, Sequences, FiniteSets, SequencesExt, FiniteSetsExt, TLC

-----------------------------------------------------------------------------
(***************************************************************************)
(* What the multiplier mappings of both families share (cyclone2           *)
(* synth/mult.rs, xc7 synth/dsp.rs): the operands of a product, the        *)
(* registers around it, and the netlists, given and mapped, at work.       *)
(*                                                                         *)
(* A bit is a net or "0" or "1".  Cells are                                *)
(*   mul    [a, b, as, bs, y]        a product, its operands signed or not *)
(*   ff     [d, q, clk, neg, en, how, rst, value, init]                    *)
(*   add    [a, b, y]                                                      *)
(*   block  [a, b, as, bs, stage, y, pcin, pcout]    a hard multiplier     *)
(* each with its name, and a des is [cells, inputs, clocks, outs, left],*)
(* its cells in an order in which each logic cell follows what it reads.   *)
(***************************************************************************)

CONSTANT None

Logic(b) == b \in {"0", "1"}
Nets(s) == {s[i] : i \in DOMAIN s} \ {"0", "1"}

-----------------------------------------------------------------------------
\* Operands (Factor): the bits that matter and whether they carry a sign.
RECURSIVE Unsigned(_), Signed(_)
Unsigned(s) == IF s # <<>> /\ s[Len(s)] = "0" THEN Unsigned(SubSeq(s, 1, Len(s) - 1)) ELSE s
Signed(s) == IF Len(s) > 1 /\ s[Len(s)] = s[Len(s) - 1] THEN Signed(SubSeq(s, 1, Len(s) - 1)) ELSE s
Factor(sig, signed, width) ==
  LET bits == SubSeq(sig, 1, IF Len(sig) < width THEN Len(sig) ELSE width)
      carries == signed /\ Len(sig) < width
  IN  [bits |-> IF carries THEN Signed(bits) ELSE Unsigned(bits), signed |-> carries]
is_constant(f) == \A i \in DOMAIN f.bits : Logic(f.bits[i])
Worth(f) == Len(f.bits) >= 2 /\ ~is_constant(f)

\* Partial products: shifted into place, and filled with the sign.
Part(dout, signed, shift, width) ==
  [k \in 1..width |-> IF k <= shift THEN "0"
                      ELSE IF k - shift <= Len(dout) THEN dout[k - shift]
                      ELSE IF signed THEN dout[Len(dout)] ELSE "0"]
Fresh(name, n) == [k \in 1..n |-> name \o "." \o ToString(k)]
Add(name, a, b, y) == [is |-> "add", name |-> name, a |-> a, b |-> b, y |-> y]

-----------------------------------------------------------------------------
\* Registers (Registers::index, Context).  Which registers a block has is
\* the family's, Takes.
PortsOf(c) ==
  CASE c.is = "ff" -> [d |-> c.d, en |-> IF c.en = None THEN <<>> ELSE <<c.en.sig>>,
                       rst |-> IF c.rst = None THEN <<>> ELSE <<c.rst.sig>>]
    [] OTHER -> [a |-> c.a, b |-> c.b]
\* Who reads a net: <<cell, bit>>, or <<0, 0>> for an output.
Users(des, n) ==
  {u \in UNION {UNION {{<<c, i>> : i \in {j \in DOMAIN PortsOf(des.cells[c])[p] :
                                            PortsOf(des.cells[c])[p][j] = n}} :
                       p \in DOMAIN PortsOf(des.cells[c])} : c \in DOMAIN des.cells} : TRUE}
  \cup (IF n \in des.outs THEN {<<0, 0>>} ELSE {})
Sig(x) == IF x = None THEN None ELSE x.sig
Zero(c) == \A i \in DOMAIN c.value : c.value[i] = "0"
Positive(c) == ~c.neg /\ (c.en # None => c.en.pos) /\ (c.rst # None => c.rst.pos)
RegBits(des, Takes(_)) ==
  UNION {LET c == des.cells[x]
         IN  {[cell |-> x, bit |-> i, q |-> c.q[i], d |-> c.d[i],
               controls |-> [clk |-> c.clk, en |-> Sig(c.en), rst |-> Sig(c.rst)]] :
                i \in {j \in DOMAIN c.q : ~Logic(c.q[j]) /\ c.init[j] # "1"}} :
         x \in {y \in DOMAIN des.cells : des.cells[y].is = "ff" /\ Takes(des.cells[y])}}

\* "Wrong on purpose": whoever else reads the registers.
OperandRegsOfAny(des, regs, cell, bits) ==
  LET R == {r \in regs : r.q \in Nets(bits)}
      C == {r.controls : r \in R}
  IN  IF Cardinality(C) = 1 /\ Cardinality(R) = Cardinality(Nets(bits))
      THEN [controls |-> CHOOSE c \in C : TRUE, regs |-> R] ELSE None
\* The registers behind an operand only this product reads, None if not all are.
OperandRegs(des, regs, cell, bits) ==
  LET R == {r \in regs : r.q \in Nets(bits)}
      C == {r.controls : r \in R}
  IN  IF /\ Cardinality(C) = 1 /\ Cardinality(R) = Cardinality(Nets(bits))
         /\ \A n \in Nets(bits) : \A u \in Users(des, n) : u[1] = cell
      THEN [controls |-> CHOOSE c \in C : TRUE, regs |-> R] ELSE None
\* The registers that take a word's bits, None if anything else reads one;
\* each with the bit it takes.
RegsAfter(des, regs, y) ==
  LET taking(k) == {r \in regs : r.d = y[k] /\ <<r.cell, r.bit>> \in Users(des, y[k])}
      all == UNION {{<<r, k>> : r \in taking(k)} : k \in {j \in DOMAIN y : ~Logic(y[j])}}
      C == {t[1].controls : t \in all}
  IN  IF /\ Cardinality(C) = 1
         /\ \A k \in DOMAIN y : ~Logic(y[k]) =>
              \A u \in Users(des, y[k]) : \E r \in taking(k) : u = <<r.cell, r.bit>>
      THEN [controls |-> CHOOSE c \in C : TRUE, regs |-> all] ELSE None
DataOf(bits, regs) ==
  [i \in DOMAIN bits |-> IF Logic(bits[i]) THEN bits[i] ELSE (CHOOSE r \in regs : r.q = bits[i]).d]
Bits(regs) == {<<r.cell, r.bit>> : r \in regs}

-----------------------------------------------------------------------------
(* What the blocks make of a product's operands where that is not what is  *)
(* written: a part is [limbs, regs, shift], of two limbs each with the     *)
(* registers behind it that its block takes.                               *)

\* A constant 1 beside bits of registers goes into the block's with them
\* (mult.rs:237-238): it is 0 from power-up or a clear to the next enabled edge.
OneOf(c, p, o) == c.name \o ".one" \o ToString(p.shift) \o ToString(o)
OneFlop(c, p, o, how) ==
  LET r == p.regs[o].controls
      on(n) == IF n = None THEN None ELSE [sig |-> n, pos |-> TRUE]
  IN  [is |-> "ff", name |-> OneOf(c, p, o), d |-> <<"1">>, q |-> <<OneOf(c, p, o)>>, clk |-> r.clk, neg |-> FALSE,
       en |-> on(r.en), how |-> IF r.rst = None THEN "plain" ELSE how, rst |-> on(r.rst), value |-> <<"0">>, init |-> <<"0">>]
\* A register that moved into one part's block is to the parts that did not take
\* theirs a net nothing drives (mult.rs:398-446).
TakenIn(parts) == UNION {{r.q : r \in parts[k].regs[o].regs} : <<k, o>> \in {x \in (DOMAIN parts) \X (1..2) : parts[x[1]].regs[x[2]] # None}}
LimbRead(c, parts, k, o) ==
  LET p == parts[k]
      read(b) == IF p.regs[o] # None THEN (IF b = "1" THEN OneOf(c, p, o) ELSE b)
                 ELSE IF b \in TakenIn(parts) THEN c.name \o ".lost" ELSE b
  IN  [i \in DOMAIN p.limbs[o].bits |-> read(p.limbs[o].bits[i])]
AsRead(c, parts, how) ==
  LET limb(k, o) == [bits |-> LimbRead(c, parts, k, o), signed |-> parts[k].limbs[o].signed]
      other == {x \in (DOMAIN parts) \X (1..2) : LimbRead(c, parts, x[1], x[2]) # parts[x[1]].limbs[x[2]].bits}
      ones == SetToSeq({OneFlop(c, parts[x[1]], x[2], how) : x \in {z \in other : parts[z[1]].regs[z[2]] # None}})
  IN  IF other = {} THEN <<c>>
      ELSE Append(ones, [is |-> "sum", name |-> c.name, y |-> c.y,
                         parts |-> [k \in DOMAIN parts |-> [a |-> limb(k, 1), b |-> limb(k, 2), shift |-> parts[k].shift]]])

\* What is left: registers without the bits that moved, nets renamed.
drop_bits(c, bits) ==
  LET keep == SelectSeq([i \in DOMAIN c.q |-> i], LAMBDA i : i \notin bits)
      of(s) == [i \in DOMAIN keep |-> s[keep[i]]]
  IN  [c EXCEPT !.q = of(c.q), !.d = of(c.d), !.value = of(c.value), !.init = of(c.init)]
Resolved(to) ==
  LET r[b \in STRING] == IF b \in DOMAIN to THEN r[to[b]] ELSE b IN r
Renamed(to, c) ==
  LET r == Resolved(to)
      of(s) == [i \in DOMAIN s |-> r[s[i]]]
      sig(x) == IF x = None THEN None ELSE [x EXCEPT !.sig = r[x.sig]]
  IN  CASE c.is = "ff" -> [c EXCEPT !.d = of(c.d), !.en = sig(c.en), !.rst = sig(c.rst)]
        [] c.is = "block" ->
             [c EXCEPT !.a = of(c.a), !.b = of(c.b),
                       !.stage = [s \in DOMAIN c.stage |->
                          IF c.stage[s] = None THEN None
                          ELSE [c.stage[s] EXCEPT !.en = IF @ = None THEN None ELSE r[@],
                                                  !.rst = IF @ = None THEN None ELSE r[@]]]]
        [] OTHER -> [c EXCEPT !.a = of(c.a), !.b = of(c.b)]

-----------------------------------------------------------------------------
\* A netlist at work.  `env` gives the nets' values; a net nothing drives
\* reads as `junk`.
BitOf(env, junk, b) ==
  CASE b = "0" -> 0 [] b = "1" -> 1 [] b \in DOMAIN env -> env[b] [] OTHER -> junk
ValueOf(env, junk, s, signed) ==
  SumSet({BitOf(env, junk, s[i]) * (2 ^ (i - 1)) : i \in DOMAIN s})
  - (IF signed THEN BitOf(env, junk, s[Len(s)]) * (2 ^ Len(s)) ELSE 0)
Word(nets, n) == [x \in Nets(nets) |-> (n \div (2 ^ ((CHOOSE i \in DOMAIN nets : nets[i] = x) - 1))) % 2]
Signs(c) == c.as /\ c.bs

\* A block's stages are A, B, M and P.
Staged(c, st, s, n) == IF c.stage[s] = None THEN n ELSE st[s]
ProductOf(c, st, env, junk, shift) ==
  LET a == Staged(c, st, 1, ValueOf(env, junk, c.a, c.as))
      b == Staged(c, st, 2, ValueOf(env, junk, c.b, c.bs))
  IN  Staged(c, st, 3, a * b) + (IF c.pcin = None THEN 0 ELSE env[c.pcin] \div (2 ^ shift))
Drives(c, st, env, junk, shift) ==
  CASE c.is = "ff" -> [x \in Nets(c.q) |-> st[CHOOSE i \in DOMAIN c.q : c.q[i] = x]]
    [] c.is = "mul" -> Word(c.y, ValueOf(env, junk, c.a, Signs(c)) * ValueOf(env, junk, c.b, Signs(c)))
    [] c.is = "sum" ->
         LET value(l) == ValueOf(env, junk, l.bits, l.signed)
             sum == FoldLeft(LAMBDA n, p : n + value(p.a) * value(p.b) * (2 ^ p.shift), 0, c.parts)
         IN  Word(c.y, sum)
    [] c.is = "add" -> Word(c.y, ValueOf(env, junk, c.a, FALSE) + ValueOf(env, junk, c.b, FALSE))
    [] c.is = "block" ->
         LET p == Staged(c, st, 4, ProductOf(c, st, env, junk, shift))
         IN  Word(c.y, p) @@ (IF c.pcout = None THEN <<>> ELSE c.pcout :> p)
Holds(c) == c.is = "ff" \/ (c.is = "block" /\ c.stage[4] # None)
Env(cells, st, ins, junk, shift) ==
  LET ids == [x \in DOMAIN cells |-> x]
      drive(e, x) == Drives(cells[x], st[x], e, junk, shift) @@ e
  IN  FoldLeft(drive, FoldLeft(drive, ins, SelectSeq(ids, LAMBDA x : Holds(cells[x]))),
               SelectSeq(ids, LAMBDA x : ~Holds(cells[x])))

PowerUp(cells) ==
  [x \in DOMAIN cells |->
     CASE cells[x].is = "ff" -> [i \in DOMAIN cells[x].q |-> IF cells[x].init[i] = "1" THEN 1 ELSE 0]
       [] cells[x].is = "block" -> <<0, 0, 0, 0>>
       [] OTHER -> <<>>]
On(env, junk, b, idle) == IF b = None THEN idle ELSE BitOf(env, junk, b) = 1
Active(env, junk, c, idle) == IF c = None THEN idle ELSE (BitOf(env, junk, c.sig) = 1) = c.pos
ValuesOf(c) == [i \in DOMAIN c.value |-> IF c.value[i] = "1" THEN 1 ELSE 0]
\* Asynchronous clears, which act at once.
Cleared(cells, st, env, junk, async) ==
  [x \in DOMAIN cells |->
     LET c == cells[x]
     IN  CASE c.is = "ff" /\ c.how = "async" /\ Active(env, junk, c.rst, FALSE) -> ValuesOf(c)
           [] c.is = "block" -> [s \in 1..4 |-> IF async /\ c.stage[s] # None /\ On(env, junk, c.stage[s].rst, FALSE)
                                               THEN 0 ELSE st[x][s]]
           [] OTHER -> st[x]]
NextFf(c, st, env, junk) ==
  LET en == Active(env, junk, c.en, TRUE)
      rst == Active(env, junk, c.rst, FALSE)
      d == [i \in DOMAIN c.d |-> BitOf(env, junk, c.d[i])]
  IN  CASE c.how = "enfirst" -> IF en THEN IF rst THEN ValuesOf(c) ELSE d ELSE st
        [] rst -> ValuesOf(c)
        [] OTHER -> IF en THEN d ELSE st
NextBlock(c, st, env, junk, shift, clk) ==
  LET a == ValueOf(env, junk, c.a, c.as)
      b == ValueOf(env, junk, c.b, c.bs)
      m == Staged(c, st, 1, a) * Staged(c, st, 2, b)
      next(s, n) == IF c.stage[s] = None \/ c.stage[s].clk # clk THEN st[s]
                    ELSE IF On(env, junk, c.stage[s].rst, FALSE) THEN 0
                    ELSE IF On(env, junk, c.stage[s].en, TRUE) THEN n ELSE st[s]
  IN  <<next(1, a), next(2, b), next(3, m), next(4, ProductOf(c, st, env, junk, shift))>>
Clocked(cells, st, env, junk, shift, clk, rises) ==
  [x \in DOMAIN cells |->
     LET c == cells[x]
     IN  CASE c.is = "ff" /\ c.clk = clk /\ c.neg # rises -> NextFf(c, st[x], env, junk)
           [] c.is = "block" /\ rises -> NextBlock(c, st[x], env, junk, shift, clk)
           [] OTHER -> st[x]]
Seen(des, to, env, junk) ==
  LET r == Resolved(to) IN [n \in des.outs |-> BitOf(env, junk, r[n])]

-----------------------------------------------------------------------------
(***************************************************************************)
(* Products onto the Cyclone II's embedded multipliers (synth/mult.rs):    *)
(* operands cut to what the result needs and split into limbs, a block for *)
(* each pair of limbs that reaches the result, the partial products summed *)
(* with those that do not overlap as one operand, and the registers around *)
(* a product moved into its blocks.  The mapped netlist then runs beside   *)
(* the one given, any clock at any time.                                   *)
(***************************************************************************)

CONSTANTS
  Designs,
  MAX_WIDTH,    \* operand bits of a block (18)
  EDGES         \* bound on the clock edges watched

VARIABLES
  design,
  work,         \* the product being mapped, what the earlier ones left, and the
                \* netlist given, its operands as the blocks read them
  hw,           \* the mapped netlist
  edges,
  run           \* the two at work: [rtl, hw, saw], and what was seen of each

mult == <<design, work, hw, edges, run>>

-----------------------------------------------------------------------------
Eligible(c) ==
  /\ Positive(c)
  /\ c.how = "plain" \/ (c.how = "async" /\ Zero(c))

limbs(f) ==
  LET n == (Len(f.bits) + MAX_WIDTH - 1) \div MAX_WIDTH
  IN  [i \in 1..n |-> [bits |-> SubSeq(f.bits, (i - 1) * MAX_WIDTH + 1, IF i = n THEN Len(f.bits) ELSE i * MAX_WIDTH),
                       signed |-> f.signed /\ i = n]]
Plan(c) ==
  LET width == Len(c.y)
      fa == Factor(c.a, Signs(c), width)
      fb == Factor(c.b, Signs(c), width)
  IN  IF Worth(fa) /\ Worth(fb) THEN [a |-> limbs(fa), b |-> limbs(fb), width |-> width] ELSE None
Shift(i, j) == (i + j - 2) * MAX_WIDTH
pairs(plan) == {p \in (DOMAIN plan.a) \X (DOMAIN plan.b) : Shift(p[1], p[2]) < plan.width}
InOrder(P) == SetToSortSeq(P, LAMBDA p, q : p[1] < q[1] \/ (p[1] = q[1] /\ p[2] < q[2]))

\* The wider limb is on operand A.
Limbs(plan, p) ==
  LET x == plan.a[p[1]]
      y == plan.b[p[2]]
  IN  IF Len(x.bits) < Len(y.bits) THEN <<y, x>> ELSE <<x, y>>

\* The operands' registers, the first's controls deciding for the block.
BlockRegs(regs, cell, x) ==
  LET ra == OperandRegs(design, regs, cell, x[1].bits)
      rb == OperandRegs(design, regs, cell, x[2].bits)
      b == IF ra # None /\ rb # None /\ rb.controls # ra.controls THEN None ELSE rb
  IN  [r |-> <<ra, b>>, controls |-> IF ra # None THEN ra.controls ELSE IF b # None THEN b.controls ELSE None]
BlockOf(name, x, rs, product) ==
  LET ctl(on) == IF on THEN (IF rs.controls # None THEN rs.controls ELSE product.controls) ELSE None
      bits(k) == IF rs.r[k] = None THEN x[k].bits ELSE DataOf(x[k].bits, rs.r[k].regs)
  IN  [is |-> "block", name |-> name, a |-> bits(1), b |-> bits(2), as |-> x[1].signed, bs |-> x[2].signed,
       stage |-> <<ctl(rs.r[1] # None), ctl(rs.r[2] # None), None, ctl(product # None)>>,
       y |-> Fresh(name, Len(x[1].bits) + Len(x[2].bits)), pcin |-> None, pcout |-> None]

\* A block's part of the product, and the bits it can set.
PartOf(plan, p, x, c) ==
  LET shift == Shift(p[1], p[2])
      signed == x[1].signed \/ x[2].signed
      end == shift + Len(c.y)
  IN  [sig |-> Part(c.y, signed, shift, plan.width), lo |-> shift,
       hi |-> IF signed \/ end > plan.width THEN plan.width ELSE end]

\* sum_parts: parts that do not overlap are one operand, then adders in pairs.
Apart(p, q) == p.hi <= q.lo \/ q.hi <= p.lo
Free(g, p) == \A i \in DOMAIN g : Apart(g[i], p)
Grouped(parts) ==
  LET place(groups, p) ==
        IF \E i \in DOMAIN groups : Free(groups[i], p)
        THEN [groups EXCEPT ![Min({i \in DOMAIN groups : Free(groups[i], p)})] = Append(@, p)]
        ELSE Append(groups, <<p>>)
  IN  FoldLeft(place, <<>>, parts)
Operand(group) ==
  [k \in DOMAIN group[1].sig |->
     LET own == {i \in 2..Len(group) : group[i].lo < k /\ k <= group[i].hi}
     IN  IF own = {} THEN group[1].sig[k] ELSE group[Min(own)].sig[k]]
RECURSIVE SumOf(_, _, _)
SumOf(name, level, adds) ==
  IF Len(level) = 1 THEN [sum |-> level[1], adds |-> adds]
  ELSE LET n == (Len(level) + 1) \div 2
           add(i) == Add(name, level[2 * i - 1], level[2 * i],
                         Fresh(name \o "+" \o ToString(Len(adds) + i), Len(level[1])))
           made == [i \in 1..(Len(level) \div 2) |-> add(i)]
       IN  SumOf(name, [i \in 1..n |-> IF i <= Len(made) THEN made[i].y ELSE level[Len(level)]], adds \o made)

-----------------------------------------------------------------------------
\* One product: its blocks and adders, the registers they take.
Muls == {x \in DOMAIN design.cells : design.cells[x].is = "mul"}
\* The blocks' limbs with the registers behind them.
Inputs(x, plan, order, regs) ==
  LET with(limbed) == [limbs |-> limbed, regs |-> BlockRegs(regs, x, limbed)]
  IN  [k \in DOMAIN order |-> with(Limbs(plan, order[k]))]
Moved(r) == IF r = None THEN {} ELSE Bits(r.regs)
MovedAfter(out) == IF out = None THEN {} ELSE Bits({t[1] : t \in out.regs})
\* What stands for the outputs of the register after a product.
Output(out, sum) ==
  IF out = None THEN <<>>
  ELSE [q \in {t[1].q : t \in out.regs} |-> sum[(CHOOSE t \in out.regs : t[1].q = q)[2]]]
BuildOf(c, plan, order, ins, after) ==
  LET rs == ins[1].regs
      product == IF Len(ins) = 1 /\ after # None /\ (rs.controls = None \/ rs.controls = after.controls)
                 THEN after ELSE None
      blocks == [k \in DOMAIN ins |-> BlockOf(c.name \o ToString(k), ins[k].limbs, ins[k].regs, product)]
      groups == Grouped([k \in DOMAIN order |-> PartOf(plan, order[k], ins[k].limbs, blocks[k])])
      total == SumOf(c.name, [g \in DOMAIN groups |-> Operand(groups[g])], <<>>)
      read == [k \in DOMAIN ins |-> [limbs |-> ins[k].limbs, regs |-> ins[k].regs.r, shift |-> Shift(order[k][1], order[k][2])]]
  IN  [cells |-> blocks \o total.adds, read |-> AsRead(c, read, "async"), y |-> total.sum, to |-> Output(product, total.sum),
       taken |-> UNION {Moved(ins[k].regs.r[o]) : k \in DOMAIN ins, o \in 1..2} \cup MovedAfter(product)]
BuildFrom(x, plan, order, regs) ==
  BuildOf(design.cells[x], plan, order, Inputs(x, plan, order, regs), RegsAfter(design, regs, design.cells[x].y))
Build(x, plan) == BuildFrom(x, plan, InOrder(pairs(plan)), RegBits(design, Eligible))

\* Products are taken in the netlist's order while there are blocks left.
MapProduct ==
  /\ work.next \in Muls
  /\ LET c == design.cells[work.next]
         plan == Plan(c)
     IN  IF plan # None /\ Cardinality(pairs(plan)) <= work.left
         THEN \E b \in {Build(work.next, plan)} :
                work' = [next |-> work.next + 1, left |-> work.left - Cardinality(pairs(plan)),
                         new |-> Append(work.new, b.cells), given |-> Append(work.given, b.read), taken |-> work.taken \cup b.taken,
                         to |-> work.to @@ b.to @@ [n \in Nets(c.y) |-> b.y[CHOOSE k \in DOMAIN c.y : c.y[k] = n]]]
         ELSE work' = [work EXCEPT !.next = @ + 1, !.new = Append(@, <<c>>), !.given = Append(@, <<c>>)]
  /\ UNCHANGED <<design, hw, edges, run>>
Skip ==
  /\ work.next \in DOMAIN design.cells \ Muls
  /\ work' = [work EXCEPT !.next = @ + 1, !.new = Append(@, <<design.cells[work.next]>>),
                          !.given = Append(@, <<design.cells[work.next]>>)]
  /\ UNCHANGED <<design, hw, edges, run>>

\* The registers that moved are dropped and the nets renamed.
Finish ==
  /\ work.next = Len(design.cells) + 1 /\ hw = None
  /\ LET left(x) == IF design.cells[x].is = "ff"
                    THEN <<drop_bits(design.cells[x], {t[2] : t \in {u \in work.taken : u[1] = x}})>> ELSE work.new[x]
         cells == FlattenSeq([x \in DOMAIN design.cells |-> left(x)])
     IN  \E h \in {[x \in DOMAIN cells |-> Renamed(work.to, cells[x])]} :
           hw' = h /\ run' = [rtl |-> PowerUp(FlattenSeq(work.given)), hw |-> PowerUp(h), saw |-> None, did |-> None]
  /\ UNCHANGED <<design, work, edges>>

\* The inputs settle, asynchronous clears act, and a clock may tick.
Step ==
  /\ hw # None /\ edges < EDGES /\ edges' = edges + 1
  /\ \E high \in SUBSET design.inputs, t \in design.clocks \X BOOLEAN, junk \in {0, 1} :
       LET ins == [i \in design.inputs |-> IF i \in high THEN 1 ELSE 0]
           given == FlattenSeq(work.given)
           r == Cleared(given, run.rtl, ins, junk, TRUE)
           h == Cleared(hw, run.hw, ins, junk, TRUE)
       IN  \E e \in {[rtl |-> Env(given, r, ins, junk, MAX_WIDTH), hw |-> Env(hw, h, ins, junk, MAX_WIDTH)]} :
             run' = [rtl |-> Clocked(given, r, e.rtl, junk, MAX_WIDTH, t[1], t[2]),
                     hw |-> Clocked(hw, h, e.hw, junk, MAX_WIDTH, t[1], t[2]),
                     saw |-> Seen(design, <<>>, e.rtl, junk), did |-> Seen(design, work.to, e.hw, junk)]
  /\ UNCHANGED <<design, work, hw>>

MultInit ==
  /\ design \in Designs /\ hw = None /\ edges = 0
  /\ work = [next |-> 1, left |-> design.left, new |-> <<>>, given |-> <<>>, taken |-> {}, to |-> <<>>]
  /\ run = [rtl |-> <<>>, hw |-> <<>>, saw |-> None, did |-> None]

MultNext == MapProduct \/ Skip \/ Finish \/ Step

MultSpec == MultInit /\ [][MultNext]_mult

-----------------------------------------------------------------------------
\* The mapped netlist shows on its outputs what the given one does, whatever
\* the inputs, clocks, enables and clears do: limbs, signs and the registers
\* that moved into blocks change nothing, but for the two things AsRead makes of
\* an operand.  A constant 1 in a limb whose other bits are registers starts as a
\* 0, and is one again after a clear; a register that one block of a product
\* took is nothing to another that had to leave its own, for it has the controls
\* of its other limb.
ProductsSame == run.saw = run.did

-----------------------------------------------------------------------------
(***************************************************************************)
(* Products onto the 7-series' DSP48E1s (xc7 synth/dsp.rs): limbs as wide  *)
(* as the ports A and B take, unsigned or carrying the sign; two DSPs a    *)
(* limb apart cascade, the upper adding the lower's product shifted down;  *)
(* operands' registers go in with the product's, and one after it makes    *)
(* that one the M register.  Each stage keeps an enable and a reset of its *)
(* own on one clock.  The mapped netlist runs beside the one given.        *)
(***************************************************************************)

CONSTANTS
  DspDesigns,
  A_UNSIGNED, A_SIGNED, B_UNSIGNED, B_SIGNED,   \* a limb's bits (24, 25, 17, 18)
  P_WIDTH                                      \* bits of P (48)


dsp == <<design, work, hw, edges, run>>

-----------------------------------------------------------------------------
\* An enable over the reset is not the DSP's.
DspEligible(c) == Positive(c) /\ (c.how = "plain" \/ (c.how = "sync" /\ Zero(c)))

\* Unsigned dspLimbs until what is left fits, with the sign if there is one.
dspLimbs(f, unsigned, signed) ==
  LET fits == IF f.signed THEN signed ELSE unsigned
      n == IF Len(f.bits) <= fits THEN 1 ELSE 1 + ((Len(f.bits) - fits + unsigned - 1) \div unsigned)
  IN  [i \in 1..n |-> [bits |-> SubSeq(f.bits, (i - 1) * unsigned + 1, IF i = n THEN Len(f.bits) ELSE i * unsigned),
                       signed |-> f.signed /\ i = n]]
DspShift(i, j) == (i - 1) * A_UNSIGNED + (j - 1) * B_UNSIGNED
dspPairs(plan) == {p \in (DOMAIN plan.a) \X (DOMAIN plan.b) : DspShift(p[1], p[2]) < plan.width}
PlanOf(a, b, width) ==
  [a |-> dspLimbs(a, A_UNSIGNED, A_SIGNED), b |-> dspLimbs(b, B_UNSIGNED, B_SIGNED), width |-> width]

\* The wider operand goes on A, unless the narrower there takes fewer DSPs.
DspPlan(c) ==
  LET width == Len(c.y)
      fa == Factor(c.a, Signs(c), width)
      fb == Factor(c.b, Signs(c), width)
      wide == IF Len(fa.bits) < Len(fb.bits) THEN PlanOf(fb, fa, width) ELSE PlanOf(fa, fb, width)
      narrow == IF Len(fa.bits) < Len(fb.bits) THEN PlanOf(fa, fb, width) ELSE PlanOf(fb, fa, width)
  IN  IF ~(Worth(fa) /\ Worth(fb)) THEN None
      ELSE IF Cardinality(dspPairs(narrow)) < Cardinality(dspPairs(wide)) THEN narrow ELSE wide

-----------------------------------------------------------------------------
\* The stages a DSP takes: operands' registers on one clock, and for a
\* product that is one DSP the registers after it.
Clk(r) == IF r = None THEN None ELSE r.controls.clk
OperandStages(regs, cell, a, b) ==
  LET ra == OperandRegs(design, regs, cell, a.bits)
      rb == OperandRegs(design, regs, cell, b.bits)
  IN  <<ra, IF ra # None /\ rb # None /\ Clk(rb) # Clk(ra) THEN None ELSE rb>>
ClockOf(r) == IF r[1] # None THEN Clk(r[1]) ELSE Clk(r[2])
\* What the first registers' outputs feed, if registers too: MREG then PREG.
TakenBy(first) ==
  FlattenSeq([x \in DOMAIN design.cells |->
    IF design.cells[x].is # "ff" THEN <<>>
    ELSE SelectSeq(design.cells[x].q, LAMBDA q : \E t \in first.regs : t[1].q = q)])
SecondOf(regs, first) ==
  LET qs == TakenBy(first)
      second == RegsAfter(design, regs, qs)
  IN  IF second # None /\ second.controls.clk = first.controls.clk
      THEN [controls |-> second.controls,
            regs |-> {<<t[1], (CHOOSE u \in first.regs : u[1].q = qs[t[2]])[2]>> : t \in second.regs}]
      ELSE None
ProductStages(regs, c, single, clk) ==
  LET first == RegsAfter(design, regs, c.y)
  IN  IF ~single \/ first = None \/ (clk # None /\ clk # first.controls.clk) THEN [m |-> None, p |-> None]
      ELSE LET second == SecondOf(regs, first)
           IN  IF second = None THEN [m |-> None, p |-> first] ELSE [m |-> first, p |-> second]

Controls(r) == IF r = None THEN None ELSE r.controls
Dsp(name, a, b, r, out) ==
  LET bits(f, x) == IF x = None THEN f.bits ELSE DataOf(f.bits, x.regs)
  IN  [is |-> "block", name |-> name, a |-> bits(a, r[1]), b |-> bits(b, r[2]), as |-> a.signed, bs |-> b.signed,
       stage |-> <<Controls(r[1]), Controls(r[2]), Controls(out.m), Controls(out.p)>>,
       y |-> Fresh(name, P_WIDTH), pcin |-> None, pcout |-> None]

\* Two DSPs of one A limb, the lower's B limb at an even place: only with
\* the same operand registers and no M or P.
Cascades(lo, hi, p, q) ==
  /\ p[1] = q[1] /\ p[2] % 2 = 1 /\ q[2] = p[2] + 1
  /\ lo.stage = hi.stage /\ lo.stage[3] = None /\ lo.stage[4] = None
\* The DSPs and the parts they make, a cascade making one.
RECURSIVE PartsOf(_, _, _, _)
PartsOf(order, dsps, width, k) ==
  IF k > Len(order) THEN [cells |-> <<>>, parts |-> <<>>]
  ELSE LET shift == DspShift(order[k][1], order[k][2])
           lo == dsps[k]
           two == k < Len(order) /\ Cascades(lo, dsps[k + 1], order[k], order[k + 1])
           rest == PartsOf(order, dsps, width, IF two THEN k + 2 ELSE k + 1)
           link == lo.name \o ".pcout"
       IN  IF two
           THEN LET hi == dsps[k + 1]
                IN  [cells |-> <<[lo EXCEPT !.pcout = link], [hi EXCEPT !.pcin = link]>> \o rest.cells,
                     parts |-> <<Part(SubSeq(lo.y, 1, B_UNSIGNED) \o hi.y, TRUE, shift, width)>> \o rest.parts]
           ELSE [cells |-> <<lo>> \o rest.cells, parts |-> <<Part(lo.y, TRUE, shift, width)>> \o rest.parts]
RECURSIVE DspSumOf(_, _, _)
DspSumOf(name, parts, adds) ==
  IF Len(parts) = 1 THEN [sum |-> parts[1], adds |-> adds]
  ELSE LET add == Add(name, parts[1], parts[2], Fresh(name \o "+" \o ToString(Len(parts)), Len(parts[1])))
       IN  DspSumOf(name, <<add.y>> \o SubSeq(parts, 3, Len(parts)), Append(adds, add))

-----------------------------------------------------------------------------
DspMuls == {x \in DOMAIN design.cells : design.cells[x].is = "mul"}
DspBuildOf(c, plan, order, ins, out) ==
  LET dsps == [k \in DOMAIN order |->
                 Dsp(c.name \o ToString(k), plan.a[order[k][1]], plan.b[order[k][2]], ins[k], out)]
      made == PartsOf(order, dsps, plan.width, 1)
      total == DspSumOf(c.name, made.parts, <<>>)
      read == [k \in DOMAIN order |-> [limbs |-> <<plan.a[order[k][1]], plan.b[order[k][2]]>>, regs |-> ins[k],
                                       shift |-> DspShift(order[k][1], order[k][2])]]
  IN  [cells |-> made.cells \o total.adds, read |-> AsRead(c, read, "sync"), y |-> total.sum, to |-> Output(out.p, total.sum),
       taken |-> UNION {Moved(ins[k][o]) : k \in DOMAIN ins, o \in 1..2}
                 \cup MovedAfter(out.m) \cup MovedAfter(out.p)]
DspBuildOn(c, plan, order, ins, regs) ==
  DspBuildOf(c, plan, order, ins, ProductStages(regs, c, Len(order) = 1, ClockOf(ins[1])))
DspBuildFrom(x, plan, order, regs) ==
  DspBuildOn(design.cells[x], plan, order,
             [k \in DOMAIN order |-> OperandStages(regs, x, plan.a[order[k][1]], plan.b[order[k][2]])], regs)
DspBuild(x, plan) == DspBuildFrom(x, plan, InOrder(dspPairs(plan)), RegBits(design, DspEligible))

\* Products are taken in the netlist's order while there are DSPs left.
DspMapProduct ==
  /\ work.next \in DspMuls
  /\ LET c == design.cells[work.next]
         plan == DspPlan(c)
     IN  IF plan # None /\ Cardinality(dspPairs(plan)) <= work.left
         THEN \E b \in {DspBuild(work.next, plan)} :
                work' = [next |-> work.next + 1, left |-> work.left - Cardinality(dspPairs(plan)),
                         new |-> Append(work.new, b.cells), given |-> Append(work.given, b.read), taken |-> work.taken \cup b.taken,
                         to |-> work.to @@ b.to @@ [n \in Nets(c.y) |-> b.y[CHOOSE k \in DOMAIN c.y : c.y[k] = n]]]
         ELSE work' = [work EXCEPT !.next = @ + 1, !.new = Append(@, <<c>>), !.given = Append(@, <<c>>)]
  /\ UNCHANGED <<design, hw, edges, run>>
DspSkip ==
  /\ work.next \in DOMAIN design.cells \ DspMuls
  /\ work' = [work EXCEPT !.next = @ + 1, !.new = Append(@, <<design.cells[work.next]>>),
                          !.given = Append(@, <<design.cells[work.next]>>)]
  /\ UNCHANGED <<design, hw, edges, run>>

\* The registers that moved are dropped and the nets renamed.
DspFinish ==
  /\ work.next = Len(design.cells) + 1 /\ hw = None
  /\ LET left(x) == IF design.cells[x].is = "ff"
                    THEN <<drop_bits(design.cells[x], {t[2] : t \in {u \in work.taken : u[1] = x}})>> ELSE work.new[x]
         cells == FlattenSeq([x \in DOMAIN design.cells |-> left(x)])
     IN  \E h \in {[x \in DOMAIN cells |-> Renamed(work.to, cells[x])]} :
           hw' = h /\ run' = [rtl |-> PowerUp(FlattenSeq(work.given)), hw |-> PowerUp(h), saw |-> None, did |-> None]
  /\ UNCHANGED <<design, work, edges>>

\* The inputs settle and a clock may tick; a DSP's resets wait for it.
DspStep ==
  /\ hw # None /\ edges < EDGES /\ edges' = edges + 1
  /\ \E high \in SUBSET design.inputs, t \in design.clocks \X BOOLEAN, junk \in {0, 1} :
       LET ins == [i \in design.inputs |-> IF i \in high THEN 1 ELSE 0]
           given == FlattenSeq(work.given)
           r == Cleared(given, run.rtl, ins, junk, FALSE)
           h == Cleared(hw, run.hw, ins, junk, FALSE)
       IN  \E e \in {[rtl |-> Env(given, r, ins, junk, B_UNSIGNED), hw |-> Env(hw, h, ins, junk, B_UNSIGNED)]} :
             run' = [rtl |-> Clocked(given, r, e.rtl, junk, B_UNSIGNED, t[1], t[2]),
                     hw |-> Clocked(hw, h, e.hw, junk, B_UNSIGNED, t[1], t[2]),
                     saw |-> Seen(design, <<>>, e.rtl, junk), did |-> Seen(design, work.to, e.hw, junk)]
  /\ UNCHANGED <<design, work, hw>>

DspInit ==
  /\ design \in DspDesigns /\ hw = None /\ edges = 0
  /\ work = [next |-> 1, left |-> design.left, new |-> <<>>, given |-> <<>>, taken |-> {}, to |-> <<>>]
  /\ run = [rtl |-> <<>>, hw |-> <<>>, saw |-> None, did |-> None]

DspNext == DspMapProduct \/ DspSkip \/ DspFinish \/ DspStep

DspSpec == DspInit /\ [][DspNext]_dsp

-----------------------------------------------------------------------------
\* The mapped netlist shows on its outputs what the given one does, whatever
\* the inputs, clocks, enables and resets do: dspLimbs, cascades and the
\* registers that moved into DSPs change nothing, but for what AsRead makes of
\* an operand: a constant 1 among registers that is 0 to begin with and after a
\* reset, and a register taken for one DSP that another's clock keeps out.
DspProductsSame == run.saw = run.did
=============================================================================
