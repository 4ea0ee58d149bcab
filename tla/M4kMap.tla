-------------------------------- MODULE M4kMap --------------------------------
(***************************************************************************)
(* A memory onto M4K blocks (crates/chipsmith-cyclone2/src/synth/m4k.rs):   *)
(* its ports are widened, given to the two ports of a block, laid out over *)
(* rows and columns of blocks, and what the blocks cannot do is logic      *)
(* around them.  Then clock edges: the memory beside its blocks.           *)
(*                                                                         *)
(* The block is scaled: a byte is BYTE columns of which BYTE - 1 are a     *)
(* byte's, as nine and eight, and the widths are one, two and four bytes,  *)
(* as x9, x18 and x36.  Any layout may be the cheapest.                    *)
(***************************************************************************)
EXTENDS MemPorts

CONSTANTS Memories, STEPS

VARIABLES mem,      \* the memory
          at,       \* what is being done, and the clock edges so far
          ports,    \* its ports as the blocks see them
          plan,     \* the layout and how each read is built
          rtl,      \* the memory's contents, read data and what reads it
          hw        \* the same, of the blocks and the logic

m4k == <<mem, at, ports, plan, rtl, hw>>

-----------------------------------------------------------------------------
(* The ports.                                                              *)

\* The memory's ports as the blocks see them, None if it has one they cannot be.
ReadPort(m, wr, r, i) ==
  [clk |-> r.clk, en |-> r.en, srst |-> r.srst, ce |-> r.ce, value |-> r.value, addr |-> r.addr,
   factor |-> 1, ids |-> <<i>>, transparent |-> Towards(m, wr, r, r.transparent),
   collision_x |-> Towards(m, wr, r, r.collision_x)]
WithWrites(m, wr) ==
  IF \A r \in ToSet(m.rd) : r.rising /\ Alike(m, wr, r, r.transparent) /\ Alike(m, wr, r, r.collision_x)
  THEN [wr |-> wr, rd |-> widen([i \in DOMAIN m.rd |-> ReadPort(m, wr, m.rd[i], i)], SameRead, WholeRead),
        disjoint |-> Disjoint(m, wr)]
  ELSE None
PortsOf(m) == WithWrites(m, widen(ByteWrites(m), SameClock, WholeWrite))

-----------------------------------------------------------------------------
(* Roles: what the two ports of a block do, 0 for nothing.                 *)

SamePortOk(p, r, w) == w \in p.rd[r].collision_x \/ (w \in p.rd[r].transparent /\ ~partial(p.wr[w]))
CrossPortOk(p, r, w) == ~SeesNew(p, r, w)
Role(kind, a, b) == [kind |-> kind, sides |-> <<a, b>>]
OneClock(p, r) ==   \* a true dual port whose port A writes
  r.kind # "true" \/ r.sides[1].wr = 0
  \/ Cardinality({p.wr[u.wr].clk : u \in {v \in ToSet(r.sides) : v.wr # 0}}
                 \cup {p.rd[u.rd].clk : u \in {v \in ToSet(r.sides) : v.rd # 0}}) = 1
roles(p) ==
  LET w == Len(p.wr)
      r == Len(p.rd)
      same == w = 1 /\ r = 1 /\ p.wr[1].clk = p.rd[1].clk
      all == CASE w = 0 /\ r = 1 -> {Role("single", Use(0, 1), Use(0, 0)), Role("simple", Use(0, 0), Use(0, 1))}
               [] w = 0 /\ r = 2 -> {Role("true", Use(0, 1), Use(0, 2))}
               [] w = 1 /\ r = 1 ->
                    {x \in {Role("single", Use(1, 1), Use(0, 0))} : Paired(p, 1, 1) /\ SamePortOk(p, 1, 1)}
                    \cup {x \in {Role("simple", Use(1, 0), Use(0, 1))} :
                            same /\ (CrossPortOk(p, 1, 1) \/ CrossPortEmulated(p, 1, 1))}
                    \cup {x \in {Role("true", Use(0, 1), Use(1, 0))} : ~same /\ CrossPortOk(p, 1, 1)}
               [] w = 1 /\ r = 2 ->
                    {Role("true", Use(1, i), Use(0, 3 - i)) :
                       i \in {j \in 1 .. 2 : Paired(p, 1, j) /\ SamePortOk(p, j, 1) /\ CrossPortOk(p, 3 - j, 1)}}
               [] w = 2 ->
                    {Role("true", x[1], x[2]) :
                       x \in TwoWrites(p, LAMBDA v, i : Paired(p, v, i) /\ SamePortOk(p, i, v) /\ CrossPortOk(p, i, 3 - v))}
               [] OTHER -> {}
  IN  {x \in all : OneClock(p, x)}

-----------------------------------------------------------------------------
(* Layouts.                                                                *)

Cap(base, packing) == IF packing = "dense" THEN base ELSE (base \div BYTE) * (BYTE - 1)

Layout(m, p, role, base, packing) ==
  LET slice == IF m.width < Cap(base, packing) THEN m.width ELSE Cap(base, packing)
      abits == AddressBits(m)
      block_bits == log2[depth(base)]
  IN  [kind |-> role.kind, sides |-> role.sides, base |-> base, packing |-> packing, slice |-> slice,
       widths |-> [s \in 1 .. 2 |-> IF Used(role.sides[s]) THEN base * PortOf(p, role.sides[s]).factor ELSE 0],
       abits |-> abits, block_bits |-> block_bits,
       rows |-> IF abits > block_bits THEN CeilDiv(m.size, depth(base)) ELSE 1, cols |-> CeilDiv(m.width, slice)]

base_column(l, b) == IF l.packing = "dense" THEN b ELSE BYTE * (b \div (BYTE - 1)) + (b % (BYTE - 1))
Column(l, k) == (k \div l.slice) * l.base + base_column(l, k % l.slice)

\* The enables of each byte of a block's write port.
Groups(l, w, en, col, s) ==
  [g \in Bits(l.widths[s] \div BYTE) |->
     {en[BitAt(l, w, col, k) + 1] : k \in {k \in Bits(DataBits(l, s)) : BitAt(l, w, col, k) # -1 /\ Column(l, k) \div BYTE = g}}]
Enables(l, w, en, s) == {UNION {Groups(l, w, en, col, s)[g] : g \in Bits(l.widths[s] \div BYTE)} : col \in Bits(l.cols)}
byteena(l, m, p, s) ==
  l.sides[s].wr # 0 /\ \E e \in Enables(l, m.width, p.wr[l.sides[s].wr].en, s) : Cardinality(e) > 1

Shaped(l) ==
  /\ \A s \in 1 .. 2 : l.widths[s] \in WIDTHS \cup {0}
  /\ l.kind \in {"single", "true"} => \A s \in 1 .. 2 : l.widths[s] <= 2 * BYTE
  /\ l.kind = "simple" /\ l.sides[1].wr = 0 => l.widths[2] = 4 * BYTE
WritesWhole(l, m, p) ==
  \A s \in {t \in 1 .. 2 : l.sides[t].wr # 0} :
    LET en == p.wr[l.sides[s].wr].en
    IN  /\ \A col \in Bits(l.cols) : \A g \in Bits(l.widths[s] \div BYTE) : Cardinality(Groups(l, m.width, en, col, s)[g]) <= 1
        /\ byteena(l, m, p, s) => l.widths[s] >= 2 * BYTE /\ (s = 2 => l.widths[s] <= 2 * BYTE)
        /\ \A e \in Enables(l, m.width, en, s) : e \cap {Off, {}} = {}
\* A shallow memory repeats its top address bit, which each port must have.
Repeats(l, p) ==
  l.abits < l.block_bits => \A s \in {t \in 1 .. 2 : Used(l.sides[t])} : l.abits > log2[PortOf(p, l.sides[s]).factor]

Layouts(m, p) ==
  {l \in {Layout(m, p, role, base, packing) : role \in {r \in roles(p) : Resolved(collision(m, p, r.sides))},
                                              base \in WIDTHS, packing \in {"dense", "bytes"}} :
     Shaped(l) /\ Repeats(l, p) /\ WritesWhole(l, m, p)}

-----------------------------------------------------------------------------
(* Clocks, clock enables and output registers.                             *)

Implies(w, en) == \A k \in DOMAIN w.en : "0" \in w.en[k] \/ en \subseteq w.en[k]
\* A port's read enable can be the block's if the port writes only under it.
HwOk(p, u) == u.rd # 0 /\ (u.wr # 0 => Implies(p.wr[u.wr], p.rd[u.rd].en))
Domain(p, u, ena) == [clk |-> PortOf(p, u).clk, en |-> IF ena /\ u.rd # 0 THEN p.rd[u.rd].en ELSE {}]
\* A simple dual port's write under the read's enable shares its clock.
Domains(p, l, ena) ==
  LET u == l.sides
      d == [s \in {t \in 1 .. 2 : Used(u[t])} |-> Domain(p, u[s], ena[s])]
      share == /\ l.kind = "simple" /\ u[1].wr # 0
               /\ d[2].en # {} /\ d[1] = [d[2] EXCEPT !.en = {}] /\ Implies(p.wr[u[1].wr], d[2].en)
  IN  IF share THEN [d EXCEPT ![1] = d[2]] ELSE d
TwoClocks(l) == l.kind = "simple" \/ (l.kind = "true" /\ l.sides[1].wr = 0)
\* With read enables in hardware wherever the clocks allow it.
Hardware(p, l) ==
  LET can == [s \in 1 .. 2 |-> HwOk(p, l.sides[s])]
      all == <<<<TRUE, TRUE>>, <<TRUE, FALSE>>, <<FALSE, TRUE>>, <<FALSE, FALSE>>>>
      fit == SelectSeq([i \in 1 .. 4 |-> [s \in 1 .. 2 |-> all[i][s] /\ can[s]]],
                       LAMBDA ena : LET d == Domains(p, l, ena)
                                   IN  Cardinality(DOMAIN d) = 2 => d[1] = d[2] \/ TwoClocks(l))
  IN  fit[1]

\* The register the read data all go into and nothing else, if the block's can be it.
output_register(m, p, r) ==
  LET regs == {m.rd[i].reg : i \in ToSet(p.rd[r].ids)}
      reg == CHOOSE x \in regs : TRUE
  IN  IF Cardinality(regs) = 1 /\ reg # None /\ ~reg.exported /\ ~reg.ones THEN reg ELSE None

realize(m, p, l) ==
  LET ena == Hardware(p, l)
      d == Domains(p, l, ena)
      bypassed == BypassedReads(p, l.sides, collision(m, p, l.sides)) \cup {e[1] : e \in EmulatedReads(p, l.sides)}
      Add(x, s) ==
        LET r == l.sides[s].rd
            rd == p.rd[r]
            abs == output_register(m, p, r)
            soft == (~ena[s] /\ rd.en # {}) \/ rd.srst # "0" \/ r \in bypassed
            domains == x.domains \cup {[clk |-> abs.clk, en |-> abs.en]}
            clears == x.clears \cup ({abs.clr} \ {"0"})
        IN  IF r = 0 THEN x
            ELSE IF soft \/ abs = None \/ Cardinality(domains) > 2 THEN [x EXCEPT !.hw_en[r] = ena[s]]
            ELSE IF Cardinality(clears) > 2 THEN [x EXCEPT !.hw_en[r] = ena[s], !.domains = domains]
            ELSE [x EXCEPT !.hw_en[r] = ena[s], !.domains = domains, !.clears = clears, !.outreg[r] = abs]
  IN  FoldLeft(Add, [domains |-> {d[s] : s \in DOMAIN d}, clears |-> {}, side |-> d, hw_en |-> [r \in DOMAIN p.rd |-> FALSE],
                     outreg |-> [r \in DOMAIN p.rd |-> None]], <<1, 2>>)

-----------------------------------------------------------------------------
(* What is true at an edge: T, the signals that are 1.                     *)

NextReg(m, c, T, i) ==
  LET g == m.rd[i].reg
  IN  IF g = None THEN None
      ELSE IF g.clr \in T THEN [k \in Bits(m.width) |-> 0]
      ELSE IF g.clk = c /\ On(g.en, T) THEN rtl.read[i] ELSE rtl.reg[i]

-----------------------------------------------------------------------------
(* The blocks and the logic around them.                                   *)

Fixes(m, p, l, g, T) ==
  LET by == BypassedReads(p, l.sides, collision(m, p, l.sides))
      em == EmulatedReads(p, l.sides)
      beside(r) == CHOOSE w \in DOMAIN p.wr : Use(w, r) \in ToSet(l.sides)
      emulates(r) == CHOOSE w \in DOMAIN p.wr : <<r, w>> \in em
      hit(r) == OneWord(p.rd[r].addr, p.wr[emulates(r)].addr, 0, T)
  IN  [r \in DOMAIN p.rd |->
         IF \E w \in DOMAIN p.wr : <<r, w>> \in em
         THEN Fixed([k \in DOMAIN g.en[emulates(r)] |-> g.en[emulates(r)][k] /\ hit(r)], g.data[emulates(r)])
         ELSE IF r \in by THEN g.fix[beside(r)] ELSE None]

\* Where a block port's word is: the address pins, the row, and whether the
\* memory has it at all.
PinWord(p, l, s, T) ==
  LET q == PortOf(p, l.sides[s])
      pin(i) == LET t == log2[q.factor] + i IN Address(q.addr, IF t < l.abits - 1 THEN t ELSE l.abits - 1)
  IN  Num(log2[depth(l.widths[s])], LAMBDA i : Val(pin(i), T))

\* The bit whose enable is the byte's, or the port's.
Group(l, k) == Column(l, k) \div BYTE
EnableBit(m, p, l, s, col, k) ==
  LET all == {x \in Held(m, l, s) : x[1] = col}
      group == IF byteena(l, m, p, s) THEN Group(l, k) ELSE First({Group(l, x[2]) : x \in all})
      ks == {x[2] : x \in {y \in all : Group(l, y[2]) = group}}
  IN  BitAt(l, m.width, col, CHOOSE j \in ks : \A i \in ks : i <= j) + 1
\* What port s writes: places with their bits.
BlockWrites(m, p, l, s, g, T) ==
  LET w == l.sides[s].wr
      row == RowOf(p, l, s, T)
  IN  IF w = 0 \/ ~in_range(p, l, s, T) \/ row >= l.rows THEN {}
      ELSE {<<Place(l, s, row, PinWord(p, l, s, T), x[1], x[2]), g.data[w][BitAt(l, m.width, x[1], x[2]) + 1]>> :
              x \in {y \in Held(m, l, s) : g.en[w][EnableBit(m, p, l, s, y[1], y[2])]}}
\* A block port sees its own write, but what a byte enable leaves out, and the
\* old data of the other port's.
BlockRead(m, p, l, s, writes, T) ==
  LET word == PinWord(p, l, s, T)
      of(i) == CHOOSE x \in Held(m, l, s) : BitAt(l, m.width, x[1], x[2]) = i
      bit(row, i) == LET pl == Place(l, s, row, word, of(i)[1], of(i)[2])
                     IN  IF At(writes, pl) # {} THEN OneOf(At(writes, pl))
                         ELSE IF \E y \in writes : y[1][1] = row /\ y[1][2] = of(i)[1] THEN X ELSE hw.mem[pl]
  IN  [row \in Bits(l.rows) |-> [i \in Bits(m.width * PortOf(p, l.sides[s]).factor) |-> bit(row, i)]]

\* The word that a base word of a block holds, -1 if none: a shallow memory's
\* is where the repeated top bits agree.
WordAt(m, l, row, bw) ==
  LET top == (bw \div 2^(l.abits - 1)) % 2
      rep == bw \div 2^l.abits
      word == IF l.abits >= l.block_bits THEN row * depth(l.base) + bw
              ELSE IF rep = top * (2^(l.block_bits - l.abits) - 1) THEN bw % 2^l.abits ELSE -1
  IN  IF word < m.size THEN word ELSE -1

-----------------------------------------------------------------------------
(* Read data, from the blocks on.                                          *)

Soft(n) == [sel |-> 0, sel2 |-> 0, flag |-> Zeros(n), dq |-> Zeros(n), en_q |-> 0, hold |-> Zeros(n), f |-> 0]

\* The read data, as far as the multiplexer, the bypass, the hold registers and
\* the reset flag.
Muxed(m, p, x, r) ==
  LET q == hw.soft[r]
      rows == IF x.outreg[r] # None THEN hw.oreg[r] ELSE hw.dout[SideOf(x.l, r)]
      row == IF x.outreg[r] # None THEN q.sel2 ELSE q.sel
      data == IF x.l.rows = 1 THEN rows[0] ELSE IF row \in DOMAIN rows THEN rows[row] ELSE [k \in DOMAIN rows[0] |-> X]
  IN  [k \in DOMAIN data |-> IF q.flag[k] = 1 THEN q.dq[k] ELSE data[k]]
Holds(p, x, r) == ~x.hw_en[r] /\ p.rd[r].en # {}
Kept(m, p, x, r) == IF Holds(p, x, r) /\ hw.soft[r].en_q = 0 THEN hw.soft[r].hold ELSE Muxed(m, p, x, r)
Data(m, p, x, r) == IF p.rd[r].srst # "0" /\ hw.soft[r].f = 1 THEN [k \in Bits(WidthOf(m, p, r)) |-> p.rd[r].value[k + 1]]
                    ELSE Kept(m, p, x, r)

NextSoft(m, p, x, c, T, fix, r) ==
  LET q == hw.soft[r]
      rd == p.rd[r]
      abs == x.outreg[r]
      edge == rd.clk = c
      go == edge /\ (x.hw_en[r] => On(rd.en, T))
      bit(b) == IF b THEN 1 ELSE 0
      en == On(rd.en, T)
      f == IF rd.ce THEN IF en THEN Val(rd.srst, T) ELSE q.f ELSE IF rd.srst \in T \/ (~en /\ q.f = 1) THEN 1 ELSE 0
      n == WidthOf(m, p, r)
  IN  [sel |-> IF go THEN RowOf(p, x.l, SideOf(x.l, r), T) ELSE q.sel,
       sel2 |-> IF abs # None /\ abs.clk = c /\ On(abs.en, T) THEN q.sel ELSE q.sel2,
       flag |-> IF go /\ fix[r] # None THEN [k \in Bits(n) |-> bit(fix[r].flags[k + 1])] ELSE q.flag,
       dq |-> IF go /\ fix[r] # None THEN [k \in Bits(n) |-> fix[r].want[k + 1]] ELSE q.dq,
       en_q |-> IF edge THEN bit(en) ELSE q.en_q,
       hold |-> IF edge /\ Holds(p, x, r) THEN Kept(m, p, x, r) ELSE q.hold,
       f |-> IF edge THEN f ELSE q.f]
NextOut(x, c, T, r) ==
  LET abs == x.outreg[r]
  IN  IF abs = None THEN None
      ELSE IF abs.clr \in T THEN [row \in Bits(x.l.rows) |-> [k \in DOMAIN hw.oreg[r][row] |-> 0]]
      ELSE IF abs.clk = c /\ On(abs.en, T) THEN hw.dout[SideOf(x.l, r)] ELSE hw.oreg[r]

-----------------------------------------------------------------------------
Fits(m) == PortsOf(m) # None /\ Layouts(m, PortsOf(m)) # {}
\* One copy for each read port, with every write.
Copies(m) ==
  LET copies == {[m EXCEPT !.rd = <<r>>] : r \in ToSet(m.rd)}
  IN  IF m.wr = <<>> \/ Len(m.rd) < 2 \/ \E c \in copies : ~Fits(c) THEN {} ELSE copies

Init ==
  /\ mem \in Memories
  /\ at = [phase |-> "map", edges |-> 0] /\ ports = PortsOf(mem) /\ plan = None /\ rtl = None /\ hw = None

StartRtl ==
  [mem |-> [w \in Bits(mem.size) |-> [k \in Bits(mem.width) |-> mem.init[w + 1][k + 1]]],
   read |-> [i \in DOMAIN mem.rd |-> Zeros(mem.width)],
   reg |-> [i \in DOMAIN mem.rd |-> IF mem.rd[i].reg = None THEN None ELSE Zeros(mem.width)]]
StartHw(x) ==
  [mem |-> [q \in Places(mem, x.l) |->
              LET w == WordAt(mem, x.l, q[1], q[3]) IN IF w = -1 THEN X ELSE mem.init[w + 1][q[2] * x.l.slice + q[4] + 1]],
   dout |-> [s \in {t \in 1 .. 2 : x.l.sides[t].rd # 0} |-> [row \in Bits(x.l.rows) |-> Zeros(WidthOf(mem, ports, x.l.sides[s].rd))]],
   oreg |-> [r \in DOMAIN ports.rd |-> IF x.outreg[r] = None THEN None
                                       ELSE [row \in Bits(x.l.rows) |-> Zeros(WidthOf(mem, ports, r))]],
   soft |-> [r \in DOMAIN ports.rd |-> Soft(WidthOf(mem, ports, r))]]

Start ==
  /\ at.phase = "map" /\ ~mem.logic /\ ports # None
  /\ \E l \in Layouts(mem, ports) :
       LET x == realize(mem, ports, l)
       IN  /\ plan' = [l |-> l, side |-> x.side, domains |-> x.domains, hw_en |-> x.hw_en, outreg |-> x.outreg]
           /\ rtl' = StartRtl /\ hw' = StartHw([l |-> l, outreg |-> x.outreg])
  /\ at' = [at EXCEPT !.phase = "run"]
  /\ UNCHANGED <<mem, ports>>

\* A memory no block takes is copied if its copies fit, or stays.
Refuse ==
  /\ at.phase = "map"
  /\ mem.logic \/ (IF ports = None THEN TRUE ELSE Layouts(mem, ports) = {})
  /\ \/ /\ mem.logic \/ Copies(mem) = {}
        /\ at' = [at EXCEPT !.phase = "kept"] /\ UNCHANGED <<mem, ports>>
     \/ /\ ~mem.logic /\ mem' \in Copies(mem)
        /\ ports' = PortsOf(mem') /\ UNCHANGED at
  /\ UNCHANGED <<plan, rtl, hw>>

\* An edge of clock c while the signals S are 1.
Edge ==
  /\ at.phase = "run" /\ at.edges < STEPS
  /\ \E c \in mem.clocks, S \in SUBSET mem.signals :
       LET T == High(mem, S)
           l == plan.l
           active(s) == plan.side[s].clk = c /\ On(plan.side[s].en, T)
       IN  \E g \in {Collide(mem, ports, l, T)} :
           \E fix \in {Fixes(mem, ports, l, g, T)},
              writes \in {[s \in 1 .. 2 |-> IF Used(l.sides[s]) /\ active(s) THEN BlockWrites(mem, ports, l, s, g, T) ELSE {}]} :
           /\ rtl' = [mem |-> [w \in Bits(mem.size) |-> [k \in Bits(mem.width) |->
                                 Written(mem, c, T, w, k, Writers(mem, c, T, w, k), rtl.mem[w][k])]],
                      read |-> [i \in DOMAIN mem.rd |-> NextRead(mem, c, T, i, rtl)],
                      reg |-> [i \in DOMAIN mem.rd |-> NextReg(mem, c, T, i)]]
           /\ hw' = [mem |-> [q \in DOMAIN hw.mem |-> Left(writes, q, hw.mem[q])],
                     dout |-> [s \in DOMAIN hw.dout |-> IF active(s) THEN BlockRead(mem, ports, l, s, writes[s], T) ELSE hw.dout[s]],
                     oreg |-> [r \in DOMAIN ports.rd |-> NextOut(plan, c, T, r)],
                     soft |-> [r \in DOMAIN ports.rd |-> NextSoft(mem, ports, plan, c, T, fix, r)]]
  /\ at' = [at EXCEPT !.edges = @ + 1]
  /\ UNCHANGED <<mem, ports, plan>>

Next == Start \/ Refuse \/ Edge

Spec == Init /\ [][Next]_m4k

-----------------------------------------------------------------------------
\* Whenever the memory has a read bit that is known, the blocks and the logic
\* around them give it: what was read when a read was disabled, reset or beside
\* a write included.
ReadsSame ==
  at.phase = "run" =>
    \A r \in DOMAIN ports.rd :
      LET data == Data(mem, ports, plan, r)
      IN  \A sub \in DOMAIN ports.rd[r].ids, k \in Bits(mem.width) :
            LET i == ports.rd[r].ids[sub]
                bit == IF plan.outreg[r] # None THEN rtl.reg[i][k] ELSE rtl.read[i][k]
            IN  bit = X \/ data[(sub - 1) * mem.width + k] = bit

\* Every bit of every word has its place in a block, and is there what the memory
\* holds, whichever of the ports wrote it last.
WordsKept ==
  at.phase = "run" =>
    \A w \in Bits(mem.size), k \in Bits(mem.width) :
      /\ \E q \in Places(mem, plan.l) : WordAt(mem, plan.l, q[1], q[3]) = w /\ q[2] * plan.l.slice + q[4] = k
      /\ \A q \in Places(mem, plan.l) :
           WordAt(mem, plan.l, q[1], q[3]) = w /\ q[2] * plan.l.slice + q[4] = k => rtl.mem[w][k] \in {X, hw.mem[q]}
=============================================================================
