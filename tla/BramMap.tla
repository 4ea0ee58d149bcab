-------------------------------- MODULE BramMap -------------------------------
(***************************************************************************)
(* A memory onto 7-series block RAM (crates/chipsmith-xc7/src/synth/       *)
(* bram.rs), and the block (crates/chipsmith-xc7/src/sim.v): the ports'    *)
(* roles, each one's write mode, the cheapest layout, what is logic around *)
(* the blocks.  Then clock edges: the memory beside its blocks.            *)
(*                                                                         *)
(* The block is scaled as MemPorts says: x9, x18 and SDP's x36 are one,    *)
(* two and four bytes.  Without parity a byte's last column is not used.   *)
(***************************************************************************)
EXTENDS MemPorts

CONSTANTS Memories, LOGIC_WORDS, STEPS

VARIABLES mem,      \* the memory
          at,       \* what is being done, and the clock edges so far
          plan,     \* the memory as mapped, its ports, layout and reads
          rtl,      \* the memory's contents, read data and what reads it; and
                    \* of a read the code gets otherwise what it gets from
          hw        \* the same, of the blocks and the logic

bram == <<mem, at, plan, rtl, hw>>

TDP_MAX == 2 * BYTE

-----------------------------------------------------------------------------
(* The ports.                                                              *)

ConstantApart(wr) == Len(wr) = 2 /\ NeverMeet(wr[1].addr, wr[2].addr)
WholeStart(p, q) == [WholeRead(p, q) EXCEPT !.start = @ \o q.start]

\* The ports as the blocks see them, None if it has one they cannot be.  A
\* write never on a read's word collides with it as if undefined.
ReadPort(m, wr, r, i) ==
  [clk |-> r.clk, en |-> r.en, srst |-> r.srst, ce |-> r.ce, value |-> r.value, start |-> r.start,
   addr |-> r.addr, factor |-> 1, ids |-> <<i>>, transparent |-> Towards(m, wr, r, r.transparent),
   collision_x |-> {w \in DOMAIN wr : Meets(m, wr[w], r) \subseteq r.collision_x}]
ReadPorts(m, wr) == [i \in DOMAIN m.rd |-> ReadPort(m, wr, m.rd[i], i)]
WithWrites(m, wr, widened) ==
  IF /\ m.size > LOGIC_WORDS
     /\ \A r \in ToSet(m.rd) : r.arst = "0" /\ Alike(m, wr, r, r.transparent) /\ Alike(m, wr, r, r.collision_x)
  THEN [wr |-> wr, disjoint |-> FALSE,
        rd |-> IF widened THEN widen(ReadPorts(m, wr), SameRead, WholeStart) ELSE ReadPorts(m, wr)]
  ELSE None
PortsOf(m, widened) ==
  WithWrites(m, IF widened THEN widen(ByteWrites(m), SameClock, WholeWrite) ELSE ByteWrites(m), widened)
Settled(m, p) == IF p = None THEN None ELSE [p EXCEPT !.disjoint = Disjoint(m, p.wr) \/ ConstantApart(p.wr)]

-----------------------------------------------------------------------------
(* Roles and write modes.                                                  *)

SeesOld(p, r, w) == w \notin p.rd[r].transparent /\ w \notin p.rd[r].collision_x
Mode(mode, bypass) == [mode |-> mode, bypass |-> bypass]
\* A write whose old data the other port reads is READ_FIRST, its own read then
\* in logic; one whose own read sees it otherwise WRITE_FIRST.
modes(p, sides) ==
  LET own(s) == sides[s].rd # 0 /\ sides[s].wr # 0 /\ SeesNew(p, sides[s].rd, sides[s].wr)
      other(s) == sides[3 - s].rd
      old_wanted(s) == other(s) # 0 /\ SeesOld(p, other(s), sides[s].wr)
  IN  [s \in 1 .. 2 |-> IF own(s) /\ ~old_wanted(s) THEN Mode("write_first", FALSE) ELSE Mode("read_first", own(s))]
ModesOk(p, sides) == \A e \in EmulatedReads(p, sides) : CrossPortEmulated(p, e[1], e[2])

roles(p) ==
  LET w == Len(p.wr)
      r == Len(p.rd)
      none == Use(0, 0)
  IN  CASE w = 0 /\ r = 1 -> {<<Use(0, 1), none>>}
        [] w = 0 /\ r = 2 -> {<<Use(0, 1), Use(0, 2)>>}
        [] w = 1 /\ r = 1 ->
             {<<Use(1, 0), Use(0, 1)>>, <<Use(0, 1), Use(1, 0)>>}
             \cup {x \in {<<Use(1, 1), none>>} : Paired(p, 1, 1)}
        [] w = 1 /\ r = 2 -> {<<Use(1, i), Use(0, 3 - i)>> : i \in {j \in 1 .. 2 : Paired(p, 1, j)}}
        [] w = 2 -> TwoWrites(p, LAMBDA v, i : Paired(p, v, i))
        [] OTHER -> {}

-----------------------------------------------------------------------------
(* Layouts.                                                                *)

capacity(base, parity) == IF parity THEN base ELSE (base \div BYTE) * (BYTE - 1)
Layout(m, p, sides, base, parity) ==
  LET slice == IF m.width < capacity(base, parity) THEN m.width ELSE capacity(base, parity)
      widths == [s \in 1 .. 2 |-> IF Used(sides[s]) THEN base * PortOf(p, sides[s]).factor ELSE 0]
      abits == AddressBits(m)
      block_bits == log2[depth(base)]
  IN  [sides |-> sides, modes |-> modes(p, sides), base |-> base, parity |-> parity, slice |-> slice, widths |-> widths,
       sdp |-> \E s \in 1 .. 2 : widths[s] > TDP_MAX, abits |-> abits, block_bits |-> block_bits,
       rows |-> IF abits > block_bits THEN CeilDiv(m.size, depth(base)) ELSE 1, cols |-> CeilDiv(m.width, slice)]

column(l, k) == (k \div l.slice) * capacity(l.base, l.parity) + (k % l.slice)
lane(l, c) == IF l.parity THEN c \div BYTE ELSE c \div (BYTE - 1)
LaneEnables(m, p, l, s, col, n) ==
  LET en == p.wr[l.sides[s].wr].en
  IN  {en[BitAt(l, m.width, x[1], x[2]) + 1] : x \in {y \in Held(m, l, s) : y[1] = col /\ (n = None \/ lane(l, column(l, y[2])) = n)}}
byteena(m, p, l, s) == \E col \in Bits(l.cols) : Cardinality(LaneEnables(m, p, l, s, col, None)) > 1

\* An SDP block reads on A and writes on B, both READ_FIRST; a lane has one
\* enable; a write by bytes is not relied on for a narrower read of what it
\* overwrites.
Fit(m, p, l) ==
  /\ \A s \in 1 .. 2 : l.widths[s] \in WIDTHS \cup {0}
  /\ l.sdp => l.sides[1].wr = 0 /\ l.sides[2].rd = 0 /\ \A s \in 1 .. 2 : l.modes[s].mode = "read_first"
  /\ \A s \in {t \in 1 .. 2 : l.sides[t].wr # 0} :
       /\ \A col \in Bits(l.cols), n \in Bits(l.widths[s]) : Cardinality(LaneEnables(m, p, l, s, col, n)) <= 1
       /\ ~ /\ byteena(m, p, l, s) /\ l.sides[3 - s].rd # 0 /\ l.widths[3 - s] < l.widths[s]
            /\ SeesOld(p, l.sides[3 - s].rd, l.sides[s].wr)
soft(m, p, l) ==
  LET bypass == Cardinality({s \in 1 .. 2 : l.modes[s].bypass}) + Cardinality(EmulatedReads(p, l.sides))
  IN  (IF l.rows > 1 THEN m.width * l.rows + l.rows ELSE 0) + bypass * m.width
Cheaper(m, p, l, n, q, k) ==   \* l of m, p is cheaper than k of n, q
  \/ l.rows * l.cols < k.rows * k.cols
  \/ l.rows * l.cols = k.rows * k.cols /\ soft(m, p, l) < soft(n, q, k)
Layouts(m, p) ==
  IF p = None THEN {}
  ELSE {l \in {Layout(m, p, sides, base, parity) :
                 sides \in {x \in roles(p) : Resolved(collision(m, p, x)) /\ ModesOk(p, x)}, base \in WIDTHS, parity \in BOOLEAN} :
          Fit(m, p, l)}

\* A single port memory as one of half the width, its port split over the two of
\* the block at adjacent words.
split(m) ==
  LET h == m.width \div 2
      half(x, k) == SubSeq(x, k * h + 1, (k + 1) * h)
      below(a, k) == <<IF k = 1 THEN "1" ELSE "0">> \o a
      r == m.rd[1]
      w == m.wr[1]
      reg(k) == IF r.reg = None THEN None ELSE [r.reg EXCEPT !.value = half(@, k), !.start = half(@, k)]
  IN  IF m.width % 2 # 0 \/ Len(m.wr) > 1 \/ Len(m.rd) # 1 THEN None
      ELSE IF m.wr # <<>> /\ m.wr[1].addr # r.addr THEN None
      ELSE [m EXCEPT !.size = 2 * @, !.width = h,
                     !.init = [i \in 1 .. 2 * m.size |-> half(m.init[(i + 1) \div 2], (i + 1) % 2)],
                     !.wr = IF m.wr = <<>> THEN <<>>
                            ELSE [i \in 1 .. 2 |-> [w EXCEPT !.addr = below(@, i - 1), !.en = half(@, i - 1), !.data = half(@, i - 1), !.over = {}]],
                     !.rd = [i \in 1 .. 2 |->
                               [r EXCEPT !.addr = below(@, i - 1), !.value = half(@, i - 1), !.start = half(@, i - 1), !.reg = reg(i - 1),
                                         !.transparent = IF 1 \in @ THEN {i} ELSE {},
                                         !.collision_x = IF m.wr = <<>> THEN {} ELSE {3 - i} \cup (IF 1 \in @ THEN {i} ELSE {})]]]

Mapped(m, p, l) == [m |-> m, p |-> p, l |-> l]
\* Every layout of the memory as it is or split, and the cheapest of them.
Laid(m, p) == {Mapped(m, p, l) : l \in Layouts(m, p)}
Ways(m, Settle(_, _)) ==
  LET h == split(m)
  IN  Laid(m, Settle(m, PortsOf(m, TRUE))) \cup (IF h = None THEN {} ELSE Laid(h, Settle(h, PortsOf(h, FALSE))))
Cheapest(ways) == {x \in ways : \A y \in ways : ~Cheaper(y.m, y.p, y.l, x.m, x.p, x.l)}
fits(m) == Ways(m, LAMBDA n, p : p) # {}
\* One copy for each read port, with every write.
Copies(m) == {[m EXCEPT !.rd = <<r>>] : r \in ToSet(m.rd)}
per_read_port(m) ==
  IF fits(m) \/ m.wr = <<>> \/ Len(m.rd) < 2 \/ (\E c \in Copies(m) : ~fits(c)) THEN {} ELSE Copies(m)

-----------------------------------------------------------------------------
(* How a read is built.                                                    *)

\* Two values agree where both are defined.
Agree(a, b) == \A k \in DOMAIN a : a[k] = X \/ b[k] = X \/ a[k] = b[k]
merge(a, b) == [k \in DOMAIN a |-> IF a[k] = X THEN b[k] ELSE a[k]]
implies(w, en) == \A k \in DOMAIN w.en : "0" \in w.en[k] \/ en \subseteq w.en[k]
negates(en, w) == en = {"!w"} /\ w = {"w"}

\* The register the read data all go into and nothing else, on the port's clock.
output_register(m, p, r) ==
  LET ids == p.rd[r].ids
      regs == {m.rd[i].reg : i \in ToSet(ids)}
      reg == m.rd[ids[1]].reg
      kind(g) == IF g = None THEN None ELSE <<g.clk, g.en, g.rst, g.first>>
  IN  IF None \in regs \/ Cardinality({kind(g) : g \in regs}) > 1 \/ (\E g \in regs : g.exported) \/ reg.clk # p.rd[r].clk THEN None
      ELSE [reg EXCEPT !.value = FlattenSeq([i \in DOMAIN ids |-> m.rd[ids[i]].reg.value]),
                       !.start = FlattenSeq([i \in DOMAIN ids |-> m.rd[ids[i]].reg.start])]

Bypassed(m, p, l) ==
  BypassedReads(p, l.sides, collision(m, p, l.sides)) \cup {e[1] : e \in EmulatedReads(p, l.sides)}
  \cup {l.sides[s].rd : s \in {t \in 1 .. 2 : l.modes[t].bypass}}
\* The block port's enable stops its write too.
Enables(p, u) == u.wr = 0 \/ implies(p.wr[u.wr], p.rd[u.rd].en)
realize(m, p, l, r) ==
  LET s == SideOf(l, r)
      w == l.sides[s].wr
      rd == p.rd[r]
      hw_en == Enables(p, l.sides[s])
      no_change == /\ w # 0 /\ ~hw_en /\ ~partial(p.wr[w]) /\ l.modes[s] = Mode("read_first", FALSE)
                   /\ negates(rd.en, p.wr[w].en[1])
      hw_srst == rd.srst # "0" /\ ~no_change /\ (hw_en \/ rd.en = {})
      soft_read == (~hw_en /\ ~no_change /\ rd.en # {}) \/ (rd.srst # "0" /\ ~hw_srst) \/ r \in Bypassed(m, p, l)
      abs == output_register(m, p, r)
      shared == /\ Agree(rd.start, abs.start)
                /\ hw_srst /\ abs.rst # "0" => Agree(rd.value, abs.value)
  IN  [hw_en |-> hw_en, no_change |-> no_change, hw_srst |-> hw_srst,
       outreg |-> IF soft_read \/ abs = None THEN None ELSE IF shared THEN abs ELSE None]

\* What the latch and the output register power up to and are reset to.
PowerUp(p, x, r) == IF x[r].outreg = None THEN p.rd[r].start ELSE merge(p.rd[r].start, x[r].outreg.start)
Srval(p, x, r) ==
  LET abs == x[r].outreg
  IN  IF abs = None THEN p.rd[r].value
      ELSE IF abs.rst = "0" THEN p.rd[r].value
      ELSE IF x[r].hw_srst THEN merge(p.rd[r].value, abs.value) ELSE abs.value

-----------------------------------------------------------------------------
(* The logic around the blocks.                                            *)

Fixes(m, p, l, g, T) ==
  LET by == BypassedReads(p, l.sides, collision(m, p, l.sides))
      em == EmulatedReads(p, l.sides)
      beside(r) == l.sides[SideOf(l, r)].wr
      emulates(r) == (CHOOSE e \in em : e[1] = r)[2]
      hit(r) == OneWord(p.rd[r].addr, p.wr[emulates(r)].addr, 0, T)
      own == Given(p, T)
  IN  [r \in DOMAIN p.rd |->
         IF l.modes[SideOf(l, r)].bypass THEN Fixed(own.en[beside(r)], own.data[beside(r)])
         ELSE IF \E e \in em : e[1] = r
         THEN Fixed([k \in DOMAIN g.en[emulates(r)] |-> g.en[emulates(r)][k] /\ hit(r)], g.data[emulates(r)])
         ELSE IF r \in by THEN g.fix[beside(r)] ELSE None]
PinWord(p, l, s, T) ==
  LET q == PortOf(p, l.sides[s])
  IN  Num(log2[depth(l.widths[s])], LAMBDA i : LET t == log2[q.factor] + i IN IF t < l.abits THEN Val(Address(q.addr, t), T) ELSE 0)
\* The enable pin: the read's, with its reset where that is not under it.
EnablePin(p, l, x, s, T) ==
  LET r == l.sides[s].rd
  IN  IF r = 0 \/ (IF r = 0 THEN TRUE ELSE ~x[r].hw_en) THEN TRUE
      ELSE On(p.rd[r].en, T) \/ (x[r].hw_srst /\ ~p.rd[r].ce /\ p.rd[r].srst \in T)

-----------------------------------------------------------------------------
(* The blocks (sim.v).                                                     *)

\* What port s writes: places with their bits.
write(m, p, l, s, g, T) ==
  LET w == l.sides[s].wr
      row == RowOf(p, l, s, T)
  IN  IF w = 0 \/ ~in_range(p, l, s, T) \/ row >= l.rows THEN {}
      ELSE {<<Place(l, s, row, PinWord(p, l, s, T), y[1], y[2]), g.data[w][BitAt(l, m.width, y[1], y[2]) + 1]>> :
              y \in {z \in Held(m, l, s) : g.en[w][BitAt(l, m.width, z[1], z[2]) + 1]}}
clashes(l, s) == l.modes[3 - s].mode # "read_first"
read(m, p, l, s, writes, T, no_change) ==
  LET word == PinWord(p, l, s, T)
      of(i) == CHOOSE y \in Held(m, l, s) : BitAt(l, m.width, y[1], y[2]) = i
      bit(row, i) == LET pl == Place(l, s, row, word, of(i)[1], of(i)[2])
                         own == At(writes[s], pl)
                         other == At(writes[3 - s], pl)
                     IN  IF no_change /\ \E y \in writes[s] : y[1][1] = row /\ y[1][2] = of(i)[1] THEN hw.dout[s][row][i]
                         ELSE IF other # {} /\ (clashes(l, s) \/ own # {}) THEN X
                         ELSE IF own # {} /\ l.modes[s].mode = "write_first" THEN OneOf(own) ELSE hw.mem[pl]
  IN  [row \in Bits(l.rows) |-> [i \in Bits(m.width * PortOf(p, l.sides[s]).factor) |-> bit(row, i)]]
Latch(m, p, l, x, s, writes, T) ==
  LET r == l.sides[s].rd
  IN  IF ~EnablePin(p, l, x, s, T) THEN hw.dout[s]
      ELSE IF x[r].hw_srst /\ p.rd[r].srst \in T
      THEN [row \in Bits(l.rows) |-> [k \in Bits(WidthOf(m, p, r)) |-> Srval(p, x, r)[k + 1]]]
      ELSE read(m, p, l, s, writes, T, x[r].no_change)
reg_next(m, p, l, x, c, T, r) ==
  LET abs == x[r].outreg
      s == SideOf(l, r)
      ce == On(abs.en, T)
  IN  IF abs = None THEN None
      ELSE IF abs.clk # c THEN hw.oreg[r]
      ELSE IF abs.rst \in T /\ (abs.first \/ ce)
      THEN [row \in Bits(l.rows) |-> [k \in Bits(WidthOf(m, p, r)) |-> Srval(p, x, r)[k + 1]]]
      ELSE IF ce THEN hw.dout[s] ELSE hw.oreg[r]

-----------------------------------------------------------------------------
(* Read data, from the blocks on.                                          *)

Soft(start) == [sel |-> 0, sel2 |-> 0, flag |-> Zeros(Len(start)), dq |-> Zeros(Len(start)), en_q |-> 0,
                hold |-> [k \in Bits(Len(start)) |-> start[k + 1]], f |-> 0]
Holds(p, x, r) == ~x[r].hw_en /\ ~x[r].no_change /\ p.rd[r].en # {}
Muxed(l, x, r) ==
  LET q == hw.soft[r]
      rows == IF x[r].outreg # None THEN hw.oreg[r] ELSE hw.dout[SideOf(l, r)]
      row == IF x[r].outreg # None THEN q.sel2 ELSE q.sel
      data == IF l.rows = 1 THEN rows[0] ELSE IF row \in DOMAIN rows THEN rows[row] ELSE [k \in DOMAIN rows[0] |-> X]
  IN  [k \in DOMAIN data |-> IF q.flag[k] = 1 THEN q.dq[k] ELSE data[k]]
Kept(p, l, x, r) == IF Holds(p, x, r) /\ hw.soft[r].en_q = 0 THEN hw.soft[r].hold ELSE Muxed(l, x, r)
Data(m, p, l, x, r) ==
  IF p.rd[r].srst # "0" /\ ~x[r].hw_srst /\ hw.soft[r].f = 1 THEN [k \in Bits(WidthOf(m, p, r)) |-> p.rd[r].value[k + 1]]
  ELSE Kept(p, l, x, r)
NextSoft(m, p, l, x, c, T, fix, r) ==
  LET q == hw.soft[r]
      rd == p.rd[r]
      abs == x[r].outreg
      edge == rd.clk = c
      go == edge /\ (x[r].hw_en => On(rd.en, T))
      bit(b) == IF b THEN 1 ELSE 0
      en == On(rd.en, T)
      f == IF rd.ce THEN IF en THEN Val(rd.srst, T) ELSE q.f ELSE IF rd.srst \in T \/ (~en /\ q.f = 1) THEN 1 ELSE 0
      n == WidthOf(m, p, r)
  IN  [sel |-> IF go THEN RowOf(p, l, SideOf(l, r), T) ELSE q.sel,
       sel2 |-> IF edge /\ abs # None /\ (abs = None \/ On(abs.en, T)) THEN q.sel ELSE q.sel2,
       flag |-> IF go /\ fix[r] # None THEN [k \in Bits(n) |-> bit(fix[r].flags[k + 1])] ELSE q.flag,
       dq |-> IF go /\ fix[r] # None THEN [k \in Bits(n) |-> fix[r].want[k + 1]] ELSE q.dq,
       en_q |-> IF edge THEN bit(en) ELSE q.en_q,
       hold |-> IF edge /\ Holds(p, x, r) THEN Kept(p, l, x, r) ELSE q.hold,
       f |-> IF edge THEN f ELSE q.f]

-----------------------------------------------------------------------------
(* Two reads that the code gets otherwise, in terms of the memory.         *)

\* One that sees a write by logic, with its reset in the block: the logic is not
\* reset (bram.rs:1297, :1804-1818).
Unreset(m, p, l, x, r) == x[r].hw_srst /\ r \in Bypassed(m, p, l)
\* One held by NO_CHANGE where its port writes, in some block or beyond them
\* all: the blocks it does not write read on (bram.rs:21-22, :1781-1795).
Strays(p, l, x, r) == x[r].no_change /\ (l.rows > 1 \/ Len(p.rd[r].addr) > l.abits)

\* Of the writes of a bit those whose data the logic gives the read.
ByLogic(m, p, l, r, W) ==
  LET s == SideOf(l, r)
      own == IF l.sides[s].wr = 0 THEN {} ELSE W \cap ToSet(p.wr[l.sides[s].wr].ids)
      cross == UNION {W \cap ToSet(p.wr[e[2]].ids) : e \in {x \in EmulatedReads(p, l.sides) : x[1] = r}}
  IN  IF l.modes[s].bypass THEN own
      ELSE IF \E e \in EmulatedReads(p, l.sides) : e[1] = r THEN cross
      ELSE IF W # own THEN own ELSE {}
\* The data, of the read's last enabled edge.
NextAside(m, p, l, c, T, r) ==
  IF p.rd[r].clk # c \/ ~On(p.rd[r].en, T) THEN rtl.other[r]
  ELSE [b \in Bits(WidthOf(m, p, r)) |->
          LET word == Word(m.rd[p.rd[r].ids[(b \div m.width) + 1]].addr, T)
              W == Writers(m, c, T, word, b % m.width)
              L == ByLogic(m, p, l, r, W)
          IN  IF L = {} THEN None ELSE Written(m, c, T, word, b % m.width, L, None)]

\* Bit k of a word of the memory as it is mapped.
Stored(m, word, k) ==
  IF word >= m.size THEN X
  ELSE IF m.width = mem.width THEN rtl.mem[word][k] ELSE rtl.mem[word \div 2][(word % 2) * m.width + k]
\* What each row of blocks last read, the row last addressed, and whether the
\* read was reset since.
NextRows(m, p, l, c, T, r) ==
  LET s == SideOf(l, r)
      rd == p.rd[r]
      en == On(rd.en, T)
      writes(row) == On(p.wr[l.sides[s].wr].en[1], T) /\ in_range(p, l, s, T) /\ RowOf(p, l, s, T) = row
      word(row, i) == LET n == First({l.abits, l.block_bits})
                      IN  row * 2^n + Num(n, LAMBDA t : Val(Address(m.rd[i].addr, t), T))
  IN  IF rd.clk # c THEN rtl.other[r]
      ELSE [rows |-> [row \in Bits(l.rows) |->
                        IF writes(row) THEN rtl.other[r].rows[row]
                        ELSE [b \in Bits(WidthOf(m, p, r)) |-> Stored(m, word(row, rd.ids[(b \div m.width) + 1]), b % m.width)]],
            row |-> RowOf(p, l, s, T),
            reset |-> IF rd.srst \in T /\ (rd.ce => en) THEN TRUE ELSE ~en /\ rtl.other[r].reset]

Other(m, p, l, x, c, T, r) ==
  IF Unreset(m, p, l, x, r) THEN NextAside(m, p, l, c, T, r)
  ELSE IF Strays(p, l, x, r) THEN NextRows(m, p, l, c, T, r) ELSE None
OtherStart(m, p, l, x, r) ==
  LET n == Bits(WidthOf(m, p, r))
  IN  IF Unreset(m, p, l, x, r) THEN [b \in n |-> None]
      ELSE IF Strays(p, l, x, r)
      THEN [rows |-> [row \in Bits(l.rows) |-> [b \in n |-> p.rd[r].start[b + 1]]], row |-> 0, reset |-> FALSE]
      ELSE None

\* Bit b of the read of port r: the memory's, but for those two.
Read(r, b) ==
  LET m == plan.m
      i == plan.p.rd[r].ids[(b \div m.width) + 1]
      k == b % m.width
      plain == IF m.width = mem.width THEN rtl.read[i][k] ELSE rtl.read[1][(i - 1) * m.width + k]
      o == rtl.other[r]
  IN  IF o = None THEN plain
      ELSE IF Unreset(m, plan.p, plan.l, plan.x, r) THEN (IF o[b] = None THEN plain ELSE o[b])
      ELSE IF o.reset THEN plain ELSE IF o.row \in DOMAIN o.rows THEN o.rows[o.row][b] ELSE X
ReadOf(i) ==
  [k \in Bits(mem.width) |->
     LET half == plan.m.width
         id == IF half = mem.width THEN i ELSE (k \div half) + 1
         r == CHOOSE q \in DOMAIN plan.p.rd : id \in ToSet(plan.p.rd[q].ids)
         sub == CHOOSE n \in DOMAIN plan.p.rd[r].ids : plan.p.rd[r].ids[n] = id
     IN  Read(r, (sub - 1) * half + (k % half))]

\* A register after a read of the memory.
NextReg(c, T, i) ==
  LET g == mem.rd[i].reg
      ce == On(g.en, T)
  IN  IF g = None THEN None
      ELSE IF g.clk # c THEN rtl.reg[i]
      ELSE IF g.rst \in T /\ (g.first \/ ce) THEN [k \in Bits(mem.width) |-> g.value[k + 1]]
      ELSE IF ce THEN ReadOf(i) ELSE rtl.reg[i]

-----------------------------------------------------------------------------
Init == mem \in Memories /\ at = [phase |-> "map", edges |-> 0] /\ plan = None /\ rtl = None /\ hw = None

StartRtl(m, p, l, x) ==
  [other |-> [r \in DOMAIN p.rd |-> OtherStart(m, p, l, x, r)],
   mem |-> [w \in Bits(mem.size) |-> [k \in Bits(mem.width) |-> mem.init[w + 1][k + 1]]],
   read |-> [i \in DOMAIN mem.rd |-> [k \in Bits(mem.width) |-> mem.rd[i].start[k + 1]]],
   reg |-> [i \in DOMAIN mem.rd |-> LET g == mem.rd[i].reg IN IF g = None THEN None ELSE [k \in Bits(mem.width) |-> g.start[k + 1]]]]
StartHw(m, p, l, x) ==
  LET power(r) == [row \in Bits(l.rows) |-> [k \in Bits(WidthOf(m, p, r)) |-> PowerUp(p, x, r)[k + 1]]]
      word(q) == IF l.abits >= l.block_bits THEN q[1] * depth(l.base) + q[3] ELSE q[3]
  IN  [mem |-> [q \in Places(m, l) |-> IF word(q) < m.size /\ m.init[word(q) + 1][q[2] * l.slice + q[4] + 1] = 1 THEN 1 ELSE 0],
       dout |-> [s \in {t \in 1 .. 2 : l.sides[t].rd # 0} |-> power(l.sides[s].rd)],
       oreg |-> [r \in DOMAIN p.rd |-> IF x[r].outreg = None THEN None ELSE power(r)],
       soft |-> [r \in DOMAIN p.rd |-> Soft(p.rd[r].start)]]

Start ==
  /\ at.phase = "map" /\ ~mem.logic /\ per_read_port(mem) = {}
  /\ \E y \in Cheapest(Ways(mem, Settled)) :
       LET x == [r \in DOMAIN y.p.rd |-> realize(y.m, y.p, y.l, r)]
       IN  plan' = [m |-> y.m, p |-> y.p, l |-> y.l, x |-> x] /\ rtl' = StartRtl(y.m, y.p, y.l, x) /\ hw' = StartHw(y.m, y.p, y.l, x)
  /\ at' = [at EXCEPT !.phase = "run"]
  /\ UNCHANGED mem

\* A memory no block takes is copied if its copies fit, or stays.
Copy == at.phase = "map" /\ ~mem.logic /\ mem' \in per_read_port(mem) /\ UNCHANGED <<at, plan, rtl, hw>>
Keep ==
  /\ at.phase = "map"
  /\ mem.logic \/ (per_read_port(mem) = {} /\ Ways(mem, Settled) = {})
  /\ at' = [at EXCEPT !.phase = "kept"]
  /\ UNCHANGED <<mem, plan, rtl, hw>>

\* An edge of clock c while the signals S are 1.
Edge ==
  /\ at.phase = "run" /\ at.edges < STEPS
  /\ \E c \in mem.clocks, S \in SUBSET mem.signals :
       LET T == High(mem, S)
           m == plan.m
           p == plan.p
           l == plan.l
           x == plan.x
           clocked(s) == Used(l.sides[s]) /\ PortOf(p, l.sides[s]).clk = c
       IN  \E g \in {Collide(m, p, l, T)} :
           \E fix \in {Fixes(m, p, l, g, T)},
              writes \in {[s \in 1 .. 2 |-> IF clocked(s) /\ EnablePin(p, l, x, s, T) THEN write(m, p, l, s, g, T) ELSE {}]} :
           /\ rtl' = [mem |-> [w \in Bits(mem.size) |-> [k \in Bits(mem.width) |->
                                 Written(mem, c, T, w, k, Writers(mem, c, T, w, k), rtl.mem[w][k])]],
                      read |-> [i \in DOMAIN mem.rd |-> NextRead(mem, c, T, i, rtl)],
                      reg |-> [i \in DOMAIN mem.rd |-> NextReg(c, T, i)],
                      other |-> [r \in DOMAIN p.rd |-> Other(m, p, l, x, c, T, r)]]
           /\ hw' = [mem |-> [q \in DOMAIN hw.mem |-> Left(writes, q, hw.mem[q])],
                     dout |-> [s \in DOMAIN hw.dout |-> IF clocked(s) THEN Latch(m, p, l, x, s, writes, T) ELSE hw.dout[s]],
                     oreg |-> [r \in DOMAIN p.rd |-> reg_next(m, p, l, x, c, T, r)],
                     soft |-> [r \in DOMAIN p.rd |-> NextSoft(m, p, l, x, c, T, fix, r)]]
  /\ at' = [at EXCEPT !.edges = @ + 1]
  /\ UNCHANGED <<mem, plan>>

Next == Start \/ Copy \/ Keep \/ Edge

Spec == Init /\ [][Next]_bram

-----------------------------------------------------------------------------
\* Whenever the memory has a read bit that is known, the blocks and the logic
\* around them give it: read as written or overwritten on the same edge, held,
\* reset, or still as it powered up.  Two reads are not the memory's, and are
\* exactly this: one that sees a write by logic and is reset in the block shows
\* that write's data through the reset, until its next enabled edge
\* (bram.rs:1297, :1804-1818); one that is held while its port writes shows what
\* the row of blocks at the write's address last read (bram.rs:21-22,
\* :1781-1795).
ReadsSame ==
  at.phase = "run" =>
    \A r \in DOMAIN plan.p.rd :
      LET data == Data(plan.m, plan.p, plan.l, plan.x, r)
          half == plan.m.width
          cut == half # mem.width
          reg == plan.x[r].outreg # None
      IN  \A sub \in DOMAIN plan.p.rd[r].ids, k \in Bits(half) :
            LET i == plan.p.rd[r].ids[sub]
                b == (sub - 1) * half + k
                bit == IF ~reg THEN Read(r, b)
                       ELSE IF cut THEN rtl.reg[1][(i - 1) * half + k] ELSE rtl.reg[i][k]
            IN  bit = X \/ data[b] = bit

\* Every bit of every word has its place in a block, and is there what the memory
\* holds, whichever port wrote it last and however the word is cut.
WordsKept ==
  at.phase = "run" =>
    LET l == plan.l
        half == plan.m.width
        place(w, k) == {q \in Places(plan.m, l) : q[1] * (IF l.rows = 1 THEN 0 ELSE depth(l.base)) + q[3] = w /\ q[2] * l.slice + q[4] = k}
    IN  \A w \in Bits(mem.size), k \in Bits(mem.width) :
          LET here == IF half # mem.width THEN place(2 * w + (k \div half), k % half) ELSE place(w, k)
          IN  here # {} /\ \A q \in here : rtl.mem[w][k] \in {X, hw.mem[q]}
=============================================================================
