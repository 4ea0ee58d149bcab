------------------------------ MODULE MemPorts ------------------------------
(***************************************************************************)
(* What the mappings of memories onto the blocks of either family share:   *)
(* their ports widened, how two ports of a block meet, the logic where two *)
(* writes or a write and a read do, and the memory itself.                 *)
(*                                                                         *)
(* A bit is 0, 1 or X; a signal is a name, "0" or "1"; an enable a set of  *)
(* signals that must all be 1, {} always.  Signal "ne" is 1 while a pair   *)
(* of m.differs differs, "!w" while "w" is 0.  A block's byte is BYTE      *)
(* columns, its words of a byte BLOCK \div BYTE.                           *)
(***************************************************************************)
EXTENDS FiniteSets, Integers, Sequences, SequencesExt

CONSTANTS None, BYTE, BLOCK

X == 2
Off == {"0"}
WIDTHS == {BYTE, 2 * BYTE, 4 * BYTE}
depth(w) == BLOCK \div w
log2[n \in 1 .. BLOCK] == IF n = 1 THEN 0 ELSE 1 + log2[n \div 2]
CeilDiv(a, b) == (a + b - 1) \div b
First(S) == CHOOSE x \in S : \A y \in S : x <= y
Bits(n) == 0 .. n - 1
Address(a, t) == IF t < Len(a) THEN a[t + 1] ELSE "0"
AddressBits(m) == First({n \in 1 .. 8 : 2^n >= m.size})

-----------------------------------------------------------------------------
(* Ports.                                                                  *)

\* Writes of different bits of one word on one clock: one port.
ByteWrites(m) ==
  FoldLeft(LAMBDA merged, i :
      LET w == m.wr[i]
          into == {j \in DOMAIN merged :
                     /\ merged[j].clk = w.clk /\ merged[j].addr = w.addr
                     /\ \A k \in DOMAIN w.en : merged[j].en[k] = Off \/ w.en[k] = Off}
          j == First(into)
          Taken(old, new) == [k \in DOMAIN old |-> IF w.en[k] # Off THEN new[k] ELSE old[k]]
      IN  IF into = {}
          THEN Append(merged, [clk |-> w.clk, addr |-> w.addr, factor |-> 1, data |-> w.data, en |-> w.en, ids |-> <<i>>])
          ELSE [merged EXCEPT ![j].en = Taken(@, w.en), ![j].data = Taken(@, w.data), ![j].ids = Append(@, i)],
    <<>>, [i \in DOMAIN m.wr |-> i])

\* Ports that are the halves of one twice as wide become it, until none are.
Halves(ps, Compatible(_, _)) ==
  {<<i, j>> \in (DOMAIN ps) \X (DOMAIN ps) :
     LET a == ps[i].addr
         b == ps[j].addr
         lg == log2[ps[i].factor]
     IN  /\ i # j /\ ps[i].factor = ps[j].factor /\ Compatible(ps[i], ps[j])
         /\ Len(a) = Len(b) /\ lg < Len(a)
         /\ a[lg + 1] = "0" /\ b[lg + 1] = "1"
         /\ \A k \in DOMAIN a : k = lg + 1 \/ a[k] = b[k]}
FirstPair(P) == CHOOSE p \in P : \A q \in P : p[1] < q[1] \/ (p[1] = q[1] /\ p[2] <= q[2])
widen(ps, Compatible(_, _), Merge(_, _)) ==
  FoldLeft(LAMBDA now, n :
      LET P == Halves(now, Compatible)
          p == FirstPair(P)
          lo == First({p[1], p[2]})
          hi == p[1] + p[2] - lo
      IN  IF P = {} THEN now
          ELSE SubSeq(now, 1, lo - 1) \o <<Merge(now[p[1]], now[p[2]])>>
               \o SubSeq(now, lo + 1, hi - 1) \o SubSeq(now, hi + 1, Len(now)),
    ps, ps)

SameClock(p, q) == p.clk = q.clk
WholeWrite(p, q) == [p EXCEPT !.factor = 2 * @, !.data = @ \o q.data, !.en = @ \o q.en, !.ids = @ \o q.ids]
SameRead(p, q) ==
  /\ p.clk = q.clk /\ p.en = q.en /\ p.srst = q.srst /\ p.ce = q.ce
  /\ p.transparent = q.transparent /\ p.collision_x = q.collision_x
WholeRead(p, q) == [p EXCEPT !.factor = 2 * @, !.value = @ \o q.value, !.ids = @ \o q.ids]

\* What a read is towards each write of a widened port that can meet it: alike,
\* or the blocks cannot take the memory.
NeverMeet(a, b) == \E k \in DOMAIN a \cap DOMAIN b : {a[k], b[k]} = {"0", "1"}
Meets(m, w, r) == {i \in ToSet(w.ids) : ~NeverMeet(m.wr[i].addr, r.addr)}
Towards(m, wr, r, flags) == {w \in DOMAIN wr : Meets(m, wr[w], r) \cap flags # {}}
Alike(m, wr, r, flags) == \A w \in DOMAIN wr : Meets(m, wr[w], r) \cap flags \in {{}, Meets(m, wr[w], r)}

\* Whether the two write ports can never write one word on one edge.
Disjoint(m, wr) ==
  /\ Len(wr) = 2
  /\ LET lg == log2[IF wr[1].factor > wr[2].factor THEN wr[1].factor ELSE wr[2].factor]
         top == IF Len(wr[1].addr) > Len(wr[2].addr) THEN Len(wr[1].addr) ELSE Len(wr[2].addr)
         pairs == {<<Address(wr[1].addr, t), Address(wr[2].addr, t)>> : t \in lg .. top - 1}
         differ == \A p \in m.differs : p \in pairs \/ <<p[2], p[1]>> \in pairs
     IN  \E i \in 1 .. 2 : \A k \in DOMAIN wr[i].en :
           "0" \in wr[i].en[k] \/ ("ne" \in wr[i].en[k] /\ differ)

-----------------------------------------------------------------------------
(* How ports meet.                                                         *)

partial(w) == \E k \in DOMAIN w.en : w.en[k] # w.en[1]
\* A read that has to see a write of the same edge.
SeesNew(p, r, w) == w \in p.rd[r].transparent /\ w \notin p.rd[r].collision_x
CrossPortEmulated(p, r, w) ==
  /\ p.rd[r].clk = p.wr[w].clk /\ p.rd[r].factor = p.wr[w].factor /\ Len(p.rd[r].addr) = Len(p.wr[w].addr)
Paired(p, w, r) == p.wr[w].addr = p.rd[r].addr /\ p.wr[w].clk = p.rd[r].clk /\ p.wr[w].factor = p.rd[r].factor

Use(w, r) == [wr |-> w, rd |-> r]
\* Each of two writes with the read at its address.
TwoWrites(p, ReadOk(_, _)) ==
  LET n == Len(p.rd)
      first(r) == IF Paired(p, 1, r) THEN 1 ELSE 2
      second == IF n = 2 /\ first(1) = first(2) THEN 3 - first(1) ELSE IF n = 2 THEN first(2) ELSE 0
      of(w) == IF n >= 1 /\ first(1) = w THEN 1 ELSE IF n = 2 /\ second = w THEN 2 ELSE 0
  IN  IF n <= 2 /\ (\A w \in 1 .. 2 : of(w) = 0 \/ ReadOk(w, of(w))) THEN {<<Use(1, of(1)), Use(2, of(2))>>} ELSE {}

PortOf(p, u) == IF u.wr # 0 THEN p.wr[u.wr] ELSE p.rd[u.rd]
Used(u) == u.wr # 0 \/ u.rd # 0

\* Both block ports writing one word on one edge: None if they never do.
collision(m, p, sides) ==
  IF sides[1].wr = 0 \/ sides[2].wr = 0 \/ p.disjoint THEN None
  ELSE LET first == p.wr[sides[2].wr].ids[1] \in m.wr[p.wr[sides[1].wr].ids[1]].over
           hi == IF first THEN sides[1].wr ELSE sides[2].wr
           lo == IF first THEN sides[2].wr ELSE sides[1].wr
           fh == p.wr[hi].factor
           fl == p.wr[lo].factor
       IN  CASE fl <= fh /\ ~partial(p.wr[hi]) -> [hi |-> hi, lo |-> lo, how |-> "mask"]
             [] fh < fl /\ ~partial(p.wr[lo]) -> [hi |-> hi, lo |-> lo, how |-> "redirect"]
             [] OTHER -> [hi |-> hi, lo |-> lo, how |-> "none"]
Resolved(c) == c = None \/ c.how # "none"

\* The reads that must see the other port's write, with it; and those that a
\* resolved collision changes.
EmulatedReads(p, sides) ==
  {<<sides[s].rd, sides[3 - s].wr>> :
     s \in {t \in 1 .. 2 : sides[t].rd # 0 /\ sides[3 - t].wr # 0 /\ SeesNew(p, sides[t].rd, sides[3 - t].wr)}}
\* Wrong on purpose: a write that gives way to a wider one is forgotten.
BypassedLoser(p, sides, c) ==
  LET changed == IF c = None THEN {} ELSE {c.lo}
  IN  {sides[s].rd : s \in {t \in 1 .. 2 : /\ sides[t].wr \in changed /\ sides[t].rd # 0
                                           /\ SeesNew(p, sides[t].rd, sides[t].wr)}}
BypassedReads(p, sides, c) ==
  LET changed == IF c = None THEN {} ELSE IF c.how = "mask" THEN {c.lo} ELSE {c.lo, c.hi}
  IN  {sides[s].rd : s \in {t \in 1 .. 2 : /\ sides[t].wr \in changed /\ sides[t].rd # 0
                                           /\ SeesNew(p, sides[t].rd, sides[t].wr)}}

-----------------------------------------------------------------------------
(* What is true at an edge: T, the signals that are 1.                     *)

High(m, S) ==
  S \cup {"1"} \cup {x \in {"!w"} : "w" \notin S}
  \cup {x \in {"ne"} : \E p \in m.differs : (p[1] \in S \cup {"1"}) # (p[2] \in S \cup {"1"})}
Val(b, T) == IF b \in T THEN 1 ELSE 0
On(en, T) == en \subseteq T
Num(n, B(_)) == FoldLeft(LAMBDA acc, i : acc + B(i - 1) * 2^(i - 1), 0, [i \in 1 .. n |-> i])
Word(a, T) == Num(Len(a), LAMBDA t : Val(a[t + 1], T))

\* The memory: of the writes of a bit the one with priority over the others is
\* left; a read gets the old data but of the writes it is transparent to.
Winner(m, W) == CHOOSE i \in W : W \ {i} \subseteq m.wr[i].over
Writers(m, c, T, word, k) ==
  {i \in DOMAIN m.wr : m.wr[i].clk = c /\ Word(m.wr[i].addr, T) = word /\ On(m.wr[i].en[k + 1], T)}
Written(m, c, T, word, k, W, old) == IF W = {} THEN old ELSE Val(m.wr[Winner(m, W)].data[k + 1], T)
ReadBit(m, c, T, r, k, stored) ==
  LET word == Word(r.addr, T)
      W == Writers(m, c, T, word, k)
  IN  IF word >= m.size \/ W \cap r.collision_x # {} THEN X
      ELSE Written(m, c, T, word, k, W \cap r.transparent, stored[word][k])
NextRead(m, c, T, i, now) ==
  LET r == m.rd[i]
  IN  CASE r.clk # c -> now.read[i]
        [] r.clk = c /\ r.srst \in T /\ (r.ce => On(r.en, T)) -> [k \in Bits(m.width) |-> r.value[k + 1]]
        [] r.clk = c /\ (r.srst \notin T \/ (r.ce /\ ~On(r.en, T))) /\ On(r.en, T) -> [k \in Bits(m.width) |-> ReadBit(m, c, T, r, k, now.mem)]
        [] OTHER -> now.read[i]

-----------------------------------------------------------------------------
(* Where the bits of a port's words are.                                   *)

\* The bit of a port's word that bit k of a block in column col is, or -1.
BitAt(l, w, col, k) ==
  LET bit == col * l.slice + (k % l.slice)
  IN  IF bit < w THEN (k \div l.slice) * w + bit ELSE -1
DataBits(l, s) == (l.widths[s] \div l.base) * l.slice
Ratio(l, s) == l.widths[s] \div l.base
Place(l, s, row, word, col, k) == <<row, col, word * Ratio(l, s) + (k \div l.slice), k % l.slice>>
\* The bits of the port's word with the columns they are in.
Held(m, l, s) == {<<col, k>> \in Bits(l.cols) \X Bits(DataBits(l, s)) : BitAt(l, m.width, col, k) # -1}
RowOf(p, l, s, T) == IF l.rows = 1 THEN 0
                     ELSE Num(l.abits - l.block_bits, LAMBDA i : Val(Address(PortOf(p, l.sides[s]).addr, l.block_bits + i), T))
in_range(p, l, s, T) == \A t \in l.abits .. Len(PortOf(p, l.sides[s]).addr) - 1 : Address(PortOf(p, l.sides[s]).addr, t) \notin T
Places(m, l) == {<<row, col, bw, b>> \in Bits(l.rows) \X Bits(l.cols) \X Bits(depth(l.base)) \X Bits(l.slice) :
                   col * l.slice + b < m.width}
SideOf(l, r) == CHOOSE s \in 1 .. 2 : l.sides[s].rd = r
WidthOf(m, p, r) == m.width * p.rd[r].factor

-----------------------------------------------------------------------------
(* The logic around the blocks.                                            *)

\* The writes as the blocks get them: enables and data by port, and for a read
\* the bits the block gets wrong with what is read there instead.
OneWord(a, b, from, T) ==
  \A t \in from .. (IF Len(a) > Len(b) THEN Len(a) ELSE Len(b)) - 1 : Val(Address(a, t), T) = Val(Address(b, t), T)
Fixed(flags, want) == [flags |-> flags, want |-> want]
Given(p, T) ==
  [en |-> [w \in DOMAIN p.wr |-> [k \in DOMAIN p.wr[w].en |-> On(p.wr[w].en[k], T)]],
   data |-> [w \in DOMAIN p.wr |-> [k \in DOMAIN p.wr[w].data |-> Val(p.wr[w].data[k], T)]],
   fix |-> [w \in DOMAIN p.wr |-> None]]

\* Both write one word: the loser masked, or the wider one's bytes redirected.
Clash(p, c, g, T) ==
  IF c.how = "mask" THEN g.en[c.hi][1] /\ OneWord(p.wr[c.hi].addr, p.wr[c.lo].addr, log2[p.wr[c.hi].factor], T)
  ELSE g.en[c.lo][1] /\ OneWord(p.wr[c.hi].addr, p.wr[c.lo].addr, log2[p.wr[c.lo].factor], T)
Mask(g, w, clash) ==
  [g EXCEPT !.en[w] = [k \in DOMAIN @ |-> @[k] /\ ~clash],
            !.fix[w] = Fixed([k \in DOMAIN g.en[w] |-> g.en[w][k] /\ clash], g.data[w])]
From(m, h, k) == (((k - 1) \div m.width) % h.factor) * m.width + ((k - 1) % m.width) + 1
Within(h, o, T) == Num(log2[o.factor] - log2[h.factor], LAMBDA t : Val(Address(h.addr, log2[h.factor] + t), T))
Overwrites(m, g, c, h, o, here, clash) ==
  [k \in DOMAIN o.en |-> clash /\ here = ((k - 1) \div m.width) \div h.factor /\ g.en[c.hi][From(m, h, k)]]
Redirected(m, g, c, h, taken, masked) ==
  [masked EXCEPT !.data[c.lo] = [k \in DOMAIN @ |-> IF taken[k] THEN g.data[c.hi][From(m, h, k)] ELSE @[k]],
                 !.fix[c.lo] = Fixed(taken, g.data[c.lo])]
Resolve(m, p, c, g, clash, T) ==
  CASE c.how = "mask" -> Mask(g, c.lo, clash)
    [] c.how = "redirect" ->
         Redirected(m, g, c, p.wr[c.hi],
                    Overwrites(m, g, c, p.wr[c.hi], p.wr[c.lo], Within(p.wr[c.hi], p.wr[c.lo], T), clash),
                    Mask(g, c.hi, clash))
CollideAs(m, p, c, g, T) == IF c = None THEN g ELSE Resolve(m, p, c, g, Clash(p, c, g, T), T)
Collide(m, p, l, T) == CollideAs(m, p, collision(m, p, l.sides), Given(p, T), T)
At(writes, place) == {x[2] : x \in {y \in writes : y[1] = place}}
OneOf(bits) == IF Cardinality(bits) = 1 THEN CHOOSE b \in bits : TRUE ELSE X
\* A place after the writes: what the one of them left, X what both did.
Left(writes, q, old) ==
  LET new == At(writes[1] \cup writes[2], q)
  IN  IF new = {} THEN old ELSE IF At(writes[1], q) # {} /\ At(writes[2], q) # {} THEN X ELSE OneOf(new)
Zeros(n) == [k \in Bits(n) |-> 0]
=============================================================================
