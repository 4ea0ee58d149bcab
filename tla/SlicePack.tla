----------------------------- MODULE SlicePack ------------------------------
(***************************************************************************)
(* The 7-series' packer (xc7 pack.rs): primitives become the cells the     *)
(* placer moves.  Constants are two nets, an enable tied on and a reset    *)
(* tied off no connection; every carry bit gets a LUT of its own; a RAM32M *)
(* is one RAMD32 a bit; LUTs that fit five pins together share a LUT6.     *)
(* What is packed then runs beside what was given.                         *)
(*                                                                         *)
(* A bit is a net, "0", "1" or "x"; pins are <<name, index>>; a LUT's INIT *)
(* is the set of its inputs' values it is 1 at.  A design is               *)
(* [cells, inputs, ports, pins]: pad nets to ports, ports to pins.         *)
(***************************************************************************)
EXTENDS Integers, Sequences, FiniteSets, SequencesExt, FiniteSetsExt, TLC

CONSTANTS
  None,
  Designs,
  Sites,         \* the package's pins, each with its IOB site
  PAIR_INPUTS,   \* nets two LUTs of one LUT6 have between them (5)
  PAIR_SHARED    \* of which they share at least so many (2)

VARIABLES
  design,
  phase,         \* cells, feed, pair, then what place.rs adds; failed
  at,            \* how far the phase is
  cells,         \* the packed cells
  pairs,         \* [l6, l5]
  sim            \* [was, now, saw, did]

-----------------------------------------------------------------------------
GND == "$gnd"
VCC == "$vcc"
Constant(b) == b \in {"0", "1", "x"}
Tied(n) == n \in {GND, VCC}
\* A signal as a net: constants on the constant nets, x as 0.
Sig(b) == IF b = "1" THEN VCC ELSE IF Constant(b) THEN GND ELSE b
Cell(name, kind, cs, pins, conf) == [name |-> name, kind |-> kind, cs |-> cs, pins |-> pins, conf |-> conf]
\* A pin that is there only if its signal is a net.
Out(pin, b) == IF b = None \/ Constant(b) THEN <<>> ELSE pin :> b
All(s, Pins(_, _)) == FoldLeft(LAMBDA f, i : f @@ Pins(i, s[i]), <<>>, [i \in DOMAIN s |-> i])

OUTPUTS ==
  [lut |-> {"O6", "O5"}, ram |-> {"O6", "O5"}, ff |-> {"Q"}, carry |-> {"O", "CO"}, pad |-> {"O"}, bufg |-> {"O"},
   cmt |-> {"CLKOUT", "CLKFBOUT", "LOCKED"}, bscan |-> {"TCK", "TDI", "SEL"}, ps7 |-> {}, dsp |-> {"P", "PCOUT"},
   gnd |-> {"G"}, vcc |-> {"P"}]
Drives(c, pin) == pin[1] \in OUTPUTS[c.kind]
PinAt(c, pin) == IF pin \in DOMAIN c.pins THEN c.pins[pin] ELSE None
Users(n) == {u \in UNION {{x} \X (DOMAIN cells[x].pins) : x \in DOMAIN cells} :
               cells[u[1]].pins[u[2]] = n /\ ~Drives(cells[u[1]], u[2])}
Drivers(n) == {u \in UNION {{x} \X (DOMAIN cells[x].pins) : x \in DOMAIN cells} :
                 cells[u[1]].pins[u[2]] = n /\ Drives(cells[u[1]], u[2])}

-----------------------------------------------------------------------------
\* Each primitive's cells.
Lut(c) ==
  <<Cell(c.name, "lut", None, All(c.in, LAMBDA i, b : <<"A", i>> :> Sig(b)) @@ Out(<<"O6", 0>>, c.o), c.init)>>
\* A CE tied 1 and an SR tied 0 are no connection.
Ff(c) ==
  LET ce == IF c.ce = "1" THEN None ELSE Sig(c.ce)
      sr == IF c.sr \in {"0", "x"} THEN None ELSE Sig(c.sr)
      on(pin, n) == IF n = None THEN <<>> ELSE pin :> n
  IN  <<Cell(c.name, "ff", [clk |-> c.clk, ce |-> ce, sr |-> sr, inv |-> c.neg, sync |-> c.sync],
             <<"CK", 0>> :> c.clk @@ on(<<"CE", 0>>, ce) @@ on(<<"SR", 0>>, sr) @@ <<"D", 0>> :> Sig(c.d)
             @@ Out(<<"Q", 0>>, c.q), [init |-> c.init, srval |-> c.set])>>
\* A chain's head takes a constant carry-in as PRECYINIT, a signal on CYINIT.
Carry(c) ==
  LET in == IF ~Constant(c.ci) THEN <<"CIN", 0>> :> c.ci
            ELSE IF Constant(c.cyinit) THEN <<>> ELSE <<"CYINIT", 0>> :> c.cyinit
  IN  <<Cell(c.name, "carry", None,
             in @@ All(c.s, LAMBDA k, b : <<"S", k>> :> Sig(b)) @@ All(c.di, LAMBDA k, b : <<"DI", k>> :> Sig(b))
             @@ All(c.o, LAMBDA k, b : Out(<<"O", k>>, b)) @@ All(c.co, LAMBDA k, b : Out(<<"CO", k>>, b)),
             IF Constant(c.ci) /\ Constant(c.cyinit) THEN (IF c.cyinit = "1" THEN 1 ELSE 0) ELSE None)>>
\* Memory k's bit h: out on O6 for bit 2, O5 for bit 1; the last memory's
\* address is everyone's write address.
Ram(c) ==
  LET one(k, h) ==
        Cell(<<c.name, k, h>>, "ram", None,
             All(c.addr[k], LAMBDA i, b : <<"A", i>> :> Sig(b)) @@ <<"DI", 0>> :> Sig(c.di[k][h])
             @@ All(c.addr[Len(c.addr)], LAMBDA i, b : <<"WA", i>> :> Sig(b)) @@ <<"WE", 0>> :> Sig(c.we)
             @@ <<"CLK", 0>> :> c.clk @@ Out(<<IF h = 2 THEN "O6" ELSE "O5", 0>>, c.do[k][h]),
             [init |-> [w \in DOMAIN c.init[k] |-> c.init[k][w][h]], neg |-> c.neg])
  IN  FlattenSeq([k \in DOMAIN c.addr |-> <<one(k, 2), one(k, 1)>>])
\* A pin buffer becomes the pin's IOB.
PadOf(c) == design.pins[design.ports[c.pad]]
Pad(c) ==
  <<Cell(c.name, "pad", None,
         (IF c.type = "ibuf" THEN <<>> ELSE <<"I", 0>> :> Sig(c.i))
         @@ (IF c.type \in {"obuft", "iobuf"} THEN <<"T", 0>> :> Sig(c.t) ELSE <<>>)
         @@ (IF c.type \in {"ibuf", "iobuf"} THEN Out(<<"O", 0>>, c.o) ELSE <<>>), Sites[PadOf(c)])>>
Bufg(c) == <<Cell(c.name, "bufg", None, <<"I0", 0>> :> Sig(c.i) @@ Out(<<"O", 0>>, c.o), None)>>
\* A block's pins: of a clock block, those wired; of a BSCANE2 TDO always.
Block(c, kind, ins) ==
  <<Cell(c.name, kind, None,
         [p \in ins |-> Sig(c.pins[p])] @@ [p \in {q \in DOMAIN c.pins : q[1] \in OUTPUTS[kind] /\ ~Constant(c.pins[q])} |-> c.pins[p]],
         c.conf)>>
Inputs(c, kind) == {p \in DOMAIN c.pins : p[1] \notin OUTPUTS[kind]}
Wired(c) == {p \in DOMAIN c.pins : ~Constant(c.pins[p])}

Packed(c) ==
  CASE c.is = "lut" -> Lut(c)
    [] c.is = "ff" -> Ff(c)
    [] c.is = "carry" -> Carry(c)
    [] c.is = "ram" -> Ram(c)
    [] c.is = "pad" -> Pad(c)
    [] c.is = "bufg" -> Bufg(c)
    [] c.is = "cmt" -> Block(c, "cmt", Inputs(c, "cmt") \cap Wired(c))
    [] c.is = "bscan" -> Block(c, "bscan", {p \in Inputs(c, "bscan") : p[1] = "TDO"})
    [] c.is = "dsp" -> Block(c, "dsp", Inputs(c, "dsp") \ c.idle)
    [] c.is = "ps7" -> <<Cell(c.name, "ps7", None, <<>>, None)>>
\* What is refused: no clock, a pad that reaches no pin, a clock block
\* without its clocks or held in reset, a PS7 in use.
Refused(c) ==
  CASE c.is \in {"ff", "ram"} -> Constant(c.clk)
    [] c.is = "pad" -> ~(/\ c.pad \in DOMAIN design.ports
                         /\ design.ports[c.pad] \in DOMAIN design.pins
                         /\ PadOf(c) \in DOMAIN Sites)
    [] c.is = "cmt" -> \/ \E p \in {"CLKIN1", "CLKFBIN", "CLKFBOUT"} : <<p, 0>> \notin Wired(c)
                       \/ \E p \in DOMAIN c.pins : p[1] = "RST" /\ c.pins[p] \in {"1", "x"}
    [] c.is = "ps7" -> \E p \in DOMAIN c.pins : c.pins[p] # "0"
    [] c.is = "unknown" -> TRUE
    [] OTHER -> FALSE

PackCell ==
  /\ phase = "cells" /\ at <= Len(design.cells) /\ ~Refused(design.cells[at])
  /\ cells' = cells \o Packed(design.cells[at]) /\ at' = at + 1
  /\ UNCHANGED <<design, phase, pairs, sim>>
Refuse ==
  /\ phase = "cells" /\ at <= Len(design.cells) /\ Refused(design.cells[at])
  /\ phase' = "failed"
  /\ UNCHANGED <<design, at, cells, pairs, sim>>

-----------------------------------------------------------------------------
\* feed_throughs: every carry's S is a LUT's O6, each LUT's once.
Of(kind) == {x \in DOMAIN cells : cells[x].kind = kind}
Bits == UNION {{<<x, p[2]>> : p \in {q \in DOMAIN cells[x].pins : q[1] = "S"}} : x \in Of("carry")}
Before(a, b) == a[1] < b[1] \/ (a[1] = b[1] /\ a[2] < b[2])
SBits == SetToSortSeq(Bits, Before)
SNet(b) == cells[b[1]].pins[<<"S", b[2]>>]
LutOf(n) == {x \in Of("lut") : PinAt(cells[x], <<"O6", 0>>) = n}
\* The LUTs earlier bits claimed: each bit now has one.
Claimed == UNION {LutOf(SNet(SBits[i])) : i \in 1..(at - 1)}
FeedThrough ==
  /\ phase = "feed" /\ at <= Len(SBits)
  /\ LET b == SBits[at]
         s == SNet(b)
         out == cells[b[1]].name \o "$s" \o ToString(b[2])
         lut == IF Tied(s) THEN Cell(out, "lut", None, <<"O6", 0>> :> out, IF s = VCC THEN {<<>>} ELSE {})
                ELSE Cell(out, "lut", None, <<"A", 1>> :> s @@ <<"O6", 0>> :> out, {<<1>>})
     IN  cells' = IF LutOf(s) \ Claimed # {} THEN cells
                  ELSE Append([x \in DOMAIN cells |->
                                 IF x = b[1] THEN [cells[x] EXCEPT !.pins = (<<"S", b[2]>> :> out) @@ cells[x].pins]
                                 ELSE cells[x]], lut)
  /\ at' = at + 1
  /\ UNCHANGED <<design, phase, pairs, sim>>

-----------------------------------------------------------------------------
\* pair_luts: two LUTs whose inputs together are at most five nets.
Ins(x) == [i \in 1..Cardinality({p \in DOMAIN cells[x].pins : p[1] = "A"}) |-> cells[x].pins[<<"A", i>>]]
Union(a, b) == a \o SelectSeq(b, LAMBDA n : n \notin Range(a))
OutOf(x) == PinAt(cells[x], <<"O6", 0>>)
Loads(x) == IF OutOf(x) = None THEN {} ELSE Users(OutOf(x))
Candidate(x) ==
  /\ cells[x].kind = "lut" /\ Ins(x) # <<>> /\ Len(Ins(x)) <= PAIR_INPUTS
  /\ \A n \in Range(Ins(x)) : ~Tied(n)
  /\ \A u \in Loads(x) : cells[u[1]].kind # "carry"
\* The register a LUT's BLE would take: the first its output is the D of.
ff_of(x) ==
  LET F == {u[1] : u \in {v \in Loads(x) : v[2][1] = "D" /\ cells[v[1]].kind = "ff"}}
  IN  IF F = {} THEN None ELSE Min(F)
\* Its output can leave over the letter's one MUX pin.
o5_ok(x) == ff_of(x) = None \/ Cardinality(Loads(x)) = 1
Pairable(a, b) ==
  LET u == Union(Ins(a), Ins(b))
  IN  /\ a # b /\ Range(Ins(a)) \cap Range(Ins(b)) # {} /\ Len(u) <= PAIR_INPUTS
      /\ Len(Ins(a)) + Len(Ins(b)) - Len(u) >= PAIR_SHARED
      /\ ff_of(a) # None /\ ff_of(b) # None => cells[ff_of(a)].cs = cells[ff_of(b)].cs
      /\ o5_ok(a) \/ o5_ok(b)
InPair(x) == \E i \in DOMAIN pairs : x \in {pairs[i].l6, pairs[i].l5}
Shared(a, b) == Len(Ins(a)) + Len(Ins(b)) - Len(Union(Ins(a), Ins(b)))
PairLut ==
  /\ phase = "pair" /\ at <= Len(cells)
  /\ LET B == {b \in DOMAIN cells : Candidate(b) /\ ~InPair(b) /\ Pairable(at, b)}
         best == {b \in B : \A c \in B : Shared(at, b) >= Shared(at, c)}
         b == Min(best)
     IN  pairs' = IF ~Candidate(at) \/ InPair(at) \/ B = {} THEN pairs
                  ELSE Append(pairs, IF o5_ok(b) THEN [l6 |-> at, l5 |-> b] ELSE [l6 |-> b, l5 |-> at])
  /\ at' = at + 1
  /\ UNCHANGED <<design, phase, cells, sim>>

\* "Wrong on purpose": the table keeps its inputs' places.
TableInPlace(x, u) == {v \in [1..Len(u) -> {0, 1}] : SubSeq(v, 1, Len(Ins(x))) \in cells[x].conf}
\* Both LUTs are on all the inputs, their tables with them.
Table(x, u) ==
  LET pos(n) == CHOOSE i \in DOMAIN u : u[i] = n
  IN  {v \in [1..Len(u) -> {0, 1}] : [k \in DOMAIN Ins(x) |-> v[pos(Ins(x)[k])]] \in cells[x].conf}
Rewritten(x) ==
  IF ~InPair(x) THEN cells[x]
  ELSE LET p == CHOOSE q \in Range(pairs) : x \in {q.l6, q.l5}
           u == Union(Ins(p.l6), Ins(p.l5))
           kept == {q \in DOMAIN cells[x].pins : q[1] # "A"}
       IN  [cells[x] EXCEPT !.conf = Table(x, u),
                            !.pins = [q \in kept |-> cells[x].pins[q]] @@ [q \in {<<"A", i>> : i \in DOMAIN u} |-> u[q[2]]]]

\* The passes follow one another; a net with two drivers is refused.
Nets == UNION {Range(cells[x].pins) : x \in DOMAIN cells}
Advance ==
  /\ \/ phase = "cells" /\ at > Len(design.cells) /\ phase' = "feed" /\ cells' = cells
     \/ phase = "feed" /\ at > Len(SBits) /\ phase' = "pair" /\ cells' = cells
     \/ /\ phase = "pair" /\ at > Len(cells) /\ cells' = [x \in DOMAIN cells |-> Rewritten(x)]
        /\ phase' = IF \A n \in Nets : Cardinality(Drivers(n)) <= 1 THEN "chains" ELSE "failed"
  /\ at' = 1
  /\ UNCHANGED <<design, pairs, sim>>

-----------------------------------------------------------------------------
\* Both at work.  A state is each cell's: a register's bit, a RAM's words.
Value(val, b) == IF b = "1" THEN 1 ELSE IF Constant(b) THEN 0 ELSE val[b]
Given(st, ins) ==
  LET drv == [n \in UNION {IF c.is = "carry" THEN Range(c.o) \cup Range(c.co)
                           ELSE IF c.is = "ram" THEN UNION {Range(c.do[k]) : k \in DOMAIN c.do}
                           ELSE IF c.is \in {"lut", "bufg"} THEN {c.o} ELSE IF c.is = "ff" THEN {c.q} ELSE {} :
                             c \in Range(design.cells)} |->
                CHOOSE x \in DOMAIN design.cells :
                  LET c == design.cells[x]
                  IN  CASE c.is \in {"lut", "bufg"} -> c.o = n
                        [] c.is = "ff" -> c.q = n
                        [] c.is = "carry" -> n \in Range(c.o) \cup Range(c.co)
                        [] c.is = "ram" -> \E k \in DOMAIN c.do : n \in Range(c.do[k])
                        [] OTHER -> FALSE]
      val[n \in STRING] ==
        IF n \in DOMAIN ins THEN ins[n]
        ELSE IF n \notin DOMAIN drv THEN 0
        ELSE LET c == design.cells[drv[n]]
                 In(b) == IF b = "1" THEN 1 ELSE IF Constant(b) THEN 0 ELSE val[b]
                 carry[k \in 0..Len(c.s)] ==
                   IF k = 0 THEN (IF Constant(c.ci) THEN In(c.cyinit) ELSE In(c.ci))
                   ELSE IF In(c.s[k]) = 1 THEN carry[k - 1] ELSE In(c.di[k])
             IN  CASE c.is = "lut" -> IF [i \in DOMAIN c.in |-> In(c.in[i])] \in c.init THEN 1 ELSE 0
                   [] c.is = "bufg" -> In(c.i)
                   [] c.is = "ff" -> st[drv[n]]
                   [] c.is = "carry" -> IF n \in Range(c.co) THEN carry[CHOOSE k \in DOMAIN c.co : c.co[k] = n]
                                        ELSE LET k == CHOOSE j \in DOMAIN c.o : c.o[j] = n
                                             IN  (In(c.s[k]) + carry[k - 1]) % 2
                   [] c.is = "ram" -> LET k == CHOOSE j \in DOMAIN c.do : n \in Range(c.do[j])
                                      IN  st[drv[n]][k][[i \in DOMAIN c.addr[k] |-> In(c.addr[k][i])]]
                                            [CHOOSE h \in 1..2 : c.do[k][h] = n]
  IN  val
Physical(st, ins) ==
  LET val[n \in STRING] ==
        IF n = VCC THEN 1 ELSE IF n = GND THEN 0 ELSE IF n \in DOMAIN ins THEN ins[n]
        ELSE IF Drivers(n) = {} THEN 0
        ELSE LET d == CHOOSE u \in Drivers(n) : TRUE
                 c == cells[d[1]]
                 In(p) == val[c.pins[p]]
                 carry[k \in 0..d[2][2]] ==
                   IF k = 0 THEN (IF c.conf # None THEN c.conf
                                  ELSE IF <<"CIN", 0>> \in DOMAIN c.pins THEN In(<<"CIN", 0>>) ELSE In(<<"CYINIT", 0>>))
                   ELSE IF In(<<"S", k>>) = 1 THEN carry[k - 1] ELSE In(<<"DI", k>>)
                 addr == [i \in DOMAIN Ins(d[1]) |-> val[Ins(d[1])[i]]]
             IN  CASE c.kind = "lut" -> IF addr \in c.conf THEN 1 ELSE 0
                   [] c.kind = "bufg" -> In(<<"I0", 0>>)
                   [] c.kind = "ff" -> st[d[1]]
                   [] c.kind = "carry" -> IF d[2][1] = "CO" THEN carry[d[2][2]]
                                          ELSE (In(<<"S", d[2][2]>>) + carry[d[2][2] - 1]) % 2
                   [] c.kind = "ram" -> st[d[1]][addr]
                   [] OTHER -> 0
  IN  val
\* A register at a clock edge, and what an asynchronous reset does at once.
Flop(q, d, ce, sr, set) == IF sr THEN set ELSE IF ce THEN d ELSE q
GivenNow(c, q, val) ==
  IF c.is = "ff" /\ ~c.sync /\ Value(val, c.sr) = 1 THEN c.set ELSE q
GivenNext(c, q, val, rises) ==
  CASE c.is = "ff" /\ c.neg # rises ->
         Flop(q, Value(val, c.d), Value(val, c.ce) = 1, Value(val, c.sr) = 1, c.set)
    [] c.is = "ram" /\ c.neg # rises /\ Value(val, c.we) = 1 ->
         LET a == [i \in DOMAIN c.addr[1] |-> Value(val, c.addr[Len(c.addr)][i])]
         IN  [k \in DOMAIN q |-> (a :> [h \in 1..2 |-> Value(val, c.di[k][h])]) @@ q[k]]
    [] OTHER -> q
PinValue(c, val, pin, idle) == IF <<pin, 0>> \in DOMAIN c.pins THEN val[c.pins[<<pin, 0>>]] ELSE idle
PhysicalNow(c, q, val) ==
  IF c.kind = "ff" /\ ~c.cs.sync /\ PinValue(c, val, "SR", 0) = 1 THEN c.conf.srval ELSE q
PhysicalNext(c, q, val, rises) ==
  CASE c.kind = "ff" /\ c.cs.inv # rises ->
         Flop(q, PinValue(c, val, "D", 0), PinValue(c, val, "CE", 1) = 1, PinValue(c, val, "SR", 0) = 1, c.conf.srval)
    [] c.kind = "ram" /\ c.conf.neg # rises /\ PinValue(c, val, "WE", 1) = 1 ->
         ([i \in 1..Cardinality({p \in DOMAIN c.pins : p[1] = "WA"}) |-> val[c.pins[<<"WA", i>>]]]
            :> PinValue(c, val, "DI", 0)) @@ q
    [] OTHER -> q
GivenPowerUp ==
  [x \in DOMAIN design.cells |->
     CASE design.cells[x].is = "ff" -> design.cells[x].init [] design.cells[x].is = "ram" -> design.cells[x].init
       [] OTHER -> None]
PhysicalPowerUp ==
  [x \in DOMAIN cells |-> CASE cells[x].kind \in {"ff", "ram"} -> cells[x].conf.init [] OTHER -> None]
GivenPins(val) ==
  [n \in {c.name : c \in {d \in Range(design.cells) : d.is = "pad" /\ d.type # "ibuf"}} |->
     LET c == CHOOSE d \in Range(design.cells) : d.name = n
     IN  <<Value(val, c.i), IF c.type = "obuf" THEN 0 ELSE Value(val, c.t)>>]
PhysicalPins(val) ==
  [n \in {cells[x].name : x \in {y \in Of("pad") : <<"I", 0>> \in DOMAIN cells[y].pins}} |->
     LET c == cells[CHOOSE x \in Of("pad") : cells[x].name = n]
     IN  <<PinValue(c, val, "I", 0), PinValue(c, val, "T", 0)>>]

\* The inputs settle, what is asynchronous acts, and the clock may move.
Run ==
  /\ phase = "done"
  /\ \E high \in SUBSET design.inputs, rises \in BOOLEAN :
       LET ins == [i \in design.inputs |-> IF i \in high THEN 1 ELSE 0]
           v == Given(sim.was, ins)
           was == [x \in DOMAIN design.cells |-> GivenNow(design.cells[x], sim.was[x], v)]
           p == Physical(sim.now, ins)
           now == [x \in DOMAIN cells |-> PhysicalNow(cells[x], sim.now[x], p)]
       IN  \E w \in {Given(was, ins)}, q \in {Physical(now, ins)} :
             sim' = [was |-> [x \in DOMAIN was |-> GivenNext(design.cells[x], was[x], w, rises)],
                     now |-> [x \in DOMAIN now |-> PhysicalNext(cells[x], now[x], q, rises)],
                     saw |-> GivenPins(w), did |-> PhysicalPins(q)]
  /\ UNCHANGED <<design, phase, at, cells, pairs>>

Begin ==
  /\ design \in Designs /\ phase = "cells" /\ at = 1 /\ pairs = <<>>
  /\ cells = <<Cell(GND, "gnd", None, <<"G", 0>> :> GND, None), Cell(VCC, "vcc", None, <<"P", 0>> :> VCC, None)>>
  /\ sim = [was |-> <<>>, now |-> <<>>, saw |-> None, did |-> None]
Pack == PackCell \/ Refuse \/ FeedThrough \/ PairLut \/ Advance

-----------------------------------------------------------------------------
\* What a pin of the packed design shows is what the given one does.
FunctionKept == sim.saw = sim.did

-----------------------------------------------------------------------------
(***************************************************************************)
(* What the 7-series' placer moves (xc7 place.rs, build): the packed cells *)
(* grouped into carry chains with the LUTs and registers tied to each bit, *)
(* RAM32Ms, BLEs of a LUT and a register or of two of each, and hard       *)
(* blocks, DSPs that cascade being one.  A slice's shape is legal by what  *)
(* went into it.                                                           *)
(***************************************************************************)

VARIABLES
  o,        \* [hard, chains, drams, bles, taken, used]: `used` also LUTs
  cur       \* the CARRY4 a chain is at

vars == <<design, phase, at, cells, pairs, sim, o, cur>>

-----------------------------------------------------------------------------
\* The LUT a net comes from, RAM not counted.
lut_driver(n) == IF n = None \/ LutOf(n) = {} THEN None ELSE CHOOSE x \in LutOf(n) : TRUE
cs_of(x) == cells[x].cs
InOrder(X) == SetToSortSeq(X, <)
DrivenBy(n, kind) == n # None /\ \E u \in Drivers(n) : cells[u[1]].kind = kind

\* A DSP whose PCIN another's PCOUT drives goes with it.
Lower(x) ==
  LET n == PinAt(cells[x], <<"PCIN", 0>>)
      D == IF n = None THEN {} ELSE {u[1] : u \in {v \in Drivers(n) : v[2][1] = "PCOUT"}}
  IN  IF D = {} THEN None ELSE CHOOSE d \in D : TRUE
upper(x) == IF \E y \in Of("dsp") : Lower(y) = x THEN Max({y \in Of("dsp") : Lower(y) = x}) ELSE None
Uppers == {upper(x) : x \in Of("dsp")} \ {None}
Hard == [i \in DOMAIN InOrder(Of("dsp") \ Uppers) |-> LET x == InOrder(Of("dsp") \ Uppers)[i] IN [lower |-> x, upper |-> upper(x)]]

-----------------------------------------------------------------------------
\* Carry chains, from the CARRY4s whose CIN no CARRY4 drives.
Width(x) == Cardinality({p \in DOMAIN cells[x].pins : p[1] = "S"})
next_carry(x) ==
  LET co == PinAt(cells[x], <<"CO", Width(x)>>)
      N == IF co = None THEN {} ELSE {u[1] : u \in {v \in Users(co) : v[2][1] = "CIN"}}
  IN  IF N = {} THEN None ELSE Min(N)
Roots == InOrder({x \in Of("carry") : ~DrivenBy(PinAt(cells[x], <<"CIN", 0>>), "carry")})
Start ==
  /\ phase = "chains" /\ cur = None /\ at <= Len(Roots)
  /\ cur' = Roots[at] /\ o' = [o EXCEPT !.chains = Append(@, <<>>)]
  /\ UNCHANGED <<design, phase, at, cells, pairs, sim>>

SLuts(x) == [k \in 1..Width(x) |-> lut_driver(PinAt(cells[x], <<"S", k>>))]
\* The register a sum's bit keeps beside it: of the slice's control set.
SumFf(x, k, chosen, taken) ==
  LET n == PinAt(cells[x], <<"O", k>>)
      F == IF n = None THEN {}
           ELSE {u[1] : u \in {v \in Users(n) : /\ v[2][1] = "D" /\ cs_of(v[1]) # None /\ v[1] \notin taken
                                                 /\ \A j \in 1..(k - 1) : chosen[j] # None => cs_of(v[1]) = cs_of(chosen[j])}}
  IN  IF F = {} THEN None ELSE Min(F)
SumFfs(x, taken) ==
  FoldLeft(LAMBDA f, k : Append(f, SumFf(x, k, f, taken)), <<>>, [k \in 1..Width(x) |-> k])
Present(s) == Range(s) \ {None}
AddSlice ==
  /\ phase = "chains" /\ cur # None
  /\ LET luts == SLuts(cur)
         repeats == \E j, k \in DOMAIN luts : j # k /\ luts[j] # None /\ luts[j] = luts[k]
     IN  IF cur \in o.taken \/ Present(luts) \cap o.taken # {} \/ repeats
         THEN phase' = "failed" /\ UNCHANGED <<at, o, cur>>
         ELSE \E ffs \in {SumFfs(cur, o.taken \cup {cur} \cup Present(luts))} :
                /\ o' = [o EXCEPT !.chains[at] = Append(@, [carry |-> cur, lut6 |-> luts, ff |-> ffs]),
                                  !.taken = @ \cup {cur} \cup Present(luts) \cup Present(ffs)]
                /\ cur' = next_carry(cur) /\ at' = (IF next_carry(cur) = None THEN at + 1 ELSE at)
                /\ UNCHANGED phase
  /\ UNCHANGED <<design, cells, pairs, sim>>

-----------------------------------------------------------------------------
\* RAM32Ms, by the names of their RAMD32s.
Rams == {cells[x].name[1] : x \in Of("ram")}
MemoriesOf(r) == {cells[x].name[2] : x \in {y \in Of("ram") : cells[y].name[1] = r}}
Dram(r) ==
  LET is(k, h) == CHOOSE x \in Of("ram") : cells[x].name = <<r, k, h>>
  IN  [lut6 |-> [k \in MemoriesOf(r) |-> is(k, 2)], lut5 |-> [k \in MemoriesOf(r) |-> is(k, 1)]]
\* Chains that leave a CARRY4 out are refused.
TakeRams ==
  /\ phase = "chains" /\ cur = None /\ at > Len(Roots)
  /\ IF Of("carry") \subseteq o.taken
     THEN /\ phase' = "pairs" /\ at' = 1
          /\ o' = [o EXCEPT !.drams = [i \in 1..Cardinality(Rams) |-> Dram(SetToSeq(Rams)[i])],
                            !.taken = @ \cup Of("ram"), !.used = o.taken \cup Of("ram"), !.hard = Hard]
     ELSE phase' = "failed" /\ UNCHANGED <<at, o>>
  /\ UNCHANGED <<design, cells, pairs, sim, cur>>

\* BLEs: pairs with the first register of each, the second's only of the
\* same control set.
first_ff(x, taken) ==
  LET F == IF OutOf(x) = None THEN {}
           ELSE {u[1] : u \in {v \in Users(OutOf(x)) : v[2][1] = "D" /\ cs_of(v[1]) # None /\ v[1] \notin taken}}
  IN  IF F = {} THEN None ELSE Min(F)
TakePair ==
  /\ phase = "pairs" /\ at <= Len(pairs)
  /\ LET p == pairs[at]
         ff == first_ff(p.l6, o.taken)
         second == first_ff(p.l5, o.taken)
         ff5 == IF second # None /\ (ff = None \/ cs_of(ff) = cs_of(second)) THEN second ELSE None
         c == {p.l6, p.l5, ff, ff5} \ {None}
     IN  o' = [o EXCEPT !.bles = Append(@, [lut |-> p.l6, ff |-> ff, lut5 |-> p.l5, ff5 |-> ff5]),
                        !.taken = @ \cup c, !.used = @ \cup c]
  /\ at' = at + 1
  /\ UNCHANGED <<design, phase, cells, pairs, sim, cur>>
\* Each register with the LUT that drives it, if that is free.
TakeFf ==
  /\ phase = "ffs" /\ at <= Len(cells)
  /\ IF at \in o.taken \/ cs_of(at) = None THEN o' = o
     ELSE LET l == lut_driver(PinAt(cells[at], <<"D", 0>>))
              lut == IF l \in o.used THEN None ELSE l
          IN  o' = [o EXCEPT !.bles = Append(@, [lut |-> lut, ff |-> at, lut5 |-> None, ff5 |-> None]),
                             !.taken = @ \cup {at}, !.used = @ \cup ({lut} \ {None})]
  /\ at' = at + 1
  /\ UNCHANGED <<design, phase, cells, pairs, sim, cur>>
TakeLut ==
  /\ phase = "luts" /\ at <= Len(cells)
  /\ o' = IF at \in o.used \/ cells[at].kind # "lut" THEN o
          ELSE [o EXCEPT !.bles = Append(@, [lut |-> at, ff |-> None, lut5 |-> None, ff5 |-> None])]
  /\ at' = at + 1
  /\ UNCHANGED <<design, phase, cells, pairs, sim, cur>>
After ==
  /\ \/ phase = "pairs" /\ at > Len(pairs) /\ phase' = "ffs" /\ sim' = sim
     \/ phase = "ffs" /\ at > Len(cells) /\ phase' = "luts" /\ sim' = sim
     \/ /\ phase = "luts" /\ at > Len(cells) /\ phase' = "done"
        /\ sim' = [was |-> GivenPowerUp, now |-> PhysicalPowerUp, saw |-> None, did |-> None]
  /\ at' = 1
  /\ UNCHANGED <<design, cells, pairs, o, cur>>

Init ==
  /\ Begin /\ cur = None
  /\ o = [hard |-> <<>>, chains |-> <<>>, drams |-> <<>>, bles |-> <<>>, taken |-> {}, used |-> {}]

Next ==
  \/ (Pack \/ Run) /\ UNCHANGED <<o, cur>>
  \/ Start \/ AddSlice \/ TakeRams \/ TakePair \/ TakeFf \/ TakeLut \/ After

Spec == Init /\ [][Next]_vars

-----------------------------------------------------------------------------
\* Everything a slice holds has one place.
Places ==
  LET ble(b) == {<<<<"ble", b, p>>, o.bles[b][p]>> : p \in {"lut", "ff", "lut5", "ff5"}}
      slice(c, i) == LET s == o.chains[c][i]
                     IN  {<<<<"chain", c, i, 0>>, s.carry>>}
                         \cup UNION {{<<<<"chain", c, i, k, 6>>, s.lut6[k]>>, <<<<"chain", c, i, k, 1>>, s.ff[k]>>} : k \in DOMAIN s.ff}
      ram(r) == UNION {{<<<<"ram", r, k, 6>>, o.drams[r].lut6[k]>>, <<<<"ram", r, k, 5>>, o.drams[r].lut5[k]>>} :
                         k \in DOMAIN o.drams[r].lut6}
  IN  {e \in UNION {ble(b) : b \in DOMAIN o.bles} \cup UNION {ram(r) : r \in DOMAIN o.drams}
            \cup UNION {UNION {slice(c, i) : i \in DOMAIN o.chains[c]} : c \in DOMAIN o.chains} : e[2] # None}
D(x) == PinAt(cells[x], <<"D", 0>>)
SoundSlice(s) ==
  /\ \A k \in DOMAIN s.lut6 : s.lut6[k] # None /\ OutOf(s.lut6[k]) = SNet(<<s.carry, k>>)
  /\ \A k \in DOMAIN s.ff : s.ff[k] # None => D(s.ff[k]) = PinAt(cells[s.carry], <<"O", k>>)
  /\ \A j, k \in DOMAIN s.ff : s.ff[j] # None /\ s.ff[k] # None => cs_of(s.ff[j]) = cs_of(s.ff[k])
SoundBle(b) ==
  /\ b.lut # None /\ b.ff # None => D(b.ff) = OutOf(b.lut)
  /\ b.ff # None /\ b.ff5 # None => cs_of(b.ff) = cs_of(b.ff5)
  /\ b.lut5 # None => /\ Ins(b.lut) = Ins(b.lut5) /\ Len(Ins(b.lut)) <= PAIR_INPUTS
                      /\ b.ff5 # None => D(b.ff5) = OutOf(b.lut5) /\ Cardinality(Loads(b.lut5)) = 1
                      /\ b.ff5 = None => \A u \in Loads(b.lut5) : cells[u[1]].kind # "ff" \/ u[2][1] # "D"
\* What the placer is given can be a slice's: every LUT, register, CARRY4
\* and RAM bit has one place, a carry bit's S a LUT of its own, a register
\* the LUT or sum beside it as its data, one control set to a slice; the
\* second LUT of a LUT6 has the same five nets and one way out.
SlicesSound ==
  phase = "done" =>
    /\ \A x \in Of("lut") \cup Of("ff") \cup Of("carry") \cup Of("ram") : Cardinality({e \in Places : e[2] = x}) = 1
    /\ \A c \in DOMAIN o.chains : \A i \in DOMAIN o.chains[c] : SoundSlice(o.chains[c][i])
    /\ \A b \in DOMAIN o.bles : SoundBle(o.bles[b])
    /\ \A x \in Of("dsp") : \E h \in Range(o.hard) : x \in {h.lower, h.upper}
=============================================================================
