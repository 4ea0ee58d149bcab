-------------------------------- MODULE Pack --------------------------------
(***************************************************************************)
(* Packing on the Cyclone II: constants, inversions and LUTs of one input  *)
(* folded away, and LUTs and registers paired in LEs.                      *)
(***************************************************************************)
EXTENDS Integers, Sequences, FiniteSets, SequencesExt, FiniteSetsExt, TLC

-----------------------------------------------------------------------------
(***************************************************************************)
(* The packer's rewriting of the netlist (pack/mod.rs, pack/mask.rs):      *)
(* constants are folded into what they feed, one-input LUTs into their     *)
(* loads, registers are given the LUT beside them or the synchronous load  *)
(* path, carry chains get the polarity Quartus uses.  What is packed then  *)
(* runs beside what was given.                                             *)
(*                                                                         *)
(* A mask is the set of input numbers it is 1 at (A = 1, B = 2, C = 4,     *)
(* D = 8).  Cells and users are visited in any order, where the code has   *)
(* nextpnr's.                                                              *)
(***************************************************************************)

CONSTANTS
  None,
  Netlists    \* [cells, clocks, inputs]

VARIABLES
  design,     \* the netlist given
  nl,         \* the netlist being packed: cell name -> cell
  phase,
  todo,       \* what the pass still has to visit
  s,          \* what pass keeps: see Constants, PairFf
  sim         \* [turned], and the two netlists at work: [ins, was, now]

vars == <<design, nl, phase, todo, s, sim>>

-----------------------------------------------------------------------------
\* Cells: [kind, mask, inv, tied, at].  `inv` holds the ports read inverted,
\* `tied` the value a pin's port is left at, `at` the net of each port.
LUT_INPUTS == <<"DATAA", "DATAB", "DATAC", "DATAD">>
lut_index(p) == CHOOSE i \in 1..4 : LUT_INPUTS[i] = p
IsLutInput(p) == \E i \in 1..4 : LUT_INPUTS[i] = p
OUTPUTS == {"COMBOUT", "COUT", "REGOUT", "Y"}
is_ioe_in(cell, p) == cell.kind = "obuf" /\ p \in {"DATAOUT", "OE"}

net(cell, p) == IF p \in DOMAIN cell.at THEN cell.at[p] ELSE None
users(c, n) ==
  {u \in UNION {{x} \X (DOMAIN c[x].at \ OUTPUTS) : x \in DOMAIN c} : c[u[1]].at[u[2]] = n}
Drives(c, x, n) == n # None /\ \E p \in (OUTPUTS \cap DOMAIN c[x].at) : c[x].at[p] = n
DriverOf(c, n) == IF \E x \in DOMAIN c : Drives(c, x, n) THEN CHOOSE x \in DOMAIN c : Drives(c, x, n) ELSE None
has_users(c, n) == n # None /\ users(c, n) # {}

Join(c, x, p, n) == [c EXCEPT ![x].at = (p :> n) @@ @]
Toggle(set, x) == IF x \in set THEN set \ {x} ELSE set \cup {x}
New(kind, mask, tied, at) == [kind |-> kind, mask |-> mask, inv |-> {}, tied |-> tied, at |-> at]
ALL == 0..15

-----------------------------------------------------------------------------
\* LUT masks (mask.rs)
Bit(x, i) == (x \div (2 ^ (i - 1))) % 2
With(x, i, b) == x + (b - Bit(x, i)) * (2 ^ (i - 1))
Xor(b, inv) == IF inv THEN 1 - b ELSE b

substitute(mask, i, j, inv) ==
  {x \in ALL : With(x, i, Xor(IF j = None THEN 0 ELSE Bit(x, j), inv)) \in mask}
invert_input(mask, i) == substitute(mask, i, i, TRUE)
Buffer(i) == {x \in ALL : Bit(x, i) = 1}

\* The carry is inverted after every odd LE of a chain, counted from 0.
normalise_carry(mask, position, last_unused_cout, sum_used) ==
  LET in_inv == position >= 2 /\ position % 2 = 0
      read == {x \in ALL : (IF in_inv THEN With(x, 3, 1 - Bit(x, 3)) ELSE x) \in mask}
      out == {x \in ALL : (x \in read) # (x < 8 /\ position % 2 = 1)}
      copied == IF last_unused_cout THEN {x \in ALL : With(x, 4, 1) \in out} ELSE out
  IN  IF sum_used THEN copied ELSE {x \in copied : x < 8}

-----------------------------------------------------------------------------
\* What a netlist does: the value of every net, and the registers after a
\* step.  An unconnected data input reads 1, an unconnected enable is on.
Values(c, ins, q) ==
  LET val[n \in STRING] ==
        LET d == DriverOf(c, n)
            In(p) == IF net(c[d], p) = None THEN 1 ELSE val[net(c[d], p)]
            C == IF net(c[d], "CIN") = None THEN In("DATAC") ELSE val[net(c[d], "CIN")]
            Lut(D) == IF In("DATAA") + 2 * In("DATAB") + 4 * C + 8 * D \in c[d].mask THEN 1 ELSE 0
        IN  CASE d = None -> IF n \in DOMAIN ins THEN ins[n] ELSE 1
              [] c[d].kind = "lut" -> IF net(c[d], "COUT") = n THEN Lut(0) ELSE Lut(In("DATAD"))
              [] c[d].kind = "ff" -> q[d]
              [] OTHER -> c[d].tied
  IN  val

Reads(v, cell, p, idle) == IF net(cell, p) = None THEN idle ELSE Xor(v[net(cell, p)], p \in cell.inv)
FfsOf(c) == {x \in DOMAIN c : c[x].kind = "ff"}

Loaded(v, f) ==
  CASE Reads(v, f, "SCLR", 0) = 1 -> 0
    [] net(f, "SLOAD") # None /\ Reads(v, f, "SLOAD", 0) = 1 -> Reads(v, f, "SDATA", 1)
    [] net(f, "SLOAD") = None /\ net(f, "DATAIN") = None -> Reads(v, f, "SDATA", 1)
    [] OTHER -> Reads(v, f, "DATAIN", 1)
Rises(v, w, f) == Reads(v, f, "CLK", 1) = 0 /\ Reads(w, f, "CLK", 1) = 1
Clocked(c, ins, next, q) ==
  LET v == Values(c, ins, q)
      w == Values(c, next, q)
  IN  [x \in FfsOf(c) |->
         IF Rises(v, w, c[x]) /\ Reads(v, c[x], "ENA", 1) = 1 THEN Loaded(v, c[x]) ELSE q[x]]
Cleared(c, ins, q) ==
  LET v == Values(c, ins, q) IN [x \in FfsOf(c) |-> IF Reads(v, c[x], "ACLR", 0) = 1 THEN 0 ELSE q[x]]
StepOf(c, ins, next, q) == Cleared(c, next, Clocked(c, ins, next, q))
PoweredUp(c, ins) == Cleared(c, ins, [x \in FfsOf(c) |-> 0])

\* What of a netlist is seen: what its pins and blocks take.
Seen(c, ins, q) ==
  LET v == Values(c, ins, q)
      At(x, p) == IF c[x].at[p] # None THEN Reads(v, c[x], p, 1)
                  ELSE IF c[x].tied = <<>> THEN 1 ELSE c[x].tied[p]
  IN  [x \in {y \in DOMAIN c : c[y].kind \in {"obuf", "m4k", "mult"}} |->
         [p \in DOMAIN c[x].at |-> At(x, p)]]

-----------------------------------------------------------------------------
\* load_enable_as_one: a register whose data is its own enable loads a 1.
OwnEnable(c, x) ==
  /\ c[x].kind = "ff" /\ net(c[x], "DATAIN") # None /\ "ENA" \notin c[x].inv
  /\ net(c[x], "DATAIN") = net(c[x], "ENA")
load_enable_as_one(c) ==
  LET own == {x \in DOMAIN c : OwnEnable(c, x)}
      one(x) == New("const", {}, 1, [Y |-> x \o "$ena_data"])
      added == [y \in {x \o "$ena_data" : x \in own} |-> one(CHOOSE x \in own : x \o "$ena_data" = y)]
  IN  [x \in DOMAIN c |-> IF x \in own THEN [c[x] EXCEPT !.at["DATAIN"] = x \o "$ena_data"] ELSE c[x]] @@ added

\* pack_constants: what a load does with the constant on its port.  `t` is
\* [c, work, dead, ones, zeros, failed].
MakeConst(t, n, v) == IF n = None THEN t ELSE [t EXCEPT !.work = @ \cup {<<n, v>>}]

LutTakes(t, x, p, v) ==
  LET cell == t.c[x]
      folds == v = 0 \/ p \in {"DATAA", "DATAB"}
      m == IF folds THEN substitute(cell.mask, IF p = "CIN" THEN 3 ELSE lut_index(p), None, v = 1) ELSE cell.mask
      left == Join([t.c EXCEPT ![x].mask = m], x, p, None)
      bare == \A q \in {"DATAA", "DATAB", "DATAC", "DATAD", "CIN"} : net(left[x], q) = None
      u == [t EXCEPT !.c = left]
      out == MakeConst(u, net(cell, "COMBOUT"), IF 15 \in m THEN 1 ELSE 0)
  IN  IF ~bare THEN u
      ELSE [MakeConst(out, net(cell, "COUT"), IF 7 \in m THEN 1 ELSE 0) EXCEPT !.dead = @ \cup {x}]

Idle(p, v) == (p = "ENA" /\ v = 1) \/ (p \in {"ACLR", "SCLR", "SLOAD"} /\ v = 0)
FfTakes(t, x, p, v) ==
  LET off == Join(t.c, x, p, None)
  IN  CASE Idle(p, v) -> [t EXCEPT !.c = off]
        [] p = "DATAIN" /\ v = 1 -> [t EXCEPT !.c = off, !.ones = @ \cup {x}]
        [] p = "SDATA" /\ net(t.c[x], "SLOAD") # None ->
             [t EXCEPT !.c = off, !.zeros = IF v = 0 THEN @ \cup {x} ELSE @]
        [] OTHER -> [MakeConst(t, net(t.c[x], "REGOUT"), 0) EXCEPT !.dead = @ \cup {x}]

IoeTakes(t, x, p, v) ==
  [t EXCEPT !.c = Join([t.c EXCEPT ![x].tied = (p :> v) @@ @], x, p, None)]

Takes(t, u, v) ==
  LET x == u[1]  p == u[2]
  IN  CASE x \in t.dead -> t
        [] t.c[x].kind = "lut" -> LutTakes(t, x, p, v)
        [] is_ioe_in(t.c[x], p) -> IoeTakes(t, x, p, v)
        [] t.c[x].kind = "ff" -> FfTakes(t, x, p, v)
        [] OTHER -> [t EXCEPT !.failed = TRUE]

PropagateConst(t, n, v) ==
  LET all == FoldSet(LAMBDA u, r : Takes(r, u, v), [t EXCEPT !.work = @ \ {<<n, v>>}], users(t.c, n))
  IN  [all EXCEPT !.dead = @ \cup {x \in DOMAIN t.c : t.c[x].kind = "const" /\ t.c[x].at.Y = n}]

\* The registers left with a constant on their data get it from an LE.
GND == "~GND"
constant_le(c) == IF GND \in DOMAIN c THEN c ELSE (GND :> New("lut", {}, None, [COMBOUT |-> GND])) @@ c
FfsLeft(t, set) == set \ t.dead
LutOfOnes(t) ==
  LET of(y) == CHOOSE f \in t.ones : f \o "$const" = y
  IN  [y \in {f \o "$const" : f \in FfsLeft(t, t.ones)} |->
         New("lut", ALL, None, [COMBOUT |-> of(y) \o "$const_net"])]
FinishConstants(t) ==
  LET live == [x \in (DOMAIN t.c \ t.dead) |-> t.c[x]]
      ones == [x \in DOMAIN live |-> IF x \in t.ones THEN [live[x] EXCEPT !.at["DATAIN"] = x \o "$const_net"]
                                     ELSE live[x]] @@ LutOfOnes(t)
      zeros == FfsLeft(t, t.zeros)
      gnd == IF zeros = {} THEN ones ELSE constant_le(ones)
  IN  [x \in DOMAIN gnd |-> IF x \in zeros THEN [gnd[x] EXCEPT !.at["SDATA"] = GND] ELSE gnd[x]]

-----------------------------------------------------------------------------
\* pack_lut1: one-input LUTs go into what they feed.
is_plain_lut(c, x) == c[x].kind = "lut" /\ net(c[x], "CIN") = None /\ ~has_users(c, net(c[x], "COUT"))
plain_lut_driver(c, n) ==
  LET d == DriverOf(c, n)
  IN  IF d # None /\ is_plain_lut(c, d) /\ net(c[d], "COMBOUT") = n THEN d ELSE None
feeds_register_data(c, x) ==
  \E u \in users(c, net(c[x], "COMBOUT")) : c[u[1]].kind = "ff" /\ u[2] = "DATAIN"

Connected(cell) == {i \in 1..4 : net(cell, LUT_INPUTS[i]) # None}
OneInput(c, x) ==
  /\ c[x].kind = "lut" /\ Cardinality(Connected(c[x])) = 1 /\ is_plain_lut(c, x)
  /\ \E i \in Connected(c[x]) : c[x].mask \in {Buffer(i), ALL \ Buffer(i)}
Only(cell) == CHOOSE i \in Connected(cell) : TRUE
Inverts(cell) == cell.mask # Buffer(Only(cell))

\* push_inversion_back: invert the LUT before the inverter and undo that on
\* its other loads.
CONTROLS == {"ENA", "SCLR", "ACLR", "SLOAD"}
takes_inversion(cell, p) ==
  \/ cell.kind = "lut" /\ IsLutInput(p)
  \/ is_ioe_in(cell, p)
  \/ cell.kind = "ff" /\ p \in CONTROLS
OtherLoads(c, x, input) == {u \in users(c, input) : u[1] # x}
Pushable(c, x, input) ==
  /\ plain_lut_driver(c, input) # None
  /\ \A u \in OtherLoads(c, x, input) : takes_inversion(c[u[1]], u[2])
Uninverted(c, u) ==
  IF c[u[1]].kind = "lut" THEN [c EXCEPT ![u[1]].mask = invert_input(@, lut_index(u[2]))]
  ELSE [c EXCEPT ![u[1]].inv = Toggle(@, u[2])]
push_inversion_back(c, x, input) ==
  FoldSet(LAMBDA u, r : Uninverted(r, u),
          [c EXCEPT ![plain_lut_driver(c, input)].mask = ALL \ @], OtherLoads(c, x, input))

\* The inverter made an inverted copy of its driver.
InvertedCopy(c, x, d) ==
  LET pins == [p \in {q \in DOMAIN c[d].at : IsLutInput(q)} |-> c[d].at[p]]
      own == [p \in {q \in DOMAIN c[x].at : ~IsLutInput(q)} |-> c[x].at[p]]
  IN  [c EXCEPT ![x].at = pins @@ own, ![x].mask = ALL \ c[d].mask]

\* One load of a buffer or inverter takes its input instead.
LutMerges(c, u, input, inv) ==
  LET x == u[1]  i == lut_index(u[2])
      same == {k \in (1..4 \ {i}) : net(c[x], LUT_INPUTS[k]) = input}
  IN  IF same # {}
      THEN Join([c EXCEPT ![x].mask = substitute(@, i, CHOOSE k \in same : \A l \in same : l <= k, inv)],
                x, u[2], None)
      ELSE Join([c EXCEPT ![x].mask = IF inv THEN invert_input(@, i) ELSE @], x, u[2], input)
SetInv(set, p, inv) == IF inv THEN set \cup {p} ELSE set \ {p}

FoldsInto(c, u, input, inv) ==
  LET x == u[1]  p == u[2]  kind == c[x].kind
      to == Join(c, x, p, input)
  IN  CASE kind = "lut" /\ IsLutInput(p) -> LutMerges(c, u, input, inv)
        [] is_ioe_in(c[x], p) -> [to EXCEPT ![x].inv = SetInv(@, p, inv)]
        [] kind \in {"ff", "m4k"} /\ p # "CLK" /\ p \notin (CONTROLS \cup {"SDATA"}) /\ ~inv -> to
        [] kind = "mult" -> IF inv THEN [to EXCEPT ![x].inv = Toggle(@, p)] ELSE to
        [] kind = "ff" /\ p = "CLK" -> IF inv THEN [to EXCEPT ![x].inv = Toggle(@, p)] ELSE to
        [] kind = "ff" /\ p \in CONTROLS -> [to EXCEPT ![x].inv = SetInv(@, p, inv)]
        [] OTHER -> c
FoldLoads(c, x, input, inv) ==
  LET o == net(c[x], "COMBOUT")
      done == FoldSet(LAMBDA u, r : FoldsInto(r, u, input, inv), c, users(c, o))
  IN  IF users(done, o) = {} THEN [y \in (DOMAIN done \ {x}) |-> done[y]] ELSE done

InputOf(c, x) == net(c[x], LUT_INPUTS[Only(c[x])])
PushesBack(c, x) == Inverts(c[x]) /\ feeds_register_data(c, x) /\ Pushable(c, x, InputOf(c, x))
FoldLut(c, x) ==
  LET input == InputOf(c, x)
      inv == Inverts(c[x])
      d == plain_lut_driver(c, input)
  IN  CASE net(c[x], "COMBOUT") = None -> c
        [] PushesBack(c, x) -> FoldLoads(push_inversion_back(c, x, input), x, input, FALSE)
        [] inv /\ feeds_register_data(c, x) /\ ~Pushable(c, x, input) /\ d # None -> InvertedCopy(c, x, d)
        [] OTHER -> FoldLoads(c, x, input, inv)
\* The loads an inverter keeps though what it inverts was inverted: a register's
\* load path takes no other net (the match's last arm, "_ => continue").
Turned(c, x, folded) == IF PushesBack(c, x) THEN users(folded, net(c[x], "COMBOUT")) ELSE {}

-----------------------------------------------------------------------------
\* pack_lut_ff: one register beside a LUT, any other on the load path.
PairsWith(c, paired, f) ==
  LET d == DriverOf(c, net(c[f], "DATAIN"))
  IN  IF d # None /\ c[d].kind = "lut" /\ net(c[d], "COMBOUT") = net(c[f], "DATAIN") /\ d \notin paired
      THEN d ELSE None
OntoLoadPath(c, f) == Join(Join(c, f, "SDATA", net(c[f], "DATAIN")), f, "DATAIN", None)

\* pack_carry: chains from their heads, and their polarity.
CarryHead(c, x) ==
  /\ c[x].kind = "lut" /\ DriverOf(c, net(c[x], "CIN")) = None /\ has_users(c, net(c[x], "COUT"))
CarryNext(c, x) == {u[1] : u \in users(c, net(c[x], "COUT"))}
Chain(c, head) ==
  LET after[x \in DOMAIN c] ==
        IF has_users(c, net(c[x], "COUT")) THEN <<x>> \o after[CHOOSE y \in CarryNext(c, x) : TRUE] ELSE <<x>>
  IN  after[head]
ChainSound(c, x) ==
  LET loads == users(c, net(c[x], "COUT"))
  IN  /\ has_users(c, net(c[x], "COUT")) => Cardinality(loads) = 1 /\ \A u \in loads : u[2] = "CIN"
      /\ net(c[x], "DATAC") = None \/ net(c[x], "CIN") = None
Normalised(c, chain) ==
  [x \in DOMAIN c |->
     IF \E i \in DOMAIN chain : chain[i] = x
     THEN LET i == CHOOSE k \in DOMAIN chain : chain[k] = x
          IN  [c[x] EXCEPT !.mask = normalise_carry(@, i - 1, ~has_users(c, net(c[x], "COUT")),
                                                    has_users(c, net(c[x], "COMBOUT")))]
     ELSE c[x]]

-----------------------------------------------------------------------------
\* The run
Start(c) == [c |-> c, dead |-> {}, ones |-> {}, zeros |-> {}, failed |-> FALSE,
             work |-> {<<c[x].at.Y, c[x].tied>> : x \in {y \in DOMAIN c : c[y].kind = "const"}}]
Luts(c) == {x \in DOMAIN c : c[x].kind = "lut"}

Init ==
  /\ design \in Netlists
  /\ nl = design.cells
  /\ phase = "constants"
  /\ todo = {}
  /\ s = Start(load_enable_as_one(nl))
  /\ sim = [turned |-> {}]

Constants ==
  /\ phase = "constants" /\ s.work # {}
  /\ \E w \in s.work : s' = PropagateConst(s, w[1], w[2])
  /\ phase' = IF s'.failed THEN "failed" ELSE "constants"
  /\ UNCHANGED <<design, nl, todo, sim>>
ConstantsDone ==
  /\ phase = "constants" /\ s.work = {}
  /\ nl' = FinishConstants(s)
  /\ phase' = "lut1" /\ todo' = Luts(nl') /\ s' = {}
  /\ UNCHANGED <<design, sim>>

FoldOne ==
  /\ phase = "lut1" /\ todo # {}
  /\ \E x \in todo :
       /\ todo' = todo \ {x}
       /\ IF OneInput(nl, x)
          THEN nl' = FoldLut(nl, x) /\ sim' = [sim EXCEPT !.turned = @ \cup Turned(nl, x, nl')]
          ELSE UNCHANGED <<nl, sim>>
  /\ UNCHANGED <<design, phase, s>>
FoldDone ==
  /\ phase = "lut1" /\ todo = {}
  /\ phase' = "pair" /\ todo' = FfsOf(nl)
  /\ UNCHANGED <<design, nl, s, sim>>

PairFf ==
  /\ phase = "pair" /\ todo # {}
  /\ \E f \in todo :
       LET d == PairsWith(nl, s, f)
       IN  /\ todo' = todo \ {f}
           /\ \/ d # None /\ s' = s \cup {d} /\ UNCHANGED <<nl, phase>>
              \/ /\ d = None /\ net(nl[f], "SDATA") = None
                 /\ nl' = OntoLoadPath(nl, f) /\ UNCHANGED <<phase, s>>
              \/ d = None /\ net(nl[f], "SDATA") # None /\ phase' = "failed" /\ UNCHANGED <<nl, s>>
  /\ UNCHANGED <<design, sim>>

\* pack_carry, a chain at a time; then what is packed runs from power up.
PairDone ==
  /\ phase = "pair" /\ todo = {}
  /\ phase' = "carry" /\ todo' = {x \in Luts(nl) : CarryHead(nl, x)}
  /\ UNCHANGED <<design, nl, s, sim>>
Carry ==
  /\ phase = "carry" /\ todo # {}
  /\ \E x \in todo :
       LET chain == Chain(nl, x)
           sound == \A i \in DOMAIN chain : ChainSound(nl, chain[i])
       IN  /\ nl' = IF sound THEN Normalised(nl, chain) ELSE nl
           /\ phase' = IF sound THEN phase ELSE "failed"
           /\ todo' = todo \ {x}
  /\ UNCHANGED <<design, s, sim>>
\* The netlist given, the loads in `turned` reading the opposite.
Given == [x \in DOMAIN design.cells |-> [design.cells[x] EXCEPT !.inv = @ \cup {u[2] : u \in {v \in sim.turned : v[1] = x}}]]
PowerUp ==
  /\ phase = "carry" /\ todo = {}
  /\ phase' = "run" /\ s' = {}
  /\ LET ins == [n \in design.inputs |-> 0]
     IN  sim' = [turned |-> sim.turned, ins |-> ins, was |-> PoweredUp(Given, ins), now |-> PoweredUp(nl, ins)]
  /\ UNCHANGED <<design, nl, todo>>

\* A clock moves, or one of the other inputs.
Run ==
  /\ phase = "run"
  /\ \E n \in design.inputs :
       LET next == [sim.ins EXCEPT ![n] = 1 - @]
       IN  sim' = [sim EXCEPT !.ins = next, !.was = StepOf(Given, sim.ins, next, sim.was),
                              !.now = StepOf(nl, sim.ins, next, sim.now)]
  /\ UNCHANGED <<design, nl, phase, todo, s>>

Next ==
  \/ Constants \/ ConstantsDone \/ FoldOne \/ FoldDone \/ PairFf \/ PairDone \/ Carry \/ PowerUp \/ Run

Spec == Init /\ [][Next]_vars

-----------------------------------------------------------------------------
\* What is packed shows on every pin and every block what the design would,
\* from power-up on and whatever its inputs do: folding constants, one-input
\* LUTs and inversions, dropping registers that never change, and the
\* carry's polarity change nothing that is seen (pack/mod.rs, mask.rs).  With
\* one exception, and that one exactly: where an inverter before a register's
\* data is pushed back, a register that loads what it gives (SDATA, under an
\* sload) loads the opposite from then on (mod.rs:826-862, :1008).
FunctionKept ==
  phase = "run" => Seen(nl, sim.ins, sim.now) = Seen(Given, sim.ins, sim.was)

\* The placer can take what is packed: no constant drives anything, a LUT
\* has at most one register beside it, and every register has its data on
\* one of its two inputs, both only with a load to choose (pack_lut_ff,
\* place.rs pack_registers).
OneRegisterEach ==
  \A x \in Luts(nl) :
    Cardinality({f \in FfsOf(nl) : net(nl[f], "DATAIN") = net(nl[x], "COMBOUT") /\ net(nl[f], "DATAIN") # None}) <= 1
DataOnOneInput ==
  \A f \in FfsOf(nl) :
    \/ net(nl[f], "SLOAD") # None /\ net(nl[f], "DATAIN") # None
    \/ net(nl[f], "SLOAD") = None /\ (net(nl[f], "DATAIN") = None) # (net(nl[f], "SDATA") = None)
Placeable ==
  phase = "run" =>
    /\ \A x \in DOMAIN nl : nl[x].kind # "const"
    /\ OneRegisterEach /\ DataOnOneInput

-----------------------------------------------------------------------------
(***************************************************************************)
(* Which LUT and which register share an LE (place.rs): a register beside  *)
(* the LUT that feeds it, then registers on the load path beside a LUT     *)
(* near them that leaves input C free, and, once placed, more of those     *)
(* within each LAB.                                                        *)
(***************************************************************************)

CONSTANTS
  Designs,            \* [luts, ffs]: sequences of cells
  FANOUT,             \* nets with more loads say nothing
  REACH,              \* hops from a register
  LES_PER_LAB,
  MAX_LAB_INPUTS,
  MAX_PACKED_PER_LAB

VARIABLES
  cells,    \* the design
  les,      \* sequence of [lut, ff], indices into the cells
  stage,
  pairs,    \* what may still share: <<hops, register's LE, LUT's LE>>
  labs,     \* once placed, for each LAB the sequence of its LEs
  moved     \* register LE -> the LUT LE it moved into

place == <<cells, les, stage, pairs, labs, moved>>

-----------------------------------------------------------------------------
\* A LUT is [reads, out, cin, cout], a register [datain, sdata, sload, q].
LutCells == DOMAIN cells.luts
Ffs == DOMAIN cells.ffs
LutCell(l) == cells.luts[l]
Ff(f) == cells.ffs[f]

LutReads(l) == Range(LutCell(l).reads) \ {None}
CellNets(x) ==
  (IF x[1] = "lut" THEN LutReads(x[2]) \cup {LutCell(x[2]).out, LutCell(x[2]).cin, LutCell(x[2]).cout}
   ELSE {Ff(x[2]).datain, Ff(x[2]).sdata, Ff(x[2]).sload, Ff(x[2]).q}) \ {None}
Cells == ({"lut"} \X LutCells) \cup ({"ff"} \X Ffs)
Outputs(x) == IF x[1] = "lut" THEN {LutCell(x[2]).out, LutCell(x[2]).cout} ELSE {Ff(x[2]).q}
readersOf(n) == {x \in Cells : n \in CellNets(x) \ Outputs(x)}
driver(n) == {x \in Cells : n \in Outputs(x)}

CarryUsed(l) == LutCell(l).cout # None /\ readersOf(LutCell(l).cout) # {}
InChain(l) == CarryUsed(l) \/ (LutCell(l).cin # None /\ driver(LutCell(l).cin) # {})

\* Input C may carry the register's data: the LUT reads three others at most.
leaves_c(l, sdata) == LutCell(l).cin = None /\ Cardinality(LutReads(l) \ {sdata}) < Len(LutCell(l).reads)
takes(l, sdata) == leaves_c(l, sdata) /\ ~CarryUsed(l)

-----------------------------------------------------------------------------
\* LEs as the netlist has them: each register with the LUT on its DATAIN,
\* then the LUTs left.
LutOf(f) ==
  IF Ff(f).datain = None THEN None ELSE CHOOSE l \in LutCells : LutCell(l).out = Ff(f).datain
Formed ==
  LET beside == [f \in Ffs |-> [lut |-> LutOf(f), ff |-> f]]
      left == SelectSeq([l \in LutCells |-> l], LAMBDA l : \A f \in Ffs : LutOf(f) # l)
  IN  beside \o [i \in DOMAIN left |-> [lut |-> left[i], ff |-> None]]

\* pack_registers: cells within reach of a register, by hops.
Next1(set) == UNION {readersOf(n) \cup driver(n) : n \in {m \in UNION {CellNets(x) : x \in set} :
                                                        Cardinality(readersOf(m)) <= FANOUT}}
Frontiers(f) ==
  LET at[h \in 0..REACH] ==   \* [seen, edge]
        IF h = 0 THEN [seen |-> {<<"ff", f>>}, edge |-> {<<"ff", f>>}]
        ELSE CHOOSE r \in {[seen |-> p.seen \cup Next1(p.edge), edge |-> Next1(p.edge) \ p.seen] : p \in {at[h - 1]}} : TRUE
  IN  at
OnLoadPathAlone(le) == le.lut = None /\ le.ff # None /\ Ff(le.ff).sdata # None
PairsOf(all, i) ==
  LET f == all[i].ff
  IN  UNION {{<<h, i, j>> : j \in {k \in DOMAIN all :
                all[k].ff = None /\ <<"lut", all[k].lut>> \in Frontiers(f)[h].edge /\ takes(all[k].lut, Ff(f).sdata)}}
             : h \in 1..REACH}
Pairs(all) == UNION {PairsOf(all, i) : i \in {k \in DOMAIN all : OnLoadPathAlone(all[k])}}

Before(p, q) ==
  \/ p[1] < q[1]
  \/ p[1] = q[1] /\ p[2] < q[2]
  \/ p[1] = q[1] /\ p[2] = q[2] /\ p[3] <= q[3]
Nearest(set) == CHOOSE p \in set : \A q \in set : Before(p, q)

Gone(le) == le.lut = None /\ le.ff = None
Pack(all, p) ==
  IF Gone(all[p[2]]) \/ all[p[3]].ff # None THEN all
  ELSE [all EXCEPT ![p[3]].ff = all[p[2]].ff, ![p[2]].ff = None]

-----------------------------------------------------------------------------
\* What the placer accepts of a LAB (lab_check_of): packed LEs and lines.
packed(le) == le.lut # None /\ le.ff # None /\ Ff(le.ff).sdata # None /\ Ff(le.ff).sload = None
LeReads(le) ==
  ((IF le.lut = None THEN {} ELSE LutReads(le.lut))
   \cup (IF le.ff = None THEN {} ELSE {Ff(le.ff).sdata, Ff(le.ff).sload})) \ {None}
LeDrives(le) ==
  ((IF le.lut = None THEN {} ELSE {LutCell(le.lut).out})
   \cup (IF le.ff = None THEN {} ELSE {Ff(le.ff).q})) \ {None}
Lines(lab) ==
  LET read == UNION {LeReads(le) : le \in lab}
  IN  Cardinality(read) - Cardinality({le \in lab : LeDrives(le) \cap read # {}})
lab_check_of(lab) ==
  /\ Cardinality(lab) <= LES_PER_LAB
  /\ Cardinality({le \in lab : packed(le)}) <= MAX_PACKED_PER_LAB
  /\ Lines(lab) <= MAX_LAB_INPUTS

\* merge_in_labs, within one LAB of LEs `slots` in order: what it moves.
MergeInto(slots) ==
  LET LutOnly == SelectSeq(slots, LAMBDA i : les[i].ff = None /\ ~InChain(les[i].lut))
      Fits(i, f) == leaves_c(les[i].lut, Ff(f).sdata) /\ Ff(f).q \notin LutReads(les[i].lut)
      Pick(luts, f) ==
        LET fit == {k \in DOMAIN luts : Fits(luts[k], f)}
            reads == {k \in fit : Ff(f).sdata \in LutReads(les[luts[k]].lut)}
            of == IF reads # {} THEN reads ELSE fit
        IN  IF of = {} THEN None ELSE luts[CHOOSE k \in of : \A o \in of : k <= o]
      Try(r, i) ==   \* r = [luts, moves]
        LET to == IF OnLoadPathAlone(les[i]) THEN Pick(r.luts, les[i].ff) ELSE None
        IN  IF to = None THEN r
            ELSE [luts |-> SelectSeq(r.luts, LAMBDA k : k # to), moves |-> r.moves \cup {<<i, to>>}]
  IN  FoldLeft(Try, [luts |-> LutOnly, moves |-> {}], slots).moves
Merged(i) ==
  LET from == {m \in moved : m[2] = i}
  IN  IF \E m \in moved : m[1] = i THEN [lut |-> None, ff |-> None]
      ELSE IF from = {} THEN les[i]
      ELSE [les[i] EXCEPT !.ff = les[(CHOOSE m \in from : TRUE)[1]].ff]

-----------------------------------------------------------------------------
LeInit ==
  /\ cells \in Designs
  /\ les = Formed
  /\ stage = "pack"
  /\ pairs = Pairs(les)
  /\ labs = <<>> /\ moved = {}

TakePair ==
  /\ stage = "pack" /\ pairs # {}
  /\ LET p == Nearest(pairs) IN les' = Pack(les, p) /\ pairs' = pairs \ {p}
  /\ UNCHANGED <<cells, stage, labs, moved>>

\* The LEs emptied leave; the placer puts the rest into LABs it accepts.
Place ==
  /\ stage = "pack" /\ pairs = {}
  /\ LET left == SelectSeq(les, LAMBDA le : ~Gone(le))
     IN  /\ les' = left
         /\ \E at \in [DOMAIN left -> 1..2] :
              LET In(l) == SelectSeq([i \in DOMAIN left |-> i], LAMBDA i : at[i] = l)
              IN  /\ \A l \in 1..2 : lab_check_of({left[In(l)[k]] : k \in DOMAIN In(l)})
                  /\ labs' = <<In(1), In(2)>>
  /\ stage' = "placed"
  /\ UNCHANGED <<cells, pairs, moved>>

Merge ==
  /\ stage = "placed"
  /\ moved' = UNION {MergeInto(labs[l]) : l \in DOMAIN labs}
  /\ stage' = "merged"
  /\ UNCHANGED <<cells, les, pairs, labs>>

LeNext == TakePair \/ Place \/ Merge
LeSpec == LeInit /\ [][LeNext]_place

-----------------------------------------------------------------------------
\* What ends up in the LEs: every LUT and register in one, a LUT that shares
\* its LE with a register on the load path reading no more than the three
\* inputs left, and no carry LE among them (pack_registers, merge_in_labs).
Final == {IF stage = "merged" THEN Merged(i) ELSE les[i] : i \in DOMAIN les}
InOne(part, x) ==
  Cardinality({i \in DOMAIN les : (IF stage = "merged" THEN Merged(i) ELSE les[i])[part] = x}) = 1
Sound(le) ==
  packed(le) => /\ Cardinality(LutReads(le.lut) \ {Ff(le.ff).sdata}) <= 3
                /\ ~InChain(le.lut)
PackedOnC ==
  /\ \A l \in LutCells : InOne("lut", l)
  /\ \A f \in Ffs : InOne("ff", f)
  /\ \A le \in Final : Sound(le)

\* The nearest come first: where a register and a LUT that could share an
\* LE do not, one of the two shares with something no farther away
\* (pack_registers, "nearest pairs first").
SharedHops(f, l) ==   \* hops at which f's own LE and l could have met
  {p[1] : p \in {q \in Pairs(Formed) : Formed[q[2]].ff = f /\ Formed[q[3]].lut = l}}
Shares(f, l) == \E i \in DOMAIN les : les[i].lut = l /\ les[i].ff = f
NearestShare ==
  (stage = "pack" /\ pairs = {}) =>
    \A f \in Ffs, l \in LutCells : \A h \in SharedHops(f, l) :
      \/ Shares(f, l)
      \/ \E m \in LutCells : Shares(f, m) /\ \E k \in SharedHops(f, m) : k <= h
      \/ \E g \in Ffs : Shares(g, l) /\ \E k \in SharedHops(g, l) : k <= h

\* Merging within a LAB leaves it the nets it reads, and as many LEs fewer as
\* it moved registers.  It costs what the placer counts for it and no more: one
\* LE that pairs a LUT with another's register for each moved, and one line for
\* each whose new LE has two outputs the LAB reads, only one of which stays on
\* the LE's local line.  Neither is checked again, so a LAB may end up over the
\* limits it was placed within (merge_in_labs; place.rs:387-390 says "the LAB
\* keeps its signals, so routing it is no harder", :1600-1602 counts the line).
Moves(l) == {m \in moved : \E k \in DOMAIN labs[l] : labs[l][k] = m[1]}
LabsKeepSignals ==
  stage = "merged" =>
    \A l \in DOMAIN labs :
      LET at == {labs[l][k] : k \in DOMAIN labs[l]}
          was == {les[i] : i \in at}
          now == {Merged(i) : i \in {j \in at : ~Gone(Merged(j))}}
          read == UNION {LeReads(le) : le \in was}
          both == {m \in Moves(l) : \A k \in 1..2 : LeDrives(les[m[k]]) \cap read # {}}
          onC == {m \in Moves(l) : Ff(les[m[1]].ff).sload = None}
          Packed(lab) == Cardinality({le \in lab : packed(le)})
      IN  /\ UNION {LeReads(le) : le \in now} = read
          /\ \A m \in Moves(l) : m[2] \in at
          /\ Cardinality(now) = Cardinality(was) - Cardinality(Moves(l))
          /\ Packed(now) = Packed(was) + Cardinality(onC)
          /\ Lines(now) = Lines(was) + Cardinality(both)
=============================================================================
