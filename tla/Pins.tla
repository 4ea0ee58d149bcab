-------------------------------- MODULE Pins --------------------------------
(***************************************************************************)
(* Pins, pin buffers and clocks, and the pins of embedded blocks.          *)
(***************************************************************************)
EXTENDS Integers, Sequences, FiniteSets, FiniteSetsExt, TLC

-----------------------------------------------------------------------------
(***************************************************************************)
(* Pins and clocks: the packer names the pad buffers after their ports and *)
(* puts clocks on clock controls (pack/mod.rs pack_io, pack_pll_outputs,   *)
(* pack_clocks); the placer gives pins, PLLs, external clock outputs and   *)
(* clock controls their sites, and takes an external clock output back     *)
(* when it is not wired to the pad it drives (place.rs fixed_cells,        *)
(* globals_for_pll_pins).                                                  *)
(*                                                                         *)
(* The chip says, for every output of a fixed site, which sites it reaches *)
(* over dedicated wiring, nearest first.                                   *)
(***************************************************************************)

CONSTANTS
  None,
  Designs,     \* [cells, pins: port -> pad]
  Chip         \* [pads, reach, controls, plls, outs, wired]

VARIABLES
  design,
  nl,          \* cell -> [kind, at]
  port,        \* pad buffer -> the port it serves
  site,        \* fixed cell -> its site
  phase,
  off          \* [pass, cells]: external clock outputs not wired to their pad

pins == <<design, nl, port, site, phase, off>>

-----------------------------------------------------------------------------
\* The netlist.
OUTPUTS == {"COMBOUT", "REGOUT", "OUTCLK", "CLK0", "CLK2", "O", "Y"}
net(c, x, p) == IF p \in DOMAIN c[x].at THEN c[x].at[p] ELSE None
Drives(c, x, p, n) == /\ n # None /\ net(c, x, p) = n
                      /\ p \in OUTPUTS \/ (p = "PAD" /\ c[x].kind = "obuf")
Ends(c) == UNION {{x} \X DOMAIN c[x].at : x \in DOMAIN c}
driver(c, n) == LET D == {e \in Ends(c) : Drives(c, e[1], e[2], n)} IN IF D = {} THEN None ELSE CHOOSE e \in D : TRUE
users(c, n) == {e \in Ends(c) : n # None /\ c[e[1]].at[e[2]] = n /\ ~Drives(c, e[1], e[2], n)}
Of(c, kinds) == {x \in DOMAIN c : c[x].kind \in kinds}
Rewired(c, E, n) ==
  [x \in DOMAIN c |-> [c[x] EXCEPT !.at = [p \in DOMAIN @ |-> IF <<x, p>> \in E THEN n ELSE @[p]]]]

BUFFERS == {"ibuf", "obuf", "iobuf"}
TOPS == {"topin", "topout", "topinout"}

-----------------------------------------------------------------------------
\* pack_io: the buffers of a top-level port, and what may be on its nets.
pad_users(c, n) == {e[1] : e \in {u \in users(c, n) : u[2] = "PAD" /\ c[u[1]].kind = "iobuf"}}
DriverOf(c, n, kind) ==
  LET d == driver(c, n) IN IF d # None /\ c[d[1]].kind = kind THEN {d[1]} ELSE {}
BuffersOf(c, t) ==
  CASE c[t].kind = "topin" -> {e[1] : e \in {u \in users(c, net(c, t, "O")) : c[u[1]].kind = "ibuf"}}
    [] c[t].kind = "topout" -> DriverOf(c, net(c, t, "I"), "obuf") \cup pad_users(c, net(c, t, "I"))
    [] OTHER -> UNION {DriverOf(c, n, "iobuf") \cup pad_users(c, n) : n \in {net(c, t, "I"), net(c, t, "O")}}
is_pad(c, e) == e[2] = "PAD" /\ c[e[1]].kind \in BUFFERS
TopSound(c, t) ==
  /\ c[t].kind = "topinout" => BuffersOf(c, t) # {}
  /\ LET d == driver(c, net(c, t, "I")) IN d # None => is_pad(c, d)
  /\ \A u \in users(c, net(c, t, "O")) : is_pad(c, u)
Named(c, b) == {t \in Of(c, TOPS) : b \in BuffersOf(c, t)}

\* The port cells and the pad side go; an input side nothing reads too.
WithoutTops(c) ==
  LET left == [x \in DOMAIN c \ Of(c, TOPS) |-> [c[x] EXCEPT !.at = [p \in DOMAIN @ \ {"PAD"} |-> @[p]]]]
  IN  [x \in DOMAIN left |->
         IF left[x].kind = "iobuf" /\ users(left, net(left, x, "COMBOUT")) = {}
         THEN [left[x] EXCEPT !.at = [p \in DOMAIN @ \ {"COMBOUT"} |-> @[p]]] ELSE left[x]]

-----------------------------------------------------------------------------
\* pack_pll_outputs and pack_clocks.
is_pll_clock(c, n) ==
  LET d == driver(c, n) IN d # None /\ c[d[1]].kind = "pll" /\ d[2] \in {"CLK0", "CLK2"}
PinsOn(c, n) == {u \in users(c, n) : c[u[1]].kind \in {"obuf", "iobuf"} /\ u[2] = "DATAOUT"}
OwnOutput(c, n) ==
  /\ is_pll_clock(c, n) /\ driver(c, n)[2] = "CLK2"
  /\ Cardinality(PinsOn(c, n)) = 1 /\ \A u \in PinsOn(c, n) : c[u[1]].kind = "obuf"
WithOutput(c, n) ==
  (n \o "$pllout" :> [kind |-> "pllout", at |-> [INCLK |-> n, OUTCLK |-> n \o "$pllout"]])
  @@ Rewired(c, PinsOn(c, n), n \o "$pllout")

is_clock(c, u) == c[u[1]].kind = "ff" /\ u[2] = "CLK"
\* Wrong on purpose: only clocks.
goes_global_clock(c, n, u) == is_clock(c, u)
goes_global(c, n, u) == is_clock(c, u) \/ (is_pll_clock(c, n) /\ c[u[1]].kind # "pllout")
Globals(c, n) == {u \in users(c, n) : goes_global(c, n, u)}
WithControl(c, n) ==
  (n \o "$clkctrl" :> [kind |-> "clkctrl", at |-> [INCLK |-> n, OUTCLK |-> n \o "$global"]])
  @@ Rewired(c, Globals(c, n), n \o "$global")
NetsOf(c) == {c[e[1]].at[e[2]] : e \in Ends(c)} \ {None}

-----------------------------------------------------------------------------
\* The chip: the sites an output reaches, the nearest free one.
Taken(at) == {at[x] : x \in {y \in DOMAIN at : at[y] # None}}
nearest(among, at, from) ==
  LET free == {i \in DOMAIN Chip.reach[from] : Chip.reach[from][i] \in among \ Taken(at)}
  IN  IF free = {} THEN None ELSE Chip.reach[from][CHOOSE i \in free : \A j \in free : i <= j]
OutNode(e) == <<site[e[1]], e[2]>>
Unsited(kinds) == {x \in Of(nl, kinds) : site[x] = None}
Dedicated(x) == nl[driver(nl, net(nl, x, "INCLK"))[1]].kind \in {"ibuf", "pll"}

Place(x, s) == site' = [site EXCEPT ![x] = s]
Fail == phase' = "failed" /\ UNCHANGED site
Fresh(c) == [x \in DOMAIN c |-> None]

-----------------------------------------------------------------------------
PinInit ==
  /\ design \in Designs
  /\ nl = design.cells
  /\ port = <<>> /\ site = <<>>
  /\ phase = "io" /\ off = [pass |-> 1, cells |-> {}]

pack_io ==
  /\ phase = "io"
  /\ \/ /\ \A t \in Of(nl, TOPS) : TopSound(nl, t)
        /\ \A b \in Of(nl, BUFFERS) : Named(nl, b) # {}
        /\ \E p \in [Of(nl, BUFFERS) -> Of(nl, TOPS)] :
             port' = p /\ \A b \in DOMAIN p : p[b] \in Named(nl, b)
        /\ nl' = WithoutTops(nl) /\ phase' = "clocks"
     \/ /\ \/ \E t \in Of(nl, TOPS) : ~TopSound(nl, t)
           \/ \E b \in Of(nl, BUFFERS) : Named(nl, b) = {}
        /\ phase' = "failed" /\ UNCHANGED <<nl, port>>
  /\ UNCHANGED <<design, site, off>>

OwnOutputs == {n \in NetsOf(nl) : OwnOutput(nl, n)}
Clocks ==
  {n \in NetsOf(nl) : /\ Globals(nl, n) # {} /\ driver(nl, n) # None
                      /\ nl[driver(nl, n)[1]].kind # "clkctrl" /\ n \o "$clkctrl" \notin DOMAIN nl}
pack_pll_outputs ==
  /\ phase = "clocks"
  /\ \E n \in OwnOutputs : nl' = WithOutput(nl, n)
  /\ UNCHANGED <<design, port, site, phase, off>>
pack_clocks ==
  /\ phase = "clocks" /\ OwnOutputs = {}
  /\ \E n \in Clocks : nl' = WithControl(nl, n)
  /\ UNCHANGED <<design, port, site, phase, off>>
Packed ==
  /\ phase = "clocks" /\ OwnOutputs = {} /\ Clocks = {}
  /\ phase' = "pins" /\ site' = Fresh(nl)
  /\ UNCHANGED <<design, nl, port, off>>

\* fixed_cells, a cell at a time: pins, PLLs, external clock outputs, then
\* the clock controls of pins and PLLs, then those of the core.
PlacePin ==
  /\ phase = "pins"
  /\ \E b \in Unsited(BUFFERS) :
       LET pad == design.pins[port[b]]
       IN  IF (Chip.pads[pad] = "clock" /\ nl[b].kind # "ibuf") \/ pad \in Taken(site) THEN Fail
           ELSE Place(b, pad) /\ UNCHANGED phase
  /\ UNCHANGED <<design, nl, port, off>>
PlacePll ==
  /\ phase = "pins" /\ Unsited(BUFFERS) = {}
  /\ \E x \in Unsited({"pll"}) :
       LET d == driver(nl, net(nl, x, "INCLK"))
           s == IF d = None \/ nl[d[1]].kind # "ibuf" THEN None ELSE nearest(Chip.plls, site, OutNode(d))
       IN  IF s = None THEN Fail ELSE Place(x, s) /\ UNCHANGED phase
  /\ UNCHANGED <<design, nl, port, off>>

\* An external clock output not wired to the pad it drives is only noted.
OutputsLeft == Unsited({"pllout"}) \ off.cells
PlaceOutput ==
  /\ phase = "pins" /\ Unsited(BUFFERS \cup {"pll"}) = {}
  /\ \E x \in OutputsLeft :
       LET s == nearest(Chip.outs, site, OutNode(driver(nl, net(nl, x, "INCLK"))))
           pad == CHOOSE u \in users(nl, net(nl, x, "OUTCLK")) : TRUE
       IN  CASE s = None -> Fail /\ UNCHANGED off
             [] s # None /\ Chip.wired[s] = site[pad[1]] -> Place(x, s) /\ UNCHANGED <<phase, off>>
             [] OTHER -> off' = [off EXCEPT !.cells = @ \cup {x}] /\ UNCHANGED <<site, phase>>
  /\ UNCHANGED <<design, nl, port>>
OutputsDone == phase = "pins" /\ Unsited(BUFFERS \cup {"pll"}) = {} /\ OutputsLeft = {}

\* globals_for_pll_pins, and everything placed once more.
GlobalOf(c, x) == {y \in Of(c, {"clkctrl"}) : net(c, y, "INCLK") = net(c, x, "INCLK")}
OntoGlobal(c, x) ==
  IF GlobalOf(c, x) = {} THEN [c EXCEPT ![x].kind = "clkctrl"]
  ELSE LET g == net(c, CHOOSE y \in GlobalOf(c, x) : TRUE, "OUTCLK")
           moved == Rewired(c, users(c, net(c, x, "OUTCLK")), g)
       IN  [y \in DOMAIN c \ {x} |-> moved[y]]
globals_for_pll_pins ==
  /\ OutputsDone /\ off.cells # {}
  /\ IF off.pass = 2 THEN phase' = "still off" /\ UNCHANGED <<nl, site, off>>
     ELSE /\ nl' = FoldSet(LAMBDA x, c : OntoGlobal(c, x), nl, off.cells)
          /\ site' = Fresh(nl') /\ off' = [pass |-> 2, cells |-> {}] /\ UNCHANGED phase
  /\ UNCHANGED <<design, port>>

ClockControls(dedicated) == {x \in Unsited({"clkctrl"}) : Dedicated(x) = dedicated}
PlacePinClock ==
  /\ OutputsDone /\ off.cells = {}
  /\ \E x \in ClockControls(TRUE) :
       LET s == nearest(Chip.controls, site, OutNode(driver(nl, net(nl, x, "INCLK"))))
       IN  IF s = None THEN Fail ELSE Place(x, s) /\ UNCHANGED phase
  /\ UNCHANGED <<design, nl, port, off>>
\* The nearest free one to its driver or to the middle: left open.
PlaceCoreClock ==
  /\ OutputsDone /\ off.cells = {} /\ ClockControls(TRUE) = {}
  /\ \E x \in ClockControls(FALSE) :
       \/ Chip.controls \subseteq Taken(site) /\ Fail
       \/ \E s \in Chip.controls \ Taken(site) : Place(x, s) /\ UNCHANGED phase
  /\ UNCHANGED <<design, nl, port, off>>
Placed ==
  /\ OutputsDone /\ off.cells = {} /\ Unsited({"clkctrl"}) = {}
  /\ phase' = "placed"
  /\ UNCHANGED <<design, nl, port, site, off>>

PinNext ==
  \/ pack_io \/ pack_pll_outputs \/ pack_clocks \/ Packed
  \/ PlacePin \/ PlacePll \/ PlaceOutput \/ globals_for_pll_pins
  \/ PlacePinClock \/ PlaceCoreClock \/ Placed
PinSpec == PinInit /\ [][PinNext]_pins

-----------------------------------------------------------------------------
\* Through clock controls and external clock outputs, what a net carries.
Source(c, n) ==
  LET back[m \in NetsOf(c)] ==
        LET d == driver(c, m)
        IN  IF d # None /\ c[d[1]].kind \in {"clkctrl", "pllout"} THEN back[net(c, d[1], "INCLK")] ELSE m
  IN  IF n = None THEN None ELSE back[n]
Loads == {e \in Ends(design.cells) : /\ design.cells[e[1]].kind \notin TOPS /\ e[2] \notin OUTPUTS \cup {"PAD"}}

\* Whatever was put in between, every load still gets the signal it had,
\* and a PLL's output goes to nothing but clock controls (pack_clocks,
\* pack_pll_outputs, globals_for_pll_pins).
SourcesKept ==
  (nl # <<>> /\ phase # "failed") =>
    \A e \in Loads : Source(nl, net(nl, e[1], e[2])) = design.cells[e[1]].at[e[2]]
PllOutsOnClocks ==
  phase \in {"pins", "placed"} =>
    \A n \in NetsOf(nl) : is_pll_clock(nl, n) => \A u \in users(nl, n) : nl[u[1]].kind \in {"clkctrl", "pllout"}

\* Every fixed cell gets a site of its own, one its source reaches over
\* dedicated wiring; a pad buffer is on the pad of the port its own pad net
\* belongs to; and taking back the external clock outputs that miss their
\* pad leaves none that does (fixed_cells; "a PLL clock output is still off
\* its pad" cannot happen).
Reached(x) ==
  LET d == driver(nl, net(nl, x, "INCLK"))
  IN  (nl[x].kind = "pllout" \/ nl[x].kind = "pll" \/ Dedicated(x)) =>
        \E i \in DOMAIN Chip.reach[OutNode(d)] : Chip.reach[OutNode(d)][i] = site[x]
OnItsPad(b) ==
  LET t == CHOOSE t \in Of(design.cells, TOPS) : design.pins[t] = site[b]
  IN  design.cells[b].at.PAD \in {net(design.cells, t, "I"), net(design.cells, t, "O")}
SitesSound ==
  /\ phase # "still off"
  /\ \A x, y \in DOMAIN site : site[x] # None /\ x # y => site[x] # site[y]
  /\ phase = "placed" =>
       /\ \A x \in Of(nl, {"pll", "pllout", "clkctrl"}) : Reached(x)
       /\ \A b \in Of(nl, BUFFERS) : OnItsPad(b)
OneGlobalEach ==
  \A x, y \in Of(nl, {"clkctrl"}) : x # y => net(nl, x, "INCLK") # net(nl, y, "INCLK")
ClocksSound == SourcesKept /\ PllOutsOnClocks /\ OneGlobalEach

-----------------------------------------------------------------------------
(***************************************************************************)
(* Memory and multiplier blocks on their pins: the packer moves a cell's   *)
(* logical ports onto the block's physical pins (pack/mod.rs pack_m4k,     *)
(* pack_mult, drive_tied_data, unsigned_signs; m4k.rs Shape, CellPort,     *)
(* Pin; mult.rs).  A constant is left off where an unconnected pin reads   *)
(* it, and driven by an LE or read through the pin's inversion where not.  *)
(*                                                                         *)
(* A port is <<name, side or clock>> or <<name, side, bit>>; what it is    *)
(* given is "zero", "one", None, a net or "undriven", a net without        *)
(* driver.                                                                 *)
(***************************************************************************)

CONSTANTS
  Cells,      \* see below
  ROW,        \* operand width of one block (18)
  NINE        \* operand width of one nine-bit row (9)

VARIABLES
  cell,       \* the cell given
  step,
  pin,        \* block pin -> net
  tied,       \* pins whose constant an LE will drive
  invert      \* multiplier pins read through their inversion

block == <<cell, step, pin, tied, invert>>

-----------------------------------------------------------------------------
\* M4K cells: [kind, shape, synthesized, at, used, via].  `used` holds the
\* outputs something reads, `via` gives the one-input LUT a net comes from.
\* A shape is [mode, a, b, clock, out, base, slice, bytes]: the ports'
\* widths (None without one), port B's clock, the clocks of the output
\* registers, and where a base word's bits sit.
ADDR_PINS == 12
CONSTANT_NETS == {"zero", "one"}
Constant(n) == n \in CONSTANT_NETS \cup {None, "undriven"}
Driven(n) == ~Constant(n)
Has(p) == p \in DOMAIN cell.at
At(p) == IF Has(p) THEN cell.at[p] ELSE None

addr_bits(w) == CASE w = 1 -> 12 [] w = 2 -> 11 [] w = 4 -> 10 [] w = 9 -> 9 [] w = 18 -> 8 [] w = 36 -> 7
depth(w) == IF w < 9 THEN 4096 \div w ELSE 4608 \div w
linear(w, word, slot) ==
  LET l == word * w + slot IN IF w < 9 THEN 9 * (l \div 8) + (l % 8) ELSE l
ColumnAt(w, l) == IF w < 9 THEN (8 * (l \div 9) + (l % 9)) % w ELSE l % w

width(shape, s) == IF s = "A" THEN shape.a ELSE shape.b
writable(shape, s) == shape.mode = "TrueDual" \/ s = "A"
ReadSides(shape) ==
  CASE shape.mode = "Single" -> {"A"} [] shape.mode = "SimpleDual" -> {"B"} [] OTHER -> {"A", "B"}
ratio(shape, w) == depth(shape.base) \div depth(w)
base_column(shape, b) == IF shape.bytes THEN 9 * (b \div 8) + (b % 8) ELSE b
column(shape, w, k) ==
  ColumnAt(w, linear(shape.base, k \div shape.slice, base_column(shape, k % shape.slice)))
DataColumns(shape, s) ==
  IF width(shape, s) = None THEN {}
  ELSE LET w == width(shape, s) IN {column(shape, w, k) : k \in 0..(ratio(shape, w) * shape.slice - 1)}
low_addr(shape, s) == IF width(shape, s) = None THEN ADDR_PINS ELSE ADDR_PINS - addr_bits(width(shape, s))
UsesClock1(shape) == shape.clock = 1 \/ 1 \in shape.out

\* CellPort::pin, Pin::addr and data_pin: some address pins are data pins.
PinOf(p) ==
  CASE p[1] = "ADDR" /\ p[2] = "A" /\ p[3] < 4 -> <<"DI", 12 + p[3]>>
    [] p[1] = "ADDR" /\ p[2] = "A" -> <<"WA", IF p[3] = 4 THEN 11 ELSE p[3] - 5>>
    [] p[1] = "ADDR" /\ p[3] < 2 -> <<"DI", IF p[3] = 0 THEN 26 ELSE 35>>
    [] p[1] = "ADDR" -> <<"RA", IF p[3] < 5 THEN 7 + p[3] ELSE p[3] - 5>>
    [] p[1] = "DATAIN" -> <<"DI", IF p[2] = "A" THEN p[3] ELSE 18 + p[3]>>
    [] p[1] = "BYTEENA" -> <<"BE", IF p[2] = "A" THEN p[3] ELSE 2 + p[3]>>
    [] p[1] = "WE" -> <<IF p[2] = "A" THEN "WE" ELSE "RE">>
    [] OTHER -> p

-----------------------------------------------------------------------------
\* pack_m4k
Writes(s) == writable(cell.shape, s) /\ Driven(At(<<"WE", s>>))
ModeSound ==
  CASE cell.shape.mode = "SimpleDual" -> Writes("A") \/ cell.shape.b = 36
    [] cell.shape.mode = "TrueDual" -> cell.shape.clock = 0 \/ ~Writes("A")
    [] OTHER -> TRUE
Idle(s) == s = "A" /\ ~Writes("A") /\ cell.shape.mode = "SimpleDual"
Addressed(p) == ~Idle(p[2]) /\ p[3] >= low_addr(cell.shape, p[2])

\* What a port is kept for, and what is refused on it.
Keep(p) ==
  CASE p[1] = "DATAOUT" -> p \in cell.used
    [] p = <<"CLK", 1>> -> UsesClock1(cell.shape)
    [] p[1] \in {"WE", "DATAIN", "BYTEENA"} -> Writes(p[2])
    [] p[1] = "ADDR" -> Addressed(p)
    [] OTHER -> TRUE
Refused(p) ==
  CASE p[1] = "CLK" -> Keep(p) /\ ~Driven(At(p))
    [] p[1] = "ENA" -> At(p) = "zero"
    [] p[1] = "CLR" -> At(p) = "one"
    [] p[1] = "WE" -> At(p) = "one"
    [] p[1] = "BYTEENA" -> Keep(p) /\ At(p) = "zero"
    [] p[1] = "ADDR" -> Addressed(p) /\ At(p) \in {None, "undriven"}
    [] OTHER -> FALSE
ColumnUsed(p) ==
  IF cell.synthesized THEN p[3] \in DataColumns(cell.shape, p[2]) ELSE <<"DATAOUT", p[3]>> \in cell.used
Tied(p) == /\ Keep(p) /\ At(p) \in CONSTANT_NETS
           /\ p[1] = "ADDR" \/ (p[1] = "DATAIN" /\ ColumnUsed(p))

Kept == {p \in DOMAIN cell.at : Keep(p) /\ Driven(At(p))}
M4kSound ==
  /\ ModeSound
  /\ \A p \in DOMAIN cell.at : ~Refused(p)
  /\ \A p, q \in Kept : PinOf(p) = PinOf(q) => p = q

PackM4k ==
  /\ step = "pack" /\ cell.kind = "m4k"
  /\ IF M4kSound
     THEN /\ step' = "tie"
          /\ pin' = [x \in {PinOf(p) : p \in Kept} |-> At(CHOOSE p \in Kept : PinOf(p) = x)]
          /\ tied' = {<<PinOf(p), At(p)>> : p \in {q \in DOMAIN cell.at : Tied(q)}}
     ELSE step' = "refused" /\ UNCHANGED <<pin, tied>>
  /\ UNCHANGED <<cell, invert>>

\* drive_tied_data, by the LEs of constant_le
GND == "~GND"
ConstantLe(v) == IF v = "one" THEN "~VCC_LE" ELSE GND
DriveTied ==
  /\ step = "tie" /\ step' = "fold"
  /\ pin' = [x \in {t[1] : t \in tied} |-> ConstantLe((CHOOSE t \in tied : t[1] = x)[2])] @@ pin
  /\ UNCHANGED <<cell, tied, invert>>

-----------------------------------------------------------------------------
\* Multiplier cells: [kind, width, signed, regs, at, used, via], by operand.
Operands == {"A", "B"}
RowOf == IF \A o \in Operands : cell.width[o] <= NINE THEN NINE ELSE ROW
Pad(o) == RowOf - cell.width[o]
MultPin(o, i) == <<o, RowOf - cell.width[o] + i>>
Out(k) == <<"OUT", k + Pad("A") + Pad("B")>>
Padding(o) == {<<o, k>> : k \in 0..(Pad(o) - 1)}

Controls == {<<"CLK">>, <<"ENA">>, <<"ACLR">>}
Operand(p) == p[1] \in Operands
Output(p) == p[1] = "P"
PinFor(p) == CASE Operand(p) -> MultPin(p[1], p[2]) [] Output(p) -> Out(p[2]) [] OTHER -> p
MultRefused(p) ==
  \/ p \in Controls /\ ~cell.regs
  \/ p = <<"CLK">> /\ At(p) \in CONSTANT_NETS \cup {None}
  \/ p = <<"ENA">> /\ At(p) = "zero"
  \/ p = <<"ACLR">> /\ At(p) = "one"
  \/ Operand(p) /\ (p[2] >= cell.width[p[1]] \/ At(p) = None)
MultKept(p) ==
  CASE Output(p) -> p \in cell.used /\ p[2] < cell.width["A"] + cell.width["B"]
    [] OTHER -> At(p) # None /\ At(p) \notin CONSTANT_NETS
\* The block reads 1 on a pin left undriven.
Zeros ==
  UNION {Padding(o) : o \in Operands}
  \cup {MultPin(p[1], p[2]) : p \in {q \in DOMAIN cell.at : Operand(q) /\ At(q) = "zero"}}

PackMult ==
  /\ step = "pack" /\ cell.kind = "mult"
  /\ IF \E p \in DOMAIN cell.at : MultRefused(p)
     THEN step' = "refused" /\ UNCHANGED <<pin, invert>>
     ELSE LET kept == {p \in DOMAIN cell.at : MultKept(p)}
          IN  /\ step' = "fold" /\ invert' = Zeros
              /\ pin' = [x \in {PinFor(p) : p \in kept} |-> At(CHOOSE p \in kept : PinFor(p) = x)]
  /\ UNCHANGED <<cell, tied>>

\* pack_lut1 on a block's pin: a buffer folds into any input, an inverter
\* into a multiplier's operand (invert_mult_pin).
Toggle(set, x) == IF x \in set THEN set \ {x} ELSE set \cup {x}
CanFold(x) ==
  /\ pin[x] \in DOMAIN cell.via /\ x[1] \notin {"OUT", "DATAOUT"}
  /\ cell.via[pin[x]].inv => cell.kind = "mult" /\ x[1] \in Operands
Fold(x) ==
  /\ step = "fold" /\ CanFold(x)
  /\ pin' = [pin EXCEPT ![x] = cell.via[pin[x]].of]
  /\ invert' = IF cell.via[pin[x]].inv THEN Toggle(invert, x) ELSE invert
  /\ UNCHANGED <<cell, step, tied>>

\* unsigned_signs, once nothing is left to fold
UnsignedSigns ==
  /\ step = "fold" /\ \A x \in DOMAIN pin : ~CanFold(x)
  /\ step' = "done"
  /\ pin' = IF cell.kind = "m4k" THEN pin
            ELSE [x \in {<<"SIGN", o>> : o \in {p \in Operands : ~cell.signed[p]}} |-> GND] @@ pin
  /\ UNCHANGED <<cell, tied, invert>>

BlockInit ==
  /\ cell \in Cells /\ step = "pack" /\ pin = <<>> /\ tied = {} /\ invert = {}

BlockNext == PackM4k \/ DriveTied \/ PackMult \/ (\E x \in DOMAIN pin : Fold(x)) \/ UnsignedSigns

BlockSpec == BlockInit /\ [][BlockNext]_block

-----------------------------------------------------------------------------
\* What a net means: a source, and whether it is inverted.
Means[n \in STRING] ==
  IF n \in DOMAIN cell.via THEN LET m == Means[cell.via[n].of] IN <<m[1], m[2] # cell.via[n].inv>>
  ELSE IF n \in {"zero", GND} THEN <<"one", TRUE>> ELSE IF n = "~VCC_LE" THEN <<"one", FALSE>> ELSE <<n, FALSE>>
\* An unconnected pin: enables are on, clears and writes are off.
Unconnected(p) ==
  CASE p[1] \in {"ENA", "BYTEENA"} -> <<"one", FALSE>>
    [] p[1] \in {"WE", "CLR", "ACLR"} -> <<"one", TRUE>>
    [] OTHER -> None
Logical(p) == IF At(p) \in {None, "undriven"} THEN Unconnected(p) ELSE Means[At(p)]
Physical(p, x) == IF x \in DOMAIN pin THEN Means[pin[x]] ELSE Unconnected(p)

\* A written column matters if a read of some position it holds is used.
Positions(w, c) == {linear(w, word, c) : word \in 0..(36 \div w - 1)} \cap 0..35
Shown(s, c) ==
  \E r \in ReadSides(cell.shape) : \E d \in 0..(width(cell.shape, r) - 1) :
    /\ <<"DATAOUT", IF r = "B" /\ cell.shape.mode = "TrueDual" THEN 18 + d ELSE d>> \in cell.used
    /\ Positions(width(cell.shape, s), c) \cap Positions(width(cell.shape, r), d) # {}
Matters(p) ==
  CASE p[1] = "WE" -> writable(cell.shape, p[2])
    [] p[1] = "BYTEENA" -> Writes(p[2])
    [] p[1] = "DATAIN" -> Writes(p[2]) /\ Shown(p[2], p[3]) /\ At(p) \notin {None, "undriven"}
    [] p[1] = "ADDR" -> /\ Writes(p[2]) \/ p[2] \in ReadSides(cell.shape)
                        /\ p[3] >= low_addr(cell.shape, p[2])
    [] p = <<"CLK", 1>> -> UsesClock1(cell.shape)
    [] OTHER -> TRUE
M4kMeans ==
  /\ \A p \in {q \in DOMAIN cell.at : q[1] # "DATAOUT"} : Matters(p) => Physical(p, PinOf(p)) = Logical(p)
  /\ \A p \in cell.used : p \in DOMAIN pin /\ pin[p] = At(p)

\* A multiplier's rows as the block reads them, and its product.
Signals == {Means[At(p)][1] : p \in {q \in DOMAIN cell.at : Operand(q)}} \ {"one"}
ValueOf(m, v) == LET b == IF m[1] = "one" THEN 1 ELSE v[m[1]] IN IF m[2] THEN 1 - b ELSE b
PinValue(x, v) ==
  LET b == IF x \in DOMAIN pin THEN ValueOf(Means[pin[x]], v) ELSE 1 IN IF x \in invert THEN 1 - b ELSE b
Number(bits, n, signed) ==
  SumSet({bits[k] * (2 ^ k) : k \in 0..(n - 1)}) - (IF signed THEN bits[n - 1] * (2 ^ n) ELSE 0)
PhysicalRow(o, v) ==
  Number([k \in 0..(RowOf - 1) |-> PinValue(<<o, k>>, v)], RowOf, <<"SIGN", o>> \notin DOMAIN pin)
LogicalRow(o, v) ==
  LET n == cell.width[o] IN Number([i \in 0..(n - 1) |-> ValueOf(Means[At(<<o, i>>)], v)], n, cell.signed[o])
BitOf(x, k) == (x \div (2 ^ k)) % 2
MultMeans ==
  /\ \A p \in Controls \cap DOMAIN cell.at : Physical(p, p) = Logical(p)
  /\ \A v \in [Signals -> {0, 1}] : \A p \in cell.used :
       LET x == CHOOSE y \in DOMAIN pin : y[1] = "OUT" /\ pin[y] = At(p)
       IN  /\ \E y \in DOMAIN pin : y[1] = "OUT" /\ pin[y] = At(p)
           /\ BitOf(PhysicalRow("A", v) * PhysicalRow("B", v), x[2])
                = BitOf(LogicalRow("A", v) * LogicalRow("B", v), p[2])

\* What a block reads on its pins is what the cell says of its ports: every
\* bit that is written and read again, address, enable and clear of a memory
\* block, and a multiplier's whole product, for any value of its operands.
PinsMean ==
  step = "done" => IF cell.kind = "m4k" THEN M4kMeans ELSE MultMeans
=============================================================================
