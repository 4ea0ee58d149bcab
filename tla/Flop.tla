-------------------------------- MODULE Flop --------------------------------
(***************************************************************************)
(* Registers and latches of the netlist, what they become on the Cyclone   *)
(* II and on the 7-series slice, and the bench that runs the three side by *)
(* side.                                                                   *)
(***************************************************************************)
EXTENDS Naturals

-----------------------------------------------------------------------------
(***************************************************************************)
(* What a gate-level register or latch of the netlist does                 *)
(* (crates/chipsmith-netlist/src/ff.rs).  One input changes at a time; the *)
(* register takes what its inputs were before the clock edge.              *)
(*                                                                         *)
(* An ff is [kind, en, over, value, pol, init, mux]: which controls it has *)
(* and with which polarity, the value it resets to, the value it powers up *)
(* to, and whether a multiplexer is in front of it.                        *)
(***************************************************************************)

CONSTANT None

Signals == {"clk", "d", "en", "r", "s", "ad"}
Inputs == [Signals -> BOOLEAN]

\* Whether a control with this polarity acts at this value.
Acts(polarity, v) == v = polarity
Active(ff, x, c) == Acts(ff.pol[c], x[c])

Enabled(ff, x) == ff.en => Active(ff, x, "en")
Data(ff, x) == IF ff.mux /\ x["s"] THEN x["ad"] ELSE x["d"]

\* Set and clear: clear wins.
SetClr(ff, x) ==
  IF Active(ff, x, "r") THEN FALSE ELSE IF Active(ff, x, "s") THEN TRUE ELSE None

\* The value forced whatever the clock does, or None.
Forced(ff, x) ==
  LET reset == IF Active(ff, x, "r") THEN ff.value ELSE None
      open  == IF Active(ff, x, "en") THEN x["d"] ELSE None
  IN  CASE ff.kind = "async"  -> reset
        [] ff.kind = "load"   -> IF Active(ff, x, "r") THEN x["ad"] ELSE None
        [] ff.kind \in {"setclr", "sr"} -> SetClr(ff, x)
        [] ff.kind = "latch"  -> open
        [] ff.kind = "alatch" -> IF reset # None THEN reset ELSE open
        [] ff.kind = "srlatch" -> IF SetClr(ff, x) # None THEN SetClr(ff, x) ELSE open
        [] OTHER -> None

\* On a clock edge.
Clocked(ff, x, q) ==
  LET enabled == IF Enabled(ff, x) THEN Data(ff, x) ELSE q
      reset(v) == IF Active(ff, x, "r") THEN ff.value ELSE v
  IN  CASE ff.kind \in {"latch", "alatch", "srlatch", "sr"} -> q
        [] ff.kind = "sync" /\ ff.over = "reset" -> reset(enabled)
        [] ff.kind = "sync" /\ ff.over = "enable" ->
             IF Enabled(ff, x) THEN reset(Data(ff, x)) ELSE q
        [] ff.kind = "sync" /\ ff.over = "always" -> reset(Data(ff, x))
        [] OTHER -> enabled

\* The inputs go from x to y at a clock edge.
Edge(polarity, x, y) == x["clk"] # y["clk"] /\ y["clk"] = polarity

Settled(ff, x, q) == IF Forced(ff, x) = None THEN q ELSE Forced(ff, x)

After(ff, x, y, q) ==
  Settled(ff, y, IF Edge(ff.pol["clk"], x, y) THEN Clocked(ff, x, q) ELSE q)

-----------------------------------------------------------------------------
(***************************************************************************)
(* Registers and latches on the Cyclone II                                 *)
(* (crates/chipsmith-cyclone2/src/synth/ff.rs).  The LE's register has a   *)
(* rising clock, an enable, an asynchronous clear, a synchronous clear and *)
(* a synchronous load, and powers up 0: the rest is made of inverters, of  *)
(* a LUT that feeds its output back to itself, and of both.                *)
(***************************************************************************)

\* What one register or latch becomes.
Mapped(ff) ==
  CASE ff.kind \in {"latch", "alatch", "srlatch", "sr"} -> "latch"
    [] ff.kind \in {"load", "setclr"} \/ (ff.kind = "async" /\ ff.value # ff.init) -> "emulated"
    [] OTHER -> "register"

\* A synchronous reset the LAB's load stores, when the packing allows it.
ByLoad(ff) == ff.kind = "sync" /\ ff.lab /\ ~ff.init

\* The register holds the inverse of Q.
Inverted(ff) == ff.init

\* The reset acts on every edge: those edges are enabled too.
Ena(ff, x) ==
  IF ff.kind = "sync" /\ ff.over = "reset" THEN Enabled(ff, x) \/ Active(ff, x, "r")
  ELSE IF ff.kind = "sync" /\ ff.over = "always" THEN TRUE
  ELSE Enabled(ff, x)

Resets(ff, x) == ff.kind = "sync" /\ Active(ff, x, "r")

\* The clear can only store the power-up value: another reset goes into the
\* LUT in front.
InFront(ff) == ff.kind = "sync" /\ ~ByLoad(ff) /\ ff.value # ff.init

\* The multiplexer in front that the LAB's load takes: [load, sdata, datain].
Taken(ff) == ff.mux /\ ff.lab /\ ~Inverted(ff) /\ ~ByLoad(ff) /\ ~InFront(ff)

\* The LE register of a plain one.
Le(ff, x) ==
  LET d == IF Taken(ff) THEN x["d"] ELSE Data(ff, x)
      front == IF InFront(ff) /\ Active(ff, x, "r") THEN ff.value ELSE d
  IN  [d     |-> IF Inverted(ff) THEN ~front ELSE front,
       ena   |-> Ena(ff, x),
       aclr  |-> ff.kind = "async" /\ Active(ff, x, "r"),
       sclr  |-> Resets(ff, x) /\ ~InFront(ff) /\ ~ByLoad(ff),
       sload |-> IF ByLoad(ff) THEN Resets(ff, x) ELSE Taken(ff) /\ x["s"],
       sdata |-> IF ByLoad(ff) THEN ff.value ELSE x["ad"]]

\* What an asynchronous load does.  The five inputs of a latch with set and
\* clear are folded to two first.
Load(ff, x) ==
  IF ff.kind = "srlatch"
  THEN LET set == Active(ff, x, "s")
           clr == Active(ff, x, "r")
       IN  IF Active(ff, x, "en") \/ set \/ clr THEN (x["d"] \/ set) /\ ~clr ELSE None
  ELSE Forced(ff, x)

\* A loop holds the complement when Q powers up 1, so that it powers up 0.
Loop(ff, x, held) ==
  IF Load(ff, x) = None THEN held ELSE Load(ff, x) # ff.init

Xor(a, b) == a # b

\* The emulated register: an LE register with `D ^ L`, cleared while loading.
Emulated(ff, x, loop) ==
  LET d == IF ff.init THEN ~Data(ff, x) ELSE Data(ff, x)
  IN  [d |-> Xor(d, loop), ena |-> Enabled(ff, x), aclr |-> Load(ff, x) # None,
       sclr |-> FALSE, sload |-> FALSE, sdata |-> FALSE]

Lcell(ff, x, c) ==
  CASE Mapped(ff) = "register" -> Le(ff, x)
    [] Mapped(ff) = "emulated" -> Emulated(ff, x, c.loop)
    [] OTHER -> [d |-> FALSE, ena |-> FALSE, aclr |-> FALSE, sclr |-> FALSE,
                 sload |-> FALSE, sdata |-> FALSE]

-----------------------------------------------------------------------------
(* The hardware (external): the clear comes before the load.               *)

LeClocked(le, held) ==
  IF ~le.ena THEN held ELSE IF le.sclr THEN FALSE ELSE IF le.sload THEN le.sdata ELSE le.d

PowerUp == [reg |-> FALSE, loop |-> FALSE]

LeSettled(ff, x, c) ==
  LET loop == IF Mapped(ff) = "register" THEN c.loop ELSE Loop(ff, x, c.loop)
  IN  [reg |-> IF Lcell(ff, x, c).aclr THEN FALSE ELSE c.reg, loop |-> loop]

LeAfter(ff, x, y, c) ==
  LeSettled(ff, y, IF Edge(ff.pol["clk"], x, y)
                   THEN [c EXCEPT !.reg = LeClocked(Lcell(ff, x, c), c.reg)] ELSE c)

-----------------------------------------------------------------------------
\* Q.
Output(ff, x, c) ==
  LET held == CASE Mapped(ff) = "latch" -> c.loop
                [] Mapped(ff) = "register" -> c.reg
                [] Load(ff, x) = None -> Xor(c.reg, c.loop)
                [] OTHER -> Xor(Load(ff, x), ff.init)
  IN  Xor(held, ff.init)

-----------------------------------------------------------------------------
(***************************************************************************)
(* Registers on the 7-series slice (crates/chipsmith-xc7/src/synth/ff.rs): *)
(* an enable and one of four resets, which acts whether or not the         *)
(* register is enabled, and a power-up value of its own.                   *)
(***************************************************************************)

\* Latches, asynchronous loads, set and clear are refused.
Mappable(ff) == ff.kind \in {"plain", "async", "sync"}

\* The slice's reset acts on every edge: one that does not is gated.
SyncReset(ff, x) ==
  /\ ff.kind = "sync" /\ Active(ff, x, "r")
  /\ ff.over = "enable" => Enabled(ff, x)

Fd(ff, x) ==
  [d |-> Data(ff, x),
   ce |-> IF ff.kind = "sync" /\ ff.over = "always" THEN TRUE ELSE Enabled(ff, x),
   sync |-> SyncReset(ff, x),
   async |-> ff.kind = "async" /\ Active(ff, x, "r")]

\* The slice (external).
FdAfter(ff, x, y, q) ==
  LET fd == Fd(ff, x)
      clocked == IF ~Edge(ff.pol["clk"], x, y) THEN q
                 ELSE IF fd.sync THEN ff.value ELSE IF fd.ce THEN fd.d ELSE q
  IN  IF Fd(ff, y).async THEN ff.value ELSE clocked

-----------------------------------------------------------------------------
(***************************************************************************)
(* One register of the netlist, on the inputs the world gives it, and what *)
(* each family makes of it.                                                *)
(***************************************************************************)

CONSTANT Flops

VARIABLES cell, pins, shown, lcell, slice

flop == <<cell, pins, shown, lcell, slice>>


Init ==
  /\ cell \in Flops /\ pins \in Inputs
  /\ shown = Settled(cell, pins, cell.init)
  /\ lcell = LeSettled(cell, pins, PowerUp)
  /\ slice = FdAfter(cell, pins, pins, cell.init)

Next ==
  /\ \E s \in Signals : pins' = [pins EXCEPT ![s] = ~@]
  /\ shown' = After(cell, pins, pins', shown)
  /\ lcell' = LeAfter(cell, pins, pins', lcell)
  /\ slice' = IF Mappable(cell) THEN FdAfter(cell, pins, pins', slice) ELSE slice
  /\ UNCHANGED cell

Spec == Init /\ [][Next]_flop

\* Whatever the world does, the LE circuit shows what the register would:
\* every kind, polarity, reset and power-up value (cyclone2/synth/cell.rs).
CycloneSame == Output(cell, pins, lcell) = shown

\* ... and so does the slice, for what it maps (xc7/synth/cell.rs).
SliceSame == Mappable(cell) => slice = shown
=============================================================================
