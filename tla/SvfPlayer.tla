----------------------------- MODULE SvfPlayer ------------------------------
(***************************************************************************)
(* A JTAG test access port, the SVF player that drives it, and the EP2C35  *)
(* configured by an SVF.                                                   *)
(***************************************************************************)
EXTENDS Naturals, Sequences, SequencesExt

-----------------------------------------------------------------------------
(***************************************************************************)
(* The JTAG test access port of IEEE 1149.1 and the shortest ways between  *)
(* its states (crates/chipsmith-jtag/src/lib.rs, TapState).                *)
(***************************************************************************)

TapState ==
  {"Reset", "Idle",
   "DrSelect", "DrCapture", "DrShift", "DrExit1", "DrPause", "DrExit2", "DrUpdate",
   "IrSelect", "IrCapture", "IrShift", "IrExit1", "IrPause", "IrExit2", "IrUpdate"}

IrScan == {"IrCapture", "IrShift", "IrExit1", "IrPause", "IrExit2"}
DrScan == {"DrCapture", "DrShift", "DrExit1", "DrPause", "DrExit2"}

\* Where one TCK takes a TAP, by the level of TMS.
After(s, tms) ==
  IF tms
  THEN CASE s \in {"Idle", "DrUpdate", "IrUpdate"} -> "DrSelect"
         [] s = "DrSelect"                         -> "IrSelect"
         [] s \in {"IrSelect", "Reset"}            -> "Reset"
         [] s \in {"DrCapture", "DrShift"}         -> "DrExit1"
         [] s = "DrPause"                          -> "DrExit2"
         [] s \in {"DrExit1", "DrExit2"}           -> "DrUpdate"
         [] s \in {"IrCapture", "IrShift"}         -> "IrExit1"
         [] s = "IrPause"                          -> "IrExit2"
         [] s \in {"IrExit1", "IrExit2"}           -> "IrUpdate"
  ELSE CASE s \in {"Reset", "Idle", "DrUpdate", "IrUpdate"} -> "Idle"
         [] s = "DrSelect"                                  -> "DrCapture"
         [] s \in {"DrCapture", "DrShift", "DrExit2"}       -> "DrShift"
         [] s \in {"DrExit1", "DrPause"}                    -> "DrPause"
         [] s = "IrSelect"                                  -> "IrCapture"
         [] s \in {"IrCapture", "IrShift", "IrExit2"}       -> "IrShift"
         [] s \in {"IrExit1", "IrPause"}                    -> "IrPause"

FiveOnes == <<TRUE, TRUE, TRUE, TRUE, TRUE>>

\* The search follows the n-th path it knows one clock further.
Follow(q, n, tms) ==
  LET s == After(q[n].state, tms)
  IN IF \E i \in DOMAIN q : q[i].state = s THEN q
     ELSE Append(q, [state |-> s, path |-> Append(q[n].path, tms)])

\* path_to searches breadth first, low before high.
Found(from) ==
  LET list[n \in 0 .. 16] ==
        IF n = 0 THEN << [state |-> from, path |-> <<>>] >>
        ELSE Follow(Follow(list[n - 1], n, FALSE), n, TRUE)
  IN list[16]

\* path_to: five ones for Reset, which is where they lead from anywhere.
PathTo == [from \in TapState |-> [to \in TapState |->
  IF to = "Reset" THEN FiveOnes
  ELSE LET q == Found(from)
       IN q[CHOOSE i \in DOMAIN q : q[i].state = to].path]]

-----------------------------------------------------------------------------
(***************************************************************************)
(* Playing an SVF file (crates/chipsmith-jtag/src/svf.rs, Player) on a TAP *)
(* whose state at the start is unknown.                                    *)
(*                                                                         *)
(* A command is a list of cable calls; a call puts clocks on the wire and  *)
(* the TAP takes them one at a time.  The player never reads the TAP's     *)
(* state: it tracks it.                                                    *)
(***************************************************************************)

CONSTANTS
  Command,     \* the commands of the SVF files played
  IrBits,      \* length of the instruction register
  DrBits,      \* length of every data register
  Captures,    \* what a data register may capture
  Unknown, None, Idcode

Bit == {0, 1}
Bits(n) == [1 .. n -> Bit]

\* `stable`: the states a command may name.
Stable == {"Reset", "Idle", "DrPause", "IrPause"}

\* What `parse` makes of a statement; of the states on the way of a STATE it
\* lets through any, here they are stable as the last has to be.
Parsed(c) ==
  CASE c.cmd \in {"ENDIR", "ENDDR"} -> c.state \in Stable
    [] c.cmd = "STATE" -> c.path \in Seq(Stable)
    [] c.cmd \in {"SIR", "SDR"} ->
         c.len \in Nat /\ {c.tdi, c.tdo, c.mask} \subseteq Bits(c.len) \cup {None}
    [] c.cmd = "RUNTEST" -> c.n \in Nat /\ {c.run, c.end} \subseteq Stable \cup {None}
    [] OTHER -> FALSE

ASSUME CommandsAssumption == \A c \in Command : Parsed(c)

\* There are registers; what has no value is no state and no bits.
ASSUME RegistersAssumption ==
  /\ {IrBits, DrBits} \subseteq Nat \ {0}
  /\ Captures # {} /\ Captures \subseteq Bits(DrBits)
  /\ Unknown \notin TapState /\ Unknown # Idcode
  /\ Unknown \notin Seq(Bit) /\ Idcode \notin Seq(Bit)
  /\ None \notin Seq(Bit) \cup Stable /\ None \notin [want: Seq(Bit), mask: Seq(Bit)]

VARIABLES
  player,  \* what Player keeps between commands
  calls,   \* cable calls the current command has left
  wire,    \* clocks of the current call still to come: [tms, tdi]
  tap,     \* the device: state, shift registers, updated registers
  check,   \* the TDO the current call is to be compared with, or None
  tdo,     \* the bits captured in the current call
  verdict, \* "playing", "mismatch" or "error"
  said     \* history: the bits the commands shifted, and the first move

vars == <<player, calls, wire, tap, check, tdo, verdict, said>>

Init ==
  /\ player = [state |-> Unknown, endIr |-> "Idle", endDr |-> "Idle",
               runState |-> "Idle", endState |-> "Idle",
               lastIr |-> None, lastDr |-> None]
  /\ calls = <<>> /\ wire = <<>> /\ check = None /\ tdo = <<>>
  /\ \E s \in TapState, ir \in Bits(IrBits) \cup {Idcode} :
       tap = [state |-> s, irShift |-> [i \in 1 .. IrBits |-> 0], ir |-> ir,
              drShift |-> [i \in 1 .. DrBits |-> 0], dr |-> [i \in 1 .. DrBits |-> 0]]
  /\ verdict = "playing"
  /\ said = [ir |-> Unknown, dr |-> Unknown, first |-> FALSE]

-----------------------------------------------------------------------------
(***************************************************************************)
(* Commands.  TDI and MASK carry over from the last shift of the same kind *)
(* when it had the same length.                                            *)
(***************************************************************************)
Goto(to) == [call |-> "goto", to |-> to]
Ready == verdict = "playing" /\ calls = <<>> /\ wire = <<>> /\ check = None

EndIr(c) ==
  /\ c.cmd = "ENDIR"
  /\ player' = [player EXCEPT !.endIr = c.state]
  /\ UNCHANGED <<calls, verdict>>

EndDr(c) ==
  /\ c.cmd = "ENDDR"
  /\ player' = [player EXCEPT !.endDr = c.state]
  /\ UNCHANGED <<calls, verdict>>

State(c) ==
  /\ c.cmd = "STATE"
  /\ calls' = [i \in DOMAIN c.path |-> Goto(c.path[i])]
  /\ UNCHANGED <<player, verdict>>

\* A new run state is also the end state, unless one is given.
RunTest(c) ==
  /\ c.cmd = "RUNTEST"
  /\ LET run == IF c.run # None THEN c.run ELSE player.runState
         end == IF c.end # None THEN c.end
                ELSE IF c.run # None THEN c.run ELSE player.endState
     IN /\ player' = [player EXCEPT !.runState = run, !.endState = end]
        /\ calls' = << Goto(run),
                       [call |-> IF run = "Reset" THEN "ones" ELSE "idle", n |-> c.n],
                       Goto(end) >>
  /\ UNCHANGED verdict

\* "shift without TDI"
Refused(tdi) == tdi = None

Shift(c) ==
  /\ c.cmd \in {"SIR", "SDR"}
  /\ LET ir == c.cmd = "SIR"
         last == IF ir THEN player.lastIr ELSE player.lastDr
         carries == last # None /\ last.len = c.len
         tdi == IF c.tdi # None THEN c.tdi
                ELSE IF carries THEN last.tdi ELSE None
         mask == IF c.mask # None THEN c.mask
                 ELSE IF carries THEN last.mask ELSE [i \in 1 .. c.len |-> 1]
         now == [len |-> c.len, tdi |-> tdi, mask |-> mask]
         scan == << Goto(IF ir THEN "IrShift" ELSE "DrShift"),
                    [call |-> "shift", ir |-> ir, tdi |-> tdi,
                     want |-> c.tdo, mask |-> mask] >>
         end == << Goto(IF ir THEN player.endIr ELSE player.endDr) >>
     IN IF Refused(tdi)
        THEN verdict' = "error" /\ UNCHANGED <<player, calls>>
        ELSE /\ player' = IF ir THEN [player EXCEPT !.lastIr = now]
                          ELSE [player EXCEPT !.lastDr = now]
             /\ calls' = IF c.len > 0 THEN scan \o end ELSE end
             /\ UNCHANGED verdict

Begin(c) ==
  /\ Ready
  /\ EndIr(c) \/ EndDr(c) \/ State(c) \/ RunTest(c) \/ Shift(c)
  /\ UNCHANGED <<wire, tap, check, tdo, said>>

-----------------------------------------------------------------------------
(***************************************************************************)
(* Cable calls, each made when the one before it has been clocked out.     *)
(***************************************************************************)
\* What is left of the bits said to a register when the TAP moves: a scan
\* that was paused goes on, any other begins anew, and a pause without a scan
\* holds what was captured.
Kept(bits, scan, shift, pause, from, to) ==
  CASE to = shift /\ (from \notin scan \/ bits = Unknown) -> <<>>
    [] to = pause /\ from \notin scan                     -> Unknown
    [] OTHER                                              -> bits

Said(from, to) ==
  [ir |-> Kept(IF from = Unknown \/ to = "Reset" THEN Idcode ELSE said.ir,
               IrScan, "IrShift", "IrPause", from, to),
   dr |-> Kept(said.dr, DrScan, "DrShift", "DrPause", from, to),
   first |-> from = Unknown]

\* The last n bits said are all the registers have room for.
Recent(bits, n) ==
  IF Len(bits) <= n THEN bits ELSE SubSeq(bits, Len(bits) - n + 1, Len(bits))

Tms(path) == [i \in DOMAIN path |-> [tms |-> path[i], tdi |-> 0]]

\* Wrong on purpose: every move starts from Reset, to be safe.
WayThroughReset(from, to) ==
  IF to = "Reset" THEN FiveOnes ELSE FiveOnes \o PathTo["Reset"][to]

\* The TMS that take the TAP from where the player has it.
Way(from, to) ==
  IF to = "Reset" THEN FiveOnes
  ELSE IF from = Unknown THEN FiveOnes \o PathTo["Reset"][to]
  ELSE PathTo[from][to]

Move(k) ==
  /\ k.call = "goto"
  /\ wire' = Tms(Way(player.state, k.to))
  /\ player' = [player EXCEPT !.state = k.to]
  /\ said' = Said(player.state, k.to)
  /\ UNCHANGED <<check, tdo>>

\* The last bit is shifted on the way out of the shift state.
Out(tdi) == [i \in DOMAIN tdi |-> [tms |-> i = Len(tdi), tdi |-> tdi[i]]]

Scan(k) ==
  /\ k.call = "shift"
  /\ wire' = Out(k.tdi)
  /\ player' = [player EXCEPT !.state = IF k.ir THEN "IrExit1" ELSE "DrExit1"]
  /\ check' = IF k.want = None THEN None ELSE [want |-> k.want, mask |-> k.mask]
  /\ tdo' = <<>>
  /\ said' = IF k.ir THEN [said EXCEPT !.ir = Recent(@ \o k.tdi, IrBits)]
             ELSE [said EXCEPT !.dr = Recent(@ \o k.tdi, DrBits)]

\* The cable's own count of clocks in the run state.
Wait(k) ==
  /\ k.call \in {"ones", "idle"}
  /\ wire' = [i \in 1 .. k.n |-> [tms |-> k.call = "ones", tdi |-> 0]]
  /\ UNCHANGED <<player, check, tdo, said>>

Call ==
  /\ verdict = "playing" /\ wire = <<>> /\ check = None /\ calls # <<>>
  /\ LET k == Head(calls) IN Move(k) \/ Scan(k) \/ Wait(k)
  /\ calls' = Tail(calls)
  /\ UNCHANGED <<tap, verdict>>

Mismatch(bits, c) == \E i \in DOMAIN bits : c.mask[i] = 1 /\ bits[i] # c.want[i]

Compare ==
  /\ verdict = "playing" /\ wire = <<>> /\ check # None
  /\ verdict' = IF Mismatch(tdo, check) THEN "mismatch" ELSE "playing"
  /\ check' = None
  /\ UNCHANGED <<player, calls, wire, tap, tdo, said>>

(***************************************************************************)
(* One TCK at the device.                                                  *)
(***************************************************************************)
Clock ==
  /\ wire # <<>>
  /\ LET c == Head(wire)
         s == tap.state
         next == After(s, c.tms)
     IN \E captured \in Captures :
          /\ tap' = [state |-> next,
               irShift |-> CASE s = "IrShift" -> Append(Tail(tap.irShift), c.tdi)
                             [] s = "IrCapture" -> [i \in 1 .. IrBits |-> IF i = 1 THEN 1 ELSE 0]
                             [] OTHER -> tap.irShift,
               ir |-> CASE next = "Reset" -> Idcode
                        [] next = "IrUpdate" -> tap.irShift
                        [] OTHER -> tap.ir,
               drShift |-> CASE s = "DrShift" -> Append(Tail(tap.drShift), c.tdi)
                             [] s = "DrCapture" -> captured
                             [] OTHER -> tap.drShift,
               dr |-> IF next = "DrUpdate" THEN tap.drShift ELSE tap.dr]
          /\ s # "DrCapture" => captured = CHOOSE v \in Captures : TRUE
          /\ tdo' = IF check = None THEN tdo
                    ELSE Append(tdo, Head(IF s = "IrShift" THEN tap.irShift ELSE tap.drShift))
  /\ wire' = Tail(wire)
  /\ UNCHANGED <<player, calls, check, verdict, said>>

Next == (\E c \in Command : Begin(c)) \/ Call \/ Compare \/ Clock

Spec == Init /\ [][Next]_vars
-----------------------------------------------------------------------------
TypeOK ==
  /\ player.state \in TapState \cup {Unknown}
  /\ {player.endIr, player.endDr, player.runState, player.endState} \subseteq Stable
  /\ calls \in Seq([call: {"goto"}, to: TapState]
                   \cup [call: {"shift"}, ir: BOOLEAN, tdi: Seq(Bit),
                        want: Seq(Bit) \cup {None}, mask: Seq(Bit)]
                   \cup [call: {"ones", "idle"}, n: Nat])
  /\ wire \in Seq([tms: BOOLEAN, tdi: Bit])
  /\ tap \in [state: TapState, irShift: Bits(IrBits), ir: Bits(IrBits) \cup {Idcode},
              drShift: Bits(DrBits), dr: Bits(DrBits)]
  /\ verdict \in {"playing", "mismatch", "error"}

\* When a call has been clocked out the TAP is where the player takes it to
\* be, wherever it was when the player started (svf.rs, Player::goto and
\* the state set after a shift).
TrackedState ==
  wire = <<>> /\ player.state # Unknown => tap.state = player.state

\* Between commands, the instruction in force and the data updated are what
\* the commands shifted: scans left paused, carried-over TDI and the moves in
\* between included.
Delivered ==
  Ready =>
    /\ tap.state \notin IrScan /\ said.ir # Unknown =>
         IF said.ir = Idcode THEN tap.ir = Idcode
         ELSE Recent(tap.ir, Len(said.ir)) = said.ir
    /\ tap.state \notin DrScan /\ said.dr # Unknown
         => Recent(tap.dr, Len(said.dr)) = said.dr

\* Only a command that names Reset, or the first move, resets the TAP (which
\* would put another instruction in force): no shortest path goes through it.
MovesNeverReset ==
  [][tap.state # "Reset" /\ tap'.state = "Reset"
       => player.state = "Reset" \/ said.first]_vars

-----------------------------------------------------------------------------
(***************************************************************************)
(* Configuring the EP2C35 over JTAG: the SVF that chipsmith-cyclone2 writes *)
(* (bitstream/jtag.rs, svf) played on a device that may not take the       *)
(* stream.  The check of CONF_DONE in the middle is what tells.            *)
(***************************************************************************)

CONSTANTS PROGRAM, STARTUP, CHECK_STATUS, BYPASS,  \* values of the IR
          Stream,                                  \* the bits of stream(rbf)
          SettleTck, ShortTck, InitTck

VARIABLES
  pc,   \* commands of the SVF begun
  conf  \* the device's CONF_DONE

loadVars == <<vars, pc, conf>>

ASSUME InstructionAssumption ==
  /\ {PROGRAM, STARTUP, CHECK_STATUS, BYPASS} \subseteq Bits(IrBits)
  /\ LET ops == <<PROGRAM, STARTUP, CHECK_STATUS, BYPASS>>
     IN \A i, j \in 1 .. 4 : ops[i] = ops[j] => i = j
  /\ Stream \in Seq(Bit) /\ Stream # <<>>
  /\ {SettleTck, ShortTck, InitTck} \subseteq Nat

\* CONF_DONE is one bit of the status register, the last one here.
ConfDone == [i \in 1 .. DrBits |-> IF i = DrBits THEN 1 ELSE 0]
Zero == [i \in 1 .. DrBits |-> 0]

Sir(op) == [cmd |-> "SIR", len |-> IrBits, tdi |-> op, tdo |-> None, mask |-> None]
Run(n) == [cmd |-> "RUNTEST", run |-> None, n |-> n, end |-> None]

\* Wrong on purpose: the start-up before the check of CONF_DONE.
SvfStartsEarly ==
  << [cmd |-> "ENDDR", state |-> "Idle"],
     [cmd |-> "ENDIR", state |-> "IrPause"],
     [cmd |-> "STATE", path |-> <<"Idle">>],
     Sir(PROGRAM),
     [cmd |-> "RUNTEST", run |-> "Idle", n |-> SettleTck, end |-> "Idle"],
     [cmd |-> "SDR", len |-> Len(Stream), tdi |-> Stream, tdo |-> None, mask |-> None],
     Sir(STARTUP), Run(ShortTck), Run(InitTck),
     Sir(CHECK_STATUS),
     Run(ShortTck),
     [cmd |-> "SDR", len |-> DrBits, tdi |-> Zero, tdo |-> ConfDone, mask |-> ConfDone],
     Sir(BYPASS), Run(SettleTck),
     [cmd |-> "STATE", path |-> <<"Idle">>] >>

Svf ==
  << [cmd |-> "ENDDR", state |-> "Idle"],
     [cmd |-> "ENDIR", state |-> "IrPause"],
     [cmd |-> "STATE", path |-> <<"Idle">>],
     Sir(PROGRAM),
     [cmd |-> "RUNTEST", run |-> "Idle", n |-> SettleTck, end |-> "Idle"],
     [cmd |-> "SDR", len |-> Len(Stream), tdi |-> Stream, tdo |-> None, mask |-> None],
     Sir(CHECK_STATUS),
     Run(ShortTck),
     [cmd |-> "SDR", len |-> DrBits, tdi |-> Zero, tdo |-> ConfDone, mask |-> ConfDone],
     Sir(STARTUP), Run(ShortTck), Run(InitTck),
     Sir(BYPASS), Run(SettleTck),
     [cmd |-> "STATE", path |-> <<"Idle">>] >>

LoadInit == Init /\ pc = 0 /\ conf \in BOOLEAN

\* PROGRAM clears the configuration; the end of the stream may or may not
\* leave the device configured.  CHECK_STATUS captures CONF_DONE.
Device ==
  /\ conf' \in IF tap'.state = "IrUpdate" /\ tap'.ir = PROGRAM THEN {FALSE}
               ELSE IF tap'.state = "DrUpdate" /\ tap.ir = PROGRAM THEN BOOLEAN
               ELSE {conf}
  /\ tap.state = "DrCapture" /\ tap.ir = CHECK_STATUS
       => tap'.drShift[DrBits] = IF conf THEN 1 ELSE 0

Play ==
  /\ pc < Len(Svf)
  /\ Begin(Svf[pc + 1])
  /\ pc' = pc + 1
  /\ UNCHANGED conf

Tick == Clock /\ Device /\ UNCHANGED pc

LoadNext ==
  \/ Play
  \/ (Call \/ Compare) /\ UNCHANGED <<pc, conf>>
  \/ Tick

LoadSpec == LoadInit /\ [][LoadNext]_loadVars

-----------------------------------------------------------------------------
\* "A failed load fails the SVF instead of passing silently" (jtag.rs): when
\* the last command has been played, the device is configured.
PlayedMeansConfigured ==
  pc = Len(Svf) /\ Ready => conf

\* A device that did not take the stream is never told to start up.
StartupOnlyConfigured == tap.ir = STARTUP /\ pc > 0 /\ player.state # Unknown
                           /\ ~said.first => conf

\* The stream is shifted with PROGRAM in force, and nothing else is.
StreamUnderProgram ==
  pc > 0 /\ tap.state = "DrShift" /\ ~said.first /\ player.state = "DrExit1" =>
    tap.ir = IF pc = 6 THEN PROGRAM ELSE CHECK_STATUS
=============================================================================
