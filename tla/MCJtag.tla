------------------------------- MODULE MCJtag -------------------------------
(***************************************************************************)
(* The programming bench: in one behaviour one thing is on it.             *)
(*   svf, cyclone   the SVF player on any commands, and on the EP2C35's    *)
(*   blaster, ftdi  a cable and its adapter, any calls                     *)
(*   epcs           the configuration flash                                *)
(*   xc7            a 7-series device in a chain                           *)
(***************************************************************************)
EXTENDS SvfPlayer

CONSTANTS
  Chains, JPROGRAM, CFG_IN, JSTART, Sync, Payload, Trailer,  \* the 7-series load
  SIZE, SECTOR, PAGE, READ_CHUNK, Jobs, Garbage              \* the flash

VARIABLES
  bench,
  host, down, up, dev, heard,  \* a cable
  job, flasher, flash, fpga,   \* the configuration flash
  board, step, ir, target      \* the 7-series load

-----------------------------------------------------------------------------
(* Any sequence of these commands, on a two-bit instruction register and a *)
(* two-bit data register.                                                  *)

MCShift(cmd, len, tdi) == [cmd |-> cmd, len |-> len, tdi |-> tdi, tdo |-> None, mask |-> None]

Scans ==
  {MCShift("SIR", 2, <<0, 1>>), MCShift("SIR", 2, <<1, 1>>), MCShift("SIR", 2, None),
   MCShift("SDR", 2, <<1, 0>>), MCShift("SDR", 1, <<1>>), MCShift("SDR", 2, None)}
Checks ==
  {[MCShift("SDR", 2, <<0, 0>>) EXCEPT !.tdo = <<0, 1>>, !.mask = <<0, 1>>],
   [MCShift("SDR", 2, None) EXCEPT !.tdo = <<1, 1>>]}
Ends ==
  {[cmd |-> "ENDIR", state |-> s] : s \in {"Idle", "IrPause"}}
    \cup {[cmd |-> "ENDDR", state |-> s] : s \in {"Idle", "DrPause"}}
Moves ==
  {[cmd |-> "STATE", path |-> <<"Reset", "Idle">>],
   [cmd |-> "STATE", path |-> <<"DrPause", "IrPause">>],
   [cmd |-> "RUNTEST", run |-> None, n |-> 2, end |-> None],
   [cmd |-> "RUNTEST", run |-> "Reset", n |-> 1, end |-> "Idle"]}

MCCommand == Scans \cup Checks \cup Ends \cup Moves

\* The EP2C35: a two-bit status register and a three-bit stream.
MCProgram == <<0, 1>>
MCStartup == <<1, 0>>
MCCheck == <<0, 0>>
MCBypass == <<1, 1>>
MCStream == <<1, 0, 1>>
MCCaptures == {<<0, 1>>, <<0, 0>>}

\* The player where it is not used.
Parked ==
  /\ Init /\ pc = 0 /\ conf = FALSE
  /\ tap.state = "Reset" /\ tap.ir = Idcode

-----------------------------------------------------------------------------
(* Cables: bytes of two bits, a write every few bytes, a read every two     *)
(* replies; the adapter has room for fewer than a long call asks for.      *)

Long == <<1, 0, 0, 1, 1, 1, 0, 1>>
MCCalls ==
  {[op |-> "tms", tms |-> t] : t \in {<<FALSE>>, <<TRUE, FALSE, TRUE>>}}
    \cup [op: {"shift"}, tdi: {Long},
          exit: BOOLEAN, capture: BOOLEAN]
    \cup [op: {"idle"}, n: {5}] \cup {[op |-> "flush"]}
MCPattern == <<1, 0, 0>>

Blaster == INSTANCE UsbCables WITH
  ByteBits <- 2, WriteChunk <- 7, ReadChunk <- 2, DownRoom <- 2, UpRoom <- 3, Packet <- 2,
  Hurry <- <<>>, Pattern <- MCPattern, Calls <- MCCalls, Nothing <- None,
  MaxShiftBytes <- 3, OpenClocks <- 7, MaxTmsBits <- 2

Mpsse == INSTANCE UsbCables WITH
  ByteBits <- 2, WriteChunk <- 3, ReadChunk <- 2, DownRoom <- 2, UpRoom <- 3, Packet <- 2,
  Hurry <- <<[is |-> "now"]>>, Pattern <- MCPattern, Calls <- MCCalls, Nothing <- None,
  MaxShiftBytes <- 3, OpenClocks <- 7, MaxTmsBits <- 2

pipes == <<host, down, up, dev, heard>>
NoCable == Mpsse!FtdiInit

Promise == INSTANCE Cable WITH
  Calls <- MCCalls, Nothing <- None,
  asked <- IF host.pc = "ready" THEN None ELSE host.call,
  due <- CASE bench = "blaster" -> Blaster!BlasterDue [] bench = "ftdi" -> Mpsse!FtdiDue [] OTHER -> <<>>,
  reply <- host.reply

\* Both cables do what `trait Cable` (jtag/src/lib.rs) promises.
CablesImplement == Promise!Spec

-----------------------------------------------------------------------------
(* The flash: eight bytes, pages of two, sectors of four.                  *)

MCJobs ==
  {[op |-> "program", address |-> a, data |-> d] :
     a \in {0, 1, 3}, d \in {<<0, 2, 1, 3>>, <<1, 1, 0>>, <<2, 1, 1, 1, 3>>, <<0, 2, 3, 1, 1, 2, 0, 3>>}}
    \cup {[op |-> "dump", address |-> 0, data |-> <<>>]}
MCGarbage == {[a \in 0 .. 7 |-> 0], [a \in 0 .. 7 |-> a % 4]}

-----------------------------------------------------------------------------
(* Chains of one to three devices, the target anywhere in them.            *)

MCChains ==
  {[lens |-> <<3>>, target |-> 1], [lens |-> <<3, 2>>, target |-> 1], [lens |-> <<2, 3>>, target |-> 2],
   [lens |-> <<2, 3, 3>>, target |-> 2], [lens |-> <<3, 3, 2>>, target |-> 1], [lens |-> <<2, 2, 3>>, target |-> 3]}

MCJPROGRAM == <<1, 1, 0>>
MCCFG_IN == <<1, 0, 1>>
MCJSTART == <<0, 0, 1>>
MCSync == <<1, 1, 0>>
MCPayload == <<1, 0, 0, 1>>
MCTrailer == <<0, 0>>

-----------------------------------------------------------------------------
Load == INSTANCE Loads WITH host <- flasher, dev <- target

ASSUME LoadsAssumption == Load!ChainsFit /\ Load!JobsFit

NoFlash ==
  /\ job = [op |-> "dump", address |-> 0, data |-> <<>>]
  /\ flasher = Load!Phase("failed", 0)
  /\ flash = [mem |-> [a \in 0 .. 7 |-> 0], enabled |-> FALSE, busy |-> {}, fails |-> TRUE]
  /\ fpga = [runs |-> "loader", code |-> 0]

NoZynq ==
  /\ board = [lens |-> <<3>>, target |-> 1] /\ step = 0 /\ ir = <<<<1, 1, 1>>>>
  /\ target = [init |-> FALSE, done |-> FALSE, fed |-> <<>>, ok |-> FALSE, bad |-> TRUE]

-----------------------------------------------------------------------------
players == loadVars
flashes == <<job, flasher, flash, fpga>>
chains == <<board, step, ir, target>>
benches == <<bench, players, pipes, flashes, chains>>

BenchInit ==
  \/ bench = "svf" /\ Init /\ pc = 0 /\ conf = FALSE /\ NoCable /\ NoFlash /\ NoZynq
  \/ bench = "cyclone" /\ LoadInit /\ NoCable /\ NoFlash /\ NoZynq
  \/ bench = "blaster" /\ Parked /\ Blaster!BlasterInit /\ NoFlash /\ NoZynq
  \/ bench = "ftdi" /\ Parked /\ Mpsse!FtdiInit /\ NoFlash /\ NoZynq
  \/ bench = "epcs" /\ Parked /\ NoCable /\ Load!FlashInit /\ NoZynq
  \/ bench = "xc7" /\ Parked /\ NoCable /\ NoFlash /\ Load!ChainInit

OnPlayer(A) == A /\ UNCHANGED <<bench, pipes, flashes, chains>>
OnCable(A) == A /\ UNCHANGED <<bench, players, flashes, chains>>
OnFlash(A) == A /\ UNCHANGED <<bench, players, pipes, chains>>
OnChain(A) == A /\ UNCHANGED <<bench, players, pipes, flashes>>

CableStep ==
  \/ bench = "blaster" /\ OnCable(Blaster!Host)
  \/ bench = "ftdi" /\ OnCable(Mpsse!Host)
AdapterStep ==
  \/ bench = "blaster" /\ OnCable(Blaster!BlasterAct)
  \/ bench = "ftdi" /\ OnCable(Mpsse!FtdiAct)
LoadStep ==
  \/ bench = "epcs" /\ OnFlash(Load!FlashHost)
  \/ bench = "xc7" /\ OnChain(Load!ChainHost)
DeviceStep ==
  \/ bench = "epcs" /\ OnFlash(Load!Settle)
  \/ bench = "xc7" /\ OnChain(Load!Clear)

BenchNext ==
  \/ bench = "svf" /\ OnPlayer(Next /\ UNCHANGED <<pc, conf>>)
  \/ bench = "cyclone" /\ OnPlayer(LoadNext)
  \/ bench = "blaster" /\ OnCable(\E c \in MCCalls : Blaster!BlasterCall(c))
  \/ bench = "ftdi" /\ OnCable(\E c \in MCCalls : Mpsse!FtdiCall(c))
  \/ bench = "epcs" /\ OnFlash(Load!Fail)
  \/ bench = "xc7" /\ OnChain(Load!Spoil)
  \/ CableStep \/ AdapterStep \/ LoadStep \/ DeviceStep

BenchSpec ==
  /\ BenchInit /\ [][BenchNext]_benches
  /\ WF_benches(CableStep) /\ WF_benches(AdapterStep)
  /\ WF_benches(LoadStep) /\ WF_benches(DeviceStep)

-----------------------------------------------------------------------------
\* The player knows where the TAP is, shifts what it was told, and moves
\* without passing through reset unless told to (jtag/src/svf.rs, tap.rs).
PlayerExact == [](TypeOK /\ TrackedState /\ Delivered) /\ MovesNeverReset

\* An SVF that played to its end configured the device, which was not started
\* before it was, and the stream went in under its own instruction
\* (bitstream/jtag.rs).
LoadsAreReal == PlayedMeansConfigured /\ StartupOnlyConfigured /\ StreamUnderProgram

\* A write that succeeded left the data in the flash, no command reached it
\* while it was busy, and nothing beyond the sectors meant changed
\* (persist/epcs.rs).
FlashWritten == [](Load!Written /\ Load!NoneIgnored) /\ Load!OnlyTouched

\* A load that succeeded configured the target, and the others in its chain
\* were in bypass whenever it was spoken to (jtag/src/xc7.rs).
DeviceConfigured == Load!Configured /\ Load!OthersBypassed

\* Every call of a cable returns: a capture longer than the adapter has room
\* for is read back in time (READ_CHUNK), and the last of it is written
\* before it is waited for.
CallsReturn == host.pc # "ready" ~> host.pc = "ready"

\* A write of the flash ends: every wait has an end.
JobsEnd == bench = "epcs" ~> flasher.pc \in {"done", "failed"}

\* Whatever is asked of a cable or of the flash comes to an end.
EverythingEnds == CallsReturn /\ JobsEnd
=============================================================================
