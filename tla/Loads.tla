-------------------------------- MODULE Loads --------------------------------
(***************************************************************************)
(* A configuration on its way to where it lasts: through a chain of TAPs   *)
(* into a 7-series device, and through the FPGA into the board's flash.    *)
(***************************************************************************)
EXTENDS Naturals, Sequences, SequencesExt, FiniteSetsExt

-----------------------------------------------------------------------------
(***************************************************************************)
(* Loading a 7-series device that shares its JTAG chain with others        *)
(* (crates/chipsmith-jtag/src/xc7.rs): every scan goes through all of the  *)
(* chain, TAP 1 being the one nearest TDO, and the other devices are kept  *)
(* in BYPASS.                                                              *)
(***************************************************************************)
CONSTANTS
  Chains,                   \* the boards: [lens: IR lengths, target]
  JPROGRAM, CFG_IN, JSTART, \* instructions, first bit shifted first
  Sync, Payload, Trailer    \* the bitstream, in the order it is to be sent

VARIABLES
  board,  \* the chain and the target in it
  step,   \* what the host does next
  ir,     \* the instruction in each TAP
  dev     \* the target's configuration: [init, done, fed, ok, bad]

xc7 == <<board, step, ir, dev>>

\* Each device of a chain has an instruction register, the target's as long as
\* an instruction; instructions differ; a sync word starts with a one, and the
\* bits at the end of a bitstream are to spare, for a device far from TDI.
ChainsFit ==
  /\ {JPROGRAM, CFG_IN, JSTART, Sync, Payload, Trailer} \subseteq Seq({0, 1})
  /\ JPROGRAM # CFG_IN /\ JPROGRAM # JSTART /\ \E i \in DOMAIN JPROGRAM : JPROGRAM[i] = 0
  /\ Sync # <<>> /\ Sync[1] = 1
  /\ \A c \in Chains :
       /\ c.lens \in Seq(Nat) /\ c.target \in DOMAIN c.lens
       /\ {Len(JPROGRAM), Len(CFG_IN), Len(JSTART)} = {c.lens[c.target]}
       /\ Len(c.lens) - c.target <= Len(Trailer)

Bypass(n) == [i \in 1 .. n |-> 1]

\* Bits of the IR up to those of TAP t.
BitsUpTo(lens) ==
  LET bits[t \in 0 .. Len(lens)] == IF t = 0 THEN 0 ELSE bits[t - 1] + lens[t]
  IN  bits
Total == BitsUpTo(board.lens)[Len(board.lens)]

\* Bits of the IR before those of TAP t.
Offset(t) == BitsUpTo(board.lens)[t - 1]

\* `op` for the target and BYPASS for all the others.
Ir(op) ==
  LET off == Offset(board.target)
  IN  [i \in 1 .. Total |-> IF i \in off + 1 .. off + Len(op) THEN op[i - off] ELSE 1]

\* One BYPASS bit per TAP nearer TDO, then the bitstream.
Data == [i \in 1 .. board.target - 1 |-> 0] \o Sync \o Payload \o Trailer

Sir(op, done) == [do |-> "sir", op |-> op, done |-> done]
Do(what) == [do |-> what]

BypassOp == Bypass(board.lens[board.target])

\* Wrong on purpose: no wait for INIT.
Unpolled ==
  <<Do("reset"), Sir(JPROGRAM, FALSE), Do("reset"), Sir(CFG_IN, FALSE), Do("sdr"), Sir(JSTART, FALSE),
    Do("run"), Do("reset"), Sir(BypassOp, TRUE)>>

\* The whole load: `clear`, the wait for INIT, `load`.
Program ==
  <<Do("reset"), Sir(JPROGRAM, FALSE), Do("poll"), Do("reset"), Sir(CFG_IN, FALSE), Do("sdr"), Sir(JSTART, FALSE),
    Do("run"), Do("reset"), Sir(BypassOp, TRUE)>>

ChainInit ==
  /\ board \in Chains
  /\ step = 1
  /\ ir = [t \in DOMAIN board.lens |-> Bypass(board.lens[t])]
  /\ dev = [init |-> TRUE, done |-> FALSE, fed |-> <<>>, ok |-> FALSE, bad |-> FALSE]

\* Where a load ends.
Played == Len(Program) + 1
Refused == Len(Program) + 2
TimedOut == 0

Now == Program[step]
Playing == step \in DOMAIN Program
Target == ir[board.target]

-----------------------------------------------------------------------------
(* The chain (external): what a scan leaves in each TAP, and what the      *)
(* target makes of it.                                                     *)

\* The first bits shifted end up nearest TDO.
Delivered(bits) ==
  [t \in DOMAIN board.lens |-> SubSeq(bits, Offset(t) + 1, Offset(t) + board.lens[t])]

\* The target sees the bits late, by one clock per TAP nearer TDI.
Seen(bits) ==
  LET late == Len(board.lens) - board.target
  IN  SubSeq([i \in 1 .. late |-> 0] \o bits, 1, Len(bits))

\* Bits before the sync word count for nothing.
Synced(bits) ==
  {i \in 1 .. Len(bits) - Len(Sync) + 1 : SubSeq(bits, i, i + Len(Sync) - 1) = Sync}
AfterSync(bits) ==
  IF Synced(bits) = {} THEN <<>> ELSE SubSeq(bits, Min(Synced(bits)) + Len(Sync), Len(bits))

\* JPROGRAM clears the device, which takes a while.
Instructed(now) ==
  IF now = JPROGRAM
  THEN [dev EXCEPT !.init = FALSE, !.done = FALSE, !.fed = <<>>, !.ok = FALSE]
  ELSE dev

-----------------------------------------------------------------------------
Reset ==
  /\ Playing /\ Now.do = "reset"
  /\ ir' = [t \in DOMAIN board.lens |-> Bypass(board.lens[t])]
  /\ step' = step + 1
  /\ UNCHANGED <<board, dev>>

\* The last scan compares DONE in the target's IR capture.
ScanIr ==
  /\ Playing /\ Now.do = "sir"
  /\ ir' = Delivered(Ir(Now.op))
  /\ dev' = Instructed(ir'[board.target])
  /\ step' = IF Now.done /\ ~dev.done THEN Refused ELSE step + 1
  /\ UNCHANGED board

\* BYPASS is shifted while INIT is looked for, until a deadline.
Poll ==
  /\ Playing /\ Now.do = "poll"
  /\ ir' = Delivered(Ir(BypassOp))
  /\ step' \in IF dev.init THEN {step + 1} ELSE {step, TimedOut}
  /\ UNCHANGED <<board, dev>>

\* A device still clearing takes nothing.
ScanDr ==
  /\ Playing /\ Now.do = "sdr"
  /\ dev' = IF Target = CFG_IN /\ dev.init
            THEN [dev EXCEPT !.fed = Seen(Data),
                             !.ok = ~dev.bad /\ IsPrefix(Payload, AfterSync(Seen(Data)))]
            ELSE dev
  /\ step' = step + 1
  /\ UNCHANGED <<board, ir>>

\* 2000 clocks after JSTART: the device starts if it is configured.
Run ==
  /\ Playing /\ Now.do = "run"
  /\ dev' = [dev EXCEPT !.done = Target = JSTART /\ dev.ok]
  /\ step' = step + 1
  /\ UNCHANGED <<board, ir>>

Clear == ~dev.init /\ dev' = [dev EXCEPT !.init = TRUE] /\ UNCHANGED <<board, step, ir>>

\* The device refuses the stream (a bad CRC).
Spoil == ~dev.bad /\ dev' = [dev EXCEPT !.bad = TRUE] /\ UNCHANGED <<board, step, ir>>

ChainHost == Reset \/ ScanIr \/ Poll \/ ScanDr \/ Run
ChainNext == ChainHost \/ Clear \/ Spoil

ChainSpec == ChainInit /\ [][ChainNext]_xc7

-----------------------------------------------------------------------------
\* Whatever the place of the device in its chain, a load that plays to the
\* end left it configured, and one is refused only when the device would not
\* take the stream (xc7.rs: offsets, padding, the wait for INIT, DONE).
Configured ==
  /\ step = Played => dev.done
  /\ step = Refused => dev.bad

\* Only the target is ever given an instruction.
OthersBypassed ==
  \A t \in DOMAIN board.lens : t # board.target => ir[t] = Bypass(board.lens[t])

-----------------------------------------------------------------------------
(***************************************************************************)
(* Writing the board's configuration flash through the loader              *)
(* (crates/chipsmith-cyclone2/src/persist), and starting the FPGA from it. *)
(* The flash is busy for a while after an erase or a program, takes        *)
(* nothing but status reads in the meantime, wraps a program within its    *)
(* page, and can only clear bits.                                          *)
(***************************************************************************)
CONSTANTS
  SIZE, SECTOR, PAGE,  \* of the flash, in bytes; a byte of 1 is erased, 0 all clear
  READ_CHUNK,          \* bytes to a read
  Jobs,                \* what is asked: [op, address, data]
  Garbage              \* what the flash may hold at first

VARIABLES
  job,     \* what is being done
  host,    \* where the host is in it
  flash,   \* [mem, enabled, busy, fails]
  fpga     \* what the FPGA runs: the loader, nothing, or what the flash held

epcs == <<job, host, flash, fpga>>

\* Sectors and pages have bytes; what is programmed is not empty.
JobsFit ==
  /\ SIZE \in Nat /\ {SECTOR, PAGE, READ_CHUNK} \subseteq Nat \ {0}
  /\ \A j \in Jobs :
       /\ j.op \in {"program", "dump"} /\ j.address \in Nat /\ j.data \in Seq(Nat)
       /\ j.op = "program" => j.data # <<>>
       /\ j.op = "dump" => j.address = 0 /\ j.data = <<>>
  /\ \A g \in Garbage : g \in [0 .. SIZE - 1 -> Nat]

Address == 0 .. SIZE - 1
Erased == 1

\* Programming clears bits: of two different bytes, 0 is what is left.
Cleared(old, new) == IF old = Erased THEN new ELSE IF new \in {Erased, old} THEN old ELSE 0

Phase(pc, at) == [pc |-> pc, at |-> at, sector |-> 0, seen |-> <<>>, first |-> <<>>]

FlashInit ==
  /\ job \in Jobs
  /\ host = IF job.address + Len(job.data) > SIZE THEN Phase("failed", 0)
            ELSE IF job.op = "dump" THEN Phase("read", 0)
            ELSE [Phase("erase", job.address) EXCEPT !.sector = job.address \div SECTOR]
  /\ \E g \in Garbage : flash = [mem |-> g, enabled |-> FALSE, busy |-> {}, fails |-> FALSE]
  /\ fpga = [runs |-> "loader", code |-> 0]

\* A command that changes the flash counts only when it is enabled and not
\* busy: the array it works on is settled when it is done.
Takes == flash.busy = {} /\ flash.enabled

End == job.address + Len(job.data)

\* Wrong on purpose: one sector more when the range ends with a sector.
LastSectorRoundedUp == End \div SECTOR + 1

LastSector == (End + SECTOR - 1) \div SECTOR

WriteEnable(next) ==
  /\ flash' = IF flash.busy = {} THEN [flash EXCEPT !.enabled = TRUE] ELSE flash
  /\ host' = [host EXCEPT !.pc = next]
  /\ UNCHANGED <<job, fpga>>

\* What a command leaves in the flash when it is done.
Works(cells) ==
  flash' = IF Takes THEN [flash EXCEPT !.busy = cells, !.enabled = FALSE] ELSE flash

EraseEnable == host.pc = "erase" /\ host.sector < LastSector /\ WriteEnable("erase-sector")

EraseSector ==
  /\ host.pc = "erase-sector"
  /\ Works({[at |-> a, byte |-> Erased, erase |-> TRUE] :
              a \in {b \in Address : b \div SECTOR = host.sector}})
  /\ host' = [host EXCEPT !.pc = "erase-wait"]
  /\ UNCHANGED <<job, fpga>>

\* wait_ready: the status is read until it says ready.
Idle(pc) == flash.busy = {}

Waited ==
  /\ host.pc \in {"erase-wait", "program-wait"} /\ Idle(host.pc)
  /\ host' = IF host.pc = "erase-wait" THEN [host EXCEPT !.pc = "erase", !.sector = @ + 1]
             ELSE [host EXCEPT !.pc = "program"]
  /\ UNCHANGED <<job, flash, fpga>>

GiveUp ==
  /\ host.pc \in {"erase-wait", "program-wait"} /\ flash.busy # {} /\ flash.fails
  /\ host' = [host EXCEPT !.pc = "failed"]
  /\ UNCHANGED <<job, flash, fpga>>

EraseDone ==
  /\ host.pc = "erase" /\ host.sector >= LastSector
  /\ host' = [host EXCEPT !.pc = "program", !.at = job.address]
  /\ UNCHANGED <<job, flash, fpga>>

\* Bytes up to the end of the page.
PageLeft(at) == PAGE - (at % PAGE)

Rest == SubSeq(job.data, host.at - job.address + 1, Len(job.data))
ThisPage == SubSeq(Rest, 1, Min({Len(Rest), PageLeft(host.at)}))

\* All-ones is what erased flash holds already.
SkipPage ==
  /\ host.pc = "program" /\ Rest # <<>>
  /\ \A i \in DOMAIN ThisPage : ThisPage[i] = Erased
  /\ host' = [host EXCEPT !.at = @ + Len(ThisPage)]
  /\ UNCHANGED <<job, flash, fpga>>

PageEnable ==
  /\ host.pc = "program" /\ Rest # <<>>
  /\ \E i \in DOMAIN ThisPage : ThisPage[i] # Erased
  /\ WriteEnable("program-page")

PageProgram ==
  /\ host.pc = "program-page"
  /\ LET start == host.at - (host.at % PAGE)
         cell(i) == start + ((host.at + i - 1 - start) % PAGE)
     IN  Works({[at |-> cell(i), byte |-> ThisPage[i], erase |-> FALSE] : i \in DOMAIN ThisPage})
  /\ host' = [host EXCEPT !.pc = "program-wait", !.at = @ + Len(ThisPage)]
  /\ UNCHANGED <<job, fpga>>

ProgramDone ==
  /\ host.pc = "program" /\ Rest = <<>>
  /\ host' = [host EXCEPT !.pc = "read", !.at = job.address]
  /\ UNCHANGED <<job, flash, fpga>>

\* How much is read, and from where: a dump is of the whole flash, twice.
From == IF job.op = "dump" THEN 0 ELSE job.address
Want == IF job.op = "dump" THEN SIZE ELSE Len(job.data)

\* A bad connection: what is read may be wrong.
Read ==
  /\ host.pc = "read" /\ Len(host.seen) < Want
  /\ LET at   == From + Len(host.seen)
         n    == Min({Want - Len(host.seen), READ_CHUNK})
         good == [i \in 1 .. n |-> flash.mem[at + i - 1]]
     IN  \E bytes \in {good} \cup (IF flash.fails THEN {[good EXCEPT ![1] = 1 - @]} ELSE {}) :
           host' = [host EXCEPT !.seen = @ \o bytes]
  /\ UNCHANGED <<job, flash, fpga>>

\* A dump is what two reads agree on, a write what reads back.
Compare ==
  /\ host.pc = "read" /\ Len(host.seen) = Want
  /\ LET against == IF job.op = "dump" THEN host.first ELSE job.data
     IN  host' = IF job.op = "dump" /\ host.first = <<>>
                 THEN [host EXCEPT !.first = host.seen, !.seen = <<>>]
                 ELSE [host EXCEPT !.pc = IF host.seen = against THEN "reboot" ELSE "failed"]
  /\ UNCHANGED <<job, flash, fpga>>

-----------------------------------------------------------------------------
(* PULSE_NCONFIG: the FPGA leaves the loader and configures itself from    *)
(* the flash (external); the switch may be in the wrong place.             *)

Reboot ==
  /\ host.pc = "reboot"
  /\ host' = [host EXCEPT !.pc = "conf"]
  /\ fpga' \in {[runs |-> "nothing", code |-> 0],
               [runs |-> "flash", code |-> flash.mem[job.address]]}
  /\ UNCHANGED <<job, flash>>

\* CONF_DONE is polled until a deadline; the USERCODE, here the image's
\* first byte, is to be that of what was programmed.
Booted ==
  /\ host.pc = "conf"
  /\ host' = [host EXCEPT !.pc =
       IF fpga.runs = "nothing" \/ (job.op = "program" /\ fpga.code # job.data[1]) THEN "failed" ELSE "done"]
  /\ UNCHANGED <<job, flash, fpga>>

\* The flash is done with what it was busy with.
Settle ==
  /\ flash.busy # {}
  /\ flash' = [flash EXCEPT !.busy = {},
       !.mem = [a \in Address |->
                  IF \E c \in flash.busy : c.at = a
                  THEN LET c == CHOOSE c \in flash.busy : c.at = a
                       IN  IF c.erase THEN Erased ELSE Cleared(@[a], c.byte)
                  ELSE @[a]]]
  /\ UNCHANGED <<job, host, fpga>>

\* Something is wrong with the flash or the cable.
Fail ==
  /\ ~flash.fails /\ host.pc \notin {"done", "failed"}
  /\ flash' = [flash EXCEPT !.fails = TRUE]
  /\ UNCHANGED <<job, host, fpga>>

FlashHost ==
  \/ EraseEnable \/ EraseSector \/ Waited \/ GiveUp \/ EraseDone
  \/ SkipPage \/ PageEnable \/ PageProgram \/ ProgramDone
  \/ Read \/ Compare \/ Reboot \/ Booted

FlashNext == FlashHost \/ Settle \/ Fail

FlashSpec == FlashInit /\ [][FlashNext]_epcs

-----------------------------------------------------------------------------
\* A job that is done did what was asked, and one fails only for a reason
\* outside: a bad flash or cable, an FPGA that does not come up, no room
\* (persist/epcs.rs, the page and sector arithmetic of write_verified).
Written ==
  /\ host.pc = "done" /\ job.op = "program" =>
       /\ \A i \in DOMAIN job.data : flash.mem[job.address + i - 1] = job.data[i]
       /\ fpga = [runs |-> "flash", code |-> job.data[1]]
  /\ host.pc = "failed" => flash.fails \/ fpga.runs = "nothing" \/ End > SIZE

\* Every command that changes the flash is one it takes: it is enabled, and
\* done with the last one (epcs.rs, wait_ready after each).
NoneIgnored == host.pc \in {"erase-sector", "program-page"} => Takes

\* A byte changes only if its sector has a byte of the range, whatever fails.
OnlyTouched ==
  [][\A a \in Address :
       flash'.mem[a] # flash.mem[a] =>
         \E b \in job.address .. End - 1 : b \div SECTOR = a \div SECTOR]_epcs
=============================================================================
