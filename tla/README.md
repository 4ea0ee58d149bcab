# chipsmith in TLA+

Models of chipsmith, the FPGA toolchain in this repository, with the TLC runs
that check them and the TLAPS proofs of what matters most about them. The
modules translate the Rust sources under `crates/`; a comment in each names the
files it models, and `PROJECT.json` maps definitions to their lines. It lists a
definition that is state, an action, or adds lines of code; a helper whose lines
all lie within those of a mapped definition is left to that one's entry.

    tlc -workers 2 -config MCBuildIncremental.cfg MCBuild.tla   # one run
    tlapm RouterProofs.tla                                      # the proofs of one module

Contents: [The system](#the-system) · [Modules](#the-modules) ·
[Runs](#the-runs) · [Bounds](#bounds-and-why-they-are-enough) ·
[Fairness](#fairness) · [Proofs](#what-is-proved) ·
[Findings](#where-code-and-documentation-part) ·
[Abstractions](#what-is-abstracted) · [Not modelled](#what-is-not-modelled)

## The system

`chipsmith build` turns HDL into a configuration file; `chipsmith flash` puts it
in a chip. `chipsmith-vendor` does the same with a Quartus it downloads,
installs and patches itself. Between the two ends is a compiler: a front end,
synthesis passes, a packer, a placer and a router for each of two families of
devices, the Cyclone II and the 7 series.

| component | state it keeps | operations | meets |
|---|---|---|---|
| Stamps (`chipsmith/src/cache.rs`) | one `.stamp` per step: key, hashes of what it read | check, run a step under a stamp | the user's edits, kills, a second build, through files |
| Flow (`chipsmith/src/flow.rs`) | the plan; files of the build directory | run the steps in order, prefetch the graph, flash | stamps and every tool below |
| Graph cache (`chipsmith-route/src/chipdb.rs`) | a file all projects share | read, write through a temporary name | concurrent builds of other formats, `clean` |
| Router (`chipsmith-route/src/lib.rs`) | occupancy and history of nodes, a tree per net | negotiate in batches, rip up, repair critical nets, undo | placer, threads of one batch |
| Placers (`chipsmith-place`, `*/place.rs`) | sites, temperature | move, swap, undo | the packer's legality rules |
| Verilog front end (`chipsmith-verilog`) | scopes, the netlist being built | preprocess, elaborate, translate processes | synthesis, which reads its cells |
| Synthesis (`chipsmith-synth`, `*/synth`) | the netlist | passes, each rewriting it | one another, in order |
| Packers (`cyclone2/pack`, `xc7/pack.rs`) | logic elements, slices, blocks | pair, invert, absorb | placer, router, bitstream |
| TAP and SVF player (`chipsmith-jtag/src/svf.rs`) | the state it takes the TAP to be in, end states, the last shifts | every SVF command | cable, device |
| Cables (`usb_blaster.rs`, `ftdi.rs`) | an output buffer, replies still to come | tms, shift, idle, flush | the adapter's decoder behind two FIFOs |
| Loads (`bitstream/jtag.rs`, `xc7.rs`) | none | a fixed sequence with a check in it | player, chain, device |
| EPCS (`cyclone2/persist`) | the flash: contents, write enable, busy | erase, program, verify | a loader design on the FPGA |
| Acquisition (`vendor-quartus-common`) | download cache, install directory, patch record, markers | download, install, unpack, patch, refuse | other and earlier, interrupted processes, through files |
| Vendor builds (`build.rs`, `toolchain.rs`) | project files and reports in one directory | map, fit, asm, sta, judge timing, copy | earlier builds and tools left running |
| Simulators (`ghdl.rs`, `simulator.rs`, `vendor-sim`) | a work library, an executable | analyse, elaborate, run, report | earlier runs' libraries |

What is hard about them, and makes them correct:

* **Files that outlive a process.** A stamp, a cached archive, a marker, a patch
  record, a graph, a report: each is judged later, by another process, by its
  presence or contents. A process may die anywhere; two may run at once.
* **State nobody reads back.** Nothing reads the TAP's state: a clock too many
  and every later shift goes to another register. The cable must read replies
  back before they fill the adapter.
* **Counts kept incrementally.** The router keeps the users of a node over
  rip-up, batch commits, a repair and its undo; the placer keeps what a LAB or
  slice holds over moves it takes back.
* **Rewrites that must not be seen.** A pass may change the netlist only where
  nobody can tell: registers at power-up and under reset, memories when two
  ports meet at an address, undefined values, pins inverted on both sides.

## The modules

One module per component, each a state machine with `Init`, an action per
operation and `Next`, or, for a pass, a machine whose state is a circuit with
inputs that changes once: the pass's operations rewrite it, then both circuits
run side by side. The bench modules compose the components.

| module | models | state and actions |
|---|---|---|
| `BuildCache` | cache.rs, the plans of flow.rs | files, stamps, and per build a record that goes `check`, `read`, `work`, `write`, `stamp` for each step of `Plan`: the points of `Stamp::run` between which others can act. `Skip` and `Miss` are the outcomes of `Stamp::check`; `Open` truncates the output, `Write` completes it; `Edit`, `Delete`, `Kill`, `StampTorn` are what happens around a build. The last part has the mapping under which it implements `CleanBuild`, and the history of the last good build |
| `CleanBuild` | what a build promises | sources and setting to bitstream in one step, or failure |
| `GraphCache` | chipdb.rs, the prefetch of flow.rs | the cache file, temporary files by process id, chipsmiths of several formats |
| `Router` | lib.rs of chipsmith-route | `pc` says where the sequential code is; a net ripped up and rerouted is one step, a batch is a round of searches that see one occupancy and then commits in net order; `Displace`, `Move`, `Accept`, `Undo` are `repair_critical` |
| `VendorInstall` | download.rs, nixos.rs, install.rs, runner.rs | inodes, `.part` files, programs, record, markers, and the point each process has got to |
| `QuartusBuild` | build.rs, toolchain.rs, timing.rs, process.rs | the project, the build directory, tools running, the point each shell has got to |
| `TestRun` | lib.rs of vendor-sim, ghdl.rs, simulator.rs | libraries, executables, `modelsim.ini`, one run at a time of several projects |
| `SvfPlayer` | lib.rs, svf.rs, bitstream/jtag.rs | the player's record, the calls of a command, the clocks of a call, taken one by one by a TAP that starts in any state; the EP2C35's SVF on it |
| `UsbCables`, `Cable` | usb_blaster.rs, ftdi.rs; the promise of `trait Cable` | the buffer, both FIFOs, the adapter |
| `Loads` | xc7.rs; persist/epcs.rs, persist/mod.rs | a chain of TAPs and the load of the target in it; the flash, where the host is in writing it, and what the FPGA runs |
| `Preprocessor`, `Elaborate`, `Expression`, `Procedure`, `Drivers` | chipsmith-verilog: pp.rs; elab: hierarchy and generate, expr.rs and fold.rs, stmt.rs, proc.rs | text and names; values with x; blocking and nonblocking assignment; edges, resets, joins of drivers |
| `Flop` | the flip-flop cell of three crates | reset, set, enable, power-up |
| `Registers`, `Arithmetic`, `Gates`, `Muxes`, `Memories`, `Words` | chipsmith-synth | flop and constant passes, dividers and adders, technology map and gate folds, multiplexers and undefined values, memories; words of bits with x |
| `LutMap`, `MemPorts`, `M4kMap`, `BramMap`, `Multipliers` | LUT covering; block RAM of both families (MemPorts is what they share); multipliers and DSP blocks | a cut cover, ports of a block, pipelines of a product |
| `Pack`, `Pins`, `LabPlace` | Cyclone II: pack/mod.rs, mask.rs, LE pairing; pins, clocks, block pins; place.rs | logic elements, inverted pins, LABs, moves |
| `SlicePack`, `SlicePlace` | 7 series: pack.rs, place.rs | slices, carry chains, LUT RAM, moves |
| `MCBuild`, `MCRouter`, `MCVendorInstall` | | constants of one component, and where needed a history |
| `MCJtag`, `MCSynth`, `MCFront`, `MCBack`, `MCProject` | | the benches |
| `BuildCacheProofs`, `RouterProofs`, `VendorInstallProofs`, `SvfPlayerProofs`, `JtagProofs` | | theorems; those of `QuartusBuild`, `TestRun` and `MCProject` are in the module itself, those of `GraphCache` in `MCProject` |

A **bench** composes components that do not meet, so that one run can check them
all: its variable `bench` says which of them the behaviour is about, the
variables `one` … `nine` are its places, and each property is a conjunction of
parts `bench = "x" => X!Property`. The benches are

* `MCJtag`: svf, cyclone, blaster, ftdi, epcs, xc7;
* `MCSynth`: flop, dff, seqconst, hazard, divmod, fsm, memory, arrays, techmap,
  alumacc, sums, wreduce, undef, muxtree, rom, gates, fold, restructure, flatten;
* `MCFront`: block, process, drivers, expression, text, hierarchy;
* `MCBack`: lutmap, m4k, bram, placement, packing, les, clocks, blocks, products,
  dsps, slices, die;
* `MCProject`: quartus, graph, tests, install, build.

Some definitions are preceded by a variant marked "Wrong on purpose": a plausible
bug in that piece of code. Put in place of the definition it makes TLC report the
property it is for (`PROJECT.json`, `mutants`), which shows that the property
looks at that code.

## The runs

| run | module | states | question | result |
|---|---|---|---|---|
| `build_incremental` | `MCBuild` | 298 963 | With edits between steps, deletions, kills and failures anywhere: is a skipped step's output what running it would write (`UpToDateIsFresh`), does an incremental build do what a build from nothing does (`ImplementsCleanBuild`), does an edit that leaves the netlist alone rerun synthesis only, do builds finish (`Settles`) and does the next one skip everything (`Converges`)? | holds |
| `vendor_install` | `MCVendorInstall` | 4 029 | With kills and I/O failures, where the installer has to be patched in the cache: are cached archives whole and markers true (`CacheIsSound`), are all programs there (`InstallIsWhole`) and patched for whoever gets them, by `install` only (`PatchesAreMine`), and does running `install` again repair the rest (`Repaired`)? | holds, but for an installer cut off while it is patched: see [exceptions](#exceptions-the-properties-state) |
| `router` | `MCRouter` | 14 744 | Over every tree a search may return, alone and in both kinds of batch, with banks fought over and repairs kept and undone: is the occupancy exact, the routing legal, the critical path the one reported, do barred nets stay out, nets of a round stay apart, repairs never slow, and does routing end? | holds |
| `jtag` | `MCJtag` | 361 250 | Does the player know where the TAP is and does every register get what was said (`PlayerExact`); does a load that succeeds configure the device (`LoadsAreReal`, `DeviceConfigured`); do both cables do what `trait Cable` promises (`CablesImplement`); is the flash written (`FlashWritten`); does every call end? | holds |
| `project` | `MCProject` | 2 300 710 | Does a vendor build that was alone end with its own bitstream and verdict (`OutcomesMine`), is the graph cache whole, of the reader's format and missed only when needed (`GraphsSound`), are test verdicts deserved (`VerdictsSound`), how much of an archive that two processes fetch, one of which may be killed, can be missing (`ArchivesWhole`), is a half-written file never up to date (`HalfWrittenNeverUpToDate`)? | holds, with one torn archive to a kill |
| `synthesis` | `MCSynth` | 524 593 | Do the passes keep what registers, memories and cells do, at power-up, under reset, and with undefined values; and what every choice of a multiplexer gives? | holds, but for one kind of signed sum |
| `frontend` | `MCFront` | 42 159 | Do the netlists of blocks, processes, drivers and expressions do what Verilog says; do names and text resolve as they should? | holds; initial values beside continuous assignments are as the code leaves them |
| `backend` | `MCBack` | 46 456 | Is the logic covered, memories and products mapped without a change of behaviour, packing the same circuit, pins and clocks where they can be, placement legal after every move and undo? | holds, but for six [exceptions](#exceptions-the-properties-state) |
| `build_midedit` | `MCBuild` | | Freshness under an edit while a step runs | violated: finding |
| `case_priority`, `mult_pipelines`, `m4k_between` | `MCFront`, `MCBack` | | See the findings | violated: findings |

### Bounds and why they are enough

* Build: one edit, deletion or kill (`MaxDisturb`) in `build_incremental`, two in
  the `build` bench: one disturbance puts a build in each state it can be left
  in, the second hits the build that finds it. Contents: two that differ only in
  a comment, so that an early cutoff happens, and one that synthesises to
  something else. The proofs have no bound.
* Vendor install: three faults: a repair can be interrupted, and then the repair
  of that. Two chunks to a download: it can be cut short between them. One
  process, without a sandbox for the installer; two, one of which may be killed
  once, are the `install` bench.
* Router: three nets and batches of up to three, so that a batch has a net that
  collides, one that does not and a second round; three iterations, so that both
  kinds of batch follow one another and an incremental reroute gives up a node;
  two repair rounds. Delays such that some repair is kept, some is refused for
  its bank and some for another path. Nine modes.
* SVF: registers of two bits, so that a shift may be shorter than, as long as or
  longer than a register in pieces; every command, in any sequence of any length.
* Cables: bytes of two bits, so that a shift has whole bytes and a rest; chunks
  of three bytes, a buffer of seven (USB-Blaster) or three (FTDI), and an
  adapter with room for two bytes and three replies, which is fewer than a
  capture asks for.
* Flash: eight bytes, pages of two, sectors of four; writes that start and end
  inside both. Chains of one to three TAPs, the target anywhere.
* Vendor builds: two shells, one fault, two builds; three projects, of which one
  misses timing, one meets where there is a number, one has no clocks. Graph
  cache: two chipsmiths, two process ids, two formats, three runs. Tests: three
  runs, two faults, six projects that differ in what fails and where.
* Passes: circuits of a few bits chosen so that every rule of the pass applies
  and every side condition both holds and fails; inputs are free at every clock.

### Fairness

No fairness is assumed of edits, faults, kills or new calls; bounds end those.

* `MCBuild` (`HLiveSpec`): weak fairness of a build's own steps, which the
  operating system schedules, and of the user starting a build again.
* `VendorInstall` (`LiveSpec`): weak fairness of a process's next step, strong
  fairness of running `install` again once nobody runs.
* `Router` (`LiveSpec`): weak fairness of `Next`: one sequential function.
* `MCJtag` (`BenchSpec`): weak fairness of the cable's own loop, of the adapter,
  which acts on bytes it has, of the loader, and of the device finishing an
  erase, a write or its clearing, as its data sheet promises.

## What is proved

Every theorem holds for every value of the constants that satisfies the named
assumptions; TLC evaluates those assumptions on the instances the runs use. The
invariants were checked with TLC before they were proved.

### Build cache (`BuildCacheProofs`)

For any plan, files, settings, contents, number of builds and disturbances:

* `TypeInvariant`, and `Freshness` (`UpToDateIsFresh`) when `Faults = {}` (builds
  one at a time, no edit to a file a running step has read, stamps written
  whole) and there is at most one place to look for a header
  (`SingleCandidate`). `build_midedit` shows the first to be needed.
  `UpToDateIsFresh` speaks of stamps and files only; `IInv` adds that a stamp
  records what its step's first part read and, where that is as it was, the
  outputs are what the parts make of it or one is missing (`StampFits`); that a
  running step's stamp is gone, nobody else's covers a file it writes, and what
  it read is still there (`RunFits`); and `OneAtATime`.
* `Refinement` (`ImplementsCleanBuild`), under these assumptions and `InOrder` (a
  plan's steps read what earlier ones write). `CleanFits`: the files of a build
  from nothing are a fixpoint of the plan, by induction over parts and steps.
  `Tracks`: what a running build has made is what a build from nothing on the
  sources it took would have made, up to where it is. With it `CleanMove` maps
  each step to `Begin`, `Take`, `Finish`, `Stop` or `Edit`, or to a stutter.
* `HalfWritten` (`HalfWrittenNeverUpToDate`), one build at a time, but with edits
  under a running step, torn stamps and kills: the stamp of a step is removed
  before its first output is opened, and written when all are whole.

### Router (`RouterProofs`)

For every graph, set of nets with trees, exclusive groups, modes, timing and loop
bounds: `Occupancy` (`OccIsUse`), `Legality` (`LegalBetweenRepairs`), `Reported`
(`ReportedIsReal`), `StayOut` (`BarredStayOut`), `NoSlower` (`NoRepairSlower`).
None of the first four is inductive: an undo restores trees that are not there
while a repair runs, and a batch leaves old trees in the count for some nets.
`IInv` has `Typed`; `BatchFits`, which nets of a batch are where; `Counted`, the
occupancy with the old trees of a batch counted; `Rooted`, when a net may be
without a tree; `Legal` of `Back`, the routing an undo would restore; and
`Barred`, of all the trees a net has or may get back.

`StayApart` (`TreesApart`) adds `RoundFits`, what a round has taken is the nodes of
the nets that committed in it; `Grown`; and `UsersFit`, what a repair is held
against. It assumes `SourcesApart`, nothing drives a source and no two nets have
one in common, and `ExclusivesKnown`, no pip is exclusive or some net cannot do
without one. The second is no formality: the list of exclusive uses is a map
that stays empty when it was empty (lib.rs:1317), and then two repairs may give
one bank to two nets.

### Vendor install (`VendorInstallProofs`)

For any lists of archives and packs, programs, store paths, faults:

* `TypeInvariant`, with `Controlled`: which parts of a process's record go
  together.
* `CacheSound` (`CacheIsSound`), under `OneProcess`, through kills, failed
  transfers and reused inodes: `CacheFits`, no name but `.part` is linked to an
  inode somebody writes, except the installer's while it is patched there, and
  `MarksFit`. That a free inode exists is a pigeonhole argument.
* `SharedDownloads` (`TornOnePerFault`), for any number of processes and faults.
  Nothing in the code keeps two processes apart. A file is not torn while the
  process that truncated it last has it open, with all it got so far in it;
  `SharedFits` bounds the torn ones by the disturbances so far, for each step
  that is not one leaves their set as it is or smaller.
* `EnsuredIsInstalled` (`InstallIsWhole`), when the installer itself is let finish.
* `Patched` (`PatchesAreMine`): in the situations where the record of a patch can
  be trusted (`Uninterrupted`, `OneChipsmith`, `OffNixOS`) programs point where
  their user says; `UsePatchesNothing` for any number of processes.

### Graph cache (`MCProject`)

`GraphInvariant`, `WholeCache`, `OwnGraph`, for any number of chipsmiths, formats,
process ids, kills and cleans. Temporary files are named after the process id,
and a killed process leaves its own behind; the invariant says that whatever
is under the temporary name of somebody who is about to rename it is a whole
graph (`TmpIsWhole`), which rests on `PidsApart`, two live processes have different
ids.

### Vendor builds (`QuartusBuild`)

`BuildInvariant`, `OutcomeMine`, `TimingMet`. `alone` marks builds no other shell,
edit or left-over tool disturbed. For such a build the invariant says that it
is the only one active, the project is as it was, the directory holds what its
steps so far leave, whatever was there before, and only the tool it waits for is
running. `TimingMet` needs in addition that `ParseSta` loses no slack of a report
of any length and that `worst_slack` is the least: induction over the lines of
the report, through a recursive function.

### Tests (`TestRun`)

`VerdictsDeserved`, for any projects and any number of runs: of a run nothing was
rewritten under, the library has each source as the project has it once it has
been analysed (induction over the sources), what is elaborated is what is run,
and `modelsim.ini` is there before the simulation.

### Loads and the flash (`JtagProofs`)

The `jtag` run has flashes of eight bytes and chains of up to three devices; these
have any. `MCJtag` takes what is loaded and written as constants, and
`LoadsAssumption` is what it asks of them. `ChainsFit`: instructions differ and are
as long as the target's register, JPROGRAM is not all ones, the sync word starts
with a one, and there are no more devices between TDI and the target than bits at
the end of the stream to spare. `JobsFit`: sectors, pages and reads have bytes,
and what is programmed is not empty.

* `LoadedMeansConfigured` (`DeviceConfigured`). The invariant goes through the
  load's ten steps: what the target has been given after each. It rests on
  `Instructs`, a scan leaves `op` in the target and ones in everybody else, and
  `Fed`, past the zeros of the devices on both sides the target sees a sync word,
  no earlier than the real one, and all of the payload. The offsets of the
  registers are an induction over the chain.
* `FlashIsWritten` (`FlashWritten`), whatever is asked and whenever the flash
  starts to fail. `Written` and `NoneIgnored` are far from inductive. The
  invariant has `Waiting`, the flash is busy only while the host waits, and with
  nothing outside the sectors meant; `ErasedSoFar`, every sector the host is past
  is erased or being erased; `ProgrammedSoFar`, every byte it is past is as the
  image has it, or is erased and being programmed, and those ahead are erased:
  so that clearing bits gives the image, and a page that is skipped is right;
  `ReadWell`, a good connection reads what is there; `Boots`. That the last sector
  is neither one too few nor one too many, and that a program never wraps in its
  page, is division with any divisor (`LaterSector`, `LastSectors`, `WithinPage`).

### The SVF player (`SvfPlayerProofs`, `JtagProofs`)

The `jtag` run plays fourteen commands on registers of two bits; these hold for
any. `CommandsAssumption` says that commands are what the parser lets through
(`Parsed`), `RegistersAssumption` that registers have bits, and
`InstructionAssumption` that the four instructions of the EP2C35 differ and its
stream is not empty. The player never reads the TAP, so nothing the player keeps
tells by itself what the device does: both theorems rest on the clocks that are
still to come.

* `PlayerIsExact` (`PlayerExact`). `PlayerInv` is a case for each way the TAP and
  the clocks to come can stand: `Heading`, they are a shortest way from where the
  TAP is to where the player has it (`OnTheWay`); `Resetting`, they begin with
  enough ones to reset it wherever it is; `ScanningIr` and `ScanningDr`, a shift
  register followed by the bits still to be clocked in ends with the bits said;
  `Resting`, the TAP is where the player has it. `IrKept` and `DrKept` say which
  register holds what was said, in a scan, a pause and after. Ways cannot be
  listed for the provers, since `PathTo` is a search: `Searched`, an induction
  over its rounds, shows that it finds the states in order of distance and all
  of them, so that its ways are shortest; `Far` gives the distances, and
  `NextHop` which states a shortest way may go through (`Avoids`).
* `LoadsMeanConfigured` (`LoadsAreReal`), whether or not the device takes the
  stream, with any stream, lengths of registers and of waits. `CycloneInv` says of
  each of the fifteen commands which calls are due (`Due`), where the player
  stands (`Stands`), which instruction is said and which is in force
  (`Instructed`), and, of the check in the middle, that the bit the device
  captured from CONF_DONE is in the data register at the place the clocks still
  to come will shift it out of (`Asking`). It uses `PlayerInv`: that the
  instruction said is in force is what the player promises.

### The bench (`MCProject`)

`OutcomesAlwaysMine`, `GraphsAlwaysSound`, `VerdictsAlwaysSound`,
`ArchivesAlwaysWhole` and `NeverHalfWritten` (one build at a
time) state the properties the `project` run checks. `OneBench` says that a
behaviour of the bench is one of its component; the components' invariants do
the rest. The bench's constants are those of its components, and
`PartsAssumption` is what they ask of them.

### What stays with TLC

* Liveness and `ENABLED`: `Settles`, `Converges`, `Repaired`, `Terminates`,
  `EverythingEnds`, which no installed prover handles.
* `CommentEditRerunsSynthesisOnly`, which speaks of the history of one edit.
* What `MCSynth`, `MCFront` and `MCBack` check. Their modules use RECURSIVE
  operators (netlists are evaluated by recursion over their cells), which the SMT
  backend does not accept, and what a recursive definition computes for every
  input would be an induction over data.
* Of `MCJtag`, the cables (`CablesImplement`).

## Where code and documentation part

Each is a run that violates one property (`PROJECT.json`, `findings`, quotes the
lines):

* `build_midedit` — a stamp hashes inputs after the step ran, so an edit under a
  running step is recorded as read.
* `case_priority` — `merge` drops an arm that leaves the variable as it is before
  the level below it is known, and a later arm that it should shadow is taken.
* `mult_pipelines` — a register between two products is absorbed by both, and the
  pair is a cycle late.
* `m4k_between` — byte writes of one word are merged into one port across another
  write that stands between them in priority.

Disagreements and oddities met while modelling that have no run of their own:

* `is_installed` looks for `quartus_sh` only, which an interrupted installer may
  have left (product.rs:168, toolchain.rs:64); an interrupted re-patch leaves
  the old record in place (nixos.rs:350, 373).
* A stamp remembers the header that was found, not the places before it where
  there was none (cache.rs:119, pp.rs:290-293).
* A repair's list of exclusive uses is refreshed only if it was not empty
  (chipsmith-route lib.rs:1317); see `ExclusivesKnown`.
* `sta` may end well without a summary, and then an earlier one is judged;
  `met()` of a report without a slack is true; an earlier `.sdc` is never removed;
  a tool whose stderr is not UTF-8 is abandoned while it runs (process.rs);
  `flash` after a failed build programs the earlier `.sof`.
* A unit whose file was dropped from the manifest is still in the library, and
  its testbench still passes.
* A USB-Blaster session killed inside a byte shift that captures leaves stale
  replies; a bit of instruction is lost for TAPs nearer TDI than the target
  (xc7.rs: NOOPs, so harmless); the comment on `READ_CHUNK` says 63 where the code
  waits for more than 62.
* Several resets on one register with a `q` of its own make a cell with set and
  clear both off (proc.rs 608-640); a negative least index gives wrong positions
  (expr.rs 917-944).

### Exceptions the properties state

Where the code does, in a corner, something other than what its comments or the
plain property would have it do, the runs go into that corner and the property
says what happens there: the same as everywhere, but for exactly this.

| property | where | what the code does there |
|---|---|---|
| `CacheIsSound`, `Repaired` | runner.rs 167-178, nixos.rs 258-276, download.rs 42 | On NixOS without bubblewrap the cached installer is patched where it lies. A kill in that leaves it damaged under its own name; every later run takes it from there, and no `install` succeeds until somebody deletes it (`CutInPlace`) |
| `ArchivesWhole` | download.rs 42, 73, 99 | A second process truncates the `.part` file the first one writes, and the first renames it: part of an archive is under its own name, and an unzip or installer may meet it. The second fills it in, unless it is cut off: so one torn archive for each disturbance, and no more |
| `CellsKept` (`SameResult`) | wreduce.rs 95-110 | A signed operand of a sum of which every bit is narrowed away is left out as empty, with its sign: it counts as a zero (`AsRead` in `Arithmetic`) |
| `BlocksAndDrivers` (`InitHasAPlace`) | proc.rs 483-489, items.rs 1242, 1318-1387 | A variable that is an input or continuously driven in any part keeps its initial value in all of them, registers or not; an input port may also be joined to a constant |
| `MemoriesMapped` (`BramReadsSame`) | bram.rs 1297, 1804-1818 | A read that sees its new data by logic has its reset in the block, and the logic is not reset: the write's data shows through the reset until the next enabled edge (`Unreset`) |
| | bram.rs 21-22, 1277-1289, 1781-1795 | A read held while its port writes is held in the blocks written only: with several rows, the row last addressed shows what it read meanwhile (`Strays`) |
| `ProductsMapped` | mult.rs 237-238, 246-260; dsp.rs 220-251 | A constant 1 in an operand whose other bits are registers goes into the block's register with them, and is 0 from power-up or a reset to the next enabled edge (`OneFlop`) |
| | mult.rs 398-446; dsp.rs 386-480 | Of two blocks of one product one takes a register of an operand and the other, for its other limb's sake, does not: to that one nothing drives it (`TakenIn`) |
| `PackedSame` (`FunctionKept`) | pack/mod.rs 826-862, 1008 | An inverter before one register's data is pushed back; another register that reads it on its load path loads the opposite (`Turned`) |
| `PackedSame` (`LabsKeepSignals`) | place.rs 387-390, 392-441, 1600-1602 | "The LAB keeps its signals, so routing it is no harder": a register moved into a LUT's LE costs a LAB line where both are read in the LAB, and counts as one more packed LE; neither limit is checked again |

## What is abstracted

* **Build.** Hashes are contents: no collisions. Report lines and wording are left
  out. Removing a stamp succeeds. The binary's hash is part of the setting.
* **Graph cache.** Staleness is by format only; one writer per process id (two
  PID namespaces may break that); one 7-series part.
* **Router.** Costs, congestion history, the estimate and the queue are left out:
  any tree its guards allow may be found, any batch the schedule could form.
  Paths through logic are sets of connections. The GPU search is not modelled.
* **Vendor.** The installer checks its own archives before it writes. Tools are
  external: synthesis reads settings and sources when it starts, timing analysis
  reads constraints if the settings name them, a tool writes its whole output or
  none. Simulators take one call per step; libraries persist.
* **JTAG.** The states a STATE names on its way are stable ones, as the parser demands
  of the last (`Parsed`). A move that enters a pause without shifting leaves in the
  register what was captured, and nothing is claimed of it (`Kept`). A device takes
  a stream or does not. `scan` and `bit_payload` of xc7.rs and the flash image
  are left out; whole sectors are erased.
* **Front end.** Integers of four bits; recursion is rejected by name; x patterns
  in initial blocks, black boxes, strings, token pasting and tri-state are left
  out, as are the cases listed above.
* **Synthesis.** Arrival times are a set of signals that are ready. Memories are a
  scaled block, and any layout may be the cheapest; one clock edge to a step;
  added registers power up 0; two ports that write one bit give x. Left out of
  block RAM: widths below a byte, RAMB36E1, an asynchronous or synchronous reset
  of an absorbed output register after a read out of range.
* **Back end.** LUT covering: area flow open, truth tables as sets. Packing: the
  order of visits is open, I/O registers are left out, pin standards reduced;
  constants are idle pins. Placement: targets, gain, criticality and temperature
  are open, a move may be kept or not; `best_of` and seeds are not modelled.
  RAM32M is scaled.

## What is not modelled

The manifest, devices and the command line (parsing and text), the Cyclone II
bitstream and the timing tables (tables), the GPU router and placer (numerical
search), vendor products (a list of URLs), benchmarks, examples and nix files.
`PROJECT.json` lists each component with what is modelled of it and why the rest
is not.
