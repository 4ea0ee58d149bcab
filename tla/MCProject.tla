----------------------------- MODULE MCProject ------------------------------
(***************************************************************************)
(* What surrounds the compiler, one part in one behaviour, on the places:  *)
(* vendor builds, the router's graph cache, testbenches on both            *)
(* simulators, two installs at once, builds that are cut short.            *)
(***************************************************************************)
EXTENDS Integers, Sequences, TLAPS

CONSTANTS
  Shell,     \* who runs at once
  \* vendor builds
  Flags, Manifests, VendorFaults, MaxVendorFaults, MaxVendorBuilds,
  \* the router's graph cache
  Pids, Magics, MaxPlans,
  \* testbenches
  Projects, MaxTests, MaxTestFaults,
  \* installs
  Base, Packs, Chunks, Programs, QuartusSh, Offered, Unsandboxed, Earlier, Commands, InstallFaults,
  MaxInstallFaults,
  \* builds
  Source, Derived, Content, Including, Candidates, Setting, Plan, StepKey(_, _),
  Produce(_, _, _), Builders, BuildFaults, MaxDisturb,
  None, Absent, Torn, NoStamp, Missing, Shipped, NotNeeded

Corner(slack) == <<[label |-> "Type", value |-> None], [label |-> "Slack", value |-> slack],
                   [label |-> "TNS", value |-> 0 - 5]>>

\* One misses in its second corner, one meets where there is a number, one has
\* no clocks.
MCFlags == {[require |-> b, copy |-> b] : b \in BOOLEAN}

MCManifests ==
  {[id |-> 1, clocks |-> TRUE, report |-> Corner(1) \o Corner(0 - 2)],
   [id |-> 2, clocks |-> TRUE, report |-> Corner(None) \o Corner(0)],
   [id |-> 3, clocks |-> FALSE, report |-> <<>>]}

-----------------------------------------------------------------------------
Entity(compiles, needs, elaborates, severity) ==
  [compiles |-> compiles, needs |-> needs, elaborates |-> elaborates, severity |-> severity]
Sound == Entity(TRUE, {}, TRUE, 0)

\* A design `top` on a package `pkg`, and two testbenches on it.
Tested(one, two, top, hdl, ordered) ==
  [hdl |-> hdl, sim |-> <<<<"tb1", "tb2">>>>, testbenches |-> <<"tb1", "tb2">>,
   ordered |-> ordered,
   unit |-> [pkg |-> Sound, top |-> top, tb1 |-> one, tb2 |-> two]]

OnTop(elaborates, severity) == Entity(TRUE, {"top"}, elaborates, severity)
OnPkg(compiles) == Entity(compiles, {"pkg"}, TRUE, 0)

MCProjects ==
  {Tested(OnTop(TRUE, 0), OnTop(TRUE, 1), OnPkg(TRUE), <<<<"pkg">>, <<"top">>>>, TRUE),
   Tested(OnTop(TRUE, 2), OnTop(TRUE, 3), OnPkg(TRUE), <<<<"pkg", "top">>>>, TRUE),
   Tested(OnTop(FALSE, 0), OnTop(TRUE, 0), OnPkg(TRUE), <<<<"pkg", "top">>>>, TRUE),
   Tested(OnTop(TRUE, 0), OnTop(TRUE, 0), OnPkg(FALSE), <<<<"pkg", "top">>>>, TRUE),
   Tested(OnTop(TRUE, 0), OnTop(TRUE, 0), OnPkg(TRUE), <<<<"top">>, <<"pkg">>>>, FALSE),
   Tested(OnTop(TRUE, 0), OnTop(TRUE, 0), OnPkg(TRUE), <<<<"pkg", "top">>, <<>>>>, FALSE)}

\* The 7-series plan from VHDL (flow.rs, plan_xc7): its first and last steps
\* have no stamp.
PartOf(from, to, frontend) ==
  << [reads |-> {from}, frontend |-> frontend, writes |-> to] >>
MCPlan ==
  << [stamped |-> FALSE, parts |-> PartOf("vhdl", "verilog", FALSE)],
     [stamped |-> TRUE, parts |-> PartOf("verilog", "netlist", TRUE)],
     [stamped |-> TRUE, parts |-> PartOf("netlist", "fasm", FALSE)],
     [stamped |-> TRUE, parts |-> PartOf("fasm", "bit", FALSE)],
     [stamped |-> FALSE, parts |-> PartOf("bit", "bin", FALSE)] >>

MCBase == <<"installer">>
MCPacks == <<"pack">>
NoCandidates == <<>>

\* Pin settings are part of place and route's key only.
MCStepKey(s, setting) == IF s = 3 THEN setting ELSE "old"
MCProduce(f, key, in) == <<f, key, in>>

-----------------------------------------------------------------------------
VARIABLES bench, one, two, three, four, five, six, seven, eight, nine

places == <<one, two, three, four, five, six, seven, eight, nine>>
project == <<bench, places>>

Spare4 == <<bench, five, six, seven, eight, nine>>
Spare6 == <<bench, seven, eight, nine>>
Spare9 == <<bench>>

-----------------------------------------------------------------------------
Quartus == INSTANCE QuartusBuild WITH
  Process <- Shell, Options <- Flags,
  Faults <- VendorFaults, MaxFaults <- MaxVendorFaults, MaxBuilds <- MaxVendorBuilds,
  manifest <- one, dir <- two, tools <- three, proc <- four, out <- five,
  count <- six

Graph == INSTANCE GraphCache WITH
  Process <- Shell, MaxRuns <- MaxPlans,
  file <- one, proc <- two, world <- three, runs <- four

Tests == INSTANCE TestRun WITH
  MaxRuns <- MaxTests, MaxFaults <- MaxTestFaults,
  project <- one, lib <- two, exe <- three, ini <- four, run <- five,
  count <- six

Installs == INSTANCE VendorInstallProofs WITH
  Process <- Shell, Faults <- InstallFaults, MaxFaults <- MaxInstallFaults,
  bytes <- one, part <- two, cached <- three, files <- four, stamp <- five,
  unpacked <- six, marked <- seven, proc <- eight, faults <- nine

\* The history kept of the last good build is not kept here.
Builds == INSTANCE BuildCacheProofs WITH
  Build <- Builders, Faults <- BuildFaults,
  files <- one, stamps <- two, build <- three, disturb <- four,
  intact <- five, calm <- six

-----------------------------------------------------------------------------
\* What each component asks of its constants.
ASSUME PartsAssumption ==
  /\ Quartus!ProjectFits /\ Graph!NamesApart /\ Tests!ProjectsFit
  /\ Installs!ShapeAssumption
  /\ Builds!PlanAssumption /\ Builds!FileAssumption /\ Builds!FaultAssumption
  /\ Builds!SettingAssumption

-----------------------------------------------------------------------------
Init ==
  \/ bench = "quartus" /\ Quartus!Init /\ seven = None /\ eight = None /\ nine = None
  \/ bench = "graph" /\ Graph!Init /\ five = None /\ six = None /\ seven = None /\ eight = None /\ nine = None
  \/ bench = "tests" /\ Tests!Init /\ seven = None /\ eight = None /\ nine = None
  \/ bench = "install" /\ Installs!Init
  \/ bench = "build" /\ Builds!Init /\ five = None /\ six = None /\ seven = None /\ eight = None /\ nine = None

Next ==
  \/ bench = "quartus" /\ Quartus!Next /\ UNCHANGED Spare6
  \/ bench = "graph" /\ Graph!Next /\ UNCHANGED Spare4
  \/ bench = "tests" /\ Tests!Next /\ UNCHANGED Spare6
  \/ bench = "install" /\ Installs!Next /\ UNCHANGED Spare9
  \/ bench = "build" /\ Builds!Next /\ UNCHANGED Spare4

Spec == Init /\ [][Next]_project

-----------------------------------------------------------------------------
\* A vendor build that had its directory to itself, whatever earlier ones
\* left there, ends with the bitstream of its project and a verdict on that
\* bitstream under that project's constraints (vendor-quartus-common
\* build.rs, toolchain.rs).
OutcomeIsMine == bench = "quartus" => Quartus!OutcomeIsMine

\* Under --require-timing such a build ends well only if no corner of its
\* own report misses, and what --out-dir copied is what was judged (vendor-
\* cli main.rs, vendor-toolchain timing.rs).
RequiredTimingIsMet == bench = "quartus" => Quartus!RequiredTimingIsMet

\* "a reader never sees half a cache" (chipsmith-route chipdb.rs
\* write_cache), whoever was cut off writing it and under whatever process
\* id.
CacheIsWhole == bench = "graph" => Graph!CacheIsWhole

\* Nobody routes on a graph of another format, and nobody who asked for a
\* graph goes on without one (flow.rs Prefetch, chipdb.rs read_cache).
GraphIsMine == bench = "graph" => Graph!GraphIsMine

\* A plan fails for want of a graph only if placement had to run and
\* neither a cache nor the chip database was there (flow.rs
\* Prefetch::take).
FailsForWant == bench = "graph" => Graph!FailsForWant

\* A testbench passes exactly when it elaborates and raises no assertion of
\* error or worse, on either simulator, and the command ends well only if
\* all it ran passed (vendor-toolchain lib.rs run_sim, ghdl.rs, sim.rs).
VerdictsTrue == bench = "tests" => Tests!VerdictsTrue

\* A file that does not compile gives an error and no verdict; a project
\* listed in an order it can be read in gets verdicts (simulator.rs,
\* SimCommands).
SetupIsNoVerdict == bench = "tests" => Tests!SetupIsNoVerdict

\* With two processes fetching an archive at once, what is under its own name in
\* the download cache is whole, or being filled by a process that has put all it
\* got so far into it: two share a .part file, and the one that is through first
\* renames what the other has truncated.  Only a process that was cut off while
\* it filled one leaves part of an archive there, one for each that was
\* (vendor-quartus-common download.rs:72-101).
ArchivesWhole == bench = "install" => Installs!TornOnePerFault

\* A file a killed step left half-written is never taken to be up to date,
\* on the plan from VHDL whose first and last steps have no stamp
\* (chipsmith cache.rs).
HalfWrittenNeverUpToDate == bench = "build" => Builds!HalfWrittenNeverUpToDate

-----------------------------------------------------------------------------
\* A vendor build that was alone ends with its own bitstream and its own
\* verdict, which is what the flags asked for.
OutcomesMine ==
  /\ OutcomeIsMine
  /\ RequiredTimingIsMet

\* The graph cache is whole, of the reader's format, and missed only when
\* needed.
GraphsSound ==
  /\ CacheIsWhole
  /\ GraphIsMine
  /\ FailsForWant

\* Test verdicts are what the testbenches deserve, and only given when they
\* ran.
VerdictsSound ==
  /\ VerdictsTrue
  /\ SetupIsNoVerdict

-----------------------------------------------------------------------------
(***************************************************************************)
(* The router's graph cache, whose proofs are here: a behaviour of         *)
(* GraphCache on the first four places, whatever the others hold.          *)
(***************************************************************************)
\* One process goes on, its record still says where it is, and it keeps its
\* process id while it lives.
LEMMA GraphGoes ==
  ASSUME Graph!IInv, NEW p \in Shell, NEW r \in Graph!Doing, Graph!InStep(r),
         two' = [two EXCEPT ![p] = r], Graph!Quiet, four' \in Nat,
         r.at # "over" => \A q \in Shell \ {p} : Graph!Live(q) => two[q].pid # r.pid,
         r.at # "over" /\ r.loader = "rename" => Graph!Live(p) /\ two[p].loader = "rename" /\ r.pid = two[p].pid
  PROVE  Graph!IInv'
<1>1. two' \in [Shell -> Graph!Doing] /\ two'[p] = r /\ \A q \in Shell \ {p} : two'[q] = two[q]
  BY DEF Graph!IInv, Graph!TypeOK
<1>2. Graph!TypeOK' /\ Graph!CacheIsWhole'
  BY <1>1 DEF Graph!IInv, Graph!TypeOK, Graph!CacheIsWhole, Graph!Quiet
<1>3. Graph!PidsApart'
  BY <1>1 DEF Graph!IInv, Graph!PidsApart, Graph!Live
<1>4. Graph!TmpIsWhole'
  BY <1>1 DEF Graph!IInv, Graph!TmpIsWhole, Graph!Live, Graph!Tmp, Graph!Quiet
<1>5. ASSUME NEW q \in Shell PROVE Graph!InStep(two[q])'
  <2>1. Graph!InStep(two'[q])
    BY <1>1 DEF Graph!IInv
  <2>2. QED BY <2>1 DEF Graph!InStep, Graph!Quiet
<1>6. QED BY <1>2, <1>3, <1>4, <1>5 DEF Graph!IInv

LEMMA GraphEndKept ==
  ASSUME Graph!IInv, NEW p \in Shell, Graph!Live(p), UNCHANGED <<one, three, four>>,
         NEW verdict \in {"stage", "ok", "failed", "killed"}, Graph!End(p, verdict),
         verdict = "ok" /\ two[p].needed => two[p].graph # None,
         verdict = "failed" => two[p].needed /\ ~three.database
  PROVE  Graph!IInv'
<1> DEFINE r == [Graph!Idle EXCEPT !.verdict = verdict, !.magic = two[p].magic,
                             !.graph = two[p].graph, !.needed = two[p].needed]
<1>1. two[p] \in Graph!Doing /\ Graph!InStep(two[p])
  BY DEF Graph!IInv, Graph!TypeOK
<1>2. r \in Graph!Doing /\ r.at = "over"
  BY <1>1 DEF Graph!Doing, Graph!Idle, Graph!Loader
<1>3. Graph!InStep(r)
  BY <1>1 DEF Graph!InStep, Graph!Idle, Graph!Doing
<1>4. two' = [two EXCEPT ![p] = r]
  BY DEF Graph!End
<1> HIDE DEF r
<1>5. QED BY <1>2, <1>3, <1>4, GraphGoes DEF Graph!Quiet, Graph!IInv, Graph!TypeOK

\* One loader goes on, to a place its process's record is right about.
LEMMA GraphLoaderKept ==
  ASSUME Graph!NamesApart, Graph!IInv, NEW p \in Shell, Graph!Live(p), UNCHANGED <<one, three, four>>,
         NEW to \in Graph!Loader \ {"rename"}, NEW graph \in Magics \cup {None},
         two' = [two EXCEPT ![p] = [two[p] EXCEPT !.loader = to, !.graph = graph]],
         to \in Graph!Parsed => graph = two[p].magic,
         to = "nothing" => ~three.database,
         graph \in {two[p].graph, two[p].magic}
  PROVE  Graph!IInv'
<1> DEFINE r == [two[p] EXCEPT !.loader = to, !.graph = graph]
<1>1. two[p] \in Graph!Doing /\ Graph!InStep(two[p])
  BY DEF Graph!IInv, Graph!TypeOK
<1>2. /\ r \in Graph!Doing /\ r.at = two[p].at /\ r.pid = two[p].pid /\ r.loader = to
      /\ r.magic = two[p].magic /\ r.needed = two[p].needed /\ r.graph = graph
      /\ r.verdict = two[p].verdict
  BY <1>1 DEF Graph!Doing
<1>3. Graph!InStep(r)
  BY <1>1, <1>2 DEF Graph!InStep, Graph!Live, Graph!NamesApart
<1>4. \A q \in Shell \ {p} : Graph!Live(q) => two[q].pid # r.pid
  BY <1>2 DEF Graph!IInv, Graph!PidsApart
<1> HIDE DEF r
<1>5. QED BY <1>2, <1>3, <1>4, GraphGoes DEF Graph!Quiet, Graph!IInv, Graph!TypeOK, r

LEMMA GraphStarts == Graph!NamesApart /\ Graph!Init => Graph!IInv
<1> SUFFICES ASSUME Graph!NamesApart, Graph!Init PROVE Graph!IInv
  OBVIOUS
<1>1. Graph!Idle \in Graph!Doing /\ Graph!Idle.at = "over" /\ Graph!InStep(Graph!Idle)
  BY DEF Graph!Doing, Graph!Idle, Graph!Loader, Graph!InStep, Graph!NamesApart
<1>2. QED BY <1>1 DEF Graph!Init, Graph!IInv, Graph!TypeOK, Graph!CacheIsWhole, Graph!PidsApart, Graph!TmpIsWhole, Graph!Live

LEMMA GraphRunStep ==
  ASSUME Graph!NamesApart, Graph!IInv, NEW p \in Shell, NEW pid \in Pids, NEW magic \in Magics,
         NEW early \in BOOLEAN, Graph!Run(p, pid, magic, early)
  PROVE  Graph!IInv'
<1> DEFINE r == [Graph!Idle EXCEPT !.at = "stages", !.pid = pid, !.magic = magic, !.early = early,
                             !.loader = IF early THEN "look" ELSE "none"]
<1>1. r \in Graph!Doing /\ r.loader # "rename" /\ r.pid = pid
  BY DEF Graph!Doing, Graph!Idle, Graph!Loader
<1>2. Graph!InStep(r)
  BY DEF Graph!InStep, Graph!Idle, Graph!Parsed, Graph!NamesApart
<1>3. two' = [two EXCEPT ![p] = r] /\ Graph!Quiet /\ four' \in Nat
  BY DEF Graph!Run, Graph!Quiet, Graph!IInv, Graph!TypeOK
<1>4. \A q \in Shell : Graph!Live(q) => two[q].pid # pid
  BY DEF Graph!Run
<1> HIDE DEF r
<1>5. QED BY <1>1, <1>2, <1>3, <1>4, GraphGoes

LEMMA GraphTakeStep ==
  ASSUME Graph!NamesApart, Graph!IInv, NEW p \in Shell, Graph!Take(p)
  PROVE  Graph!IInv'
<1> DEFINE r == [two[p] EXCEPT !.at = "take", !.needed = TRUE,
                                !.loader = IF two[p].early THEN @ ELSE "look"]
<1>1. two[p] \in Graph!Doing /\ Graph!InStep(two[p]) /\ two[p].at = "stages" /\ Graph!Live(p)
  BY DEF Graph!IInv, Graph!TypeOK, Graph!Take, Graph!Live
<1>2. /\ r \in Graph!Doing /\ r.at = "take" /\ r.pid = two[p].pid /\ r.loader \in {two[p].loader, "look"}
      /\ r.magic = two[p].magic /\ r.needed = TRUE /\ r.graph = two[p].graph
      /\ r.verdict = two[p].verdict
  BY <1>1 DEF Graph!Doing, Graph!Loader
<1>3. Graph!InStep(r)
  <2>1. \A s : s.at # "over" /\ Graph!InStep(s) => s.verdict = None
    BY DEF Graph!InStep
  <2>2. two[p].verdict \notin {"ok", "failed"}
    BY <1>1 DEF Graph!InStep, Graph!NamesApart
  <2>3. r.loader \in Graph!Parsed \cup {"nothing"} => r.loader = two[p].loader
    BY <1>2 DEF Graph!Parsed
  <2> HIDE DEF r
  <2>4. QED BY <1>1, <1>2, <2>2, <2>3 DEF Graph!InStep
<1>4. two' = [two EXCEPT ![p] = r]
  BY <1>1 DEF Graph!Take, Graph!Doing, Graph!IInv, Graph!TypeOK
<1>5. \A q \in Shell \ {p} : Graph!Live(q) => two[q].pid # r.pid
  BY <1>1, <1>2 DEF Graph!IInv, Graph!PidsApart
<1>6. Graph!Quiet /\ four' \in Nat
  BY DEF Graph!Take, Graph!Quiet, Graph!IInv, Graph!TypeOK
<1> HIDE DEF r
<1>7. QED BY <1>1, <1>2, <1>3, <1>4, <1>5, <1>6, GraphGoes

LEMMA GraphLoadStep ==
  ASSUME Graph!NamesApart, Graph!IInv, NEW p \in Shell, Graph!Look(p) \/ Graph!Read(p) \/ Graph!Parse(p)
  PROVE  Graph!IInv'
<1>1. /\ two[p] \in Graph!Doing /\ Graph!InStep(two[p]) /\ Graph!Live(p)
      /\ two[p].graph \in {None, two[p].magic} /\ two[p].magic \in Magics
      /\ two \in [Shell -> Graph!Doing]
  BY DEF Graph!IInv, Graph!TypeOK, Graph!Look, Graph!Read, Graph!Parse, Graph!Step, Graph!InStep, Graph!Live
<1>2. two[p] = [two[p] EXCEPT !.graph = two[p].graph]
  BY <1>1 DEF Graph!Doing
<1>3. CASE Graph!Look(p)
  <2>1. PICK to \in {"read", "parse"} :
          two' = [two EXCEPT ![p] = [two[p] EXCEPT !.loader = to, !.graph = two[p].graph]]
    BY <1>1, <1>2, <1>3 DEF Graph!Look, Graph!Step, Graph!Doing
  <2>2. to \in Graph!Loader \ {"rename"} /\ to \notin Graph!Parsed /\ to # "nothing"
    BY DEF Graph!Loader, Graph!Parsed
  <2>3. UNCHANGED <<one, three, four>>
    BY <1>3 DEF Graph!Look
  <2>4. QED BY <1>1, <2>1, <2>2, <2>3, GraphLoaderKept
<1>4. CASE Graph!Read(p)
  <2>1. UNCHANGED <<one, three, four>>
    BY <1>4 DEF Graph!Read
  <2>2. CASE Graph!Readable(p)
    <3>1. two' = [two EXCEPT ![p] = [two[p] EXCEPT !.loader = "loaded", !.graph = two[p].magic]]
      BY <1>1, <1>4, <2>2 DEF Graph!Read, Graph!Readable, Graph!Doing
    <3>2. "loaded" \in Graph!Loader \ {"rename"} /\ ("loaded" \in Graph!Parsed <=> TRUE) /\ ("loaded" = "nothing" <=> FALSE)
      BY DEF Graph!Loader, Graph!Parsed
    <3>3. QED BY <1>1, <2>1, <3>1, <3>2, GraphLoaderKept
  <2>3. CASE ~Graph!Readable(p)
    <3>1. two' = [two EXCEPT ![p] = [two[p] EXCEPT !.loader = "parse", !.graph = two[p].graph]]
      BY <1>1, <1>2, <1>4, <2>3 DEF Graph!Read, Graph!Doing
    <3>2. "parse" \in Graph!Loader \ {"rename"} /\ ("parse" \in Graph!Parsed <=> FALSE) /\ ("parse" = "nothing" <=> FALSE)
      BY DEF Graph!Loader, Graph!Parsed
    <3>3. QED BY <1>1, <2>1, <3>1, <3>2, GraphLoaderKept
  <2>4. QED BY <2>2, <2>3
<1>5. CASE Graph!Parse(p)
  <2>1. UNCHANGED <<one, three, four>>
    BY <1>5 DEF Graph!Parse
  <2>2. CASE three.database
    <3>1. two' = [two EXCEPT ![p] = [two[p] EXCEPT !.loader = "create", !.graph = two[p].magic]]
      BY <1>1, <1>5, <2>2 DEF Graph!Parse, Graph!Doing
    <3>2. "create" \in Graph!Loader \ {"rename"} /\ ("create" \in Graph!Parsed <=> TRUE) /\ ("create" = "nothing" <=> FALSE)
      BY DEF Graph!Loader, Graph!Parsed
    <3>3. QED BY <1>1, <2>1, <3>1, <3>2, GraphLoaderKept
  <2>3. CASE ~three.database
    <3>1. two' = [two EXCEPT ![p] = [two[p] EXCEPT !.loader = "nothing", !.graph = two[p].graph]]
      BY <1>1, <1>2, <1>5, <2>3 DEF Graph!Parse, Graph!Doing
    <3>2. "nothing" \in Graph!Loader \ {"rename"} /\ ("nothing" \in Graph!Parsed <=> FALSE) /\ ("nothing" = "nothing" <=> TRUE)
      BY DEF Graph!Loader, Graph!Parsed
    <3>3. QED BY <1>1, <2>1, <2>3, <3>1, <3>2, GraphLoaderKept
  <2>4. QED BY <2>2, <2>3
<1>6. QED BY <1>3, <1>4, <1>5

\* The loader of one process writes: its temporary file, or, whole, the cache.
LEMMA GraphWriterKept ==
  ASSUME Graph!NamesApart, Graph!IInv, NEW p \in Shell, Graph!Live(p), UNCHANGED <<three, four>>,
         two[p].loader \in Graph!Parsed, NEW to \in Graph!Parsed,
         two' = [two EXCEPT ![p].loader = to],
         one' \in [Pids \cup {"cache"} -> [magic : Magics, whole : BOOLEAN] \cup {None}],
         \A n \in Pids \ {Graph!Tmp(p)} : one'[n] = one[n],
         Graph!CacheIsWhole',
         to = "rename" /\ one'[Graph!Tmp(p)] # None => one'[Graph!Tmp(p)].whole
  PROVE  Graph!IInv'
<1> DEFINE r == [two[p] EXCEPT !.loader = to]
<1>1. /\ two[p] \in Graph!Doing /\ Graph!InStep(two[p]) /\ two \in [Shell -> Graph!Doing]
      /\ three \in [writable : BOOLEAN, database : BOOLEAN] /\ four \in Nat
  BY DEF Graph!IInv, Graph!TypeOK
<1>2. /\ r \in Graph!Doing /\ r.at = two[p].at /\ r.pid = two[p].pid /\ r.loader = to
      /\ r.magic = two[p].magic /\ r.needed = two[p].needed /\ r.graph = two[p].graph
      /\ r.verdict = two[p].verdict
  BY <1>1 DEF Graph!Doing, Graph!Parsed, Graph!Loader
<1>3. two' = [two EXCEPT ![p] = r]
  BY <1>1 DEF Graph!Doing
<1> HIDE DEF r
<1>4. two' \in [Shell -> Graph!Doing] /\ two'[p] = r /\ \A q \in Shell \ {p} : two'[q] = two[q]
  BY <1>1, <1>2, <1>3
<1>5. \A q \in Shell : Graph!Live(q)' = Graph!Live(q) /\ two'[q].pid = two[q].pid
  BY <1>2, <1>4 DEF Graph!Live
<1>6. Graph!PidsApart'
  BY <1>5 DEF Graph!IInv, Graph!PidsApart
<1>7. Graph!TmpIsWhole'
  <2> SUFFICES ASSUME NEW q \in Shell, Graph!Live(q)', two'[q].loader = "rename", one'[Graph!Tmp(q)'] # None
               PROVE  one'[Graph!Tmp(q)'].whole
    BY DEF Graph!TmpIsWhole
  <2>1. Graph!Live(q) /\ Graph!Tmp(q)' = Graph!Tmp(q) /\ Graph!Tmp(q) \in Pids
    BY <1>5 DEF Graph!Tmp, Graph!IInv, Graph!InStep, Graph!Live
  <2>2. CASE q = p
    BY <1>2, <1>4, <2>1, <2>2
  <2>3. CASE q # p
    <3>1. Graph!Tmp(q) # Graph!Tmp(p)
      BY <2>1, <2>3 DEF Graph!IInv, Graph!PidsApart, Graph!Tmp
    <3>2. one'[Graph!Tmp(q)] = one[Graph!Tmp(q)] /\ two[q].loader = "rename"
      BY <1>4, <2>1, <2>3, <3>1
    <3>3. QED BY <2>1, <3>2 DEF Graph!IInv, Graph!TmpIsWhole
  <2>4. QED BY <2>2, <2>3
<1>8. ASSUME NEW q \in Shell PROVE Graph!InStep(two[q])'
  <2>1. Graph!InStep(r)
    BY <1>1, <1>2 DEF Graph!InStep, Graph!Live, Graph!Parsed
  <2>2. Graph!InStep(two'[q])
    BY <1>4, <2>1 DEF Graph!IInv
  <2>3. QED BY <2>2 DEF Graph!InStep
<1>9. Graph!TypeOK'
  BY <1>1, <1>4 DEF Graph!TypeOK
<1>10. QED BY <1>6, <1>7, <1>8, <1>9 DEF Graph!IInv

LEMMA GraphWriteStep ==
  ASSUME Graph!NamesApart, Graph!IInv, NEW p \in Shell, Graph!Create(p) \/ Graph!Write(p) \/ Graph!Rename(p)
  PROVE  Graph!IInv'
<1> DEFINE Right == [magic : Magics, whole : BOOLEAN] \cup {None}
<1>1. /\ two[p] \in Graph!Doing /\ Graph!InStep(two[p]) /\ Graph!Live(p) /\ UNCHANGED <<three, four>>
      /\ one \in [Pids \cup {"cache"} -> Right] /\ Graph!CacheIsWhole
  BY DEF Graph!IInv, Graph!TypeOK, Graph!Create, Graph!Write, Graph!Rename, Graph!Step
<1>2. Graph!Tmp(p) \in Pids /\ two[p].magic \in Magics /\ Graph!Tmp(p) # "cache"
  BY <1>1 DEF Graph!InStep, Graph!Live, Graph!Tmp, Graph!NamesApart
<1>3. \A whole \in BOOLEAN : Graph!Holds(two[p].magic, whole) \in Right
  BY <1>2 DEF Graph!Holds
<1>4. CASE Graph!Create(p)
  <2>1. PICK to \in {"write", "loaded"} : two[p].loader = "create" /\ two' = [two EXCEPT ![p].loader = to]
    BY <1>4 DEF Graph!Create, Graph!Step
  <2>2. /\ one' \in [Pids \cup {"cache"} -> Right] /\ one'["cache"] = one["cache"]
        /\ \A n \in Pids \ {Graph!Tmp(p)} : one'[n] = one[n]
    BY <1>1, <1>2, <1>3, <1>4 DEF Graph!Create
  <2>3. Graph!CacheIsWhole'
    BY <1>1, <2>2 DEF Graph!CacheIsWhole
  <2>4. to \in Graph!Parsed /\ to # "rename" /\ two[p].loader \in Graph!Parsed
    BY <2>1 DEF Graph!Parsed
  <2>5. QED BY <1>1, <2>1, <2>2, <2>3, <2>4, GraphWriterKept
<1>5. CASE Graph!Write(p)
  <2>1. PICK to \in {"rename", "loaded"} :
          /\ two[p].loader = "write" /\ two' = [two EXCEPT ![p].loader = to]
          /\ \/ one' = [one EXCEPT ![Graph!Tmp(p)] =
                           IF one[Graph!Tmp(p)] = None THEN one[Graph!Tmp(p)] ELSE Graph!Holds(two[p].magic, TRUE)]
             \/ to = "loaded" /\ one' = one
    BY <1>5 DEF Graph!Write, Graph!Step
  <2>2. /\ one' \in [Pids \cup {"cache"} -> Right] /\ one'["cache"] = one["cache"]
        /\ \A n \in Pids \ {Graph!Tmp(p)} : one'[n] = one[n]
    BY <1>1, <1>2, <1>3, <2>1
  <2>3. to = "rename" /\ one'[Graph!Tmp(p)] # None => one'[Graph!Tmp(p)].whole
    <3>1. Graph!Holds(two[p].magic, TRUE).whole
      BY DEF Graph!Holds
    <3>2. QED BY <1>1, <1>2, <2>1, <3>1
  <2>4. Graph!CacheIsWhole'
    BY <1>1, <2>2 DEF Graph!CacheIsWhole
  <2>5. to \in Graph!Parsed /\ two[p].loader \in Graph!Parsed
    BY <2>1 DEF Graph!Parsed
  <2>6. QED BY <1>1, <2>1, <2>2, <2>3, <2>4, <2>5, GraphWriterKept
<1>6. CASE Graph!Rename(p)
  <2>1. two[p].loader = "rename" /\ two' = [two EXCEPT ![p].loader = "loaded"]
    BY <1>6 DEF Graph!Rename, Graph!Step
  <2>2. /\ one' \in [Pids \cup {"cache"} -> Right] /\ one'["cache"] \in {one["cache"], one[Graph!Tmp(p)]}
        /\ \A n \in Pids \ {Graph!Tmp(p)} : one'[n] = one[n]
    BY <1>1, <1>2, <1>6 DEF Graph!Rename, Graph!NamesApart
  <2>3. one[Graph!Tmp(p)] # None => one[Graph!Tmp(p)].whole
    BY <1>1, <2>1 DEF Graph!IInv, Graph!TmpIsWhole
  <2>4. Graph!CacheIsWhole'
    BY <1>1, <2>2, <2>3 DEF Graph!CacheIsWhole
  <2>5. "loaded" \in Graph!Parsed /\ "loaded" # "rename" /\ two[p].loader \in Graph!Parsed
    BY <2>1 DEF Graph!Parsed
  <2>6. QED BY <1>1, <2>1, <2>2, <2>4, <2>5, GraphWriterKept
<1>7. QED BY <1>4, <1>5, <1>6

LEMMA GraphCleanKept ==
  ASSUME Graph!IInv, Graph!Clean
  PROVE  Graph!IInv'
<1>1. UNCHANGED <<two, three, four>> /\ \A n \in Pids \cup {"cache"} : one'[n] = None
  BY DEF Graph!Clean, Graph!IInv, Graph!TypeOK
<1>2. Graph!TypeOK' /\ Graph!CacheIsWhole'
  BY <1>1 DEF Graph!Clean, Graph!IInv, Graph!TypeOK, Graph!CacheIsWhole
<1>3. Graph!PidsApart'
  BY <1>1 DEF Graph!IInv, Graph!PidsApart, Graph!Live
<1>4. Graph!TmpIsWhole'
  BY <1>1 DEF Graph!IInv, Graph!TmpIsWhole, Graph!InStep, Graph!Live, Graph!Tmp
<1>5. \A q \in Shell : Graph!InStep(two[q])'
  BY <1>1 DEF Graph!IInv, Graph!InStep
<1>6. QED BY <1>2, <1>3, <1>4, <1>5 DEF Graph!IInv

LEMMA GraphKept == Graph!NamesApart /\ Graph!IInv /\ [Graph!Next]_(Graph!vars) => Graph!IInv'
<1> SUFFICES ASSUME Graph!NamesApart, Graph!IInv, [Graph!Next]_(Graph!vars) PROVE Graph!IInv'
  OBVIOUS
<1>1. CASE UNCHANGED Graph!vars
  BY <1>1 DEF Graph!vars, Graph!IInv, Graph!TypeOK, Graph!CacheIsWhole, Graph!PidsApart, Graph!TmpIsWhole, Graph!Live, Graph!Tmp, Graph!InStep
<1>2. ASSUME NEW p \in Shell, NEW pid \in Pids, NEW magic \in Magics, NEW early \in BOOLEAN,
             Graph!Run(p, pid, magic, early)
      PROVE  Graph!IInv'
  BY <1>2, GraphRunStep
<1>3. ASSUME NEW p \in Shell, Graph!StageFails(p) PROVE Graph!IInv'
  BY <1>3, GraphEndKept DEF Graph!StageFails, Graph!Live
<1>4. ASSUME NEW p \in Shell, Graph!PlacedAlready(p) PROVE Graph!IInv'
  <2>1. ~two[p].needed
    BY <1>4 DEF Graph!PlacedAlready, Graph!IInv, Graph!InStep
  <2>2. QED BY <1>4, <2>1, GraphEndKept DEF Graph!PlacedAlready, Graph!Live
<1>5. ASSUME NEW p \in Shell, Graph!Take(p) PROVE Graph!IInv'
  BY <1>5, GraphTakeStep
<1>6. ASSUME NEW p \in Shell, Graph!Taken(p) PROVE Graph!IInv'
  <2>1. Graph!InStep(two[p]) /\ Graph!Live(p) /\ UNCHANGED <<one, three, four>> /\ two[p].needed
    BY <1>6 DEF Graph!Taken, Graph!IInv, Graph!InStep, Graph!Live
  <2>2. CASE two[p].loader = "loaded"
    <3>1. Graph!End(p, "ok") /\ two[p].graph # None
      BY <1>6, <2>1, <2>2 DEF Graph!Taken, Graph!InStep, Graph!Live, Graph!Parsed, Graph!NamesApart
    <3>2. QED BY <2>1, <3>1, GraphEndKept
  <2>3. CASE two[p].loader = "nothing"
    <3>1. Graph!End(p, "failed") /\ ~three.database
      BY <1>6, <2>1, <2>3 DEF Graph!Taken, Graph!InStep, Graph!Live
    <3>2. QED BY <2>1, <3>1, GraphEndKept
  <2>4. QED BY <1>6, <2>2, <2>3 DEF Graph!Taken
<1>7. ASSUME NEW p \in Shell, Graph!Kill(p) PROVE Graph!IInv'
  BY <1>7, GraphEndKept DEF Graph!Kill
<1>8. ASSUME NEW p \in Shell, Graph!Load(p) PROVE Graph!IInv'
  BY <1>8, GraphLoadStep, GraphWriteStep DEF Graph!Load
<1>9. CASE Graph!Clean
  BY <1>9, GraphCleanKept
<1>10. QED BY <1>1, <1>2, <1>3, <1>4, <1>5, <1>6, <1>7, <1>8, <1>9 DEF Graph!Next

LEMMA GraphPromises == Graph!IInv => Graph!CacheIsWhole /\ Graph!GraphIsMine /\ Graph!FailsForWant
BY DEF Graph!IInv, Graph!InStep, Graph!GraphIsMine, Graph!FailsForWant

\* What TypeOK, the cache and every record say holds of every behaviour.
THEOREM GraphInvariant ==
  ASSUME Graph!NamesApart
  PROVE  Graph!Spec => []Graph!IInv
BY GraphStarts, GraphKept, PTL DEF Graph!Spec

\* Whoever is killed while writing it, whoever cleans it away, and under
\* whatever process ids, used again or not: the cache that is there is whole,
\* for any number of chipsmiths of any formats (write_cache).
THEOREM WholeCache ==
  ASSUME Graph!NamesApart
  PROVE  Graph!Spec => []Graph!CacheIsWhole
BY GraphPromises, GraphInvariant, PTL

\* The graph a plan routes on is of its own format and there when it was asked
\* for; the plan fails for want of one only when it had to have it and there
\* was no chip database (read_cache, Prefetch::take).
THEOREM OwnGraph ==
  ASSUME Graph!NamesApart
  PROVE  Graph!Spec => [](Graph!GraphIsMine /\ Graph!FailsForWant)
BY GraphPromises, GraphInvariant, PTL

-----------------------------------------------------------------------------
(***************************************************************************)
(* Each component's invariant, carried over to its bench: a behaviour is   *)
(* about one component, and its places are that component's variables.     *)
(***************************************************************************)
LEMMA OneBench ==
  /\ Init => /\ bench = "quartus" => Quartus!Init
             /\ bench = "graph" => Graph!Init
             /\ bench = "tests" => Tests!Init
             /\ bench = "install" => Installs!Init
             /\ bench = "build" => Builds!Init
  /\ [Next]_project =>
       /\ bench' = bench
       /\ bench = "quartus" => [Quartus!Next]_(Quartus!vars)
       /\ bench = "graph" => [Graph!Next]_(Graph!vars)
       /\ bench = "tests" => [Tests!Next]_(Tests!vars)
       /\ bench = "install" => [Installs!Next]_(Installs!vars)
       /\ bench = "build" => [Builds!Next]_(Builds!vars)
<1>1. Init => /\ bench = "quartus" => Quartus!Init
              /\ bench = "graph" => Graph!Init
              /\ bench = "tests" => Tests!Init
              /\ bench = "install" => Installs!Init
              /\ bench = "build" => Builds!Init
  BY DEF Init
<1>2. ASSUME Next
      PROVE  /\ bench' = bench
             /\ bench = "quartus" => Quartus!Next
             /\ bench = "graph" => Graph!Next
             /\ bench = "tests" => Tests!Next
             /\ bench = "install" => Installs!Next
             /\ bench = "build" => Builds!Next
  BY <1>2 DEF Next, Spare4, Spare6, Spare9
<1>3. ASSUME UNCHANGED project
      PROVE  /\ bench' = bench
             /\ UNCHANGED Quartus!vars /\ UNCHANGED Graph!vars /\ UNCHANGED Tests!vars
             /\ UNCHANGED Installs!vars /\ UNCHANGED Builds!vars
  BY <1>3 DEF project, places, Quartus!vars, Graph!vars, Tests!vars, Installs!vars, Builds!vars
<1>4. QED BY <1>1, <1>2, <1>3

\* GraphCache's theorem: whoever is killed and cleans, of whatever formats and
\* under whatever process ids, the cache that is there is whole, a plan routes
\* on a graph of its own format, and fails for want of one only when it must.
THEOREM GraphsAlwaysSound == Spec => []GraphsSound
<1> DEFINE Inv == bench = "graph" => Graph!IInv
<1>1. Init => Inv
  BY OneBench, GraphStarts, PartsAssumption
<1>2. Inv /\ [Next]_project => Inv'
  BY OneBench, GraphKept, PartsAssumption
<1>3. Inv => GraphsSound
  BY GraphPromises DEF GraphsSound, CacheIsWhole, GraphIsMine, FailsForWant
<1> HIDE DEF Inv
<1>4. QED BY <1>1, <1>2, <1>3, PTL DEF Spec

\* QuartusBuild's theorems: however many shells build in the directory, edit,
\* and are killed with a tool running, a build that was alone ends with its own
\* bitstream, its own verdict and, if it asked for timing, timing that is met.
THEOREM OutcomesAlwaysMine == Spec => []OutcomesMine
<1> DEFINE Inv == bench = "quartus" => Quartus!IInv
<1>1. Init => Inv
  BY OneBench, Quartus!Starts, PartsAssumption
<1>2. Inv /\ [Next]_project => Inv'
  BY OneBench, Quartus!Kept, PartsAssumption
<1>3. Inv => OutcomesMine
  BY Quartus!Promises, PartsAssumption DEF OutcomesMine, OutcomeIsMine, RequiredTimingIsMet
<1> HIDE DEF Inv
<1>4. QED BY <1>1, <1>2, <1>3, PTL DEF Spec

\* TestRun's theorem: on any projects, however often sources are rewritten
\* between runs and steps fail, a verdict of a run nothing was rewritten under
\* is the one its testbenches deserve, and what does not compile gets none.
THEOREM VerdictsAlwaysSound == Spec => []VerdictsSound
<1> DEFINE Inv == bench = "tests" => Tests!IInv
<1>1. Init => Inv
  BY OneBench, Tests!Starts, PartsAssumption
<1>2. Inv /\ [Next]_project => Inv'
  BY OneBench, Tests!Kept, PartsAssumption
<1>3. Inv => VerdictsSound
  BY Tests!Promises DEF VerdictsSound, VerdictsTrue, SetupIsNoVerdict
<1> HIDE DEF Inv
<1>4. QED BY <1>1, <1>2, <1>3, PTL DEF Spec

\* SharedDownloads of VendorInstallProofs: installs that share the .part files,
\* as many as there are, leave part of an archive under its own name once a
\* disturbance and no more often.
THEOREM ArchivesAlwaysWhole == Spec => []ArchivesWhole
<1> DEFINE Inv == bench = "install" =>
                    Installs!TypeOK /\ Installs!Controlled /\ Installs!SharedFits
<1>1. Init => Inv
  BY OneBench, Installs!TypeInit, Installs!SharedStarts, PartsAssumption
<1>2. Inv /\ [Next]_project => Inv'
  BY OneBench, Installs!TypeStep, Installs!SharedStep, PartsAssumption
<1>3. Inv => ArchivesWhole
  BY Installs!SharedSound, PartsAssumption DEF ArchivesWhole
<1> HIDE DEF Inv
<1>4. QED BY <1>1, <1>2, <1>3, PTL DEF Spec

\* HalfWritten of BuildCacheProofs: on any plan, one build at a time, whatever
\* is edited under its steps, torn or killed.
THEOREM NeverHalfWritten ==
  ASSUME Builds!HalfAssumed
  PROVE  Spec => []HalfWrittenNeverUpToDate
<1> DEFINE Inv == bench = "build" => Builds!HalfInv
<1>1. Init => Inv
  BY OneBench, Builds!HalfStarts, PartsAssumption
<1>2. Inv /\ [Next]_project => Inv'
  BY OneBench, Builds!HalfStep, PartsAssumption
<1>3. Inv => HalfWrittenNeverUpToDate
  BY Builds!HalfSound, PartsAssumption DEF HalfWrittenNeverUpToDate
<1> HIDE DEF Inv
<1>4. QED BY <1>1, <1>2, <1>3, PTL DEF Spec
=============================================================================
