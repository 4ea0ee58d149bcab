------------------------------- MODULE TestRun -------------------------------
(***************************************************************************)
(* `chipsmith-vendor test` (crates/vendor-sim: lib.rs, ghdl.rs;            *)
(* vendor-quartus-common: simulator.rs; vendor-core: lib.rs; vendor-cli).  *)
(*                                                                         *)
(* A plan names the sources and the testbenches; a simulator turns it into *)
(* commands: files, a setup that runs once, and the steps of each          *)
(* testbench.  All of them run in one work directory that outlives them,   *)
(* with what earlier runs, cut short or of another project, left there.    *)
(***************************************************************************)
EXTENDS Naturals, Sequences, SequencesExt, TLAPS, WellFoundedInduction

CONSTANTS
  Projects,  \* what the project may be
  MaxRuns,   \* bound: test runs in a behaviour
  MaxFaults, \* bound: edits and kills in a behaviour
  None

VARIABLES
  project, \* the project as it is on disk
  lib,     \* simulator -> file -> the unit its work library has of it
  exe,     \* testbench -> what GHDL elaborated last
  ini,     \* chipsmith's modelsim.ini is in the work directory
  run,     \* the run that goes on, or the last one
  count    \* runs and faults so far

vars == <<project, lib, exe, ini, run, count>>

\* A failed assertion is one of severity error (2) or failure (3): GHDL's
\* --assert-level, BreakOnAssertion in chipsmith's modelsim.ini.
ASSERT_LEVEL == 2
Vendor == 3

Simulators == {"ghdl", "quartus"}

File == UNION {ToSet(FlattenSeq(p.hdl \o p.sim)) : p \in Projects}

Idle == [at |-> "over", verdict |-> None, simulator |-> None, sources |-> <<>>,
         todo |-> <<>>, runs |-> <<>>, results |-> <<>>, untouched |-> FALSE]

Init ==
  /\ project \in Projects
  /\ lib = [m \in Simulators |-> [f \in File |-> None]]
  /\ exe = [f \in File |-> None]
  /\ ini = FALSE
  /\ run = Idle
  /\ count = [runs |-> 0, faults |-> 0]

-----------------------------------------------------------------------------
\* resolve_sim_sources: the design first, a pattern at a time.
SimSources(p) == FlattenSeq(p.hdl \o p.sim)

Matched(p) == \A n \in DOMAIN (p.hdl \o p.sim) : (p.hdl \o p.sim)[n] # <<>>

Setup(simulator) == IF simulator = "ghdl" THEN <<"analyse">> ELSE <<"vlib", "vcom">>
StepsOf(simulator) == IF simulator = "ghdl" THEN <<"elaborate", "run">> ELSE <<"vsim">>

\* SimPlan::new and the simulator's commands; a name the manifest does not
\* have, or a pattern without a file, is an error before anything runs.
Test(simulator, only) ==
  /\ run.at = "over" /\ count.runs < MaxRuns
  /\ LET named == IF only = None THEN project.testbenches
                   ELSE IF only \in ToSet(project.testbenches) THEN <<only>> ELSE <<>> IN
       run' = IF named = <<>> \/ ~Matched(project)
              THEN [Idle EXCEPT !.verdict = "error"]
              ELSE [Idle EXCEPT !.at = "files", !.simulator = simulator,
                                !.sources = SimSources(project), !.untouched = TRUE,
                                !.todo = Setup(simulator), !.runs = named]
  /\ count' = [count EXCEPT !.runs = @ + 1]
  /\ UNCHANGED <<project, lib, exe, ini>>

WriteFiles ==
  /\ run.at = "files"
  /\ ini' = (ini \/ run.simulator = "quartus")
  /\ run' = [run EXCEPT !.at = "setup"]
  /\ UNCHANGED <<project, lib, exe, count>>

-----------------------------------------------------------------------------
(***************************************************************************)
(* The simulators, external: sources are analysed in order into a library  *)
(* that keeps what it had, up to the first that does not compile or needs  *)
(* a unit the library does not have.                                       *)
(***************************************************************************)
Analyse(acc, f) ==
  IF acc.ok /\ project.unit[f].compiles /\ \A g \in project.unit[f].needs : acc.lib[g] # None
  THEN [acc EXCEPT !.lib[f] = project.unit[f]]
  ELSE [acc EXCEPT !.ok = FALSE]

\* After each of the sources.
AfterEach(start) ==
  LET after[n \in 0 .. Len(run.sources)] ==
        IF n = 0 THEN start ELSE Analyse(after[n - 1], run.sources[n])
  IN  after

Analysed(simulator) ==
  AfterEach([lib |-> lib[simulator], ok |-> TRUE])[Len(run.sources)]

\* Assertions at the level the simulation breaks at make it exit with an error.
Breaks(unit, level) == unit.severity >= level

Succeeds(step, tb) ==
  CASE step \in {"analyse", "vcom"} -> Analysed(run.simulator).ok
    [] step = "vlib" -> TRUE
    [] step = "elaborate" -> lib["ghdl"][tb] # None /\ lib["ghdl"][tb].elaborates
    [] step = "run" -> exe[tb] # None /\ ~Breaks(exe[tb], ASSERT_LEVEL)
    [] step = "vsim" -> /\ lib["quartus"][tb] # None /\ lib["quartus"][tb].elaborates
                        /\ ~Breaks(lib["quartus"][tb], IF ini THEN ASSERT_LEVEL ELSE Vendor)

Effect(step, tb) ==
  /\ lib' = IF step \in {"analyse", "vcom"}
            THEN [lib EXCEPT ![run.simulator] = Analysed(run.simulator).lib] ELSE lib
  /\ exe' = IF step = "elaborate" /\ Succeeds(step, tb)
            THEN [exe EXCEPT ![tb] = lib["ghdl"][tb]] ELSE exe

\* A setup step that fails is an error of the run, no verdict on a testbench.
SetupStep ==
  /\ run.at = "setup" /\ run.todo # <<>>
  /\ Effect(Head(run.todo), None)
  /\ run' = IF Succeeds(Head(run.todo), None)
            THEN [run EXCEPT !.todo = Tail(@)]
            ELSE [run EXCEPT !.at = "over", !.verdict = "error"]
  /\ UNCHANGED <<project, ini, count>>

SetupDone ==
  /\ run.at = "setup" /\ run.todo = <<>>
  /\ run' = [run EXCEPT !.at = "tests", !.todo = StepsOf(run.simulator)]
  /\ UNCHANGED <<project, lib, exe, ini, count>>

\* Wrong on purpose: the last of a testbench's steps has the say.
StepsAnyhow(ok) ==
  IF Len(run.todo) > 1 THEN [run EXCEPT !.todo = Tail(@)]
  ELSE [run EXCEPT !.todo = StepsOf(run.simulator), !.runs = Tail(@),
                   !.results = Append(@, [testbench |-> Head(run.runs), passed |-> ok])]

\* A testbench's steps run in order and stop at the first failure.
NextStep(ok) ==
  IF ok /\ Len(run.todo) > 1 THEN [run EXCEPT !.todo = Tail(@)]
  ELSE [run EXCEPT !.todo = StepsOf(run.simulator), !.runs = Tail(@),
                   !.results = Append(@, [testbench |-> Head(run.runs), passed |-> ok])]

TestStep ==
  /\ run.at = "tests" /\ run.runs # <<>>
  /\ Effect(Head(run.todo), Head(run.runs))
  /\ run' = NextStep(Succeeds(Head(run.todo), Head(run.runs)))
  /\ UNCHANGED <<project, ini, count>>

\* main: a failing testbench is a failing command.
TestsDone ==
  /\ run.at = "tests" /\ run.runs = <<>>
  /\ run' = [run EXCEPT !.at = "over", !.todo = <<>>,
               !.verdict = IF \A n \in DOMAIN run.results : run.results[n].passed
                           THEN "passed" ELSE "failed"]
  /\ UNCHANGED <<project, lib, exe, ini, count>>

Fault == count.faults < MaxFaults /\ count' = [count EXCEPT !.faults = @ + 1]

Kill ==
  /\ run.at # "over" /\ Fault
  /\ run' = [Idle EXCEPT !.verdict = "killed"]
  /\ UNCHANGED <<project, lib, exe, ini>>

Edit(p) ==
  /\ p # project /\ Fault
  /\ project' = p
  /\ run' = [run EXCEPT !.untouched = FALSE]
  /\ UNCHANGED <<lib, exe, ini>>

Next ==
  \/ \E simulator \in Simulators, only \in File \cup {None} : Test(simulator, only)
  \/ WriteFiles \/ SetupStep \/ SetupDone \/ TestStep \/ TestsDone \/ Kill
  \/ \E p \in Projects : Edit(p)

Spec == Init /\ [][Next]_vars

-----------------------------------------------------------------------------
Passes(tb) == project.unit[tb].elaborates /\ project.unit[tb].severity < ASSERT_LEVEL

\* "A Testbench means the same thing on both Simulators" (ghdl.rs, run_args): a
\* testbench among the sources passes exactly when it elaborates and raises no
\* assertion of error or worse, on either, whatever the work directory still
\* held; and the command ends well only if all it ran passed.
VerdictsTrue ==
  run.at = "over" /\ run.untouched /\ run.verdict \in {"passed", "failed"} =>
    /\ \A n \in DOMAIN run.results :
         LET r == run.results[n] IN
           r.testbench \in ToSet(run.sources) => (r.passed <=> Passes(r.testbench))
    /\ run.verdict = "passed" => \A n \in DOMAIN run.results : run.results[n].passed

\* A project whose files are listed in an order they can be read in, the
\* testbenches on top of the design, gets verdicts; one with a file that does
\* not compile gets none (lib.rs, SimCommands: "Failing here is an error, not a
\* verdict").
SetupIsNoVerdict ==
  run.at = "over" /\ run.untouched =>
    /\ (\E f \in ToSet(run.sources) : ~project.unit[f].compiles) =>
         run.verdict = "error" /\ run.results = <<>>
    /\ (\A f \in ToSet(run.sources) : project.unit[f].compiles) /\ project.ordered =>
         run.verdict \in {"passed", "failed"}

-----------------------------------------------------------------------------
(***************************************************************************)
(* What the verdicts rest on.  Of a run whose project was left alone: once *)
(* the sources are analysed, the library has each as the project has it;   *)
(* what is about to run is what was elaborated from it; and no simulation  *)
(* starts before chipsmith's modelsim.ini is there.                        *)
(***************************************************************************)
Unit ==
  [compiles : BOOLEAN, needs : SUBSET File, elaborates : BOOLEAN, severity : Nat]

Result == [testbench : File, passed : BOOLEAN]

Doing ==
  [at : {"over", "files", "setup", "tests"},
   verdict : {None, "error", "killed", "passed", "failed"},
   simulator : Simulators \cup {None}, sources : Seq(File),
   todo : Seq({"analyse", "vlib", "vcom", "elaborate", "run", "vsim"}), runs : Seq(File),
   results : Seq(Result), untouched : BOOLEAN]

Libraries == [Simulators -> [File -> Unit \cup {None}]]

TypeOK ==
  /\ project \in Projects
  /\ lib \in Libraries
  /\ exe \in [File -> Unit \cup {None}]
  /\ ini \in BOOLEAN
  /\ run \in Doing

\* Everything compiles, and the library has it as it is.
Read(simulator, sources) ==
  \A n \in DOMAIN sources :
    /\ project.unit[sources[n]].compiles
    /\ lib[simulator][sources[n]] = project.unit[sources[n]]

\* Some file does not compile, or comes before one it needs.
Unreadable(sources) ==
  \/ \E n \in DOMAIN sources : ~project.unit[sources[n]].compiles
  \/ ~project.ordered

Deserved(sources, results) ==
  \A n \in DOMAIN results :
    results[n].testbench \in ToSet(sources) =>
      (results[n].passed <=> Passes(results[n].testbench))

SetupLeft(simulator) ==
  IF simulator = "ghdl" THEN {<<"analyse">>, <<>>} ELSE {<<"vlib", "vcom">>, <<"vcom">>, <<>>}

StepsLeft(simulator) == IF simulator = "ghdl" THEN {<<"elaborate", "run">>, <<"run">>} ELSE {<<"vsim">>}

\* Where the commands are, whatever became of the project meanwhile.
InStep ==
  /\ run.at # "over" => run.simulator \in Simulators
  /\ run.at \in {"setup", "tests"} /\ run.simulator = "quartus" => ini
  /\ run.at = "files" => run.todo = Setup(run.simulator) /\ run.results = <<>>
  /\ run.at = "setup" => run.todo \in SetupLeft(run.simulator) /\ run.results = <<>>
  /\ run.at = "tests" => run.todo \in StepsLeft(run.simulator)
  /\ run.at = "tests" /\ run.todo = <<"run">> /\ run.runs # <<>> =>
       /\ exe[Head(run.runs)] = lib["ghdl"][Head(run.runs)]
       /\ exe[Head(run.runs)] # None /\ exe[Head(run.runs)].elaborates

RunOK ==
  /\ run.at # "over" => run.sources = SimSources(project)
  /\ run.at = "setup" /\ run.todo = <<>> => Read(run.simulator, run.sources)
  /\ run.at = "tests" => /\ Read(run.simulator, run.sources)
                         /\ Deserved(run.sources, run.results)
  /\ run.at = "over" /\ run.verdict = "error" => run.results = <<>> /\ Unreadable(run.sources)
  /\ run.at = "over" /\ run.verdict # "error" =>
       /\ run.verdict \in {"passed", "failed"}
       /\ \A n \in DOMAIN run.sources : project.unit[run.sources[n]].compiles
       /\ Deserved(run.sources, run.results)
       /\ run.verdict = "passed" => \A n \in DOMAIN run.results : run.results[n].passed

IInv == TypeOK /\ InStep /\ (run.untouched => RunOK)

-----------------------------------------------------------------------------
\* What a project is: files in the order they are listed, each with a unit;
\* `ordered` when each comes after those it needs.
ProjectsFit ==
  /\ None \notin Unit
  /\ \A p \in Projects :
       /\ SimSources(p) \in Seq(File) /\ p.testbenches \in Seq(File)
       /\ p.unit \in [File -> Unit]
       /\ p.ordered =>
            \A n \in DOMAIN SimSources(p) : \A g \in p.unit[SimSources(p)[n]].needs :
              \E m \in 1 .. n - 1 : SimSources(p)[m] = g

\* What holds at the start and from each number to the next holds up to n.
LEMMA UpTo ==
  ASSUME NEW n \in Nat, NEW G, 0 \in G, \A m \in Nat : m < n /\ m \in G => m + 1 \in G
  PROVE  \A m \in 0 .. n : m \in G
<1> DEFINE R == {x \in Nat \X Nat : x[1] < x[2]}
           B == {m \in 0 .. n : m \notin G}
<1>1. IsWellFoundedOn(R, Nat)
  BY NatLessThanWellFounded DEF OpToRel
<1>2. \A x, y \in Nat : y < x <=> <<y, x>> \in R
  OBVIOUS
<1>3. B \subseteq Nat
  OBVIOUS
<1> SUFFICES B = {}
  OBVIOUS
<1> SUFFICES ASSUME B # {} PROVE FALSE
  OBVIOUS
<1>4. PICK m \in B : \A k \in B : ~ (<<k, m>> \in R)
  <2> HIDE DEF R, B
  <2> QED
    BY <1>1, <1>3, WFMin
<1>5. m # 0
  OBVIOUS
<1>6. m - 1 \in Nat /\ m - 1 < m /\ m - 1 < n /\ m - 1 + 1 = m
  BY <1>5
<1>7. m - 1 \notin B
  BY <1>2, <1>3, <1>4, <1>6
<1>8. m - 1 \in G
  BY <1>6, <1>7
<1> QED
  BY <1>6, <1>8


LEMMA EachAfterTheOther ==
  ASSUME NEW start, run.sources \in Seq(File)
  PROVE  LET after == AfterEach(start)
         IN  /\ after[0] = start
             /\ \A n \in 1 .. Len(run.sources) : after[n] = Analyse(after[n - 1], run.sources[n])
<1> DEFINE Do(acc, n) == Analyse(acc, run.sources[n])
           last == Len(run.sources)
           Runs(g, m) == g = [n \in 0 .. m |-> IF n = 0 THEN start ELSE Do(g[n - 1], n)]
           G == {m \in Nat : \E g : Runs(g, m)}
<1>1. last \in Nat
  OBVIOUS
<1>2. AfterEach(start) = CHOOSE g : Runs(g, last)
  BY DEF AfterEach
<1> HIDE DEF Do, last
<1>3. 0 \in G
  <2>1. Runs([n \in {0} |-> start], 0)
    OBVIOUS
  <2>2. QED BY <2>1
<1>4. \A m \in Nat : m < last /\ m \in G => m + 1 \in G
  <2> SUFFICES ASSUME NEW m \in Nat, NEW g, Runs(g, m)
               PROVE  \E h : Runs(h, m + 1)
    <3> HIDE DEF Runs
    <3> QED OBVIOUS
  <2> DEFINE h == [n \in 0 .. m + 1 |-> IF n = m + 1 THEN Do(g[m], m + 1) ELSE g[n]]
  <2>1. ASSUME NEW n \in 0 .. m + 1
        PROVE  h[n] = IF n = 0 THEN start ELSE Do(h[n - 1], n)
    <3>1. CASE n = m + 1
      <4>1. n - 1 = m /\ h[m] = g[m]
        BY <3>1
      <4>2. QED BY <3>1, <4>1
    <3>2. CASE n # m + 1
      <4>1. n \in 0 .. m /\ h[n] = g[n]
        BY <3>2
      <4>2. n # 0 => n - 1 \in 0 .. m /\ h[n - 1] = g[n - 1]
        BY <4>1
      <4>3. QED BY <4>1, <4>2
    <3>3. QED BY <3>1, <3>2
  <2>2. h = [n \in 0 .. m + 1 |-> h[n]]
    OBVIOUS
  <2> HIDE DEF h
  <2>3. Runs(h, m + 1)
    BY <2>1, <2>2
  <2>4. QED BY <2>3
<1>5. last \in G
  <2> HIDE DEF G
  <2>1. \A m \in 0 .. last : m \in G
    BY <1>1, <1>3, <1>4, UpTo
  <2>2. QED BY <1>1, <2>1
<1>6. Runs(AfterEach(start), last)
  <2>1. \E g : Runs(g, last)
    BY <1>5
  <2> HIDE DEF Runs
  <2>2. QED BY <1>2, <2>1
<1>7. AfterEach(start)[0] = start
  BY <1>1, <1>6
<1>8. \A n \in 1 .. last : AfterEach(start)[n] = Do(AfterEach(start)[n - 1], n)
  BY <1>1, <1>6
<1>9. QED BY <1>7, <1>8 DEF Do, last

Analysis == [lib : [File -> Unit \cup {None}], ok : BOOLEAN]

\* What reading one file does.
LEMMA OneFile ==
  ASSUME ProjectsFit, project \in Projects, NEW acc \in Analysis, NEW f \in File
  PROVE  /\ Analyse(acc, f) \in Analysis
         /\ Analyse(acc, f).ok => /\ acc.ok /\ project.unit[f].compiles
                                  /\ Analyse(acc, f).lib[f] = project.unit[f]
         /\ \A g \in File : g # f => Analyse(acc, f).lib[g] = acc.lib[g]
         /\ (acc.ok /\ project.unit[f].compiles
              /\ \A g \in project.unit[f].needs : acc.lib[g] # None) => Analyse(acc, f).ok
<1>1. project.unit[f] \in Unit
  BY DEF ProjectsFit
<1>2. acc.lib \in [File -> Unit \cup {None}] /\ acc.ok \in BOOLEAN
  BY DEF Analysis
<1> DEFINE reads == /\ acc.ok /\ project.unit[f].compiles
                    /\ \A g \in project.unit[f].needs : acc.lib[g] # None
<1>3. CASE reads
  <2>1. Analyse(acc, f) = [acc EXCEPT !.lib[f] = project.unit[f]]
    BY <1>3 DEF Analyse
  <2>2. Analyse(acc, f) = [lib |-> [acc.lib EXCEPT ![f] = project.unit[f]], ok |-> acc.ok]
    BY <2>1 DEF Analysis
  <2>3. [acc.lib EXCEPT ![f] = project.unit[f]] \in [File -> Unit \cup {None}]
    BY <1>1, <1>2
  <2>4. QED BY <1>2, <1>3, <2>2, <2>3 DEF Analysis
<1>4. CASE ~reads
  <2>1. Analyse(acc, f) = [acc EXCEPT !.ok = FALSE]
    BY <1>4 DEF Analyse
  <2>2. Analyse(acc, f) = [lib |-> acc.lib, ok |-> FALSE]
    BY <2>1 DEF Analysis
  <2>3. /\ Analyse(acc, f) \in Analysis /\ ~Analyse(acc, f).ok
        /\ Analyse(acc, f).lib = acc.lib
    BY <1>2, <2>2 DEF Analysis
  <2>4. QED BY <1>4, <2>3
<1>5. QED BY <1>3, <1>4

LEMMA Reads ==
  ASSUME ProjectsFit, TypeOK, NEW simulator \in Simulators
  PROVE  /\ Analysed(simulator) \in Analysis
         /\ Analysed(simulator).ok =>
              \A n \in DOMAIN run.sources :
                /\ project.unit[run.sources[n]].compiles
                /\ Analysed(simulator).lib[run.sources[n]] = project.unit[run.sources[n]]
         /\ run.sources = SimSources(project) /\ ~Analysed(simulator).ok =>
              Unreadable(run.sources)
<1> DEFINE start == [lib |-> lib[simulator], ok |-> TRUE]
           after == AfterEach(start)
           s == run.sources
           last == Len(run.sources)
<1>1. /\ s \in Seq(File) /\ last \in Nat /\ DOMAIN s = 1 .. last
      /\ \A n \in 1 .. last : s[n] \in File
  BY DEF TypeOK, Doing
<1>2. after[0] = start
  BY <1>1, EachAfterTheOther
<1>3. \A n \in 1 .. last : after[n] = Analyse(after[n - 1], s[n])
  BY <1>1, EachAfterTheOther
<1>4. start \in Analysis
  BY DEF TypeOK, Libraries, Analysis
<1>5. Analysed(simulator) = after[last]
  BY DEF Analysed
<1>6. project \in Projects /\ \A f \in File : project.unit[f] \in Unit
  BY DEF TypeOK, ProjectsFit
<1> HIDE DEF after, start, s, last
<1>7. \A n \in 0 .. last : after[n] \in Analysis
  <2> DEFINE G == {m \in Nat : after[m] \in Analysis}
  <2>1. 0 \in G
    BY <1>2, <1>4
  <2>2. \A m \in Nat : m < last /\ m \in G => m + 1 \in G
    <3> SUFFICES ASSUME NEW m \in Nat, m < last, after[m] \in Analysis
                 PROVE  after[m + 1] \in Analysis
      OBVIOUS
    <3>1. m + 1 \in 1 .. last /\ m + 1 - 1 = m
      BY <1>1
    <3>2. QED BY <1>1, <1>3, <1>6, <3>1, OneFile
  <2> HIDE DEF G
  <2>3. \A m \in 0 .. last : m \in G
    BY <1>1, <2>1, <2>2, UpTo
  <2>4. QED BY <2>3 DEF G
<1> DEFINE Got(n) == \A m \in 1 .. n : /\ project.unit[s[m]].compiles
                                       /\ after[n].lib[s[m]] = project.unit[s[m]]
<1>8. \A n \in 0 .. last : after[n].ok => Got(n)
  <2> DEFINE G == {n \in Nat : after[n].ok => Got(n)}
  <2>1. 0 \in G
    OBVIOUS
  <2>2. \A m \in Nat : m < last /\ m \in G => m + 1 \in G
    <3> SUFFICES ASSUME NEW m \in Nat, m < last, after[m].ok => Got(m), after[m + 1].ok
                 PROVE  Got(m + 1)
      OBVIOUS
    <3>1. m + 1 \in 1 .. last /\ m + 1 - 1 = m /\ m \in 0 .. last /\ s[m + 1] \in File
      BY <1>1
    <3>2. after[m] \in Analysis /\ after[m + 1] = Analyse(after[m], s[m + 1])
      BY <1>3, <1>7, <3>1
    <3>3. /\ after[m].ok /\ project.unit[s[m + 1]].compiles
          /\ after[m + 1].lib[s[m + 1]] = project.unit[s[m + 1]]
      BY <1>6, <3>1, <3>2, OneFile
    <3>4. \A g \in File : g # s[m + 1] => after[m + 1].lib[g] = after[m].lib[g]
      BY <1>6, <3>1, <3>2, OneFile
    <3>5. ASSUME NEW k \in 1 .. m + 1
          PROVE  /\ project.unit[s[k]].compiles
                 /\ after[m + 1].lib[s[k]] = project.unit[s[k]]
      <4>1. CASE s[k] = s[m + 1]
        BY <3>3, <4>1
      <4>2. CASE s[k] # s[m + 1]
        <5>1. k \in 1 .. m /\ s[k] \in File
          BY <1>1, <4>2
        <5>2. QED BY <3>3, <3>4, <4>2, <5>1
      <4>3. QED BY <4>1, <4>2
    <3>6. QED BY <3>5
  <2> HIDE DEF G
  <2>3. \A m \in 0 .. last : m \in G
    BY <1>1, <2>1, <2>2, UpTo
  <2>4. QED BY <2>3 DEF G
<1>9. ASSUME s = SimSources(project), ~Unreadable(s)
      PROVE  \A n \in 0 .. last : after[n].ok
  <2> DEFINE G == {n \in Nat : after[n].ok}
  <2>1. 0 \in G
    BY <1>2 DEF start
  <2>2. \A m \in Nat : m < last /\ m \in G => m + 1 \in G
    <3> SUFFICES ASSUME NEW m \in Nat, m < last, after[m].ok
                 PROVE  after[m + 1].ok
      OBVIOUS
    <3>1. m + 1 \in 1 .. last /\ m + 1 - 1 = m /\ m \in 0 .. last /\ s[m + 1] \in File
      BY <1>1
    <3>2. after[m] \in Analysis /\ after[m + 1] = Analyse(after[m], s[m + 1])
      BY <1>3, <1>7, <3>1
    <3>3. project.unit[s[m + 1]].compiles /\ project.ordered
      BY <1>1, <1>9, <3>1 DEF Unreadable
    <3>4. ASSUME NEW g \in project.unit[s[m + 1]].needs PROVE after[m].lib[g] # None
      <4>1. PICK k \in 1 .. m + 1 - 1 : s[k] = g
        BY <1>1, <1>6, <1>9, <3>1, <3>3 DEF ProjectsFit
      <4>2. k \in 1 .. m /\ s[k] \in File
        BY <1>1
      <4>3. after[m].lib[g] = project.unit[g] /\ g \in File
        BY <1>8, <3>1, <4>1, <4>2
      <4>4. QED BY <1>6, <4>3 DEF ProjectsFit
    <3>5. QED BY <1>6, <3>1, <3>2, <3>3, <3>4, OneFile
  <2> HIDE DEF G
  <2>3. \A m \in 0 .. last : m \in G
    BY <1>1, <2>1, <2>2, UpTo
  <2>4. QED BY <2>3 DEF G
<1>10. last \in 0 .. last
  BY <1>1
<1>11. QED BY <1>1, <1>5, <1>7, <1>8, <1>9, <1>10 DEF s

LEMMA Orders ==
  ASSUME NEW simulator \in Simulators
  PROVE  /\ Setup(simulator) \in SetupLeft(simulator) /\ Setup(simulator) # <<>>
         /\ StepsOf(simulator) \in StepsLeft(simulator) /\ StepsOf(simulator) # <<"run">>
         /\ \A todo \in SetupLeft(simulator) :
              /\ todo \in Seq({"analyse", "vlib", "vcom", "elaborate", "run", "vsim"})
              /\ todo # <<>> => /\ Head(todo) \in {"analyse", "vlib", "vcom"}
                                /\ Tail(todo) \in SetupLeft(simulator)
                                /\ Tail(todo) = <<>> => Head(todo) \in {"analyse", "vcom"}
         /\ \A todo \in StepsLeft(simulator) :
              /\ todo \in Seq({"analyse", "vlib", "vcom", "elaborate", "run", "vsim"})
              /\ Len(todo) > 1 => /\ Head(todo) = "elaborate" /\ simulator = "ghdl"
                                  /\ Tail(todo) = <<"run">> /\ Tail(todo) \in StepsLeft(simulator)
              /\ ~ (Len(todo) > 1) => \/ todo = <<"run">> /\ Head(todo) = "run" /\ simulator = "ghdl"
                                      \/ Head(todo) = "vsim" /\ simulator = "quartus"
<1>1. CASE simulator = "ghdl"
  <2>1. /\ <<"elaborate", "run">> # <<"run">> /\ Tail(<<"elaborate", "run">>) = <<"run">>
        /\ Len(<<"elaborate", "run">>) = 2 /\ Len(<<"run">>) = 1
    OBVIOUS
  <2>2. QED BY <1>1, <2>1 DEF Setup, SetupLeft, StepsOf, StepsLeft
<1>2. CASE simulator = "quartus"
  <2>1. Tail(<<"vlib", "vcom">>) = <<"vcom">> /\ Len(<<"vsim">>) = 1 /\ <<"vsim">> # <<"run">>
    OBVIOUS
  <2>2. QED BY <1>2, <2>1 DEF Setup, SetupLeft, StepsOf, StepsLeft
<1>3. QED BY <1>1, <1>2 DEF Simulators

LEMMA IdleFits ==
  Idle \in Doing /\ Idle.at = "over" /\ Idle.untouched = FALSE /\ Idle.results = <<>>
BY DEF Idle, Doing

LEMMA Starts == ASSUME ProjectsFit PROVE Init => IInv
<1> SUFFICES ASSUME Init PROVE IInv
  OBVIOUS
<1>1. TypeOK
  BY IdleFits DEF Init, TypeOK, Libraries
<1>2. QED BY <1>1, IdleFits DEF Init, IInv, InStep

\* A run that is over and has no verdict on an untouched project claims nothing.
LEMMA OverFits ==
  ASSUME IInv, project' \in Projects, UNCHANGED <<lib, exe, ini>>,
         run' \in Doing, run'.at = "over", ~run'.untouched
  PROVE  IInv'
BY DEF IInv, TypeOK, InStep

LEMMA TestStarts ==
  ASSUME ProjectsFit, IInv, NEW simulator \in Simulators, NEW only \in File \cup {None},
         Test(simulator, only)
  PROVE  IInv'
<1> DEFINE named == IF only = None THEN project.testbenches
                    ELSE IF only \in ToSet(project.testbenches) THEN <<only>> ELSE <<>>
<1>1. named \in Seq(File)
  BY DEF ProjectsFit, IInv, TypeOK
<1>2. CASE named = <<>> \/ ~Matched(project)
  <2>1. run' = [Idle EXCEPT !.verdict = "error"]
    BY <1>2 DEF Test
  <2>2. run' \in Doing /\ run'.at = "over" /\ ~run'.untouched
    BY <2>1, IdleFits DEF Doing
  <2>3. QED BY <2>2, OverFits DEF Test, IInv, TypeOK
<1>3. CASE ~ (named = <<>> \/ ~Matched(project))
  <2>1. run' = [Idle EXCEPT !.at = "files", !.simulator = simulator,
                            !.sources = SimSources(project), !.untouched = TRUE,
                            !.todo = Setup(simulator), !.runs = named]
    BY <1>3 DEF Test
  <2>2. Setup(simulator) \in Seq({"analyse", "vlib", "vcom", "elaborate", "run", "vsim"})
    BY Orders
  <2>3. SimSources(project) \in Seq(File)
    BY DEF ProjectsFit, IInv, TypeOK
  <2> HIDE DEF named
  <2>4. /\ run' \in Doing /\ run'.at = "files" /\ run'.simulator = simulator
        /\ run'.sources = SimSources(project) /\ run'.todo = Setup(simulator)
        /\ run'.results = <<>>
    BY <1>1, <2>1, <2>2, <2>3, IdleFits DEF Doing
  <2>5. UNCHANGED <<project, lib, exe, ini>>
    BY DEF Test
  <2>6. TypeOK'
    BY <2>4, <2>5 DEF IInv, TypeOK
  <2>7. InStep' /\ RunOK'
    BY <2>4, <2>5 DEF InStep, RunOK
  <2>8. QED BY <2>6, <2>7 DEF IInv
<1>4. QED BY <1>2, <1>3

LEMMA FilesWritten ==
  ASSUME ProjectsFit, IInv, WriteFiles
  PROVE  IInv'
<1>1. /\ run' \in Doing /\ run'.at = "setup" /\ run'.simulator = run.simulator
      /\ run'.sources = run.sources /\ run'.todo = run.todo /\ run'.results = run.results
      /\ run'.untouched = run.untouched
  BY DEF WriteFiles, IInv, TypeOK, Doing
<1>2. run.at = "files" /\ run.simulator \in Simulators /\ run.todo = Setup(run.simulator) /\ run.results = <<>>
  BY DEF WriteFiles, IInv, InStep
<1>3. run.todo \in SetupLeft(run.simulator) /\ run.todo # <<>>
  BY <1>2, Orders
<1>4. UNCHANGED <<project, lib, exe>> /\ ini' = (ini \/ run.simulator = "quartus")
  BY DEF WriteFiles
<1>5. TypeOK'
  BY <1>1, <1>4 DEF IInv, TypeOK
<1>6. SetupLeft(run.simulator)' = SetupLeft(run'.simulator)
  OBVIOUS
<1>7. InStep'
  BY <1>1, <1>2, <1>3, <1>4 DEF InStep, SetupLeft
<1>8. run.untouched => RunOK'
  BY <1>1, <1>2, <1>3, <1>4 DEF IInv, RunOK
<1>9. QED BY <1>1, <1>5, <1>7, <1>8 DEF IInv

LEMMA SetupEnds ==
  ASSUME ProjectsFit, IInv, SetupDone
  PROVE  IInv'
<1>1. run.at = "setup" /\ run.todo = <<>> /\ run.results = <<>> /\ run.simulator \in Simulators
  BY DEF SetupDone, IInv, InStep
<1>2. StepsOf(run.simulator) \in StepsLeft(run.simulator) /\ StepsOf(run.simulator) # <<"run">>
  BY <1>1, Orders
<1>3. StepsOf(run.simulator) \in Seq({"analyse", "vlib", "vcom", "elaborate", "run", "vsim"})
  BY <1>1, <1>2, Orders
<1>4. /\ run' \in Doing /\ run'.at = "tests" /\ run'.simulator = run.simulator
      /\ run'.sources = run.sources /\ run'.todo = StepsOf(run.simulator)
      /\ run'.results = run.results /\ run'.untouched = run.untouched
  BY <1>3 DEF SetupDone, IInv, TypeOK, Doing
<1>5. UNCHANGED <<project, lib, exe, ini>>
  BY DEF SetupDone
<1>6. TypeOK'
  BY <1>4, <1>5 DEF IInv, TypeOK
<1>7. InStep'
  BY <1>1, <1>2, <1>4, <1>5 DEF IInv, InStep, StepsLeft
<1>8. run.untouched => RunOK'
  <2>2. run.untouched => Read(run.simulator, run.sources) /\ run.sources = SimSources(project)
    BY <1>1 DEF IInv, RunOK
  <2>3. run.untouched => (Read(run.simulator, run.sources))'
    BY <1>4, <1>5, <2>2 DEF Read
  <2>4. (Deserved(run.sources, run.results))'
    BY <1>1, <1>4 DEF Deserved
  <2>5. QED BY <1>4, <1>5, <2>2, <2>3, <2>4 DEF RunOK
<1>9. QED BY <1>4, <1>6, <1>7, <1>8 DEF IInv

LEMMA SetupRuns ==
  ASSUME ProjectsFit, IInv, SetupStep
  PROVE  IInv'
<1> DEFINE step == Head(run.todo)
<1>1. /\ run.at = "setup" /\ run.todo # <<>> /\ run.results = <<>>
      /\ run.simulator \in Simulators /\ run.todo \in SetupLeft(run.simulator)
      /\ run.simulator = "quartus" => ini
  BY DEF SetupStep, IInv, InStep
<1>2. PICK simulator \in Simulators : simulator = run.simulator
  BY <1>1
<1>3. /\ step \in {"analyse", "vlib", "vcom"} /\ Tail(run.todo) \in SetupLeft(simulator)
      /\ Tail(run.todo) = <<>> => step \in {"analyse", "vcom"}
  BY <1>1, <1>2, Orders
<1>4. Tail(run.todo) \in Seq({"analyse", "vlib", "vcom", "elaborate", "run", "vsim"})
  BY <1>2, <1>3, Orders
<1>5. UNCHANGED <<project, exe, ini>>
  BY <1>3 DEF SetupStep, Effect
<1>6. run \in Doing /\ lib \in Libraries /\ TypeOK
  BY DEF IInv, TypeOK
<1>7. Analysed(simulator) \in Analysis
  BY <1>6, Reads
<1> HIDE DEF step
<1>8. lib' \in Libraries /\ (step \in {"analyse", "vcom"} => lib'[simulator] = Analysed(simulator).lib)
  <2>1. CASE step \in {"analyse", "vcom"}
    <3>1. lib' = [lib EXCEPT ![simulator] = Analysed(simulator).lib]
      BY <1>2, <2>1 DEF SetupStep, Effect, step
    <3>2. Analysed(simulator).lib \in [File -> Unit \cup {None}]
      BY <1>7 DEF Analysis
    <3>3. QED BY <1>6, <3>1, <3>2 DEF Libraries
  <2>2. CASE step \notin {"analyse", "vcom"}
    <3>1. lib' = lib
      BY <2>2 DEF SetupStep, Effect, step
    <3>2. QED BY <1>6, <2>2, <3>1
  <2>3. QED BY <2>1, <2>2
<1>9. CASE Succeeds(step, None)
  <2>1. /\ run' \in Doing /\ run'.at = "setup" /\ run'.simulator = simulator
        /\ run'.sources = run.sources /\ run'.todo = Tail(run.todo) /\ run'.results = <<>>
        /\ run'.untouched = run.untouched
    BY <1>1, <1>2, <1>4, <1>6, <1>9 DEF SetupStep, Doing, step
  <2>2. TypeOK'
    BY <1>5, <1>6, <1>8, <2>1 DEF TypeOK
  <2>3. InStep'
    BY <1>1, <1>2, <1>3, <1>5, <2>1 DEF InStep, SetupLeft
  <2>4. ASSUME run.untouched, run'.todo = <<>> PROVE (Read(run.simulator, run.sources))'
    <3>1. step \in {"analyse", "vcom"}
      BY <1>3, <2>1, <2>4
    <3>2. Analysed(simulator).ok
      BY <1>2, <1>9, <3>1 DEF Succeeds
    <3>3. \A n \in DOMAIN run.sources :
            /\ project.unit[run.sources[n]].compiles
            /\ Analysed(simulator).lib[run.sources[n]] = project.unit[run.sources[n]]
      BY <1>6, <3>2, Reads
    <3>4. QED BY <1>5, <1>8, <2>1, <3>1, <3>3 DEF Read
  <2>5. run.untouched => RunOK'
    <3>1. run.untouched => run.sources = SimSources(project)
      BY <1>1 DEF IInv, RunOK
    <3>2. QED BY <1>5, <2>1, <2>4, <3>1 DEF RunOK
  <2>6. QED BY <2>1, <2>2, <2>3, <2>5 DEF IInv
<1>10. CASE ~Succeeds(step, None)
  <2>1. /\ run' \in Doing /\ run'.at = "over" /\ run'.verdict = "error"
        /\ run'.sources = run.sources /\ run'.results = <<>>
        /\ run'.untouched = run.untouched
    BY <1>1, <1>6, <1>10 DEF SetupStep, Doing, step
  <2>2. TypeOK' /\ InStep'
    BY <1>5, <1>6, <1>8, <2>1 DEF TypeOK, InStep
  <2>3. ~Analysed(simulator).ok
    BY <1>2, <1>3, <1>10 DEF Succeeds
  <2>4. run.untouched => Unreadable(run.sources)
    <3>1. run.untouched => run.sources = SimSources(project)
      BY <1>1 DEF IInv, RunOK
    <3>2. QED BY <1>6, <2>3, <3>1, Reads
  <2>5. run.untouched => (Unreadable(run.sources))'
    BY <1>5, <2>1, <2>4 DEF Unreadable
  <2>6. run.untouched => RunOK'
    BY <2>1, <2>5 DEF RunOK
  <2>7. QED BY <2>1, <2>2, <2>6 DEF IInv
<1>11. QED BY <1>9, <1>10

\* A step that fails, or the last one, tells what the testbench deserves.
LEMMA StepTells ==
  ASSUME ProjectsFit, IInv, run.at = "tests", run.runs # <<>>, run.untouched,
         Head(run.runs) \in ToSet(run.sources)
  PROVE  /\ Head(run.todo) = "elaborate" /\ ~Succeeds(Head(run.todo), Head(run.runs)) =>
              ~Passes(Head(run.runs))
         /\ run.todo = <<"run">> \/ Head(run.todo) = "vsim" =>
              (Succeeds(Head(run.todo), Head(run.runs)) <=> Passes(Head(run.runs)))
<1> DEFINE tb == Head(run.runs)
           step == Head(run.todo)
<1>1. /\ Read(run.simulator, run.sources) /\ run.simulator \in Simulators
      /\ run.todo \in StepsLeft(run.simulator)
      /\ run.simulator = "quartus" => ini
      /\ run.todo = <<"run">> => exe[tb] = lib["ghdl"][tb] /\ exe[tb] # None /\ exe[tb].elaborates
  BY DEF IInv, InStep, RunOK
<1>2. PICK n \in DOMAIN run.sources : tb = run.sources[n]
  BY DEF ToSet
<1>3. tb \in File
  BY <1>2 DEF IInv, TypeOK, Doing
<1>4. lib[run.simulator][tb] = project.unit[tb]
  BY <1>1, <1>2 DEF Read
<1>5. project.unit[tb] \in Unit /\ project.unit[tb] # None
  BY <1>3 DEF IInv, TypeOK, ProjectsFit
<1> HIDE DEF tb, step
<1>6. project.unit[tb].severity \in Nat /\ project.unit[tb].elaborates \in BOOLEAN
  BY <1>5 DEF Unit
<1>7. ASSUME step = "elaborate", ~Succeeds(step, tb) PROVE ~Passes(tb)
  <2>1. run.simulator = "ghdl"
    <3>1. run.simulator # "quartus"
      BY <1>1, <1>7 DEF StepsLeft, step
    <3>2. QED BY <1>1, <3>1 DEF Simulators
  <2>2. QED BY <1>4, <1>5, <1>7, <2>1 DEF Succeeds, Passes
<1>8. ASSUME run.todo = <<"run">> PROVE Succeeds(step, tb) <=> Passes(tb)
  <2>1. step = "run"
    BY <1>8 DEF step
  <2>2. run.simulator = "ghdl"
    <3>1. run.simulator # "quartus"
      BY <1>1, <1>8, <2>1 DEF StepsLeft, step
    <3>2. QED BY <1>1, <3>1 DEF Simulators
  <2>3. exe[tb] = project.unit[tb] /\ project.unit[tb].elaborates
    BY <1>1, <1>4, <1>8, <2>2
  <2>4. QED BY <1>5, <1>6, <2>1, <2>3 DEF Succeeds, Passes, Breaks, ASSERT_LEVEL
<1>9. ASSUME step = "vsim" PROVE Succeeds(step, tb) <=> Passes(tb)
  <2>1. run.simulator = "quartus"
    <3>1. run.simulator # "ghdl"
      BY <1>1, <1>9 DEF StepsLeft, step
    <3>2. QED BY <1>1, <3>1 DEF Simulators
  <2>2. QED BY <1>1, <1>4, <1>5, <1>6, <1>9, <2>1 DEF Succeeds, Passes, Breaks, ASSERT_LEVEL
<1>10. QED BY <1>7, <1>8, <1>9 DEF tb, step

LEMMA OneMore ==
  ASSUME NEW results \in Seq(Result), NEW sources, NEW e \in Result, Deserved(sources, results),
         e.testbench \in ToSet(sources) => (e.passed <=> Passes(e.testbench))
  PROVE  Deserved(sources, Append(results, e)) /\ Append(results, e) \in Seq(Result)
BY DEF Deserved

LEMMA TestsRun ==
  ASSUME ProjectsFit, IInv, TestStep
  PROVE  IInv'
<1> DEFINE step == Head(run.todo)
           tb == Head(run.runs)
           ok == Succeeds(step, tb)
           e == [testbench |-> tb, passed |-> ok]
<1>1. /\ run.at = "tests" /\ run.runs # <<>> /\ run.simulator \in Simulators
      /\ run.todo \in StepsLeft(run.simulator)
      /\ run.simulator = "quartus" => ini
  BY DEF TestStep, IInv, InStep
<1>2. TypeOK /\ run \in Doing /\ project \in Projects
  BY DEF IInv, TypeOK
<1>3. run.runs \in Seq(File) /\ run.results \in Seq(Result) /\ run.todo \in Seq({"analyse", "vlib", "vcom", "elaborate", "run", "vsim"})
  BY <1>2 DEF Doing
<1>4. tb \in File /\ Tail(run.runs) \in Seq(File)
  BY <1>1, <1>3
<1>5. step \in {"elaborate", "run", "vsim"}
  BY <1>1, Orders
<1>6. e \in Result
  <2>1. ok \in BOOLEAN
    BY <1>2, <1>4, <1>5 DEF Succeeds, TypeOK, Libraries, Unit
  <2>2. QED BY <1>4, <2>1 DEF Result
<1>7. UNCHANGED <<project, lib, ini>>
  BY <1>5 DEF TestStep, Effect
<1>8. run' = NextStep(ok) /\ exe' = IF step = "elaborate" /\ ok THEN [exe EXCEPT ![tb] = lib["ghdl"][tb]] ELSE exe
  BY DEF TestStep, Effect
<1>9. exe' \in [File -> Unit \cup {None}]
  BY <1>2, <1>4, <1>8 DEF TypeOK, Libraries, Simulators
<1>10. run.untouched => /\ run.sources = SimSources(project) /\ Read(run.simulator, run.sources)
                        /\ Deserved(run.sources, run.results)
  BY <1>1 DEF IInv, RunOK
<1> HIDE DEF step, tb, ok, e
<1>11. CASE ok /\ Len(run.todo) > 1
  <2>1. /\ step = "elaborate" /\ run.simulator = "ghdl" /\ Tail(run.todo) = <<"run">>
        /\ Tail(run.todo) \in StepsLeft(run.simulator)
        /\ Tail(run.todo) \in Seq({"analyse", "vlib", "vcom", "elaborate", "run", "vsim"})
    BY <1>1, <1>3, <1>11, Orders DEF step
  <2>2. /\ run' \in Doing /\ run'.at = "tests" /\ run'.simulator = run.simulator
        /\ run'.sources = run.sources /\ run'.todo = Tail(run.todo)
        /\ run'.results = run.results /\ run'.runs = run.runs /\ run'.untouched = run.untouched
    BY <1>1, <1>2, <1>8, <1>11, <2>1 DEF NextStep, Doing
  <2>3. TypeOK'
    BY <1>2, <1>7, <1>9, <2>2 DEF TypeOK
  <2>4. exe'[tb] = lib["ghdl"][tb] /\ lib["ghdl"][tb] # None /\ lib["ghdl"][tb].elaborates
    <3>1. lib["ghdl"][tb] # None /\ lib["ghdl"][tb].elaborates
      BY <1>11, <2>1 DEF ok, Succeeds
    <3>2. exe \in [File -> Unit \cup {None}]
      BY <1>2 DEF TypeOK
    <3>3. QED BY <1>4, <1>8, <1>11, <2>1, <3>1, <3>2
  <2>5. InStep'
    <3>1. exe'[Head(run'.runs)] = lib'["ghdl"][Head(run'.runs)] /\ exe'[Head(run'.runs)] # None
          /\ exe'[Head(run'.runs)].elaborates
      BY <1>7, <2>2, <2>4 DEF tb
    <3>2. QED BY <1>1, <1>7, <2>1, <2>2, <3>1 DEF InStep, StepsLeft
  <2>6. run.untouched => RunOK'
    <3>1. run.untouched => (Read(run.simulator, run.sources))' /\ (Deserved(run.sources, run.results))'
      BY <1>7, <1>10, <2>2 DEF Read, Deserved, Passes
    <3>2. QED BY <1>7, <1>10, <2>2, <3>1 DEF RunOK
  <2>7. QED BY <2>2, <2>3, <2>5, <2>6 DEF IInv
<1>12. CASE ~ (ok /\ Len(run.todo) > 1)
  <2>1. /\ StepsOf(run.simulator) \in StepsLeft(run.simulator) /\ StepsOf(run.simulator) # <<"run">>
        /\ StepsOf(run.simulator) \in Seq({"analyse", "vlib", "vcom", "elaborate", "run", "vsim"})
    BY <1>1, Orders
  <2>2. Append(run.results, e) \in Seq(Result)
    BY <1>3, <1>6
  <2>3. run' = [run EXCEPT !.todo = StepsOf(run.simulator), !.runs = Tail(@), !.results = Append(@, e)]
    BY <1>8, <1>12 DEF NextStep, e, tb
  <2>4. /\ run' \in Doing /\ run'.at = "tests" /\ run'.simulator = run.simulator
        /\ run'.sources = run.sources /\ run'.todo = StepsOf(run.simulator)
        /\ run'.results = Append(run.results, e) /\ run'.untouched = run.untouched
    BY <1>1, <1>2, <1>4, <2>1, <2>2, <2>3 DEF Doing
  <2>5. TypeOK'
    BY <1>2, <1>7, <1>9, <2>4 DEF TypeOK
  <2>6. InStep'
    BY <1>1, <1>7, <2>1, <2>4 DEF InStep, StepsLeft
  <2>7. ASSUME run.untouched, tb \in ToSet(run.sources) PROVE ok <=> Passes(tb)
    <3>1. CASE Len(run.todo) > 1
      <4>1. step = "elaborate"
        BY <1>1, <3>1, Orders DEF step
      <4>2. ~ok
        BY <1>12, <3>1
      <4>3. ~Passes(tb)
        BY <1>1, <2>7, <4>1, <4>2, StepTells DEF step, tb, ok
      <4>4. QED BY <4>2, <4>3
    <3>2. CASE ~ (Len(run.todo) > 1)
      <4>1. run.todo = <<"run">> \/ step = "vsim"
        BY <1>1, <3>2, Orders DEF step
      <4>2. QED BY <1>1, <2>7, <4>1, StepTells DEF step, tb, ok
    <3>3. QED BY <3>1, <3>2
  <2>8. run.untouched => RunOK'
    <3>1. e.testbench = tb /\ e.passed = ok
      BY DEF e
    <3>2. run.untouched => Deserved(run.sources, Append(run.results, e))
      BY <1>3, <1>6, <1>10, <2>7, <3>1, OneMore
    <3>3. run.untouched => (Read(run.simulator, run.sources))' /\ (Deserved(run.sources, run.results))'
      BY <1>7, <1>10, <2>4, <3>2 DEF Read, Deserved, Passes
    <3>4. QED BY <1>7, <1>10, <2>4, <3>3 DEF RunOK
  <2>9. QED BY <2>4, <2>5, <2>6, <2>8 DEF IInv
<1>13. QED BY <1>11, <1>12

LEMMA TestsEnd ==
  ASSUME ProjectsFit, IInv, TestsDone
  PROVE  IInv'
<1> DEFINE all == \A n \in DOMAIN run.results : run.results[n].passed
           verdict == IF all THEN "passed" ELSE "failed"
<1>1. run.at = "tests" /\ TypeOK /\ run \in Doing
  BY DEF TestsDone, IInv, TypeOK
<1>2. UNCHANGED <<project, lib, exe, ini>> /\ run' = [run EXCEPT !.at = "over", !.todo = <<>>, !.verdict = verdict]
  BY DEF TestsDone
<1>0. verdict \in {"passed", "failed"} /\ <<>> \in Seq({"analyse", "vlib", "vcom", "elaborate", "run", "vsim"})
  OBVIOUS
<1> HIDE DEF all, verdict
<1>3. /\ run' \in Doing /\ run'.at = "over" /\ run'.verdict = verdict /\ run'.sources = run.sources
      /\ run'.results = run.results /\ run'.untouched = run.untouched
  BY <1>0, <1>1, <1>2 DEF Doing
<1>4. TypeOK' /\ InStep'
  BY <1>1, <1>2, <1>3 DEF TypeOK, InStep
<1>5. ASSUME run.untouched PROVE RunOK'
  <2>1. Read(run.simulator, run.sources) /\ Deserved(run.sources, run.results)
    BY <1>1, <1>5 DEF IInv, RunOK
  <2>2. (Deserved(run.sources, run.results))'
    BY <1>2, <1>3, <2>1 DEF Deserved, Passes
  <2>3. \A n \in DOMAIN run'.sources : project'.unit[run'.sources[n]].compiles
    BY <1>2, <1>3, <2>1 DEF Read
  <2>4. run'.verdict = "passed" => \A n \in DOMAIN run'.results : run'.results[n].passed
    BY <1>3 DEF all, verdict
  <2>5. QED BY <1>0, <1>3, <2>2, <2>3, <2>4 DEF RunOK
<1>6. QED BY <1>3, <1>4, <1>5 DEF IInv

LEMMA EditFits ==
  ASSUME ProjectsFit, IInv, NEW p \in Projects, Edit(p)
  PROVE  IInv'
<1>1. TypeOK /\ run \in Doing /\ UNCHANGED <<lib, exe, ini>> /\ project' = p
  BY DEF Edit, IInv, TypeOK
<1>2. /\ run' \in Doing /\ run'.at = run.at /\ run'.simulator = run.simulator
      /\ run'.todo = run.todo /\ run'.results = run.results /\ run'.runs = run.runs
      /\ run'.untouched = FALSE
  BY <1>1 DEF Edit, Doing
<1>3. TypeOK'
  BY <1>1, <1>2 DEF TypeOK
<1>4. InStep'
  BY <1>1, <1>2 DEF IInv, InStep, SetupLeft, StepsLeft, Setup
<1>5. QED BY <1>2, <1>3, <1>4 DEF IInv

LEMMA Kept == ProjectsFit /\ IInv /\ [Next]_vars => IInv'
<1> SUFFICES ASSUME ProjectsFit, IInv, [Next]_vars PROVE IInv'
  OBVIOUS
<1>1. CASE UNCHANGED vars
  BY <1>1 DEF vars, IInv, TypeOK, InStep, RunOK, Read, Deserved, Unreadable, Passes, SetupLeft,
     StepsLeft, Setup
<1>2. ASSUME NEW simulator \in Simulators, NEW only \in File \cup {None}, Test(simulator, only)
      PROVE  IInv'
  BY <1>2, TestStarts
<1>3. CASE WriteFiles \/ SetupStep \/ SetupDone \/ TestStep \/ TestsDone
  BY <1>3, FilesWritten, SetupRuns, SetupEnds, TestsRun, TestsEnd
<1>4. CASE Kill
  <2>1. run' \in Doing /\ run'.at = "over" /\ run'.untouched = FALSE
    BY <1>4, IdleFits DEF Kill, Doing
  <2>2. QED BY <1>4, <2>1, OverFits DEF Kill, IInv, TypeOK
<1>5. ASSUME NEW p \in Projects, Edit(p) PROVE IInv'
  BY <1>5, EditFits
<1>6. QED BY <1>1, <1>2, <1>3, <1>4, <1>5 DEF Next

LEMMA Promises == IInv => VerdictsTrue /\ SetupIsNoVerdict
<1> SUFFICES ASSUME IInv, run.at = "over", run.untouched
             PROVE  /\ run.verdict \in {"passed", "failed"} =>
                         /\ Deserved(run.sources, run.results)
                         /\ run.verdict = "passed" =>
                              \A n \in DOMAIN run.results : run.results[n].passed
                    /\ (\E f \in ToSet(run.sources) : ~project.unit[f].compiles) =>
                         run.verdict = "error" /\ run.results = <<>>
                    /\ (\A f \in ToSet(run.sources) : project.unit[f].compiles) /\ project.ordered =>
                         run.verdict \in {"passed", "failed"}
  BY DEF VerdictsTrue, SetupIsNoVerdict, Deserved
<1>1. RunOK /\ ToSet(run.sources) = {run.sources[n] : n \in DOMAIN run.sources}
  BY DEF IInv, ToSet
<1>2. QED BY <1>1 DEF RunOK, Unreadable

-----------------------------------------------------------------------------
\* Whatever earlier runs, of other projects, killed or not, left in the work
\* library and of what was elaborated: a testbench gets the verdict its own unit
\* deserves, and a file that does not compile gives none (run_sim, ghdl.rs,
\* simulator.rs), for any projects and any number of runs.
THEOREM VerdictsDeserved ==
  ASSUME ProjectsFit
  PROVE  Spec => [](VerdictsTrue /\ SetupIsNoVerdict)
<1>1. Init => IInv
  BY Starts
<1>2. IInv /\ [Next]_vars => IInv'
  BY Kept
<1>3. QED BY <1>1, <1>2, Promises, PTL DEF Spec
=============================================================================
