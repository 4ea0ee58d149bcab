----------------------------- MODULE QuartusBuild -----------------------------
(***************************************************************************)
(* `chipsmith-vendor build` (crates/vendor-quartus-common: build.rs,       *)
(* toolchain.rs, timing.rs; vendor-toolchain: toolchain.rs, timing.rs,     *)
(* process.rs; vendor-cli: main.rs).                                       *)
(*                                                                         *)
(* A build plans its files and steps from the manifest, writes the files   *)
(* into the build directory, runs the four tools there one after another,  *)
(* and reads the Timing Summary that is then in it.  Nothing locks the     *)
(* directory and nothing in it is removed: users build twice, edit while a *)
(* build runs, and a tool whose chipsmith is gone runs on.                 *)
(***************************************************************************)
EXTENDS Naturals, Integers, Sequences, SequencesExt, TLAPS, WellFoundedInduction

CONSTANTS
  Process,    \* shells that run chipsmith-vendor
  Options,    \* the flags they give: --require-timing, --out-dir
  Manifests,  \* what the project may be: clocks or none, what sta reports
  Faults,     \* which of FaultKind happen
  MaxFaults,  \* bound: faults in a behaviour
  MaxBuilds,  \* bound: builds in a behaviour
  None

VARIABLES
  manifest, \* the project as it is on disk, its sources included
  dir,      \* the build directory
  tools,    \* the tools that are running
  proc,     \* what every shell is doing
  out,      \* what `--out-dir` copied last
  count     \* builds and faults so far

vars == <<manifest, dir, tools, proc, out, count>>

(***************************************************************************)
(* "tool"    a tool fails, or cannot be started                            *)
(* "stderr"  a line of a tool's stderr cannot be read (it is not UTF-8):   *)
(*           run() returns and leaves the tool to itself                   *)
(* "kill"    chipsmith is killed, and its tool with it or not              *)
(* "edit"    the project is edited                                         *)
(***************************************************************************)
FaultKind == {"tool", "stderr", "kill", "edit"}

Steps == <<"map", "fit", "asm", "sta">>

\* Wrong on purpose: constraints an earlier build left are taken to do.
FilesOnce(man) ==
  <<"qsf", "qpf">> \o IF man.clocks /\ dir.sdc = None THEN <<"sdc">> ELSE <<>>

\* plan_build: the constraints are written and referenced on one condition.
PlannedFiles(man) == <<"qsf", "qpf">> \o IF man.clocks THEN <<"sdc">> ELSE <<>>

AtRest == {"idle", "ok", "failed"}

Idle == [at |-> "idle", man |-> None, todo |-> <<>>, require |-> FALSE,
         copy |-> FALSE, timing |-> None, alone |-> FALSE]

Files == {"qsf", "qpf", "sdc"} \cup ToSet(Steps)

\* What a build of `man` with nobody in its way leaves.
Fitted(man) == [settings |-> man, sources |-> man]
Analysed(man) == [of |-> Fitted(man), under |-> IF man.clocks THEN man ELSE None]
LeftBy(man) ==
  [f \in Files |-> CASE f = "sta" -> Analysed(man)
                     [] f = "sdc" /\ ~man.clocks -> None
                     [] f \in {"map", "fit", "asm"} -> Fitted(man)
                     [] OTHER -> man]

\* The directory is new, or an earlier build was there.
Init ==
  /\ manifest \in Manifests
  /\ dir \in {[f \in Files |-> None]} \cup {LeftBy(man) : man \in Manifests}
  /\ tools = {}
  /\ proc = [p \in Process |-> Idle]
  /\ out = None
  /\ count = [builds |-> 0, faults |-> 0]

Fault(kind) ==
  /\ kind \in Faults /\ count.faults < MaxFaults
  /\ count' = [count EXCEPT !.faults = @ + 1]

\* Nobody else may claim to have had the directory to himself.
Disturbed(p) == [q \in Process |-> IF q = p THEN proc[q] ELSE [proc[q] EXCEPT !.alone = FALSE]]

-----------------------------------------------------------------------------
(***************************************************************************)
(* parse_sta_summary: a Slack line counts under the Type line before it,   *)
(* once, and only with a number.  `report` is the lines of the summary.    *)
(***************************************************************************)
Line(acc, line) ==
  CASE line.label = "Type" -> [acc EXCEPT !.kind = TRUE]
    [] line.label = "Slack" ->
         [kind |-> FALSE,
          corners |-> IF acc.kind /\ line.value # None
                      THEN Append(acc.corners, line.value)
                      ELSE acc.corners]
    [] OTHER -> acc

\* After each of the lines.
Parsed(report) ==
  LET after[n \in 0 .. Len(report)] ==
        IF n = 0 THEN [kind |-> FALSE, corners |-> <<>>] ELSE Line(after[n - 1], report[n])
  IN  after

ParseSta(report) == Parsed(report)[Len(report)].corners

\* External: the lines of a summary; a path without a clock has no slack.
ReportOf(summary) ==
  IF summary.under = None
  THEN <<[label |-> "Type", value |-> None], [label |-> "Slack", value |-> None]>>
  ELSE summary.of.sources.report

Worst(corners) ==
  IF corners = <<>> THEN None
  ELSE CHOOSE c \in ToSet(corners) : \A other \in ToSet(corners) : c <= other

Met(corners) == Worst(corners) # None => Worst(corners) >= 0

\* A build with no Timing Summary is not trustworthy.
MeetsTiming(summary) == summary # None /\ Met(ParseSta(ReportOf(summary)))

-----------------------------------------------------------------------------
\* The manifest is loaded, the build planned.
Build(p, options) ==
  /\ proc[p].at \in AtRest
  /\ count.builds < MaxBuilds
  /\ proc' = [Disturbed(p) EXCEPT ![p] =
       [Idle EXCEPT !.at = "files", !.man = manifest, !.require = options.require, !.copy = options.copy,
                    !.todo = PlannedFiles(manifest),
                    !.alone = tools = {} /\ \A q \in Process \ {p} : proc[q].at \in AtRest]]
  /\ count' = [count EXCEPT !.builds = @ + 1]
  /\ UNCHANGED <<manifest, dir, tools, out>>

\* materialize writes one planned file after another.
WriteFile(p) ==
  /\ proc[p].at = "files"
  /\ dir' = [dir EXCEPT ![Head(proc[p].todo)] = proc[p].man]
  /\ proc' = IF Len(proc[p].todo) > 1
             THEN [proc EXCEPT ![p].todo = Tail(@)]
             ELSE [proc EXCEPT ![p].at = "step", ![p].todo = Steps]
  /\ UNCHANGED <<manifest, tools, out, count>>

(***************************************************************************)
(* The tools.  Synthesis reads the settings and the sources they name, the *)
(* fitter and the assembler what the tool before them left, and timing     *)
(* analysis the fitted design under the constraints the settings name.     *)
(***************************************************************************)
Makes(tool) ==
  CASE tool = "map" -> [settings |-> dir.qsf, sources |-> manifest]
    [] tool = "fit" -> dir.map
    [] tool = "asm" -> dir.fit
    [] tool = "sta" -> [of |-> dir.fit, under |-> IF dir.qsf.clocks THEN dir.sdc ELSE None]

\* run_tool spawns the step's tool in the build directory.
StartTool(p) ==
  /\ proc[p].at = "step" /\ proc[p].todo # <<>>
  /\ LET tool == Head(proc[p].todo) IN
       tools' = tools \cup {[tool |-> tool, owner |-> p, makes |-> Makes(tool)]}
  /\ proc' = [proc EXCEPT ![p].at = "tool"]
  /\ UNCHANGED <<manifest, dir, out, count>>

Over(p, verdict) == [Idle EXCEPT !.at = verdict]

\* run_checked: an exit that is no success ends the build.
NextStep(p, code) ==
  IF code = "success" THEN [proc[p] EXCEPT !.at = "step", !.todo = Tail(@)]
  ELSE Over(p, "failed")

Exit(t, code) ==
  /\ tools' = tools \ {t}
  /\ proc' = IF t.owner = None THEN proc
             ELSE [proc EXCEPT ![t.owner] = NextStep(t.owner, code)]

\* External: a tool that ends well has written what it makes.
ToolSucceeds(t) ==
  /\ Exit(t, "success")
  /\ dir' = [dir EXCEPT ![t.tool] = t.makes]
  /\ UNCHANGED <<manifest, out, count>>

ToolFails(t) ==
  /\ Fault("tool")
  /\ Exit(t, "failure")
  /\ UNCHANGED <<manifest, dir, out>>

\* The pipe cannot be read on: run() returns an error, nobody waits for the tool.
StderrUnreadable(p) ==
  /\ proc[p].at = "tool"
  /\ Fault("stderr")
  /\ proc' = [proc EXCEPT ![p] = Over(p, "failed")]
  /\ tools' = {IF t.owner = p THEN [t EXCEPT !.owner = None] ELSE t : t \in tools}
  /\ UNCHANGED <<manifest, dir, out>>

Kill(p) ==
  /\ proc[p].at \notin AtRest
  /\ Fault("kill")
  /\ proc' = [proc EXCEPT ![p] = Over(p, "failed")]
  /\ tools' \in {{t \in tools : t.owner # p},
                 {IF t.owner = p THEN [t EXCEPT !.owner = None] ELSE t : t \in tools}}
  /\ UNCHANGED <<manifest, dir, out>>

-----------------------------------------------------------------------------
\* read_timing: what the summary file says, if there is one.
ReadTiming(p) ==
  /\ proc[p].at = "step" /\ proc[p].todo = <<>>
  /\ proc' = [proc EXCEPT ![p].at = "report", ![p].timing = dir.sta]
  /\ UNCHANGED <<manifest, dir, tools, out, count>>

\* main: --require-timing, then --out-dir.
Report(p) ==
  /\ proc[p].at = "report"
  /\ proc' = [proc EXCEPT ![p].at =
       IF proc[p].require /\ ~MeetsTiming(proc[p].timing) THEN "failed"
       ELSE IF proc[p].copy THEN "copy" ELSE "ok"]
  /\ UNCHANGED <<manifest, dir, tools, out, count>>

\* copy_to: the bitstream, and the report when there is one.
Copy(p) ==
  /\ proc[p].at = "copy"
  /\ out' = [sof |-> dir.asm, sta |-> IF dir.sta # None THEN dir.sta ELSE out.sta]
  /\ proc' = [proc EXCEPT ![p].at = "ok"]
  /\ UNCHANGED <<manifest, dir, tools, count>>

Edit(man) ==
  /\ man # manifest
  /\ Fault("edit")
  /\ manifest' = man
  /\ proc' = [q \in Process |-> [proc[q] EXCEPT !.alone = FALSE]]
  /\ UNCHANGED <<dir, tools, out>>

Next ==
  \/ \E p \in Process :
       \/ \E options \in Options : Build(p, options)
       \/ WriteFile(p)
       \/ StartTool(p) \/ StderrUnreadable(p)
       \/ ReadTiming(p) \/ Report(p) \/ Copy(p) \/ Kill(p)
  \/ \E t \in tools : ToolSucceeds(t) \/ ToolFails(t)
  \/ \E man \in Manifests : Edit(man)

Spec == Init /\ [][Next]_vars

-----------------------------------------------------------------------------
\* A build that had the directory to itself, whatever builds before it were cut
\* short and whatever they left, ends with the bitstream of its project there
\* and a verdict on that bitstream under that project's constraints.
OutcomeIsMine ==
  \A p \in Process :
    proc[p].alone /\ proc[p].at \in {"report", "copy", "ok"} =>
      /\ dir.asm = Fitted(proc[p].man)
      /\ proc[p].timing = Analysed(proc[p].man)

\* Under --require-timing such a build ends well only if its own report has no
\* corner that misses, and --out-dir then holds what was judged.
RequiredTimingIsMet ==
  \A p \in Process :
    proc[p].at = "ok" /\ proc[p].alone /\ proc[p].require =>
      LET lines == ReportOf(Analysed(proc[p].man)) IN
        /\ \A n \in 2 .. Len(lines) :
             lines[n].label = "Slack" /\ lines[n].value # None /\ lines[n - 1].label = "Type"
               => lines[n].value >= 0
        /\ proc[p].copy => out = [sof |-> Fitted(proc[p].man), sta |-> Analysed(proc[p].man)]

-----------------------------------------------------------------------------
(***************************************************************************)
(* What the properties rest on.  A build that is alone is the only one     *)
(* there is and the project is the one it loaded; the directory holds what *)
(* its steps so far leave; and its tool, when one runs, is the only one    *)
(* and makes what the project's tool makes.                                *)
(***************************************************************************)
Project == Manifests \cup {None}
Design == [settings : Project, sources : Manifests] \cup {None}
Summary == [of : Design, under : Project] \cup {None}

Directory ==
  [qsf : Project, qpf : Project, sdc : Project, map : Design, fit : Design, asm : Design,
   sta : Summary]

Tool == {"map", "fit", "asm", "sta"}

Running ==
  {t \in [tool : Tool, owner : Process \cup {None}, makes : Design \cup Summary] :
     t.makes \in IF t.tool = "sta" THEN Summary ELSE Design}

Doing ==
  [at : AtRest \cup {"files", "step", "tool", "report", "copy"}, man : Project,
   todo : Seq(Files), require : BOOLEAN, copy : BOOLEAN, timing : Summary, alone : BOOLEAN]

TypeOK ==
  /\ manifest \in Manifests
  /\ dir \in Directory
  /\ tools \subseteq Running
  /\ proc \in [Process -> Doing]

FilesLeft(man) ==
  IF man.clocks THEN {<<"qsf", "qpf", "sdc">>, <<"qpf", "sdc">>, <<"sdc">>}
  ELSE {<<"qsf", "qpf">>, <<"qpf">>}

StepsLeft == {Steps, <<"fit", "asm", "sta">>, <<"asm", "sta">>, <<"sta">>, <<>>}

InStep(s) ==
  /\ s.at = "files" => s.todo \in FilesLeft(s.man)
  /\ s.at \in {"step", "tool"} => s.todo \in StepsLeft
  /\ s.at = "tool" => s.todo # <<>>

\* A tool somebody waits for is the only one he waits for.
Awaited ==
  \A t \in tools : t.owner # None =>
    /\ proc[t.owner].at = "tool"
    /\ \A u \in tools : u.owner = t.owner => u = t

Constrained(man) == dir.qsf = man /\ (man.clocks => dir.sdc = man)

\* The tools that are done, when `todo` are left, left this.
Written(man, todo) ==
  /\ todo # Steps => dir.map = Fitted(man)
  /\ todo \in {<<"asm", "sta">>, <<"sta">>, <<>>} => dir.fit = Fitted(man)
  /\ todo \in {<<"sta">>, <<>>} => dir.asm = Fitted(man)
  /\ todo = <<>> => dir.sta = Analysed(man)

Ours(tool, man) == IF tool = "sta" THEN Analysed(man) ELSE Fitted(man)

AloneOK(p, s) ==
  /\ s.man = manifest
  /\ s.at # "idle"
  /\ \A q \in Process \ {p} : proc[q].at \in AtRest
  /\ tools = IF s.at = "tool"
             THEN {[tool |-> Head(s.todo), owner |-> p, makes |-> Ours(Head(s.todo), s.man)]}
             ELSE {}
  /\ s.at = "files" /\ Head(s.todo) # "qsf" => dir.qsf = s.man
  /\ s.at \in {"step", "tool"} => Constrained(s.man) /\ Written(s.man, s.todo)
  /\ s.at \in {"report", "copy", "ok"} =>
       /\ dir.asm = Fitted(s.man) /\ dir.sta = Analysed(s.man)
       /\ s.timing = Analysed(s.man)
  /\ s.at \in {"copy", "ok"} /\ s.require => MeetsTiming(s.timing)
  /\ s.at = "copy" => s.copy
  /\ s.at = "ok" /\ s.copy => out = [sof |-> Fitted(s.man), sta |-> Analysed(s.man)]

IInv ==
  /\ TypeOK /\ Awaited
  /\ \A p \in Process : InStep(proc[p])
  /\ \A p \in Process : proc[p].alone => AloneOK(p, proc[p])

-----------------------------------------------------------------------------
\* A manifest's report is the lines of a file, and nothing is neither a shell,
\* nor a slack, nor a report.
ProjectFits ==
  /\ None \notin Process /\ None \notin Int
  /\ \A options \in Options : options.require \in BOOLEAN /\ options.copy \in BOOLEAN
  /\ \A man \in Manifests :
       /\ man.report \in Seq([label : STRING, value : Int \cup {None}])
       /\ Analysed(man) # None

LEMMA Places == Files = {"qsf", "qpf", "sdc", "map", "fit", "asm", "sta"}
<1>1. ToSet(Steps) = {"map", "fit", "asm", "sta"}
  BY DEF ToSet, Steps
<1>2. QED BY <1>1 DEF Files

LEMMA Plans ==
  ASSUME NEW man
  PROVE  PlannedFiles(man) = IF man.clocks THEN <<"qsf", "qpf", "sdc">> ELSE <<"qsf", "qpf">>
<1>1. <<"qsf", "qpf">> \in Seq({"qsf", "qpf"})
  OBVIOUS
<1>2. <<"qsf", "qpf">> \o <<>> = <<"qsf", "qpf">>
  <2>1. ASSUME NEW S, NEW s \in Seq(S) PROVE s \o <<>> = s
    OBVIOUS
  <2>2. QED BY <1>1, <2>1
<1>3. <<"qsf", "qpf">> \o <<"sdc">> = <<"qsf", "qpf", "sdc">>
  <2> DEFINE three == <<"qsf", "qpf", "sdc">>
             s == <<"qsf", "qpf">> \o <<"sdc">>
  <2>1. <<"qsf", "qpf">> \in Seq(Files) /\ <<"sdc">> \in Seq(Files)
    BY Places
  <2>2. s \in Seq(Files) /\ Len(s) = 3 /\ s[1] = "qsf" /\ s[2] = "qpf" /\ s[3] = "sdc"
    BY <2>1
  <2>3. three = [i \in 1 .. 3 |-> three[i]]
    OBVIOUS
  <2> HIDE DEF s
  <2>4. s = [i \in 1 .. 3 |-> s[i]]
    BY <2>2
  <2>5. [i \in 1 .. 3 |-> s[i]] = [i \in 1 .. 3 |-> three[i]]
    BY <2>2
  <2>6. QED BY <2>3, <2>4, <2>5 DEF s
<1>4. QED BY <1>2, <1>3 DEF PlannedFiles

LEMMA FileNext ==
  ASSUME NEW man, NEW todo \in FilesLeft(man)
  PROVE  /\ todo \in Seq(Files) /\ todo # <<>> /\ Head(todo) \in {"qsf", "qpf", "sdc"}
         /\ Len(todo) > 1 => Tail(todo) \in FilesLeft(man) /\ Head(Tail(todo)) # "qsf"
         /\ ~ (Len(todo) > 1) => Head(todo) # "qsf" /\ (man.clocks => Head(todo) = "sdc")
         /\ Len(todo) > 1 /\ Head(todo) # "qsf" => Head(todo) = "qpf"
<1>1. CASE man.clocks /\ todo = <<"qsf", "qpf", "sdc">>
  BY <1>1, Places DEF FilesLeft
<1>2. CASE man.clocks /\ todo = <<"qpf", "sdc">>
  BY <1>2, Places DEF FilesLeft
<1>3. CASE man.clocks /\ todo = <<"sdc">>
  BY <1>3, Places DEF FilesLeft
<1>4. CASE ~man.clocks /\ todo = <<"qsf", "qpf">>
  BY <1>4, Places DEF FilesLeft
<1>5. CASE ~man.clocks /\ todo = <<"qpf">>
  BY <1>5, Places DEF FilesLeft
<1>6. QED BY <1>1, <1>2, <1>3, <1>4, <1>5 DEF FilesLeft

LEMMA StepNext ==
  ASSUME NEW todo \in StepsLeft
  PROVE  /\ todo \in Seq(Files)
         /\ todo # <<>> => Head(todo) \in Tool /\ Tail(todo) \in StepsLeft
<1>1. CASE todo = <<"map", "fit", "asm", "sta">>
  BY <1>1, Places DEF StepsLeft, Steps, Tool
<1>2. CASE todo = <<"fit", "asm", "sta">>
  BY <1>2, Places DEF StepsLeft, Steps, Tool
<1>3. CASE todo = <<"asm", "sta">>
  BY <1>3, Places DEF StepsLeft, Steps, Tool
<1>4. CASE todo = <<"sta">>
  BY <1>4, Places DEF StepsLeft, Steps, Tool
<1>5. CASE todo = <<>>
  BY <1>5, Places DEF StepsLeft, Steps, Tool
<1>6. QED BY <1>1, <1>2, <1>3, <1>4, <1>5 DEF StepsLeft, Steps

\* What a tool leaves, when those before it left theirs.
LEMMA Leaves ==
  ASSUME NEW man, NEW todo \in StepsLeft, todo # <<>>, dir \in Directory,
         Written(man, todo), dir' = [dir EXCEPT ![Head(todo)] = Ours(Head(todo), man)]
  PROVE  /\ Written(man, Tail(todo))'
         /\ dir'.qsf = dir.qsf /\ dir'.sdc = dir.sdc
<1>1. CASE todo = <<"map", "fit", "asm", "sta">>
  <2>1. Tail(todo) = <<"fit", "asm", "sta">> /\ Head(todo) = "map"
    BY <1>1
  <2>2. QED BY <2>1 DEF Directory, Written, Ours, Steps
<1>2. CASE todo = <<"fit", "asm", "sta">>
  <2>1. Tail(todo) = <<"asm", "sta">> /\ Head(todo) = "fit"
    BY <1>2
  <2>2. QED BY <1>2, <2>1 DEF Directory, Written, Ours, Steps
<1>3. CASE todo = <<"asm", "sta">>
  <2>1. Tail(todo) = <<"sta">> /\ Head(todo) = "asm"
    BY <1>3
  <2>2. QED BY <1>3, <2>1 DEF Directory, Written, Ours, Steps
<1>4. CASE todo = <<"sta">>
  <2>1. Tail(todo) = <<>> /\ Head(todo) = "sta"
    BY <1>4
  <2>2. QED BY <1>4, <2>1 DEF Directory, Written, Ours, Steps
<1>5. QED BY <1>1, <1>2, <1>3, <1>4 DEF StepsLeft, Steps

\* What a tool makes of what those before it left, under the project.
LEMMA MakesOurs ==
  ASSUME NEW todo \in StepsLeft, todo # <<>>, Written(manifest, todo), Constrained(manifest)
  PROVE  Makes(Head(todo)) = Ours(Head(todo), manifest)
<1>1. CASE todo = <<"map", "fit", "asm", "sta">>
  BY <1>1 DEF Makes, Ours, Constrained, Fitted
<1>2. CASE todo = <<"fit", "asm", "sta">>
  BY <1>2 DEF Makes, Ours, Written, Steps
<1>3. CASE todo = <<"asm", "sta">>
  BY <1>3 DEF Makes, Ours, Written, Steps
<1>4. CASE todo = <<"sta">>
  BY <1>4 DEF Makes, Ours, Written, Steps, Constrained, Analysed
<1>5. QED BY <1>1, <1>2, <1>3, <1>4 DEF StepsLeft, Steps

-----------------------------------------------------------------------------
LEMMA IdleFits ==
  /\ Idle \in Doing /\ InStep(Idle) /\ ~Idle.alone
  /\ \A p \in Process, verdict \in {"ok", "failed"} :
       /\ Over(p, verdict) \in Doing /\ InStep(Over(p, verdict)) /\ ~Over(p, verdict).alone
       /\ Over(p, verdict).at \in AtRest
<1>1. <<>> \in Seq(Files)
  OBVIOUS
<1>2. QED BY <1>1 DEF Idle, Doing, InStep, Over, AtRest, Project, Summary

LEMMA Starts == Init => IInv
<1> SUFFICES ASSUME Init PROVE IInv
  OBVIOUS
<1>1. /\ manifest \in Manifests /\ tools = {} /\ proc = [p \in Process |-> Idle]
      /\ dir \in {[f \in Files |-> None]} \cup {LeftBy(man) : man \in Manifests}
  BY DEF Init
<1>2. dir \in Directory
  <2>1. CASE dir = [f \in Files |-> None]
    BY <2>1, Places DEF Directory, Project, Design, Summary
  <2>2. ASSUME NEW man \in Manifests, dir = LeftBy(man) PROVE dir \in Directory
    <3>1. Fitted(man) \in Design /\ Analysed(man) \in Summary /\ man \in Project /\ None \in Project
      BY DEF Fitted, Analysed, Design, Summary, Project
    <3>2. LeftBy(man) = [qsf |-> man, qpf |-> man, sdc |-> IF ~man.clocks THEN None ELSE man,
                         map |-> Fitted(man), fit |-> Fitted(man), asm |-> Fitted(man),
                         sta |-> Analysed(man)]
      BY Places DEF LeftBy
    <3>3. QED BY <2>2, <3>1, <3>2 DEF Directory
  <2>3. QED BY <1>1, <2>1, <2>2
<1>3. QED BY <1>1, <1>2, IdleFits DEF IInv, TypeOK, Awaited

-----------------------------------------------------------------------------
\* Nobody else is alone while a build goes on, and nobody while a tool runs
\* that no build waits for.
LEMMA NobodyElse ==
  ASSUME IInv, NEW p \in Process, proc[p].at \notin AtRest, NEW q \in Process \ {p}
  PROVE  ~proc[q].alone
BY DEF IInv, AloneOK

LEMMA Moves ==
  ASSUME IInv, NEW p \in Process, NEW r \in Doing, InStep(r), proc' = [proc EXCEPT ![p] = r],
         proc[p].at \notin AtRest, manifest' = manifest, dir' \in Directory,
         tools' \subseteq Running, Awaited',
         r.alone => AloneOK(p, proc[p])'
  PROVE  IInv'
<1>1. proc' \in [Process -> Doing] /\ proc'[p] = r /\ \A q \in Process \ {p} : proc'[q] = proc[q]
  BY DEF IInv, TypeOK
<1>2. TypeOK'
  BY <1>1 DEF IInv, TypeOK
<1>3. ASSUME NEW q \in Process PROVE InStep(proc[q])'
  <2>1. InStep(proc'[q])
    BY <1>1 DEF IInv
  <2>2. QED BY <2>1 DEF InStep, FilesLeft, StepsLeft, Steps
<1>4. ASSUME NEW q \in Process, proc'[q].alone PROVE AloneOK(q, proc[q])'
  <2>1. q = p
    BY <1>1, <1>4, NobodyElse
  <2>2. QED BY <1>1, <1>4, <2>1
<1>5. QED BY <1>2, <1>3, <1>4 DEF IInv

LEMMA WriteFileStep ==
  ASSUME IInv, NEW p \in Process, WriteFile(p)
  PROVE  IInv'
<1> DEFINE s == proc[p]
           more == [s EXCEPT !.todo = Tail(@)]
           done == [s EXCEPT !.at = "step", !.todo = Steps]
<1>1. /\ s \in Doing /\ InStep(s) /\ s.at = "files" /\ s.todo \in FilesLeft(s.man)
      /\ dir \in Directory /\ proc \in [Process -> Doing] /\ tools \subseteq Running /\ Awaited
  BY DEF IInv, TypeOK, WriteFile, InStep
<1>2. /\ UNCHANGED <<manifest, tools, out, count>> /\ dir' = [dir EXCEPT ![Head(s.todo)] = s.man]
      /\ proc' = IF Len(s.todo) > 1 THEN [proc EXCEPT ![p] = more] ELSE [proc EXCEPT ![p] = done]
  BY <1>1 DEF WriteFile, Doing
<1>3. /\ dir' \in Directory
      /\ Head(s.todo) = "qsf" => dir'.qsf = s.man
      /\ Head(s.todo) # "qsf" => dir'.qsf = dir.qsf
      /\ Head(s.todo) = "sdc" => dir'.sdc = s.man
  BY <1>1, <1>2, FileNext DEF Directory, Doing
<1>4. ASSUME s.alone
      PROVE  /\ s.man = manifest /\ tools = {} /\ \A q \in Process \ {p} : proc[q].at \in AtRest
             /\ Head(s.todo) # "qsf" => dir.qsf = s.man
  BY <1>1, <1>4 DEF IInv, AloneOK
<1>5. CASE Len(s.todo) > 1
  <2>1. /\ more \in Doing /\ more.at = "files" /\ more.todo = Tail(s.todo)
        /\ more.man = s.man /\ more.alone = s.alone /\ InStep(more)
    BY <1>1, <1>5, FileNext DEF Doing, InStep
  <2>2. proc' = [proc EXCEPT ![p] = more]
    BY <1>2, <1>5
  <2> HIDE DEF more
  <2>3. proc'[p] = more /\ \A q \in Process \ {p} : proc'[q] = proc[q]
    BY <1>1, <2>1, <2>2
  <2>4. Awaited'
    BY <1>1, <1>2, <2>1, <2>3 DEF Awaited, AtRest
  <2>5. more.alone => AloneOK(p, proc[p])'
    BY <1>2, <1>3, <1>4, <2>1, <2>3 DEF AloneOK
  <2>6. QED BY <1>1, <1>2, <1>3, <2>1, <2>2, <2>4, <2>5, Moves DEF AtRest
<1>6. CASE ~ (Len(s.todo) > 1)
  <2>1. /\ done \in Doing /\ done.at = "step" /\ done.todo = Steps
        /\ done.man = s.man /\ done.alone = s.alone /\ InStep(done)
    BY <1>1, StepNext DEF Doing, InStep, StepsLeft
  <2>2. proc' = [proc EXCEPT ![p] = done]
    BY <1>2, <1>6
  <2> HIDE DEF done
  <2>3. proc'[p] = done /\ \A q \in Process \ {p} : proc'[q] = proc[q]
    BY <1>1, <2>1, <2>2
  <2>4. Awaited'
    BY <1>1, <1>2, <2>1, <2>3 DEF Awaited
  <2>5. done.alone => AloneOK(p, proc[p])'
    <3>1. SUFFICES ASSUME done.alone PROVE AloneOK(p, proc[p])'
      OBVIOUS
    <3> PICK man : man = s.man
      OBVIOUS
    <3>2. Constrained(man)'
      BY <1>1, <1>3, <1>4, <1>6, <2>1, <3>1, FileNext DEF Constrained
    <3>3. Written(man, Steps)'
      BY DEF Written, Steps
    <3>4. QED BY <1>2, <1>4, <2>1, <2>3, <3>1, <3>2, <3>3 DEF AloneOK
  <2>6. QED BY <1>1, <1>2, <1>3, <2>1, <2>2, <2>4, <2>5, Moves DEF AtRest
<1>7. QED BY <1>5, <1>6

LEMMA MakesFits ==
  ASSUME TypeOK, NEW p \in Process, NEW tool \in Tool
  PROVE  [tool |-> tool, owner |-> p, makes |-> Makes(tool)] \in Running
<1>1. /\ manifest \in Manifests /\ dir.qsf \in Project /\ dir.sdc \in Project
      /\ dir.map \in Design /\ dir.fit \in Design /\ None \in Project
  BY DEF TypeOK, Directory, Project
<1>2. tool # "sta" => Makes(tool) \in Design
  BY <1>1 DEF Makes, Tool, Design
<1>3. tool = "sta" => Makes(tool) \in Summary
  BY <1>1 DEF Makes, Summary
<1>4. QED BY <1>2, <1>3 DEF Running

LEMMA StartToolStep ==
  ASSUME ProjectFits, IInv, NEW p \in Process, StartTool(p)
  PROVE  IInv'
<1> DEFINE s == proc[p]
           r == [s EXCEPT !.at = "tool"]
           tool == Head(s.todo)
           t == [tool |-> tool, owner |-> p, makes |-> Makes(tool)]
<1>1. /\ s \in Doing /\ InStep(s) /\ s.at = "step" /\ s.todo \in StepsLeft /\ s.todo # <<>>
      /\ dir \in Directory /\ proc \in [Process -> Doing] /\ tools \subseteq Running /\ Awaited
  BY DEF IInv, TypeOK, StartTool, InStep
<1>2. /\ UNCHANGED <<manifest, dir, out, count>> /\ tools' = tools \cup {t}
      /\ proc' = [proc EXCEPT ![p] = r]
  BY <1>1 DEF StartTool, Doing
<1>3. /\ r \in Doing /\ r.at = "tool" /\ r.todo = s.todo /\ InStep(r)
      /\ r.man = s.man /\ r.alone = s.alone
  BY <1>1 DEF Doing, InStep
<1>4. t \in Running
  BY <1>1, StepNext, MakesFits DEF IInv
<1> HIDE DEF r
<1>5. proc'[p] = r /\ \A q \in Process \ {p} : proc'[q] = proc[q]
  BY <1>1, <1>2, <1>3
<1>6. Awaited'
  <2> SUFFICES ASSUME NEW u \in tools \cup {t}, u.owner # None
               PROVE  /\ proc'[u.owner].at = "tool"
                      /\ \A v \in tools \cup {t} : v.owner = u.owner => v = u
    BY <1>2 DEF Awaited
  <2>1. \A v \in tools : v.owner # p
    BY <1>1, ProjectFits DEF Awaited, ProjectFits
  <2>2. t.owner = p
    OBVIOUS
  <2>3. CASE u = t
    BY <1>3, <1>5, <2>1, <2>2, <2>3
  <2>4. CASE u \in tools
    <3>1. u.owner \in Process
      BY <1>1, <2>4 DEF Running
    <3>2. QED BY <1>1, <1>5, <2>1, <2>2, <2>4, <3>1 DEF Awaited
  <2>5. QED BY <2>3, <2>4
<1>7. r.alone => AloneOK(p, proc[p])'
  <2>1. SUFFICES ASSUME r.alone PROVE AloneOK(p, proc[p])'
    OBVIOUS
  <2>2. AloneOK(p, s)
    BY <1>3, <2>1 DEF IInv
  <2>3. /\ s.man = manifest /\ tools = {} /\ \A q \in Process \ {p} : proc[q].at \in AtRest
        /\ Constrained(manifest) /\ Written(manifest, s.todo)
    BY <1>1, <2>2 DEF AloneOK
  <2>4. Makes(tool) = Ours(tool, manifest)
    BY <1>1, <2>3, MakesOurs
  <2> PICK todo : todo = s.todo
    OBVIOUS
  <2>5. Constrained(manifest)' /\ Written(manifest, todo)'
    BY <1>2, <2>3 DEF Constrained, Written
  <2>6. tools' = {[tool |-> Head(todo), owner |-> p, makes |-> Ours(Head(todo), manifest)]}
    BY <1>2, <2>3, <2>4
  <2>7. Ours(Head(todo), manifest)' = Ours(Head(todo), manifest)
    BY <1>2 DEF Ours, Analysed, Fitted
  <2>8. /\ proc'[p].man = manifest' /\ proc'[p].at = "tool" /\ proc'[p].todo = todo
        /\ \A q \in Process \ {p} : proc'[q].at \in AtRest
    BY <1>2, <1>3, <1>5, <2>3
  <2>9. QED BY <2>5, <2>6, <2>7, <2>8 DEF AloneOK
<1>8. tools' \subseteq Running
  BY <1>1, <1>2, <1>4
<1>9. QED BY <1>1, <1>2, <1>3, <1>6, <1>7, <1>8, Moves DEF AtRest

LEMMA ReadTimingStep ==
  ASSUME IInv, NEW p \in Process, ReadTiming(p)
  PROVE  IInv'
<1> DEFINE s == proc[p]
           r == [s EXCEPT !.at = "report", !.timing = dir.sta]
<1>1. /\ s \in Doing /\ InStep(s) /\ s.at = "step" /\ s.todo = <<>>
      /\ dir \in Directory /\ proc \in [Process -> Doing] /\ tools \subseteq Running /\ Awaited
  BY DEF IInv, TypeOK, ReadTiming
<1>2. UNCHANGED <<manifest, dir, tools, out, count>> /\ proc' = [proc EXCEPT ![p] = r]
  BY <1>1 DEF ReadTiming, Doing
<1>3. /\ r \in Doing /\ r.at = "report" /\ r.timing = dir.sta /\ InStep(r)
      /\ r.man = s.man /\ r.alone = s.alone
  BY <1>1 DEF Doing, InStep, Directory
<1> HIDE DEF r
<1>4. proc'[p] = r /\ \A q \in Process \ {p} : proc'[q] = proc[q]
  BY <1>1, <1>2, <1>3
<1>5. Awaited'
  BY <1>1, <1>2, <1>4 DEF Awaited
<1>6. r.alone => AloneOK(p, proc[p])'
  <2>1. SUFFICES ASSUME r.alone PROVE AloneOK(p, proc[p])'
    OBVIOUS
  <2>2. AloneOK(p, s)
    BY <1>3, <2>1 DEF IInv
  <2>3. /\ s.man = manifest /\ tools = {} /\ \A q \in Process \ {p} : proc[q].at \in AtRest
        /\ dir.asm = Fitted(s.man) /\ dir.sta = Analysed(s.man)
    BY <1>1, <2>2 DEF AloneOK, Written
  <2>4. /\ dir'.asm = Fitted(proc'[p].man) /\ dir'.sta = Analysed(proc'[p].man)
        /\ proc'[p].timing = Analysed(proc'[p].man)
    BY <1>2, <1>3, <1>4, <2>3 DEF Fitted, Analysed
  <2>5. QED BY <1>2, <1>3, <1>4, <2>3, <2>4 DEF AloneOK
<1>7. QED BY <1>1, <1>2, <1>3, <1>5, <1>6, Moves DEF AtRest

LEMMA ReportStep ==
  ASSUME IInv, NEW p \in Process, Report(p)
  PROVE  IInv'
<1> DEFINE s == proc[p]
           Missed == s.require /\ ~MeetsTiming(s.timing)
           to == IF Missed THEN "failed" ELSE IF s.copy THEN "copy" ELSE "ok"
           r == [s EXCEPT !.at = to]
<1>1. /\ s \in Doing /\ InStep(s) /\ s.at = "report"
      /\ dir \in Directory /\ proc \in [Process -> Doing] /\ tools \subseteq Running /\ Awaited
  BY DEF IInv, TypeOK, Report
<1>2. UNCHANGED <<manifest, dir, tools, out, count>> /\ proc' = [proc EXCEPT ![p] = r]
  BY <1>1 DEF Report, Doing
<1>3. /\ to \in {"failed", "copy", "ok"} /\ (to = "copy" => s.copy) /\ (to = "ok" => ~s.copy)
      /\ to \in {"copy", "ok"} => ~Missed
  OBVIOUS
<1>4. /\ r \in Doing /\ r.at = to /\ r.timing = s.timing /\ InStep(r) /\ r.man = s.man
      /\ r.alone = s.alone /\ r.require = s.require /\ r.copy = s.copy
  <2> HIDE DEF to
  <2>1. QED BY <1>1, <1>3 DEF Doing, InStep, AtRest
<1> HIDE DEF r, to
<1>5. proc'[p] = r /\ \A q \in Process \ {p} : proc'[q] = proc[q]
  BY <1>1, <1>2, <1>4
<1>6. Awaited'
  BY <1>1, <1>2, <1>5 DEF Awaited
<1>7. r.alone => AloneOK(p, proc[p])'
  <2>1. SUFFICES ASSUME r.alone PROVE AloneOK(p, proc[p])'
    OBVIOUS
  <2>2. AloneOK(p, s)
    BY <1>4, <2>1 DEF IInv
  <2>3. /\ s.man = manifest /\ tools = {} /\ \A q \in Process \ {p} : proc[q].at \in AtRest
        /\ dir.asm = Fitted(s.man) /\ dir.sta = Analysed(s.man) /\ s.timing = Analysed(s.man)
    BY <1>1, <2>2 DEF AloneOK
  <2>4. /\ dir'.asm = Fitted(proc'[p].man) /\ dir'.sta = Analysed(proc'[p].man)
        /\ proc'[p].timing = Analysed(proc'[p].man)
    BY <1>2, <1>4, <1>5, <2>3
  <2>5. MeetsTiming(proc'[p].timing) <=> MeetsTiming(s.timing)
    BY <1>4, <1>5
  <2>6. proc'[p].at \in {"copy", "ok"} /\ proc'[p].require => MeetsTiming(proc'[p].timing)
    BY <1>3, <1>4, <1>5, <2>5
  <2>7. /\ proc'[p].at \in {"failed", "copy", "ok"}
        /\ proc'[p].at = "copy" => proc'[p].copy
        /\ proc'[p].at = "ok" => ~proc'[p].copy
        /\ proc'[p].man = manifest'
    BY <1>2, <1>3, <1>4, <1>5, <2>3
  <2>8. \A q \in Process \ {p} : proc'[q].at \in AtRest
    BY <1>5, <2>3
  <2>9. QED BY <1>2, <2>3, <2>4, <2>6, <2>7, <2>8 DEF AloneOK
<1>8. QED BY <1>1, <1>2, <1>4, <1>6, <1>7, Moves DEF AtRest

LEMMA CopyStep ==
  ASSUME ProjectFits, IInv, NEW p \in Process, Copy(p)
  PROVE  IInv'
<1> DEFINE s == proc[p]
           r == [s EXCEPT !.at = "ok"]
<1>1. /\ s \in Doing /\ InStep(s) /\ s.at = "copy" /\ manifest \in Manifests
      /\ dir \in Directory /\ proc \in [Process -> Doing] /\ tools \subseteq Running /\ Awaited
  BY DEF IInv, TypeOK, Copy
<1>2. /\ UNCHANGED <<manifest, dir, tools, count>> /\ proc' = [proc EXCEPT ![p] = r]
      /\ dir.sta # None => out' = [sof |-> dir.asm, sta |-> dir.sta]
  BY <1>1 DEF Copy, Doing
<1>3. /\ r \in Doing /\ r.at = "ok" /\ r.timing = s.timing /\ InStep(r) /\ r.man = s.man
      /\ r.alone = s.alone /\ r.require = s.require /\ r.copy = s.copy
  BY <1>1 DEF Doing, InStep, AtRest
<1> HIDE DEF r
<1>4. proc'[p] = r /\ \A q \in Process \ {p} : proc'[q] = proc[q]
  BY <1>1, <1>2, <1>3
<1>5. Awaited'
  BY <1>1, <1>2, <1>4 DEF Awaited
<1>6. r.alone => AloneOK(p, proc[p])'
  <2>1. SUFFICES ASSUME r.alone PROVE AloneOK(p, proc[p])'
    OBVIOUS
  <2>2. AloneOK(p, s)
    BY <1>3, <2>1 DEF IInv
  <2>3. /\ s.man = manifest /\ tools = {} /\ \A q \in Process \ {p} : proc[q].at \in AtRest
        /\ dir.asm = Fitted(s.man) /\ dir.sta = Analysed(s.man) /\ s.timing = Analysed(s.man)
        /\ s.require => MeetsTiming(s.timing)
    BY <1>1, <2>2 DEF AloneOK
  <2>4. /\ dir'.asm = Fitted(proc'[p].man) /\ dir'.sta = Analysed(proc'[p].man)
        /\ proc'[p].timing = Analysed(proc'[p].man)
        /\ proc'[p].require => MeetsTiming(proc'[p].timing)
    BY <1>2, <1>3, <1>4, <2>3
  <2>5. dir.sta # None
    BY <1>1, <2>3 DEF ProjectFits
  <2>6. out' = [sof |-> Fitted(proc'[p].man), sta |-> Analysed(proc'[p].man)]
    BY <1>2, <1>3, <1>4, <2>3, <2>5
  <2>7. /\ proc'[p].at = "ok" /\ proc'[p].man = manifest' /\ tools' = {}
        /\ \A q \in Process \ {p} : proc'[q].at \in AtRest
    BY <1>2, <1>3, <1>4, <2>3
  <2>8. QED BY <2>4, <2>6, <2>7 DEF AloneOK
<1>7. QED BY <1>1, <1>2, <1>3, <1>5, <1>6, Moves DEF AtRest

-----------------------------------------------------------------------------
\* A build that is given up leaves its tool running, or not.
LEMMA Abandon ==
  ASSUME ProjectFits, IInv, NEW p \in Process, proc[p].at \notin AtRest,
         proc' = [proc EXCEPT ![p] = Over(p, "failed")], UNCHANGED <<manifest, dir, out>>,
         tools' \in {{t \in tools : t.owner # p},
                     {IF t.owner = p THEN [t EXCEPT !.owner = None] ELSE t : t \in tools}}
  PROVE  IInv'
<1>1. /\ dir \in Directory /\ proc \in [Process -> Doing] /\ tools \subseteq Running /\ Awaited
  BY DEF IInv, TypeOK
<1> DEFINE r == Over(p, "failed")
<1>2. r \in Doing /\ InStep(r) /\ ~r.alone
  BY IdleFits
<1> HIDE DEF r
<1>3. proc' = [proc EXCEPT ![p] = r]
  BY DEF r
<1>4. proc'[p] = r /\ \A q \in Process \ {p} : proc'[q] = proc[q]
  BY <1>1, <1>2, <1>3
<1>5. ASSUME NEW t \in tools PROVE [t EXCEPT !.owner = None] \in Running
                                   /\ [t EXCEPT !.owner = None].owner = None
  BY <1>1 DEF Running
<1>6. tools' \subseteq Running
  BY <1>1, <1>5
<1>7. ASSUME NEW t \in tools', t.owner # None PROVE t \in tools /\ t.owner # p
  <2>1. CASE tools' = {u \in tools : u.owner # p}
    BY <2>1
  <2>2. CASE tools' = {IF u.owner = p THEN [u EXCEPT !.owner = None] ELSE u : u \in tools}
    <3>1. PICK u \in tools : t = IF u.owner = p THEN [u EXCEPT !.owner = None] ELSE u
      BY <2>2
    <3>2. QED BY <1>5, <1>7, <3>1
  <2>3. QED BY <2>1, <2>2
<1>8. Awaited'
  BY <1>1, <1>4, <1>7 DEF Awaited, Running
<1>9. QED BY <1>1, <1>2, <1>3, <1>6, <1>8, Moves

LEMMA KillStep ==
  ASSUME ProjectFits, IInv, NEW p \in Process, Kill(p) \/ StderrUnreadable(p)
  PROVE  IInv'
<1>1. CASE Kill(p)
  BY <1>1, Abandon DEF Kill
<1>2. CASE StderrUnreadable(p)
  BY <1>2, Abandon DEF StderrUnreadable, AtRest
<1>3. QED BY <1>1, <1>2

LEMMA MadeFits ==
  ASSUME dir \in Directory, NEW t \in Running
  PROVE  [dir EXCEPT ![t.tool] = t.makes] \in Directory
<1>1. t.tool \in Tool /\ t.makes \in IF t.tool = "sta" THEN Summary ELSE Design
  BY DEF Running
<1>2. CASE t.tool = "map"
  BY <1>1, <1>2 DEF Directory
<1>3. CASE t.tool = "fit"
  BY <1>1, <1>3 DEF Directory
<1>4. CASE t.tool = "asm"
  BY <1>1, <1>4 DEF Directory
<1>5. CASE t.tool = "sta"
  BY <1>1, <1>5 DEF Directory
<1>6. QED BY <1>1, <1>2, <1>3, <1>4, <1>5 DEF Tool

\* The end of a tool that nobody waits for.
LEMMA StrayEnds ==
  ASSUME ProjectFits, IInv, NEW t \in tools, t.owner = None, tools' = tools \ {t},
         UNCHANGED <<manifest, proc, out>>, dir' \in {dir, [dir EXCEPT ![t.tool] = t.makes]}
  PROVE  IInv'
<1>1. /\ dir \in Directory /\ tools \subseteq Running /\ Awaited /\ manifest \in Manifests
      /\ proc \in [Process -> Doing]
  BY DEF IInv, TypeOK
<1>2. TypeOK'
  BY <1>1, MadeFits DEF TypeOK
<1>3. Awaited'
  BY <1>1 DEF Awaited
<1>4. \A p \in Process : InStep(proc[p])'
  BY DEF IInv, InStep, FilesLeft, StepsLeft, Steps
<1>5. \A p \in Process : ~proc[p].alone
  BY ProjectFits DEF IInv, AloneOK, ProjectFits
<1>6. QED BY <1>2, <1>3, <1>4, <1>5 DEF IInv

LEMMA ToolSucceedsStep ==
  ASSUME ProjectFits, IInv, NEW t \in tools, ToolSucceeds(t)
  PROVE  IInv'
<1>1. /\ dir \in Directory /\ tools \subseteq Running /\ Awaited /\ t \in Running
      /\ proc \in [Process -> Doing] /\ UNCHANGED <<manifest, out, count>>
      /\ tools' = tools \ {t} /\ dir' = [dir EXCEPT ![t.tool] = t.makes]
  BY DEF IInv, TypeOK, ToolSucceeds, Exit
<1>2. CASE t.owner = None
  BY <1>1, <1>2, StrayEnds DEF ToolSucceeds, Exit
<1>3. CASE t.owner # None
  <2> DEFINE p == t.owner
             s == proc[p]
             r == [s EXCEPT !.at = "step", !.todo = Tail(@)]
  <2>1. p \in Process /\ s \in Doing /\ InStep(s) /\ s.at = "tool"
    BY <1>1, <1>3 DEF Running, Awaited, IInv
  <2>2. s.todo \in StepsLeft /\ s.todo # <<>>
    BY <2>1 DEF InStep
  <2>3. proc' = [proc EXCEPT ![p] = r]
    BY <1>3 DEF ToolSucceeds, Exit, NextStep
  <2>4. /\ r \in Doing /\ r.at = "step" /\ r.todo = Tail(s.todo) /\ InStep(r)
        /\ r.man = s.man /\ r.alone = s.alone
    BY <2>1, <2>2, StepNext DEF Doing, InStep
  <2> HIDE DEF r
  <2>5. proc'[p] = r /\ \A q \in Process \ {p} : proc'[q] = proc[q]
    BY <1>1, <2>1, <2>3, <2>4
  <2>6. Awaited'
    <3>1. \A u \in tools' : u.owner # p
      BY <1>1, <1>3 DEF Awaited
    <3>2. QED BY <1>1, <2>5, <3>1 DEF Awaited, Running
  <2>7. dir' \in Directory /\ tools' \subseteq Running
    BY <1>1, MadeFits
  <2>8. ASSUME r.alone PROVE AloneOK(p, proc[p])'
    <3>1. AloneOK(p, s)
      BY <2>1, <2>4, <2>8 DEF IInv
    <3>2. PICK man, todo : man = s.man /\ todo = s.todo
      OBVIOUS
    <3>3. /\ man = manifest /\ \A q \in Process \ {p} : proc[q].at \in AtRest
          /\ tools = {[tool |-> Head(todo), owner |-> p, makes |-> Ours(Head(todo), man)]}
          /\ Constrained(man) /\ Written(man, todo)
      BY <2>1, <3>1, <3>2 DEF AloneOK
    <3>4. t = [tool |-> Head(todo), owner |-> p, makes |-> Ours(Head(todo), man)]
      BY <3>3
    <3>5. dir' = [dir EXCEPT ![Head(todo)] = Ours(Head(todo), man)] /\ tools' = {}
      <4>1. t.tool = Head(todo) /\ t.makes = Ours(Head(todo), man) /\ tools = {t}
        BY <3>3, <3>4
      <4>2. QED BY <1>1, <4>1
    <3>6. Written(man, Tail(todo))' /\ dir'.qsf = dir.qsf /\ dir'.sdc = dir.sdc
      BY <1>1, <2>2, <3>2, <3>3, <3>5, Leaves
    <3>7. Constrained(man)'
      BY <3>3, <3>6 DEF Constrained
    <3>8. /\ proc'[p].man = man /\ proc'[p].at = "step" /\ proc'[p].todo = Tail(todo)
          /\ \A q \in Process \ {p} : proc'[q].at \in AtRest
      BY <2>4, <2>5, <3>2, <3>3
    <3>9. QED BY <1>1, <3>3, <3>5, <3>6, <3>7, <3>8 DEF AloneOK
  <2>9. QED BY <1>1, <2>1, <2>3, <2>4, <2>6, <2>7, <2>8, Moves DEF AtRest
<1>4. QED BY <1>2, <1>3

LEMMA ToolFailsStep ==
  ASSUME ProjectFits, IInv, NEW t \in tools, ToolFails(t)
  PROVE  IInv'
<1>1. /\ dir \in Directory /\ tools \subseteq Running /\ Awaited /\ t \in Running
      /\ proc \in [Process -> Doing] /\ UNCHANGED <<manifest, dir, out>>
      /\ tools' = tools \ {t}
  BY DEF IInv, TypeOK, ToolFails, Exit
<1>2. CASE t.owner = None
  BY <1>1, <1>2, StrayEnds DEF ToolFails, Exit
<1>3. CASE t.owner # None
  <2>1. /\ t.owner \in Process /\ proc[t.owner].at \notin AtRest
        /\ tools' = {u \in tools : u.owner # t.owner}
    BY <1>1, <1>3 DEF Running, Awaited, AtRest
  <2>2. proc' = [proc EXCEPT ![t.owner] = Over(t.owner, "failed")]
    BY <1>3 DEF ToolFails, Exit, NextStep
  <2>3. QED BY <1>1, <2>1, <2>2, Abandon
<1>4. QED BY <1>2, <1>3

-----------------------------------------------------------------------------
LEMMA BuildStep ==
  ASSUME ProjectFits, IInv, NEW p \in Process, NEW options \in Options, Build(p, options)
  PROVE  IInv'
<1> DEFINE alone == tools = {} /\ \A q \in Process \ {p} : proc[q].at \in AtRest
           todo == PlannedFiles(manifest)
           r == [Idle EXCEPT !.at = "files", !.man = manifest, !.require = options.require,
                             !.copy = options.copy, !.todo = todo, !.alone = alone]
<1>1. /\ proc[p].at \in AtRest /\ UNCHANGED <<manifest, dir, tools, out>>
      /\ dir \in Directory /\ tools \subseteq Running /\ Awaited /\ manifest \in Manifests
      /\ proc \in [Process -> Doing] /\ proc' = [Disturbed(p) EXCEPT ![p] = r]
  BY DEF Build, IInv, TypeOK
<1>2. todo \in FilesLeft(manifest) /\ Head(todo) = "qsf" /\ todo \in Seq(Files)
  <2>1. todo \in FilesLeft(manifest) /\ Head(todo) = "qsf"
    BY Plans DEF FilesLeft
  <2>2. QED BY <2>1, FileNext
<1>3. /\ r \in Doing /\ r.at = "files" /\ r.man = manifest /\ r.todo = todo
      /\ r.alone = alone
  <2>1. alone \in BOOLEAN /\ options.require \in BOOLEAN /\ options.copy \in BOOLEAN
    BY ProjectFits DEF ProjectFits
  <2> HIDE DEF alone, todo
  <2>2. QED BY <1>1, <1>2, <2>1, IdleFits DEF Idle, Doing, Project
<1>4. InStep(r)
  BY <1>2, <1>3 DEF InStep
<1> HIDE DEF r
<1>5. /\ proc' \in [Process -> Doing] /\ proc'[p] = r
      /\ \A q \in Process \ {p} : proc'[q] = [proc[q] EXCEPT !.alone = FALSE]
  BY <1>1, <1>3 DEF Disturbed, Doing
<1>6. \A q \in Process \ {p} :
        /\ ~proc'[q].alone /\ proc'[q].at = proc[q].at /\ proc'[q].todo = proc[q].todo
        /\ proc'[q].man = proc[q].man
  BY <1>1, <1>5 DEF Doing
<1>7. TypeOK'
  BY <1>1, <1>5 DEF TypeOK
<1>8. Awaited'
  BY <1>1, <1>6 DEF Awaited, Running, AtRest
<1>9. ASSUME NEW q \in Process PROVE InStep(proc[q])'
  <2>1. InStep(proc'[q])
    BY <1>4, <1>5, <1>6 DEF IInv, InStep
  <2>2. QED BY <2>1 DEF InStep, FilesLeft, StepsLeft, Steps
<1>10. ASSUME alone PROVE AloneOK(p, proc[p])'
  BY <1>1, <1>2, <1>3, <1>5, <1>6, <1>10 DEF AloneOK
<1>11. QED BY <1>3, <1>5, <1>6, <1>7, <1>8, <1>9, <1>10 DEF IInv

LEMMA EditStep ==
  ASSUME IInv, NEW man \in Manifests, Edit(man)
  PROVE  IInv'
<1>1. /\ UNCHANGED <<dir, tools, out>> /\ manifest' = man
      /\ dir \in Directory /\ tools \subseteq Running /\ Awaited
      /\ proc \in [Process -> Doing]
      /\ proc' = [q \in Process |-> [proc[q] EXCEPT !.alone = FALSE]]
  BY DEF Edit, IInv, TypeOK
<1>2. \A q \in Process :
        /\ ~proc'[q].alone /\ proc'[q].at = proc[q].at /\ proc'[q].todo = proc[q].todo
        /\ proc'[q].man = proc[q].man /\ proc'[q] \in Doing
  BY <1>1 DEF Doing
<1>3. proc' \in [Process -> Doing]
  BY <1>1, <1>2
<1>4. TypeOK'
  BY <1>1, <1>3 DEF TypeOK
<1>5. Awaited'
  BY <1>1, <1>2 DEF Awaited, Running
<1>6. ASSUME NEW q \in Process PROVE InStep(proc[q])'
  <2>1. InStep(proc'[q])
    BY <1>2 DEF IInv, InStep
  <2>2. QED BY <2>1 DEF InStep, FilesLeft, StepsLeft, Steps
<1>7. QED BY <1>2, <1>4, <1>5, <1>6 DEF IInv

LEMMA Kept == ProjectFits /\ IInv /\ [Next]_vars => IInv'
<1> SUFFICES ASSUME ProjectFits, IInv, [Next]_vars PROVE IInv'
  OBVIOUS
<1>1. CASE UNCHANGED vars
  <2>1. \A p \in Process : (proc[p].alone => AloneOK(p, proc[p])) => (proc[p].alone => AloneOK(p, proc[p]))'
    BY <1>1 DEF vars, AloneOK, Constrained, Written, Ours, Steps, Analysed, Fitted, MeetsTiming, AtRest
  <2>2. TypeOK' /\ Awaited' /\ \A p \in Process : InStep(proc[p])'
    BY <1>1 DEF vars, IInv, TypeOK, Awaited, InStep, FilesLeft, StepsLeft, Steps
  <2>3. QED BY <2>1, <2>2 DEF IInv
<1>2. ASSUME NEW p \in Process, NEW options \in Options, Build(p, options) PROVE IInv'
  BY <1>2, BuildStep
<1>3. ASSUME NEW p \in Process,
             WriteFile(p) \/ StartTool(p) \/ StderrUnreadable(p) \/ ReadTiming(p)
               \/ Report(p) \/ Copy(p) \/ Kill(p)
      PROVE  IInv'
  BY <1>3, WriteFileStep, StartToolStep, ReadTimingStep, ReportStep, CopyStep, KillStep
<1>4. ASSUME NEW t \in tools, ToolSucceeds(t) \/ ToolFails(t) PROVE IInv'
  BY <1>4, ToolSucceedsStep, ToolFailsStep
<1>5. ASSUME NEW man \in Manifests, Edit(man) PROVE IInv'
  BY <1>5, EditStep
<1>6. QED BY <1>1, <1>2, <1>3, <1>4, <1>5 DEF Next

-----------------------------------------------------------------------------
(***************************************************************************)
(* What parse_sta_summary finds: no slack under a corner is lost, so a     *)
(* worst one that does not miss means that none does.                      *)
(***************************************************************************)
Entry == [label : STRING, value : Int \cup {None}]
Lines == Seq(Entry)
Scan == [kind : BOOLEAN, corners : Seq(Int)]

\* What holds at the start and from each number to the next holds up to n.
LEMMA UpTo ==
  ASSUME NEW n \in Nat, NEW G, 0 \in G, \A m \in Nat : m < n /\ m \in G => m + 1 \in G
  PROVE  \A m \in 0 .. n : m \in G
<1> DEFINE R == {x \in Nat \X Nat : x[1] < x[2]}
           B == {m \in 0 .. n : m \notin G}
<1>1. IsWellFoundedOn(R, Nat)
  BY NatLessThanWellFounded DEF OpToRel
<1>2. \A x, y \in Nat : y < x <=> <<y, x>> \in R
  OBVIOUS
<1>3. B \subseteq Nat
  OBVIOUS
<1> SUFFICES B = {}
  OBVIOUS
<1> SUFFICES ASSUME B # {} PROVE FALSE
  OBVIOUS
<1>4. PICK m \in B : \A k \in B : ~ (<<k, m>> \in R)
  <2> HIDE DEF R, B
  <2> QED
    BY <1>1, <1>3, WFMin
<1>5. m # 0
  OBVIOUS
<1>6. m - 1 \in Nat /\ m - 1 < m /\ m - 1 < n /\ m - 1 + 1 = m
  BY <1>5
<1>7. m - 1 \notin B
  BY <1>2, <1>3, <1>4, <1>6
<1>8. m - 1 \in G
  BY <1>6, <1>7
<1> QED
  BY <1>6, <1>8

LEMMA ParsedRuns ==
  ASSUME NEW report \in Lines
  PROVE  LET after == Parsed(report)
         IN  /\ after[0] = [kind |-> FALSE, corners |-> <<>>]
             /\ \A n \in 1 .. Len(report) : after[n] = Line(after[n - 1], report[n])
<1> DEFINE first == [kind |-> FALSE, corners |-> <<>>]
           Do(acc, n) == Line(acc, report[n])
           last == Len(report)
           Runs(g, m) == g = [n \in 0 .. m |-> IF n = 0 THEN first ELSE Do(g[n - 1], n)]
           G == {m \in Nat : \E g : Runs(g, m)}
<1>1. last \in Nat
  BY DEF Lines
<1>2. Parsed(report) = CHOOSE g : Runs(g, last)
  BY DEF Parsed
<1> HIDE DEF Do, last, first
<1>3. 0 \in G
  <2>1. Runs([n \in {0} |-> first], 0)
    OBVIOUS
  <2>2. QED BY <2>1
<1>4. \A m \in Nat : m < last /\ m \in G => m + 1 \in G
  <2> SUFFICES ASSUME NEW m \in Nat, NEW g, Runs(g, m)
               PROVE  \E h : Runs(h, m + 1)
    OBVIOUS
  <2> DEFINE h == [n \in 0 .. m + 1 |-> IF n = m + 1 THEN Do(g[m], m + 1) ELSE g[n]]
  <2>1. ASSUME NEW n \in 0 .. m + 1
        PROVE  h[n] = IF n = 0 THEN first ELSE Do(h[n - 1], n)
    <3>1. CASE n = m + 1
      <4>1. n - 1 = m /\ h[m] = g[m]
        BY <3>1
      <4>2. QED BY <3>1, <4>1
    <3>2. CASE n # m + 1
      <4>1. n \in 0 .. m /\ h[n] = g[n]
        BY <3>2
      <4>2. n # 0 => n - 1 \in 0 .. m /\ h[n - 1] = g[n - 1]
        BY <4>1
      <4>3. QED BY <4>1, <4>2
    <3>3. QED BY <3>1, <3>2
  <2>2. h = [n \in 0 .. m + 1 |-> h[n]]
    OBVIOUS
  <2> HIDE DEF h
  <2>3. Runs(h, m + 1)
    BY <2>1, <2>2
  <2>4. QED BY <2>3
<1>5. last \in G
  <2> HIDE DEF G
  <2>1. QED BY <1>1, <1>3, <1>4, UpTo
<1>6. Runs(Parsed(report), last)
  <2>1. \E g : Runs(g, last)
    BY <1>5
  <2> HIDE DEF Runs
  <2>2. QED BY <1>2, <2>1
<1>7. Parsed(report)[0] = first
  BY <1>1, <1>6
<1>8. \A n \in 1 .. last : Parsed(report)[n] = Do(Parsed(report)[n - 1], n)
  BY <1>1, <1>6
<1>9. QED BY <1>7, <1>8 DEF Do, last, first

\* What one line does.
LEMMA LineDoes ==
  ASSUME None \notin Int, NEW acc \in Scan, NEW line \in Entry
  PROVE  /\ Line(acc, line) \in Scan /\ acc.corners \in Seq(Int)
         /\ line.label = "Type" => Line(acc, line).kind
         /\ line.label = "Slack" /\ acc.kind /\ line.value # None =>
              Line(acc, line).corners = Append(acc.corners, line.value)
         /\ \/ Line(acc, line).corners = acc.corners
            \/ line.value \in Int /\ Line(acc, line).corners = Append(acc.corners, line.value)
<1>1. CASE line.label = "Type"
  BY <1>1 DEF Line, Scan, Entry
<1>2. CASE line.label = "Slack"
  BY <1>2 DEF Line, Scan, Entry
<1>3. CASE line.label \notin {"Type", "Slack"}
  BY <1>3 DEF Line, Scan, Entry
<1>4. QED BY <1>1, <1>2, <1>3

LEMMA Appended ==
  ASSUME NEW s \in Seq(Int), NEW v \in Int
  PROVE  /\ \A k \in DOMAIN s : k \in DOMAIN Append(s, v) /\ Append(s, v)[k] = s[k]
         /\ Len(s) + 1 \in DOMAIN Append(s, v) /\ Append(s, v)[Len(s) + 1] = v
OBVIOUS

LEMMA NoSlackLost ==
  ASSUME None \notin Int, NEW report \in Lines
  PROVE  /\ ParseSta(report) \in Seq(Int)
         /\ \A n \in 2 .. Len(report) :
              report[n].label = "Slack" /\ report[n].value # None /\ report[n - 1].label = "Type" =>
                \E k \in DOMAIN ParseSta(report) : ParseSta(report)[k] = report[n].value
<1> DEFINE after == Parsed(report)
           last == Len(report)
<1>1. /\ last \in Nat
      /\ \A n \in 1 .. last : report[n] \in Entry
  BY DEF Lines
<1>2. after[0] = [kind |-> FALSE, corners |-> <<>>]
  BY ParsedRuns
<1>3. \A n \in 1 .. last : after[n] = Line(after[n - 1], report[n])
  BY ParsedRuns
<1> HIDE DEF after
<1>4. \A n \in 0 .. last : after[n] \in Scan
  <2> DEFINE G == {m \in Nat : after[m] \in Scan}
  <2>1. 0 \in G
    <3>1. [kind |-> FALSE, corners |-> <<>>] \in Scan
      BY DEF Scan
    <3>2. after[0] \in Scan
      BY <1>2, <3>1
    <3>3. QED BY <3>2
  <2>2. \A m \in Nat : m < last /\ m \in G => m + 1 \in G
    BY <1>1, <1>3, LineDoes
  <2> HIDE DEF G
  <2>3. \A m \in 0 .. last : m \in G
    BY <1>1, <2>1, <2>2, UpTo
  <2>4. QED BY <2>3 DEF G
<1>5. ParseSta(report) = after[last].corners
  BY DEF ParseSta, after
<1>6. ASSUME NEW n \in 2 .. last, report[n].label = "Slack", report[n].value # None,
             report[n - 1].label = "Type"
      PROVE  \E k \in DOMAIN ParseSta(report) : ParseSta(report)[k] = report[n].value
  <2> DEFINE Has(s) == \E k \in DOMAIN s : s[k] = report[n].value
             G == {m \in Nat : m >= n /\ m <= last => Has(after[m].corners)}
  <2>1. n - 1 \in 1 .. last /\ n - 2 \in 0 .. last /\ n \in 1 .. last /\ n - 1 - 1 = n - 2
    BY <1>1
  <2>2. /\ after[n - 2] \in Scan /\ report[n - 1] \in Entry
        /\ after[n - 1] = Line(after[n - 2], report[n - 1]) /\ after[n - 1] \in Scan
        /\ after[n] = Line(after[n - 1], report[n]) /\ report[n] \in Entry
    BY <1>1, <1>3, <1>4, <2>1
  <2>3. /\ report[n].value \in Int /\ after[n - 1].corners \in Seq(Int)
        /\ after[n].corners = Append(after[n - 1].corners, report[n].value)
    <3>1. after[n - 1].kind
      BY <1>6, <2>2, LineDoes
    <3>2. report[n].value \in Int
      BY <1>6, <2>2 DEF Entry
    <3>3. QED BY <1>6, <2>2, <3>1, <3>2, LineDoes
  <2>4. Has(after[n].corners)
    BY <2>3, Appended
  <2>5. 0 \in G
    BY <2>1
  <2>6. \A m \in Nat : m < last /\ m \in G => m + 1 \in G
    <3> SUFFICES ASSUME NEW m \in Nat, m < last, m \in G, m + 1 >= n
                 PROVE  Has(after[m + 1].corners)
      OBVIOUS
    <3>1. CASE m + 1 = n
      BY <2>4, <3>1
    <3>2. CASE m + 1 # n
      <4>1. m >= n /\ Has(after[m].corners) /\ m \in 0 .. last /\ m + 1 \in 1 .. last
        BY <1>1, <3>2
      <4>2. /\ after[m].corners \in Seq(Int)
            /\ \/ after[m + 1].corners = after[m].corners
               \/ /\ report[m + 1].value \in Int
                  /\ after[m + 1].corners = Append(after[m].corners, report[m + 1].value)
        <5>1. after[m + 1] = Line(after[m], report[m + 1]) /\ after[m] \in Scan
          BY <1>3, <1>4, <4>1
        <5>2. report[m + 1] \in Entry
          BY <1>1, <4>1
        <5>3. QED BY <5>1, <5>2, LineDoes
      <4>3. PICK k \in DOMAIN after[m].corners : after[m].corners[k] = report[n].value
        BY <4>1
      <4>4. k \in DOMAIN after[m + 1].corners /\ after[m + 1].corners[k] = report[n].value
        <5>1. CASE after[m + 1].corners = after[m].corners
          BY <4>3, <5>1
        <5>2. CASE /\ report[m + 1].value \in Int
                   /\ after[m + 1].corners = Append(after[m].corners, report[m + 1].value)
          BY <4>2, <4>3, <5>2, Appended
        <5>3. QED BY <4>2, <5>1, <5>2
      <4>5. QED BY <4>4
    <3>3. QED BY <3>1, <3>2
  <2> HIDE DEF G
  <2>7. last \in G
    <3>1. \A m \in 0 .. last : m \in G
      BY <1>1, <2>5, <2>6, UpTo
    <3>2. QED BY <1>1, <3>1
  <2>8. QED BY <1>5, <2>1, <2>7 DEF G
<1>7. ParseSta(report) \in Seq(Int)
  BY <1>1, <1>4, <1>5 DEF Scan
<1>8. QED BY <1>6, <1>7

\* A list that is not empty has a least number, and worst_slack is it.
LEMMA WorstIs ==
  ASSUME NEW corners \in Seq(Int), corners # <<>>
  PROVE  /\ Worst(corners) \in Int
         /\ \A k \in DOMAIN corners : Worst(corners) <= corners[k]
<1> DEFINE Has(m) == \E k \in 1 .. m : \A j \in 1 .. m : corners[k] <= corners[j]
           G == {m \in Nat : Has(m + 1)}
           least == Len(corners) - 1
<1>1. /\ least \in Nat /\ least + 1 = Len(corners) /\ DOMAIN corners = 1 .. Len(corners)
      /\ \A k \in DOMAIN corners : corners[k] \in Int
  OBVIOUS
<1>2. 0 \in G
  BY <1>1
<1>3. \A m \in Nat : m < least /\ m \in G => m + 1 \in G
  <2> SUFFICES ASSUME NEW m \in Nat, m < least, m \in G
               PROVE  Has(m + 1 + 1)
    <3> HIDE DEF Has
    <3> QED OBVIOUS
  <2>1. PICK k \in 1 .. m + 1 : \A j \in 1 .. m + 1 : corners[k] <= corners[j]
    BY <1>1
  <2>2. m + 2 \in DOMAIN corners /\ k \in DOMAIN corners
    BY <1>1
  <2>3. corners[m + 2] \in Int /\ corners[k] \in Int
    BY <1>1, <2>2
  <2>4. \A j \in 1 .. m + 2 : j \in DOMAIN corners /\ corners[j] \in Int /\ (j \in 1 .. m + 1 \/ j = m + 2)
    BY <1>1
  <2>5. CASE corners[k] <= corners[m + 2]
    BY <2>1, <2>4, <2>5
  <2>6. CASE ~ (corners[k] <= corners[m + 2])
    <3>1. \A j \in 1 .. m + 2 : corners[m + 2] <= corners[j]
      BY <2>1, <2>3, <2>4, <2>6
    <3>2. QED BY <3>1
  <2>7. Has(m + 2)
    BY <2>5, <2>6
  <2>8. m + 2 = m + 1 + 1
    OBVIOUS
  <2> HIDE DEF Has
  <2>9. QED BY <2>7, <2>8
<1>4. Has(Len(corners))
  <2> HIDE DEF G
  <2>1. \A m \in 0 .. least : m \in G
    BY <1>1, <1>2, <1>3, UpTo
  <2>2. least \in G
    BY <1>1, <2>1
  <2> HIDE DEF Has
  <2>3. QED BY <1>1, <2>2 DEF G
<1>5. PICK k \in DOMAIN corners : \A j \in DOMAIN corners : corners[k] <= corners[j]
  BY <1>1, <1>4
<1>6. ToSet(corners) = {corners[j] : j \in DOMAIN corners}
  BY DEF ToSet
<1>7. corners[k] \in ToSet(corners) /\ \A other \in ToSet(corners) : corners[k] <= other
  BY <1>5, <1>6
<1>8. Worst(corners) \in ToSet(corners) /\ \A other \in ToSet(corners) : Worst(corners) <= other
  <2>1. \E c \in ToSet(corners) : \A other \in ToSet(corners) : c <= other
    BY <1>7
  <2>2. Worst(corners) = CHOOSE c \in ToSet(corners) : \A other \in ToSet(corners) : c <= other
    BY DEF Worst
  <2>3. QED BY <2>1, <2>2
<1>9. QED BY <1>1, <1>6, <1>8

\* A report that meets timing has no slack of a corner below zero.
LEMMA MetMeansAll ==
  ASSUME None \notin Int, NEW report \in Lines, Met(ParseSta(report)),
         NEW n \in 2 .. Len(report),
         report[n].label = "Slack", report[n].value # None, report[n - 1].label = "Type"
  PROVE  report[n].value >= 0
<1> DEFINE corners == ParseSta(report)
<1>1. corners \in Seq(Int)
  BY NoSlackLost
<1>2. PICK k \in DOMAIN corners : corners[k] = report[n].value
  BY NoSlackLost
<1>3. Met(corners)
  OBVIOUS
<1> HIDE DEF corners
<1>4. corners # <<>>
  BY <1>2
<1>5. corners[k] \in Int
  BY <1>1, <1>2
<1>6. Worst(corners) \in Int /\ Worst(corners) <= corners[k]
  BY <1>1, <1>2, <1>4, WorstIs
<1>7. Worst(corners) >= 0
  BY <1>3, <1>6 DEF Met
<1>8. QED BY <1>2, <1>5, <1>6, <1>7

\* The same of what a project's own timing analysis reports.
LEMMA MineMeets ==
  ASSUME ProjectFits, NEW man \in Manifests, MeetsTiming(Analysed(man))
  PROVE  LET lines == ReportOf(Analysed(man)) IN
           \A n \in 2 .. Len(lines) :
             lines[n].label = "Slack" /\ lines[n].value # None /\ lines[n - 1].label = "Type"
               => lines[n].value >= 0
<1> DEFINE lines == ReportOf(Analysed(man))
<1>1. CASE Analysed(man).under = None
  <2>1. lines = <<[label |-> "Type", value |-> None], [label |-> "Slack", value |-> None]>>
    BY <1>1 DEF ReportOf
  <2>2. Len(lines) = 2 /\ lines[2].value = None
    BY <2>1
  <2> HIDE DEF lines
  <2>3. \A n \in 2 .. Len(lines) : n = 2
    BY <2>2
  <2>4. QED BY <2>2, <2>3 DEF lines
<1>2. CASE Analysed(man).under # None
  <2>1. lines = man.report
    BY <1>2 DEF ReportOf, Analysed, Fitted
  <2>2. lines \in Lines /\ None \notin Int
    BY <2>1 DEF ProjectFits, Lines, Entry
  <2>3. Met(ParseSta(lines))
    BY DEF MeetsTiming
  <2> HIDE DEF lines
  <2>4. QED BY <2>2, <2>3, MetMeansAll DEF lines
<1>3. QED BY <1>1, <1>2

LEMMA Promises ==
  ASSUME ProjectFits, IInv
  PROVE  OutcomeIsMine /\ RequiredTimingIsMet
<1>1. OutcomeIsMine
  BY DEF IInv, AloneOK, OutcomeIsMine
<1>2. RequiredTimingIsMet
  <2> SUFFICES ASSUME NEW p \in Process,
                      proc[p].at = "ok", proc[p].alone, proc[p].require
               PROVE  LET lines == ReportOf(Analysed(proc[p].man)) IN
                        /\ \A n \in 2 .. Len(lines) :
                             lines[n].label = "Slack" /\ lines[n].value # None
                               /\ lines[n - 1].label = "Type" => lines[n].value >= 0
                        /\ proc[p].copy =>
                             out = [sof |-> Fitted(proc[p].man), sta |-> Analysed(proc[p].man)]
    BY DEF RequiredTimingIsMet
  <2>1. AloneOK(p, proc[p]) /\ TypeOK
    BY DEF IInv
  <2>2. PICK man : man = proc[p].man
    OBVIOUS
  <2>3. man \in Manifests
    BY <2>1, <2>2 DEF AloneOK, TypeOK
  <2>4. MeetsTiming(Analysed(man))
    BY <2>1, <2>2 DEF AloneOK
  <2>5. proc[p].copy => out = [sof |-> Fitted(man), sta |-> Analysed(man)]
    BY <2>1, <2>2 DEF AloneOK
  <2>6. QED BY <2>2, <2>3, <2>4, <2>5, MineMeets
<1>3. QED BY <1>1, <1>2

-----------------------------------------------------------------------------
\* However many shells build, edit, are killed or leave tools behind: a build
\* that was left alone has the directory as its steps so far leave it, and only
\* the tool it waits for can still change that.
THEOREM BuildInvariant ==
  ASSUME ProjectFits
  PROVE  Spec => []IInv
<1>1. Init => IInv
  BY Starts
<1>2. IInv /\ [Next]_vars => IInv'
  BY Kept
<1>3. QED BY <1>1, <1>2, PTL DEF Spec

\* run_build: such a build ends with the bitstream of its own project in the
\* directory and with a verdict on that bitstream under its constraints,
\* whatever earlier builds left there.
THEOREM OutcomeMine ==
  ASSUME ProjectFits
  PROVE  Spec => []OutcomeIsMine
<1>1. QED BY Promises, BuildInvariant, PTL

\* main: with --require-timing it ends well only if no corner of that analysis
\* misses, however many lines the report has, and --out-dir holds what was judged.
THEOREM TimingMet ==
  ASSUME ProjectFits
  PROVE  Spec => []RequiredTimingIsMet
<1>1. QED BY Promises, BuildInvariant, PTL
=============================================================================
