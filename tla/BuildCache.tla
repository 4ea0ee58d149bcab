------------------------------ MODULE BuildCache ------------------------------
(***************************************************************************)
(* Incremental builds (crates/chipsmith/src/cache.rs, flow.rs, ADR-0011).  *)
(*                                                                         *)
(* `chipsmith build` runs the steps of a plan in order.  Each in-process   *)
(* step leaves a stamp beside its outputs; a later build skips the step    *)
(* while the stamp holds.  Files, stamps and processes are the state;      *)
(* around the builds a user edits sources, deletes files and kills         *)
(* processes.                                                              *)
(*                                                                         *)
(* A file's contents are a value: a source holds a member of Content, a    *)
(* derived file the value Produce gives it, a half-written one Torn.       *)
(* Content hashes are the contents themselves (ADR-0011: no collisions).   *)
(***************************************************************************)
EXTENDS Naturals, Sequences

CONSTANTS
  Source,         \* files the user edits
  Derived,        \* files of the build directory, the stamps apart
  Content,        \* what a source may hold
  Including,      \* the contents of a source that `include a header
  Candidates,     \* where that header is looked for, first match wins
  Setting,        \* manifest settings, CHIPSMITH_* and binary of a build
  Build,          \* chipsmith processes
  Plan,           \* the steps, in order
  StepKey(_, _),  \* (step, setting): what cache::key makes of it
  Produce(_, _, _), \* (file, key, what was read): the contents written
  Faults,         \* which of the disturbances below are allowed
  MaxDisturb      \* bound: disturbances in a behaviour

VARIABLES
  files,    \* the contents of every source and derived file
  stamps,   \* the stamp file of every step
  build,    \* the chipsmith processes
  disturb   \* how many disturbances there were

vars == <<files, stamps, build, disturb>>

CONSTANTS Absent, Torn, NoStamp

(***************************************************************************)
(* "midedit"    a source changes between a step's read and its stamp       *)
(* "concurrent" two builds run in one project directory                    *)
(* "tornstamp"  writing a stamp fails part way (a full disk)               *)
(***************************************************************************)
FaultKind == {"midedit", "concurrent", "tornstamp"}

File == Source \cup Derived
Step == 1 .. Len(Plan)

\* A step is its parts, each reading files and writing one: place and route
\* is a placement, then a routing that reads the placed file again.
Parts(s) == DOMAIN Plan[s].parts
Part(s, p) == Plan[s].parts[p]
Outputs(s) == {Part(s, p).writes : p \in Parts(s)}

PartType == [reads: SUBSET File, frontend: BOOLEAN, writes: Derived]

\* Only derived files are written, each by one part of one step; a step's
\* first part reads what the step is stamped with, none of it the step's
\* own; its other parts read what its earlier parts wrote.
PlanWellFormed ==
  /\ Plan \in Seq([stamped: BOOLEAN, parts: Seq(PartType)])
  /\ Plan # <<>>
  /\ \A s \in Step :
       /\ Plan[s].parts # <<>>
       /\ \A p, q \in Parts(s) : Part(s, p).writes = Part(s, q).writes => p = q
       /\ Part(s, 1).reads \cap Outputs(s) = {}
       /\ \A p \in Parts(s) : p > 1 =>
            /\ ~ Part(s, p).frontend
            /\ \A f \in Part(s, p).reads : \E q \in 1 .. p - 1 : f = Part(s, q).writes
       /\ \A t \in Step : t # s => Outputs(s) \cap Outputs(t) = {}

ASSUME PlanAssumption == PlanWellFormed
ASSUME FileAssumption ==
  /\ Source \cap Derived = {}
  /\ Candidates \in Seq(Source)
  /\ Including \subseteq Content
  /\ Absent \notin Content /\ Torn \notin Content
ASSUME FaultAssumption == Faults \subseteq FaultKind /\ MaxDisturb \in Nat
ASSUME SettingAssumption == Setting # {}

-----------------------------------------------------------------------------
(* Reading: the front end opens the sources it is given and what they      *)
(* `include; every other part its input file.                              *)

Present(fs, f) == fs[f] # Absent

\* The header a source's `include resolves to: the first candidate there is.
Resolved(fs) ==
  {Candidates[i] : i \in {j \in DOMAIN Candidates :
      /\ Present(fs, Candidates[j])
      /\ \A k \in 1 .. j - 1 : ~ Present(fs, Candidates[k])}}

Includes(part, fs) == part.frontend /\ \E f \in part.reads : fs[f] \in Including

ReadSet(part, fs) ==
  part.reads \cup (IF Includes(part, fs) THEN Resolved(fs) ELSE {})

\* A read fails on a missing file, an `include on a missing header.
Readable(part, fs) ==
  /\ \A f \in part.reads : Present(fs, f)
  /\ Includes(part, fs) => Resolved(fs) # {}

Reading(part, fs) == [f \in ReadSet(part, fs) |-> fs[f]]

-----------------------------------------------------------------------------
(* The stamp.                                                              *)

Key(b) == StepKey(build[b].step, build[b].setting)

\* Wrong on purpose: a stamp that does not look at the key.
HoldsForAnyKey(s, key) ==
  /\ Plan[s].stamped
  /\ stamps[s] # NoStamp
  /\ \A o \in Outputs(s) : Present(files, o)
  /\ \A f \in DOMAIN stamps[s].inputs :
       Present(files, f) /\ files[f] = stamps[s].inputs[f]

\* Wrong on purpose: a stamp that does not look at the inputs.
HoldsForAnyInput(s, key) ==
  /\ Plan[s].stamped
  /\ stamps[s] # NoStamp
  /\ stamps[s].key = key
  /\ \A o \in Outputs(s) : Present(files, o)

\* Stamp::check, CHIPSMITH_CACHE=0 apart: same key, every output there,
\* every recorded input as it was.
Holds(s, key) ==
  /\ Plan[s].stamped
  /\ stamps[s] # NoStamp
  /\ stamps[s].key = key
  /\ \A o \in Outputs(s) : Present(files, o)
  /\ \A f \in DOMAIN stamps[s].inputs :
       Present(files, f) /\ files[f] = stamps[s].inputs[f]

-----------------------------------------------------------------------------
(* Processes: idle, at a step's stamp check, about to read a part's        *)
(* inputs, working on them, writing the part's file, about to write the    *)
(* stamp.  `inputs` is what the running step's first part read, `read`     *)
(* what its running part read.  History: `took` is the sources when the    *)
(* build read them or found them unchanged, `product` what the last build  *)
(* that succeeded left as the bitstream.                                   *)

Phase == {"idle", "check", "read", "work", "write", "stamp"}

Idle(product) ==
  [pc |-> "idle", setting |-> CHOOSE k \in Setting : TRUE, cache |-> TRUE,
   step |-> 1, part |-> 1, inputs |-> <<>>, read |-> <<>>, took |-> <<>>, product |-> product]

Field ==
  {"pc", "setting", "cache", "step", "part", "inputs", "read", "took", "product"}

Sources == [f \in Source |-> files[f]]

\* The front of the plan reads the sources; the steps after it do not.
Took(r) == IF r.step = 1 /\ r.part = 1 THEN Sources ELSE r.took

Init ==
  /\ files \in {[f \in File |-> IF f \in Source THEN src[f] ELSE Absent] :
                  src \in [Source -> Content]}
  /\ stamps = [s \in Step |-> NoStamp]
  /\ build = [b \in Build |-> Idle(Absent)]
  /\ disturb = 0

\* A plan is made and run: settings are read once, at the start.
Start(b, setting, cache) ==
  /\ build[b].pc = "idle"
  /\ "concurrent" \in Faults \/ \A c \in Build : build[c].pc = "idle"
  /\ build' = [build EXCEPT ![b] =
       [Idle(Absent) EXCEPT !.pc = "check", !.setting = setting, !.cache = cache]]
  /\ UNCHANGED <<files, stamps, disturb>>

\* The bitstream: the file the plan's last part writes.
Bitstream ==
  LET last == Plan[Len(Plan)].parts IN last[Len(last)].writes

\* The build record after its step, the files being fs: the next step, or
\* done.
Advanced(r, fs) ==
  IF r.step = Len(Plan)
  THEN Idle(fs[Bitstream])
  ELSE [r EXCEPT !.pc = "check", !.inputs = <<>>, !.read = <<>>, !.part = 1, !.step = r.step + 1]

\* Stamp::run, up to date: the report is replayed and the step skipped.
Skip(b) ==
  /\ build[b].pc = "check"
  /\ build[b].cache
  /\ Holds(build[b].step, Key(b))
  /\ build' = [build EXCEPT ![b] = Advanced([build[b] EXCEPT !.took = Took(build[b])], files)]
  /\ UNCHANGED <<files, stamps, disturb>>

\* Wrong on purpose: the stamp stays until the step is done.
MissKeepsStamp(b) ==
  LET s == build[b].step IN
  /\ build[b].pc = "check"
  /\ ~ (build[b].cache /\ Holds(s, Key(b)))
  /\ build' = [build EXCEPT ![b].pc = "read", ![b].part = 1]
  /\ UNCHANGED <<files, stamps, disturb>>

\* Wrong on purpose: every later step's stamp goes too.
MissDropsLaterStamps(b) ==
  LET s == build[b].step IN
  /\ build[b].pc = "check"
  /\ ~ (build[b].cache /\ Holds(s, Key(b)))
  /\ stamps' = [t \in Step |-> IF t >= s THEN NoStamp ELSE stamps[t]]
  /\ build' = [build EXCEPT ![b].pc = "read", ![b].part = 1]
  /\ UNCHANGED <<files, disturb>>

\* Stamp::run, not up to date: the stamp goes before the step starts.  An
\* external tool and the .bin writer have no stamp and always run.
Miss(b) ==
  LET s == build[b].step IN
  /\ build[b].pc = "check"
  /\ ~ (build[b].cache /\ Holds(s, Key(b)))
  /\ stamps' = [stamps EXCEPT ![s] = NoStamp]
  /\ build' = [build EXCEPT ![b].pc = "read", ![b].part = 1]
  /\ UNCHANGED <<files, disturb>>

\* A part reads its inputs.
Read(b) ==
  LET r == build[b]
      part == Part(r.step, r.part)
  IN /\ r.pc = "read"
     /\ Readable(part, files)
     /\ build' = [build EXCEPT ![b] =
          [r EXCEPT !.pc = "work", !.read = Reading(part, files),
                    !.inputs = IF r.part = 1 THEN Reading(part, files) ELSE @,
                    !.took = Took(r)]]
     /\ UNCHANGED <<files, stamps, disturb>>

\* Opening its output empties it.
Open(b) ==
  LET r == build[b] IN
  /\ r.pc = "work"
  /\ files' = [files EXCEPT ![Part(r.step, r.part).writes] = Torn]
  /\ build' = [build EXCEPT ![b].pc = "write"]
  /\ UNCHANGED <<stamps, disturb>>

\* The output is complete, unless it was deleted under the writer.
Write(b) ==
  LET r == build[b]
      out == Part(r.step, r.part).writes
  IN /\ r.pc = "write"
     /\ files' = [files EXCEPT ![out] =
          IF @ = Absent THEN Absent ELSE Produce(out, Key(b), r.read)]
     /\ build' = [build EXCEPT ![b] =
          IF r.part < Len(Plan[r.step].parts)
          THEN [r EXCEPT !.pc = "read", !.part = r.part + 1]
          ELSE IF Plan[r.step].stamped THEN [r EXCEPT !.pc = "stamp"] ELSE Advanced(r, files')]
     /\ UNCHANGED <<stamps, disturb>>

\* Wrong on purpose: the stamp is forgotten.
WriteNoStamp(b) ==
  /\ build[b].pc = "stamp"
  /\ build' = [build EXCEPT ![b] = Advanced(@, files)]
  /\ UNCHANGED <<files, stamps, disturb>>

\* Stamp::run after the step: what it read is hashed now.  A file that is
\* unreadable by then leaves the step without a stamp, and the build goes on.
WriteStamp(b) ==
  LET r == build[b]
      inputs == DOMAIN r.inputs
  IN /\ r.pc = "stamp"
     /\ IF \E f \in inputs : ~ Present(files, f)
        THEN UNCHANGED stamps
        ELSE stamps' = [stamps EXCEPT ![r.step] =
               [key |-> Key(b), inputs |-> [f \in inputs |-> files[f]]]]
     /\ build' = [build EXCEPT ![b] = Advanced(@, files)]
     /\ UNCHANGED <<files, disturb>>

-----------------------------------------------------------------------------
(* What goes wrong around a build.                                         *)

\* The build stops with an error: a bad source, a failed search, missed
\* timing after the file is out, a full disk.  The part's file is left as
\* it is.
Fail(b) ==
  /\ build[b].pc \in {"read", "work", "write", "stamp"}
  /\ build' = [build EXCEPT ![b] = Idle(Absent)]
  /\ UNCHANGED <<files, stamps, disturb>>

Disturb == disturb < MaxDisturb /\ disturb' = disturb + 1

Kill(b) ==
  /\ Disturb
  /\ build[b].pc # "idle"
  /\ build' = [build EXCEPT ![b] = Idle(Absent)]
  /\ UNCHANGED <<files, stamps>>

\* Writing the stamp fails after some of its lines.
StampTorn(b) ==
  LET r == build[b] IN
  /\ Disturb
  /\ "tornstamp" \in Faults
  /\ r.pc = "stamp"
  /\ \A f \in DOMAIN r.inputs : Present(files, f)
  /\ \E kept \in SUBSET DOMAIN r.inputs :
       stamps' = [stamps EXCEPT ![r.step] =
         [key |-> Key(b), inputs |-> [f \in kept |-> files[f]]]]
  /\ build' = [build EXCEPT ![b] = Idle(Absent)]
  /\ UNCHANGED files

\* Files a running step has read and will hash for its stamp.
Pending(b) ==
  IF Plan[build[b].step].stamped THEN DOMAIN build[b].inputs ELSE {}

\* The user writes a source.
Edit(f, c) ==
  /\ Disturb
  /\ f \in Source
  /\ files[f] # c
  /\ "midedit" \in Faults \/ \A b \in Build : f \notin Pending(b)
  /\ files' = [files EXCEPT ![f] = c]
  /\ UNCHANGED <<stamps, build>>

\* A file is deleted: a source, an output, all at any time.
Delete(f) ==
  /\ Disturb
  /\ Present(files, f)
  /\ files' = [files EXCEPT ![f] = Absent]
  /\ UNCHANGED <<stamps, build>>

DeleteStamp(s) ==
  /\ Disturb
  /\ stamps[s] # NoStamp
  /\ stamps' = [stamps EXCEPT ![s] = NoStamp]
  /\ UNCHANGED <<files, build>>

-----------------------------------------------------------------------------
Proceed(b) == Skip(b) \/ Miss(b) \/ Read(b) \/ Open(b) \/ Write(b) \/ WriteStamp(b)

Next ==
  \/ \E b \in Build :
       \/ \E setting \in Setting, cache \in BOOLEAN : Start(b, setting, cache)
       \/ Proceed(b)
       \/ Fail(b)
       \/ Kill(b)
       \/ StampTorn(b)
  \/ \E f \in Source, c \in Content : Edit(f, c)
  \/ \E f \in File : Delete(f)
  \/ \E s \in Step : DeleteStamp(s)

Spec == Init /\ [][Next]_vars

-----------------------------------------------------------------------------
(* What the cache promises.                                                *)

\* Type invariant: the state of cache.rs and flow.rs as declared above.
TypeOK ==
  /\ files = [f \in File |-> files[f]]
  /\ stamps = [s \in Step |-> stamps[s]]
  /\ \A s \in Step : stamps[s] # NoStamp =>
       /\ DOMAIN stamps[s] = {"key", "inputs"}
       /\ DOMAIN stamps[s].inputs \subseteq File
  /\ build = [b \in Build |-> build[b]]
  /\ \A b \in Build :
       /\ DOMAIN build[b] = Field
       /\ build[b] = [x \in Field |-> build[b][x]]
       /\ build[b].pc \in Phase
       /\ build[b].setting \in Setting
       /\ build[b].cache \in BOOLEAN
       /\ build[b].step \in Step
       /\ build[b].part \in Parts(build[b].step)
       /\ DOMAIN build[b].inputs \subseteq File
  /\ disturb \in 0 .. MaxDisturb

\* What the step would write now: each part's file made of its inputs as
\* they are.
Fresh(s, key) ==
  \A p \in Parts(s) :
    LET part == Part(s, p)
    IN /\ Readable(part, files)
       /\ files[part.writes] = Produce(part.writes, key, Reading(part, files))

\* A step skipped as up to date has the outputs that running it on the
\* files as they are would write (cache.rs:104-105, ADR-0011).
UpToDateIsFresh ==
  \A s \in Step, setting \in Setting :
    Holds(s, StepKey(s, setting)) => Fresh(s, StepKey(s, setting))

\* A killed or failed build leaves a half-written file out of every stamp's
\* reach, edits under a running step and torn stamps notwithstanding
\* (cache.rs:143, "A step that fails halfway leaves no stamp to trust").
HalfWrittenNeverUpToDate ==
  \A s \in Step, setting \in Setting :
    Holds(s, StepKey(s, setting)) => \A o \in Outputs(s) : files[o] # Torn

-----------------------------------------------------------------------------
(***************************************************************************)
(* Incremental builds (BuildCache) implement clean builds (CleanBuild) and *)
(* converge on them.                                                       *)
(***************************************************************************)

(***************************************************************************)
(* A clean build: every part of every step, in plan order, on the sources  *)
(* and an empty build directory.                                           *)
(***************************************************************************)
RunPart(fs, s, part, setting) ==
  [fs EXCEPT ![part.writes] =
     Produce(part.writes, StepKey(s, setting), Reading(part, fs))]

\* The files after each part of step s, from the files fs on.
AfterParts(fs, s, setting) ==
  LET after[p \in 0 .. Len(Plan[s].parts)] ==
        IF p = 0 THEN fs ELSE RunPart(after[p - 1], s, Part(s, p), setting)
  IN  after

RunStep(fs, s, setting) == AfterParts(fs, s, setting)[Len(Plan[s].parts)]

\* The files after each step.
AfterSteps(setting, src) ==
  LET after[s \in 0 .. Len(Plan)] ==
        IF s = 0 THEN [f \in File |-> IF f \in Source THEN src[f] ELSE Absent]
        ELSE RunStep(after[s - 1], s, setting)
  IN  after

CleanFiles(setting, src) == AfterSteps(setting, src)[Len(Plan)]

Whole(setting, src) == CleanFiles(setting, src)[Bitstream]

Clean == INSTANCE CleanBuild WITH
  source <- Sources,
  job <- [b \in Build |->
            IF build[b].pc = "idle" THEN [running |-> FALSE]
            ELSE [running |-> TRUE, setting |-> build[b].setting, took |-> build[b].took]],
  product <- [b \in Build |-> build[b].product]

\* Refinement: whatever is skipped, edited between steps, deleted or killed,
\* a build that succeeds leaves the bitstream of the sources it took
\* (ADR-0011, "Incremental builds skip a step ..."; flow.rs Plan::run).
ImplementsCleanBuild == Clean!Spec

-----------------------------------------------------------------------------
(* Liveness: the user goes on building and each process goes on running.   *)

Fairness ==
  \A b \in Build :
    /\ WF_vars(Proceed(b))
    /\ WF_vars(\E setting \in Setting : Start(b, setting, TRUE))

Quiet ==
  /\ <>[][~ \E b \in Build : Fail(b)]_vars
  /\ \E setting \in Setting : <>[](\A b \in Build : build[b].pc # "idle" => build[b].setting = setting)
  /\ <>[](\A b \in Build : build[b].cache)
  /\ <>[](\A s \in Step : \A p \in Parts(s) :
         Part(s, p).reads \subseteq Source => Readable(Part(s, p), files))

\* Once sources and settings are left alone and builds do not fail, builds
\* stop working: from some point on every stamped step is up to date.
Settles ==
  Quiet => <>[](\A b \in Build : build[b].pc = "work" => ~ Plan[build[b].step].stamped)

\* ... and what they leave is the bitstream of the sources as they are.
Converges ==
  Quiet => <>[](\A b \in Build : build[b].product # Absent =>
                  \E setting \in Setting : build[b].product = Whole(setting, Sources))

-----------------------------------------------------------------------------
(***************************************************************************)
(* What the cache saves: BuildCache with the last successful build         *)
(* remembered, for a property of the build after it.                       *)
(***************************************************************************)

(* History: the setting and sources of the last build that succeeded, as   *)
(* long as nothing but sources changed since; `calm` while nothing in the  *)
(* build directory was deleted or left half done under the running build.  *)

VARIABLES intact, calm
hvars == <<vars, intact, calm>>

Broken == [whole |-> FALSE]

HInit == Init /\ intact = Broken /\ calm = FALSE

Starts(b) == build[b].pc = "idle" /\ build'[b].pc = "check"
Stops(b) == build[b].pc # "idle" /\ build'[b].pc = "idle"

\* No build steps: the user edits a source, or deletes something.
UserEdits == UNCHANGED <<build, stamps>> /\ \A f \in Derived : files'[f] = files[f]

Remembered(b) ==
  IF calm /\ build'[b].product # Absent
  THEN [whole |-> TRUE, setting |-> build[b].setting, took |-> Took(build[b])]
  ELSE Broken

HNext ==
  /\ Next
  /\ calm' = ((\E b \in Build : Starts(b)) \/ (calm /\ (build' # build \/ UserEdits)))
  /\ intact' =
       CASE \E b \in Build : Stops(b) ->
              Remembered(CHOOSE b \in Build : Stops(b))
         [] \E b \in Build : Starts(b) /\ intact.whole
                 /\ ~ (build'[b].setting = intact.setting /\ build'[b].cache) -> Broken
         [] build' = build /\ ~ UserEdits -> Broken
         [] OTHER -> intact

HSpec == HInit /\ [][HNext]_hvars

HLiveSpec == HSpec /\ Fairness

\* The same design for synthesis: what it reads from src gives the netlist it
\* reads from the sources it took.
SameDesign(took, src) ==
  LET Netlist(s) == RunStep([f \in File |-> IF f \in Source THEN s[f] ELSE Absent],
                            1, intact.setting)[Part(1, 1).writes]
  IN Netlist(took) = Netlist(src)

\* After a build that succeeded, and edits that synthesis does not see (a
\* comment), the next build with the same settings runs synthesis at most
\* (ADR-0011: "re-runs synthesis, gives the same netlist, and skips pack,
\* place-and-route and the bitstream").
CommentEditRerunsSynthesisOnly ==
  [][\A b \in Build :
       /\ Miss(b) /\ intact.whole /\ build[b].cache
       /\ build[b].step > 1 /\ Plan[build[b].step].stamped
       => ~ SameDesign(intact.took, build[b].took)]_hvars
=============================================================================
