--------------------------- MODULE BuildCacheProofs ---------------------------
(***************************************************************************)
(* Proofs about BuildCache for every plan, every set of files and contents *)
(* and any number of disturbances.                                         *)
(*                                                                         *)
(* UpToDateIsFresh needs three assumptions, each with a run that shows     *)
(* what happens without it: no edit between a step's read and its stamp,   *)
(* one build at a time, no stamp cut short (Faults = {}), and at most one  *)
(* place a header can be found in (SingleCandidate). Refinement needs the  *)
(* same and that a plan's steps only read what earlier ones write          *)
(* (InOrder). HalfWritten needs one build at a time only.                  *)
(***************************************************************************)
EXTENDS BuildCache, SequenceTheorems, WellFoundedInduction, TLAPS

SingleCandidate == Len(Candidates) <= 1

Running(r) == r.pc \in {"read", "work", "write", "stamp"}

\* What a part read, whole: its files, the header they `include if they do,
\* none of them missing.
SelfRead(part, in) ==
  /\ in = [f \in DOMAIN in |-> in[f]]
  /\ DOMAIN in = part.reads \cup
       (IF part.frontend /\ \E f \in part.reads : in[f] \in Including
        THEN {Candidates[i] : i \in DOMAIN Candidates} ELSE {})
  /\ \A f \in DOMAIN in : in[f] # Absent
  /\ (part.frontend /\ \E f \in part.reads : in[f] \in Including) => Candidates # <<>>

\* The files of parts 1 to p of step s are there.
AllThere(fs, s, p) == \A q \in 1 .. p : Present(fs, Part(s, q).writes)

\* Part p of step s wrote what it should: the first part from `in`, a later
\* one from the files of the step's earlier parts.
PartFits(fs, s, p, key, in) ==
  AllThere(fs, s, p)
    => fs[Part(s, p).writes] =
         Produce(Part(s, p).writes, key,
                 IF p = 1 THEN in ELSE [f \in Part(s, p).reads |-> fs[f]])

\* A stamp tells how the outputs beside it were made.
StampFits(fs, s, stamp) ==
  Plan[s].stamped /\ stamp # NoStamp =>
    /\ SelfRead(Part(s, 1), stamp.inputs)
    /\ \A p \in Parts(s) : PartFits(fs, s, p, stamp.key, stamp.inputs)

\* Files that were read are as they were or gone.
Unedited(fs, in) == \A f \in DOMAIN in : fs[f] = Absent \/ fs[f] = in[f]

\* The parts of the running step that are done.
Done(r) == IF r.pc = "stamp" THEN Parts(r.step) ELSE 1 .. r.part - 1

\* A build in the middle of a step with a stamp.
RunFits(fs, sts, r) ==
  Running(r) /\ Plan[r.step].stamped =>
    /\ sts[r.step] = NoStamp
    /\ \/ r.pc = "read" /\ r.part = 1
       \/ SelfRead(Part(r.step, 1), r.inputs) /\ Unedited(fs, r.inputs)
    /\ \A p \in Done(r) : PartFits(fs, r.step, p, StepKey(r.step, r.setting), r.inputs)
    /\ r.pc \in {"work", "write"} =>
         IF r.part = 1 THEN r.read = r.inputs
         ELSE r.read = [f \in Part(r.step, r.part).reads |-> r.read[f]] /\ Unedited(fs, r.read)

OneAtATime ==
  \A b, c \in Build : build[b].pc # "idle" /\ build[c].pc # "idle" => b = c

IInv ==
  /\ TypeOK
  /\ OneAtATime
  /\ \A s \in Step : StampFits(files, s, stamps[s])
  /\ \A b \in Build : RunFits(files, stamps, build[b])
-----------------------------------------------------------------------------
LEMMA PlanFacts ==
  /\ Len(Plan) \in Nat /\ Len(Plan) > 0 /\ 1 \in Step
  /\ \A s \in Step :
       /\ Len(Plan[s].parts) \in Nat /\ Len(Plan[s].parts) > 0
       /\ Parts(s) = 1 .. Len(Plan[s].parts)
       /\ Plan[s].stamped \in BOOLEAN
       /\ \A p \in Parts(s) : Part(s, p) \in PartType
<1>1. Plan \in Seq([stamped: BOOLEAN, parts: Seq(PartType)]) /\ Plan # <<>>
  BY PlanAssumption DEF PlanWellFormed
<1>2. Len(Plan) \in Nat /\ Len(Plan) > 0 /\ 1 \in Step
  BY <1>1, EmptySeq, LenProperties DEF Step
<1>3. ASSUME NEW s \in Step
      PROVE  /\ Len(Plan[s].parts) \in Nat /\ Len(Plan[s].parts) > 0
             /\ Parts(s) = 1 .. Len(Plan[s].parts)
             /\ Plan[s].stamped \in BOOLEAN
             /\ \A p \in Parts(s) : Part(s, p) \in PartType
  <2>1. Plan[s] \in [stamped: BOOLEAN, parts: Seq(PartType)]
    BY <1>1, ElementOfSeq DEF Step
  <2>2. Plan[s].parts \in Seq(PartType) /\ Plan[s].stamped \in BOOLEAN
    BY <2>1
  <2>3. Plan[s].parts # <<>>
    BY PlanAssumption DEF PlanWellFormed
  <2>4. Len(Plan[s].parts) \in Nat /\ Len(Plan[s].parts) > 0
    BY <2>2, <2>3, EmptySeq, LenProperties
  <2>5. Parts(s) = 1 .. Len(Plan[s].parts)
    BY <2>2, LenProperties DEF Parts
  <2>6. \A p \in Parts(s) : Part(s, p) \in PartType
    BY <2>2, <2>5, ElementOfSeq DEF Part
  <2>7. QED BY <2>2, <2>4, <2>5, <2>6
<1>4. QED BY <1>2, <1>3

\* Type correctness of the parts of the state, one by one.
FilesOK == files = [f \in File |-> files[f]]

StampsOK ==
  /\ stamps = [s \in Step |-> stamps[s]]
  /\ \A s \in Step : stamps[s] # NoStamp =>
       /\ DOMAIN stamps[s] = {"key", "inputs"}
       /\ DOMAIN stamps[s].inputs \subseteq File

RecordOK(r) ==
  /\ DOMAIN r = Field
  /\ r = [x \in Field |-> r[x]]
  /\ r.pc \in Phase
  /\ r.setting \in Setting
  /\ r.cache \in BOOLEAN
  /\ r.step \in Step
  /\ r.part \in Parts(r.step)
  /\ DOMAIN r.inputs \subseteq File

BuildOK == build = [b \in Build |-> build[b]] /\ \A b \in Build : RecordOK(build[b])

LEMMA IdleOK == ASSUME NEW product PROVE RecordOK(Idle(product)) /\ Idle(product).pc = "idle"
<1>1. (CHOOSE k \in Setting : TRUE) \in Setting
  BY SettingAssumption
<1>2. 1 \in Step /\ 1 \in Parts(1)
  BY PlanFacts
<1>3. DOMAIN <<>> = {}
  OBVIOUS
<1>4. QED BY <1>1, <1>2, <1>3 DEF Idle, RecordOK, Field, Phase

LEMMA AdvancedOK ==
  ASSUME NEW r, NEW fs, RecordOK(r)
  PROVE  /\ RecordOK(Advanced(r, fs))
         /\ Advanced(r, fs).pc \in {"idle", "check"}
<1>1. CASE r.step = Len(Plan)
  BY <1>1, IdleOK DEF Advanced
<1>2. CASE r.step # Len(Plan)
  <2>1. r.step + 1 \in Step
    BY <1>2, PlanFacts DEF RecordOK, Step
  <2>2. 1 \in Parts(r.step + 1)
    BY <2>1, PlanFacts
  <2>3. DOMAIN <<>> = {}
    OBVIOUS
  <2>4. QED
    BY <1>2, <2>1, <2>2, <2>3 DEF Advanced, RecordOK, Field, Phase
<1>3. QED BY <1>1, <1>2

LEMMA ReadSetOK ==
  ASSUME NEW part \in PartType, NEW fs PROVE ReadSet(part, fs) \subseteq File
<1>1. part.reads \subseteq File
  BY DEF PartType
<1>2. Candidates \in Seq(Source)
  BY FileAssumption
<1>3. \A i \in DOMAIN Candidates : Candidates[i] \in Source
  BY <1>2, LenProperties, ElementOfSeq
<1>4. Resolved(fs) \subseteq File
  BY <1>3 DEF Resolved, File
<1>5. QED BY <1>1, <1>4 DEF ReadSet

\* A step of one build: its record and nothing of another's.
LEMMA OneRecord ==
  ASSUME BuildOK, NEW b \in Build, NEW r, RecordOK(r), build' = [build EXCEPT ![b] = r]
  PROVE  BuildOK' /\ build'[b] = r /\ \A c \in Build : c # b => build'[c] = build[c]
<1>1. \A c \in Build : build'[c] = IF c = b THEN r ELSE build[c]
  BY DEF BuildOK
<1>2. build' = [c \in Build |-> build'[c]]
  BY DEF BuildOK
<1>3. \A c \in Build : RecordOK(build'[c])
  BY <1>1 DEF BuildOK
<1>4. QED BY <1>1, <1>2, <1>3 DEF BuildOK

\* What every step does to the build records: Field by field for the one
\* process that steps.
LEMMA PartOK ==
  ASSUME NEW r, RecordOK(r), NEW pc \in Phase, NEW p \in Parts(r.step)
  PROVE  RecordOK([r EXCEPT !.pc = pc, !.part = p])
BY DEF RecordOK, Field

LEMMA PhaseOK ==
  ASSUME NEW r, RecordOK(r), NEW pc \in Phase
  PROVE  /\ RecordOK([r EXCEPT !.pc = pc])
         /\ [r EXCEPT !.pc = pc].pc = pc
         /\ \A x \in Field \ {"pc"} : [r EXCEPT !.pc = pc][x] = r[x]
BY DEF RecordOK, Field

\* A step keeps the types.
LEMMA TypeStep == ASSUME TypeOK, [Next]_vars PROVE TypeOK'
<1> SUFFICES ASSUME FilesOK, StampsOK, BuildOK, disturb \in 0 .. MaxDisturb, [Next]_vars
             PROVE  FilesOK' /\ StampsOK' /\ BuildOK' /\ disturb' \in 0 .. MaxDisturb
  BY DEF TypeOK, FilesOK, StampsOK, BuildOK, RecordOK
<1> USE DEF Phase
<1>1. ASSUME NEW b \in Build, NEW setting \in Setting, NEW cache \in BOOLEAN,
             Start(b, setting, cache)
      PROVE  FilesOK' /\ StampsOK' /\ BuildOK' /\ disturb' \in 0 .. MaxDisturb
  <2>1. RecordOK([Idle(Absent) EXCEPT !.pc = "check", !.setting = setting, !.cache = cache])
    BY IdleOK DEF RecordOK, Field
  <2>2. BuildOK'
    BY <1>1, <2>1, OneRecord DEF Start
  <2>3. QED BY <1>1, <2>2 DEF Start, FilesOK, StampsOK
<1>2. ASSUME NEW b \in Build, Skip(b)
      PROVE  FilesOK' /\ StampsOK' /\ BuildOK' /\ disturb' \in 0 .. MaxDisturb
  <2>1. RecordOK([build[b] EXCEPT !.took = Took(build[b])])
    BY DEF BuildOK, RecordOK, Field
  <2>2. BuildOK'
    BY <1>2, <2>1, AdvancedOK, OneRecord DEF Skip
  <2>3. QED BY <1>2, <2>2 DEF Skip, FilesOK, StampsOK
<1>3. ASSUME NEW b \in Build, Miss(b)
      PROVE  FilesOK' /\ StampsOK' /\ BuildOK' /\ disturb' \in 0 .. MaxDisturb
  <2>1. RecordOK([build[b] EXCEPT !.pc = "read", !.part = 1])
    <3>1. RecordOK(build[b]) /\ build[b].step \in Step
      BY DEF BuildOK, RecordOK
    <3>2. 1 \in Parts(build[b].step)
      BY <3>1, PlanFacts
    <3>3. QED BY <3>1, <3>2, PartOK
  <2>2. BuildOK'
    BY <1>3, <2>1, OneRecord DEF Miss
  <2>3. StampsOK'
    BY <1>3 DEF Miss, StampsOK
  <2>4. QED BY <1>3, <2>2, <2>3 DEF Miss, FilesOK
<1>4. ASSUME NEW b \in Build, Read(b)
      PROVE  FilesOK' /\ StampsOK' /\ BuildOK' /\ disturb' \in 0 .. MaxDisturb
  <2> DEFINE r == build[b]
             part == Part(r.step, r.part)
             new == [r EXCEPT !.pc = "work", !.read = Reading(part, files),
                              !.inputs = IF r.part = 1 THEN Reading(part, files) ELSE @,
                              !.took = Took(r)]
  <2>1. RecordOK(new)
    <3>1. RecordOK(r)
      BY DEF BuildOK
    <3>2. part \in PartType
      BY <3>1, PlanFacts DEF RecordOK
    <3>3. DOMAIN Reading(part, files) \subseteq File
      BY <3>2, ReadSetOK DEF Reading
    <3>4. QED BY <3>1, <3>3 DEF RecordOK, Field
  <2>2. BuildOK'
    BY <1>4, <2>1, OneRecord DEF Read
  <2>3. QED BY <1>4, <2>2 DEF Read, FilesOK, StampsOK
<1>5. ASSUME NEW b \in Build, Open(b)
      PROVE  FilesOK' /\ StampsOK' /\ BuildOK' /\ disturb' \in 0 .. MaxDisturb
  <2>1. BuildOK'
    BY <1>5, PhaseOK, OneRecord DEF Open, BuildOK
  <2>2. QED BY <1>5, <2>1 DEF Open, FilesOK, StampsOK
<1>6. ASSUME NEW b \in Build, Write(b)
      PROVE  FilesOK' /\ StampsOK' /\ BuildOK' /\ disturb' \in 0 .. MaxDisturb
  <2> DEFINE r == build[b]
  <2>1. RecordOK(r)
    BY DEF BuildOK
  <2>2. r.part < Len(Plan[r.step].parts)
          => RecordOK([r EXCEPT !.pc = "read", !.part = r.part + 1])
    <3>1. r.step \in Step /\ r.part \in Parts(r.step)
      BY <2>1 DEF RecordOK
    <3>2. r.part < Len(Plan[r.step].parts) => r.part + 1 \in Parts(r.step)
      BY <3>1, PlanFacts
    <3>3. QED BY <2>1, <3>2, PartOK
  <2>3. RecordOK([r EXCEPT !.pc = "stamp"])
    BY <2>1, PhaseOK
  <2>4. RecordOK(Advanced(r, files'))
    BY <2>1, AdvancedOK
  <2>5. BuildOK'
    BY <1>6, <2>2, <2>3, <2>4, OneRecord DEF Write
  <2>6. QED BY <1>6, <2>5 DEF Write, FilesOK, StampsOK
<1>7. ASSUME NEW b \in Build, WriteStamp(b)
      PROVE  FilesOK' /\ StampsOK' /\ BuildOK' /\ disturb' \in 0 .. MaxDisturb
  <2>1. BuildOK'
    BY <1>7, AdvancedOK, OneRecord DEF WriteStamp, BuildOK
  <2>2. StampsOK'
    <3> DEFINE r == build[b]
               st == [key |-> Key(b), inputs |-> [f \in DOMAIN r.inputs |-> files[f]]]
    <3>1. DOMAIN r.inputs \subseteq File /\ r.step \in Step
      BY DEF BuildOK, RecordOK
    <3>2. DOMAIN st = {"key", "inputs"} /\ DOMAIN st.inputs = DOMAIN r.inputs
      OBVIOUS
    <3>3. UNCHANGED stamps \/ stamps' = [stamps EXCEPT ![r.step] = st]
      BY <1>7 DEF WriteStamp
    <3>4. QED BY <3>1, <3>2, <3>3 DEF StampsOK
  <2>3. QED BY <1>7, <2>1, <2>2 DEF WriteStamp, FilesOK
<1>8. ASSUME NEW b \in Build, Fail(b) \/ Kill(b)
      PROVE  FilesOK' /\ StampsOK' /\ BuildOK' /\ disturb' \in 0 .. MaxDisturb
  <2>1. build' = [build EXCEPT ![b] = Idle(Absent)] /\ UNCHANGED <<files, stamps>>
    BY <1>8 DEF Fail, Kill
  <2>2. BuildOK'
    BY <2>1, IdleOK, OneRecord
  <2>3. disturb' \in 0 .. MaxDisturb
    BY <1>8, FaultAssumption DEF Fail, Kill, Disturb
  <2>4. QED BY <2>1, <2>2, <2>3 DEF FilesOK, StampsOK
<1>9. ASSUME NEW b \in Build, StampTorn(b)
      PROVE  FilesOK' /\ StampsOK' /\ BuildOK' /\ disturb' \in 0 .. MaxDisturb
  <2>1. build' = [build EXCEPT ![b] = Idle(Absent)] /\ UNCHANGED files
    BY <1>9 DEF StampTorn
  <2>2. BuildOK'
    BY <2>1, IdleOK, OneRecord
  <2>3. StampsOK'
    <3>1. PICK kept \in SUBSET DOMAIN build[b].inputs :
            stamps' = [stamps EXCEPT ![build[b].step] =
              [key |-> Key(b), inputs |-> [f \in kept |-> files[f]]]]
      BY <1>9 DEF StampTorn
    <3> DEFINE st == [key |-> Key(b), inputs |-> [f \in kept |-> files[f]]]
    <3>2. DOMAIN st = {"key", "inputs"} /\ DOMAIN st.inputs \subseteq File
      BY DEF BuildOK, RecordOK
    <3>3. QED BY <3>1, <3>2 DEF StampsOK
  <2>4. disturb' \in 0 .. MaxDisturb
    BY <1>9, FaultAssumption DEF StampTorn, Disturb
  <2>5. QED BY <2>1, <2>2, <2>3, <2>4 DEF FilesOK
<1>10. ASSUME NEW f \in File, NEW c, files' = [files EXCEPT ![f] = c],
              Disturb, UNCHANGED <<stamps, build>>
       PROVE  FilesOK' /\ StampsOK' /\ BuildOK' /\ disturb' \in 0 .. MaxDisturb
  <2>1. FilesOK'
    BY <1>10 DEF FilesOK
  <2>2. disturb' \in 0 .. MaxDisturb
    BY <1>10, FaultAssumption DEF Disturb
  <2>3. QED BY <1>10, <2>1, <2>2 DEF StampsOK, BuildOK, RecordOK
<1>11. ASSUME NEW s \in Step, DeleteStamp(s)
       PROVE  FilesOK' /\ StampsOK' /\ BuildOK' /\ disturb' \in 0 .. MaxDisturb
  BY <1>11, FaultAssumption
  DEF DeleteStamp, Disturb, FilesOK, StampsOK, BuildOK, RecordOK
<1>12. CASE UNCHANGED vars
  BY <1>12 DEF vars, FilesOK, StampsOK, BuildOK, RecordOK
<1>13. ASSUME NEW f \in Source, NEW c \in Content, Edit(f, c)
       PROVE  FilesOK' /\ StampsOK' /\ BuildOK' /\ disturb' \in 0 .. MaxDisturb
  BY <1>10, <1>13 DEF Edit, File
<1>14. ASSUME NEW f \in File, Delete(f)
       PROVE  FilesOK' /\ StampsOK' /\ BuildOK' /\ disturb' \in 0 .. MaxDisturb
  BY <1>10, <1>14 DEF Delete
<1>15. QED
  BY <1>1, <1>2, <1>3, <1>4, <1>5, <1>6, <1>7, <1>8, <1>9, <1>11, <1>12, <1>13, <1>14
  DEF Next, Proceed

LEMMA TypeInit == ASSUME Init PROVE TypeOK
<1>1. FilesOK
  BY DEF Init, FilesOK
<1>2. StampsOK
  BY DEF Init, StampsOK
<1>3. BuildOK
  BY IdleOK DEF Init, BuildOK
<1>4. disturb \in 0 .. MaxDisturb
  BY FaultAssumption DEF Init
<1>5. QED BY <1>1, <1>2, <1>3, <1>4 DEF TypeOK, FilesOK, StampsOK, BuildOK, RecordOK

\* The state of cache.rs and flow.rs has its declared shape: TypeOK.
THEOREM TypeInvariant == Spec => []TypeOK
<1>1. Init => TypeOK
  BY TypeInit
<1>2. TypeOK /\ [Next]_vars => TypeOK'
  BY TypeStep
<1>3. QED BY <1>1, <1>2, PTL DEF Spec

-----------------------------------------------------------------------------
(* The stamps.                                                             *)

LEMMA PlanFiles ==
  ASSUME NEW s \in Step
  PROVE  /\ \A p \in Parts(s) : Part(s, p).writes \in Derived
         /\ \A p, q \in Parts(s) : Part(s, p).writes = Part(s, q).writes => p = q
         /\ \A p \in Parts(s) : Part(s, p).writes \notin Part(s, 1).reads
         /\ \A p \in Parts(s) : p > 1 =>
              /\ ~ Part(s, p).frontend
              /\ \A f \in Part(s, p).reads : \E q \in 1 .. p - 1 : f = Part(s, q).writes
         /\ \A t \in Step : \A p \in Parts(s), q \in Parts(t) :
              t # s => Part(t, q).writes # Part(s, p).writes
<1>1. \A p \in Parts(s) : Part(s, p).writes \in Derived
  BY PlanFacts DEF PartType
<1>2. /\ \A p, q \in Parts(s) : Part(s, p).writes = Part(s, q).writes => p = q
      /\ Part(s, 1).reads \cap Outputs(s) = {}
      /\ \A p \in Parts(s) : p > 1 =>
           /\ ~ Part(s, p).frontend
           /\ \A f \in Part(s, p).reads : \E q \in 1 .. p - 1 : f = Part(s, q).writes
      /\ \A t \in Step : t # s => Outputs(s) \cap Outputs(t) = {}
  BY PlanAssumption DEF PlanWellFormed
<1>3. QED BY <1>1, <1>2 DEF Outputs

\* What a part wrote stays as it was when its files and those it was made of
\* are left alone or deleted.
LEMMA PartFitsKept ==
  ASSUME NEW s \in Step, NEW p \in Parts(s), NEW key, NEW in, NEW fs, NEW gs,
         PartFits(fs, s, p, key, in),
         \A q \in 1 .. p : LET o == Part(s, q).writes IN gs[o] = fs[o] \/ gs[o] = Absent
  PROVE  PartFits(gs, s, p, key, in)
<1> SUFFICES ASSUME AllThere(gs, s, p)
             PROVE  gs[Part(s, p).writes] =
                      Produce(Part(s, p).writes, key,
                              IF p = 1 THEN in ELSE [f \in Part(s, p).reads |-> gs[f]])
  BY DEF PartFits
<1>1. p \in Nat /\ p >= 1
  BY PlanFacts
<1>2. \A q \in 1 .. p : gs[Part(s, q).writes] = fs[Part(s, q).writes]
  BY DEF AllThere, Present
<1>3. AllThere(fs, s, p)
  BY <1>2 DEF AllThere, Present
<1>4. gs[Part(s, p).writes] = fs[Part(s, p).writes]
  BY <1>1, <1>2
<1>5. p # 1 => [f \in Part(s, p).reads |-> gs[f]] = [f \in Part(s, p).reads |-> fs[f]]
  BY <1>1, <1>2, PlanFiles
<1>6. QED BY <1>3, <1>4, <1>5 DEF PartFits

LEMMA StampFitsKept ==
  ASSUME NEW s \in Step, NEW stamp, NEW fs, NEW gs,
         StampFits(fs, s, stamp),
         \A q \in Parts(s) : LET o == Part(s, q).writes IN gs[o] = fs[o] \/ gs[o] = Absent
  PROVE  StampFits(gs, s, stamp)
<1>1. \A p \in Parts(s) : \A q \in 1 .. p : q \in Parts(s)
  BY PlanFacts
<1>2. QED BY <1>1, PartFitsKept DEF StampFits

\* A stamp that holds is of outputs a run would write.
LEMMA HoldsFresh ==
  ASSUME SingleCandidate, NEW s \in Step, NEW key,
         StampFits(files, s, stamps[s]), Holds(s, key)
  PROVE  Fresh(s, key)
<1> DEFINE in == stamps[s].inputs
<1>1. /\ SelfRead(Part(s, 1), in)
      /\ \A p \in Parts(s) : PartFits(files, s, p, key, in)
      /\ \A p \in Parts(s) : Present(files, Part(s, p).writes)
      /\ \A f \in DOMAIN in : files[f] = in[f]
  BY DEF Holds, StampFits, Outputs
<1>2. \A p \in Parts(s) : AllThere(files, s, p)
  BY <1>1, PlanFacts DEF AllThere
<1>3. Readable(Part(s, 1), files) /\ Reading(Part(s, 1), files) = in
  <2> DEFINE part == Part(s, 1)
  <2>1. part.reads \subseteq DOMAIN in
    BY <1>1 DEF SelfRead
  <2>2. Includes(part, files) <=> (part.frontend /\ \E f \in part.reads : in[f] \in Including)
    BY <1>1, <2>1 DEF Includes
  <2>3. Includes(part, files) =>
          Resolved(files) = {Candidates[i] : i \in DOMAIN Candidates} /\ Candidates # <<>>
    <3>1. SUFFICES ASSUME Includes(part, files)
                   PROVE  /\ Resolved(files) = {Candidates[i] : i \in DOMAIN Candidates}
                          /\ Candidates # <<>>
      OBVIOUS
    <3>2. Candidates \in Seq(Source) /\ Candidates # <<>>
      BY <1>1, <2>2, <3>1, FileAssumption DEF SelfRead
    <3>3. DOMAIN Candidates = {1}
      <4>1. Len(Candidates) \in Nat /\ DOMAIN Candidates = 1 .. Len(Candidates)
        BY <3>2, LenProperties
      <4>2. Len(Candidates) # 0
        BY <3>2, EmptySeq
      <4>3. Len(Candidates) = 1
        BY <4>1, <4>2 DEF SingleCandidate
      <4>4. QED BY <4>1, <4>3
    <3>4. \A i \in DOMAIN Candidates : Present(files, Candidates[i])
      BY <1>1, <2>2, <3>1 DEF SelfRead, Present
    <3>5. QED BY <3>2, <3>3, <3>4 DEF Resolved
  <2>4. ReadSet(part, files) = DOMAIN in
    BY <1>1, <2>2, <2>3 DEF ReadSet, SelfRead
  <2>5. Reading(part, files) = in
    BY <1>1, <2>4 DEF Reading, SelfRead
  <2>6. \A f \in DOMAIN in : Present(files, f)
    BY <1>1 DEF SelfRead, Present
  <2>7. Includes(part, files) => Resolved(files) # {}
    <3>1. Candidates \in Seq(Source)
      BY FileAssumption
    <3>2. Candidates # <<>> => 1 \in DOMAIN Candidates
      BY <3>1, LenProperties, EmptySeq
    <3>3. QED BY <2>3, <3>2
  <2>8. QED BY <2>1, <2>5, <2>6, <2>7 DEF Readable
<1>4. ASSUME NEW p \in Parts(s), p # 1
      PROVE  Readable(Part(s, p), files) /\ Reading(Part(s, p), files) = [f \in Part(s, p).reads |-> files[f]]
  <2>1. p > 1 /\ \A q \in 1 .. p - 1 : q \in Parts(s)
    BY <1>4, PlanFacts
  <2>2. ~ Part(s, p).frontend /\ \A f \in Part(s, p).reads : Present(files, f)
    BY <1>1, <2>1, PlanFiles
  <2>3. QED BY <2>2 DEF Readable, Reading, ReadSet, Includes
<1>5. QED BY <1>1, <1>2, <1>3, <1>4 DEF Fresh, PartFits

\* What a running step read and wrote stays so when the step's own files are
\* left alone and what it read is left alone or deleted.
LEMMA RunFitsKept ==
  ASSUME NEW r, RecordOK(r), NEW fs, NEW gs, NEW sts, NEW sts2,
         RunFits(fs, sts, r),
         sts[r.step] = NoStamp => sts2[r.step] = NoStamp,
         \A q \in Parts(r.step) :
            LET o == Part(r.step, q).writes IN gs[o] = fs[o] \/ gs[o] = Absent,
         Plan[r.step].stamped => \A f \in DOMAIN r.inputs : gs[f] = fs[f] \/ gs[f] = Absent
  PROVE  RunFits(gs, sts2, r)
<1> SUFFICES ASSUME Running(r), Plan[r.step].stamped
             PROVE  RunFits(gs, sts2, r)
  BY DEF RunFits
<1> DEFINE s == r.step
           key == StepKey(r.step, r.setting)
<1>0. s \in Step /\ r.part \in Parts(s)
  BY DEF RecordOK
<1>1. \A p \in Done(r) : p \in Parts(s)
  BY <1>0, PlanFacts DEF Done
<1>2. \A p \in Done(r) : PartFits(gs, s, p, key, r.inputs)
  <2>1. \A p \in Done(r) : PartFits(fs, s, p, key, r.inputs)
    BY DEF RunFits
  <2>2. \A p \in Parts(s) : \A q \in 1 .. p : q \in Parts(s)
    BY <1>0, PlanFacts
  <2>3. QED BY <1>0, <1>1, <2>1, <2>2, PartFitsKept
<1>3. Unedited(fs, r.inputs) => Unedited(gs, r.inputs)
  BY DEF Unedited
<1>4. ASSUME r.part # 1, Unedited(fs, r.read), r.read = [f \in Part(s, r.part).reads |-> r.read[f]]
      PROVE  Unedited(gs, r.read)
  <2>1. r.part > 1
    BY <1>0, <1>4, PlanFacts
  <2>2. \A f \in DOMAIN r.read : \E q \in 1 .. r.part - 1 : f = Part(s, q).writes
    BY <1>0, <1>4, <2>1, PlanFiles
  <2>3. \A q \in 1 .. r.part - 1 : q \in Parts(s)
    BY <1>0, PlanFacts
  <2>4. QED BY <1>4, <2>2, <2>3 DEF Unedited
<1>5. QED BY <1>2, <1>3, <1>4 DEF RunFits

\* A part at work, its own file apart.
OnTrack(fs, sts, r) ==
  /\ sts[r.step] = NoStamp
  /\ SelfRead(Part(r.step, 1), r.inputs) /\ Unedited(fs, r.inputs)
  /\ \A p \in 1 .. r.part - 1 :
       PartFits(fs, r.step, p, StepKey(r.step, r.setting), r.inputs)
  /\ IF r.part = 1 THEN r.read = r.inputs
     ELSE r.read = [f \in Part(r.step, r.part).reads |-> r.read[f]] /\ Unedited(fs, r.read)

SameBut(w, fs, gs) == \A f : f # w => gs[f] = fs[f]

\* The running step writes one of its own files: what it read, and what its
\* earlier parts wrote, is as it was.
LEMMA RunsOn ==
  ASSUME NEW r, RecordOK(r), NEW fs, NEW gs,
         NEW sts, r.pc \in {"work", "write"}, Plan[r.step].stamped, RunFits(fs, sts, r),
         SameBut(Part(r.step, r.part).writes, fs, gs)
  PROVE  OnTrack(gs, sts, r)
<1> DEFINE s == r.step
           w == Part(s, r.part).writes
<1>0. s \in Step /\ r.part \in Parts(s) /\ r.part \in Nat /\ r.part >= 1
  BY PlanFacts DEF RecordOK
<1> USE DEF SameBut
<1>1. /\ sts[s] = NoStamp
      /\ SelfRead(Part(s, 1), r.inputs) /\ Unedited(fs, r.inputs)
      /\ \A p \in 1 .. r.part - 1 : PartFits(fs, s, p, StepKey(s, r.setting), r.inputs)
      /\ IF r.part = 1 THEN r.read = r.inputs
         ELSE r.read = [f \in Part(s, r.part).reads |-> r.read[f]] /\ Unedited(fs, r.read)
  BY DEF RunFits, Running, Done
<1>2. w \notin DOMAIN r.inputs
  <2>1. w \in Derived /\ w \notin Part(s, 1).reads
    BY <1>0, PlanFiles
  <2>2. \A i \in DOMAIN Candidates : Candidates[i] \in Source
    BY FileAssumption, LenProperties, ElementOfSeq
  <2>3. w \notin Source
    BY <2>1, FileAssumption
  <2>4. QED BY <1>1, <2>1, <2>2, <2>3 DEF SelfRead
<1>3. \A p \in 1 .. r.part - 1 : p \in Parts(s) /\ Part(s, p).writes # w
  <2>1. \A p \in 1 .. r.part - 1 : p \in Parts(s) /\ p # r.part
    BY <1>0, PlanFacts
  <2>2. QED BY <1>0, <2>1, PlanFiles
<1>4. \A p \in 1 .. r.part - 1 : PartFits(gs, s, p, StepKey(s, r.setting), r.inputs)
  <2> SUFFICES ASSUME NEW p \in 1 .. r.part - 1
               PROVE  PartFits(gs, s, p, StepKey(s, r.setting), r.inputs)
    OBVIOUS
  <2>1. \A q \in 1 .. p : q \in 1 .. r.part - 1
    BY <1>0
  <2>2. \A q \in 1 .. p : gs[Part(s, q).writes] = fs[Part(s, q).writes]
    BY <1>3, <2>1
  <2>3. QED BY <1>0, <1>1, <1>3, <2>2, PartFitsKept
<1>5. r.part # 1 => Unedited(gs, r.read)
  <2> SUFFICES ASSUME r.part # 1 PROVE Unedited(gs, r.read)
    OBVIOUS
  <2>1. \A f \in DOMAIN r.read : \E q \in 1 .. r.part - 1 : f = Part(s, q).writes
    <3>1. r.part > 1 /\ DOMAIN r.read = Part(s, r.part).reads
      BY <1>0, <1>1
    <3>2. QED BY <1>0, <3>1, PlanFiles
  <2>2. QED BY <1>1, <1>3, <2>1 DEF Unedited
<1>6. QED BY <1>1, <1>2, <1>4, <1>5 DEF Unedited, OnTrack

StampsFit == \A s \in Step : StampFits(files, s, stamps[s])
RunsFit == \A b \in Build : RunFits(files, stamps, build[b])

\* A step of the one build that runs, or of the one that starts.
LEMMA Alone ==
  ASSUME TypeOK, OneAtATime, NEW b \in Build, NEW r, build' = [build EXCEPT ![b] = r],
         build[b].pc # "idle" \/ \A c \in Build : build[c].pc = "idle"
  PROVE  /\ OneAtATime'
         /\ build'[b] = r
         /\ RunFits(files', stamps', r) => RunsFit'
<1>1. \A c \in Build : build'[c] = IF c = b THEN r ELSE build[c]
  BY DEF TypeOK
<1>2. \A c \in Build : c # b => build[c].pc = "idle"
  BY DEF OneAtATime
<1>3. OneAtATime'
  BY <1>1, <1>2 DEF OneAtATime
<1>4. ASSUME RunFits(files', stamps', r), NEW c \in Build
      PROVE  RunFits(files', stamps', build'[c])
  BY <1>1, <1>2, <1>4 DEF RunFits, Running
<1>5. QED BY <1>1, <1>3, <1>4 DEF RunsFit

LEMMA NotRunning ==
  ASSUME NEW r, NEW fs, NEW sts, r.pc \in {"idle", "check"} PROVE RunFits(fs, sts, r)
BY DEF RunFits, Running

\* A part's own file is in the way of no other step's stamp.
LEMMA OwnFile ==
  ASSUME StampsFit, NEW r, RecordOK(r), RunFits(files, stamps, r), Running(r),
         UNCHANGED stamps, \A f : f # Part(r.step, r.part).writes => files'[f] = files[f]
  PROVE  StampsFit'
<1> SUFFICES ASSUME NEW s \in Step PROVE StampFits(files', s, stamps[s])
  BY DEF StampsFit
<1>1. CASE s = r.step
  BY <1>1 DEF StampFits, RunFits
<1>2. CASE s # r.step
  <2>1. \A q \in Parts(s) : Part(s, q).writes # Part(r.step, r.part).writes
    BY <1>2, PlanFiles DEF RecordOK
  <2>2. QED BY <2>1, StampFitsKept DEF StampsFit
<1>3. QED BY <1>1, <1>2

LEMMA FreshStep ==
  ASSUME Faults = {}, SingleCandidate, IInv, [Next]_vars PROVE IInv'
<1>0. TypeOK' /\ TypeOK /\ OneAtATime /\ StampsFit /\ RunsFit
  BY TypeStep DEF IInv, StampsFit, RunsFit
<1>t. /\ \A b \in Build : RecordOK(build[b])
      /\ \A f \in File : \A c : [files EXCEPT ![f] = c][f] = c
      /\ \A f, g \in File : \A c : g # f => [files EXCEPT ![f] = c][g] = files[g]
  BY <1>0 DEF TypeOK, RecordOK
<1> SUFFICES OneAtATime' /\ StampsFit' /\ RunsFit'
  BY <1>0 DEF IInv, StampsFit, RunsFit
<1>1. ASSUME NEW b \in Build, NEW setting \in Setting, NEW cache \in BOOLEAN,
             Start(b, setting, cache)
      PROVE  OneAtATime' /\ StampsFit' /\ RunsFit'
  <2> DEFINE r == [Idle(Absent) EXCEPT !.pc = "check", !.setting = setting, !.cache = cache]
  <2>1. RunFits(files', stamps', r)
    <3>1. r.pc = "check"
      BY DEF Idle
    <3>2. QED BY <3>1 DEF RunFits, Running
  <2>2. /\ UNCHANGED <<files, stamps>> /\ build' = [build EXCEPT ![b] = r]
        /\ \A c \in Build : build[c].pc = "idle"
    BY <1>1 DEF Start
  <2> HIDE DEF r
  <2>3. OneAtATime' /\ RunsFit'
    BY <1>0, <2>1, <2>2, Alone
  <2>4. QED BY <1>0, <2>2, <2>3 DEF StampsFit
<1>2. ASSUME NEW b \in Build, Skip(b)
      PROVE  OneAtATime' /\ StampsFit' /\ RunsFit'
  <2> DEFINE old == [build[b] EXCEPT !.took = Took(build[b])]
             r == Advanced(old, files)
  <2>1. RunFits(files', stamps', r)
    <3>1. RecordOK(old)
      BY <1>t DEF RecordOK, Field
    <3>2. r.pc \in {"idle", "check"}
      BY <3>1, AdvancedOK
    <3>3. QED BY <3>2, NotRunning
  <2>2. /\ UNCHANGED <<files, stamps>> /\ build' = [build EXCEPT ![b] = r]
        /\ build[b].pc # "idle"
    BY <1>2 DEF Skip
  <2> HIDE DEF r
  <2>3. OneAtATime' /\ RunsFit'
    BY <1>0, <2>1, <2>2, Alone
  <2>4. QED BY <1>0, <2>2, <2>3 DEF StampsFit
<1>3. ASSUME NEW b \in Build, Miss(b)
      PROVE  OneAtATime' /\ StampsFit' /\ RunsFit'
  <2> DEFINE s == build[b].step
             r == [build[b] EXCEPT !.pc = "read", !.part = 1]
  <2>1. r.pc = "read" /\ r.part = 1 /\ r.step = s
    BY <1>t DEF RecordOK, Field
  <2>2. \A t \in Step : stamps'[t] = IF t = s THEN NoStamp ELSE stamps[t]
    BY <1>0, <1>3 DEF Miss, TypeOK
  <2>3. RunFits(files', stamps', r)
    <3>1. stamps'[s] = NoStamp
      BY <1>t, <2>2 DEF RecordOK
    <3>2. Done(r) = {}
      BY <2>1 DEF Done
    <3>3. QED BY <2>1, <3>1, <3>2 DEF RunFits
  <2>4. StampsFit'
    BY <1>0, <1>3, <2>2 DEF Miss, StampsFit, StampFits
  <2>5. build' = [build EXCEPT ![b] = r] /\ build[b].pc # "idle"
    <3>1. [build EXCEPT ![b].pc = "read", ![b].part = 1] = [build EXCEPT ![b] = r]
      BY <1>0 DEF TypeOK
    <3>2. QED BY <1>3, <3>1 DEF Miss
  <2> HIDE DEF r
  <2>6. QED BY <1>0, <2>3, <2>4, <2>5, Alone
<1>4. ASSUME NEW b \in Build, Read(b)
      PROVE  OneAtATime' /\ StampsFit' /\ RunsFit'
  <2> DEFINE old == build[b]
             part == Part(old.step, old.part)
             in == Reading(part, files)
             r == [old EXCEPT !.pc = "work", !.read = in,
                              !.inputs = IF old.part = 1 THEN in ELSE @, !.took = Took(old)]
  <2>1. /\ r.pc = "work" /\ r.part = old.part /\ r.step = old.step /\ r.setting = old.setting
        /\ r.read = in /\ r.inputs = IF old.part = 1 THEN in ELSE old.inputs
    BY <1>t DEF RecordOK, Field
  <2>2. /\ old.pc = "read" /\ Readable(part, files) /\ UNCHANGED <<files, stamps>>
        /\ build' = [build EXCEPT ![b] = r]
    BY <1>4 DEF Read
  <2>3. RunFits(files, stamps, old) /\ old.step \in Step /\ old.part \in Parts(old.step)
    BY <1>0, <1>t DEF RunsFit, RecordOK
  <2>4. in = [f \in DOMAIN in |-> in[f]] /\ \A f \in DOMAIN in : in[f] = files[f]
    BY DEF Reading
  <2>5. CASE old.part = 1
    <3>1. SelfRead(part, in)
      <4>1. part.reads \subseteq DOMAIN in /\ DOMAIN in = ReadSet(part, files)
        BY DEF Reading, ReadSet
      <4>2. Includes(part, files) <=> (part.frontend /\ \E f \in part.reads : in[f] \in Including)
        BY <2>4, <4>1 DEF Includes
      <4>3. Includes(part, files) =>
              Resolved(files) = {Candidates[i] : i \in DOMAIN Candidates} /\ Candidates # <<>>
        <5> SUFFICES ASSUME Includes(part, files)
                     PROVE  /\ Resolved(files) = {Candidates[i] : i \in DOMAIN Candidates}
                            /\ Candidates # <<>>
          OBVIOUS
        <5>1. PICK i \in DOMAIN Candidates : Present(files, Candidates[i])
          BY <2>2 DEF Readable, Resolved
        <5>2. Candidates \in Seq(Source)
          BY FileAssumption
        <5>3. DOMAIN Candidates = 1 .. Len(Candidates) /\ Len(Candidates) \in Nat
          BY <5>2, LenProperties
        <5>4. DOMAIN Candidates = {1} /\ i = 1
          BY <5>1, <5>3 DEF SingleCandidate
        <5>5. Candidates # <<>>
          BY <5>4
        <5>6. QED BY <5>1, <5>4, <5>5 DEF Resolved
      <4>4. \A f \in DOMAIN in : in[f] # Absent
        BY <2>2, <2>4, <4>1 DEF Readable, ReadSet, Resolved, Present
      <4>5. QED BY <2>4, <4>1, <4>2, <4>3, <4>4 DEF SelfRead, ReadSet
    <3>2. Unedited(files, in)
      BY <2>4 DEF Unedited
    <3>3. Done(r) = {}
      BY <2>1, <2>5 DEF Done
    <3>4. Plan[r.step].stamped => stamps[r.step] = NoStamp
      BY <2>1, <2>2, <2>3 DEF RunFits, Running
    <3>5. RunFits(files, stamps, r)
      BY <2>1, <2>5, <3>1, <3>2, <3>3, <3>4 DEF RunFits
    <3>6. QED BY <1>0, <2>2, <3>5, Alone DEF StampsFit
  <2>6. CASE old.part # 1
    <3>1. in = [f \in part.reads |-> in[f]]
      <4>1. old.part > 1
        BY <2>3, <2>6, PlanFacts
      <4>2. ~ part.frontend
        BY <2>3, <4>1, PlanFiles
      <4>3. QED BY <4>2 DEF Reading, ReadSet, Includes
    <3>2. Unedited(files, in)
      BY <2>4 DEF Unedited
    <3>3. Done(r) = Done(old)
      BY <2>1, <2>2 DEF Done
    <3>4. RunFits(files, stamps, r)
      BY <2>1, <2>2, <2>3, <2>6, <3>1, <3>2, <3>3 DEF RunFits, Running
    <3>5. QED BY <1>0, <2>2, <3>4, Alone DEF StampsFit
  <2>7. QED BY <2>5, <2>6
<1>5. ASSUME NEW b \in Build, Open(b)
      PROVE  OneAtATime' /\ StampsFit' /\ RunsFit'
  <2> DEFINE old == build[b]
             w == Part(old.step, old.part).writes
             r == [old EXCEPT !.pc = "write"]
  <2>1. old.pc = "work" /\ UNCHANGED stamps /\ build' = [build EXCEPT ![b] = r]
    BY <1>5 DEF Open
  <2>2. \A f : f # w => files'[f] = files[f]
    BY <1>5, <1>t DEF Open
  <2>3. RecordOK(old) /\ RunFits(files, stamps, old) /\ Running(old)
    BY <1>0, <1>t, <2>1 DEF RunsFit, Running
  <2>4. StampsFit'
    BY <1>0, <2>1, <2>2, <2>3, OwnFile
  <2>5. /\ r.pc = "write" /\ r.part = old.part /\ r.step = old.step /\ r.setting = old.setting
        /\ r.read = old.read /\ r.inputs = old.inputs
    BY <1>t DEF RecordOK, Field
  <2>6. RunFits(files', stamps, r)
    <3> SUFFICES ASSUME Plan[old.step].stamped PROVE RunFits(files', stamps, r)
      BY <2>5 DEF RunFits
    <3>1. OnTrack(files', stamps, old)
      <4>1. old.pc \in {"work", "write"}
        BY <2>1
      <4>2. SameBut(Part(old.step, old.part).writes, files, files')
        BY <2>2 DEF SameBut
      <4> HIDE DEF old
      <4>3. QED BY <2>3, <4>1, <4>2, RunsOn
    <3>2. Done(r) = 1 .. old.part - 1
      BY <2>5 DEF Done
    <3>3. QED BY <2>5, <3>1, <3>2 DEF RunFits, OnTrack
  <2>7. QED BY <1>0, <2>1, <2>4, <2>6, Alone
<1>6. ASSUME NEW b \in Build, Write(b)
      PROVE  OneAtATime' /\ StampsFit' /\ RunsFit'
  <2> DEFINE old == build[b]
             s == old.step
             key == StepKey(s, old.setting)
             w == Part(s, old.part).writes
             next == [old EXCEPT !.pc = "read", !.part = old.part + 1]
             done == [old EXCEPT !.pc = "stamp"]
             r == IF old.part < Len(Plan[s].parts) THEN next
                  ELSE IF Plan[s].stamped THEN done ELSE Advanced(old, files')
  <2>1. /\ old.pc = "write" /\ UNCHANGED stamps /\ build' = [build EXCEPT ![b] = r]
        /\ files' = [files EXCEPT ![w] = IF @ = Absent THEN Absent ELSE Produce(w, key, old.read)]
    BY <1>6 DEF Write, Key
  <2>2. \A f : f # w => files'[f] = files[f]
    BY <2>1, <1>t
  <2>3. RecordOK(old) /\ RunFits(files, stamps, old) /\ Running(old)
    BY <1>0, <1>t, <2>1 DEF RunsFit, Running
  <2>4. s \in Step /\ old.part \in Parts(s) /\ old.part \in Nat /\ old.part >= 1
    BY <2>3, PlanFacts DEF RecordOK
  <2>5. files'[w] # Absent => files'[w] = Produce(w, key, old.read)
    <3>1. w \in File
      BY <2>4, PlanFiles DEF File
    <3>2. files'[w] = IF files[w] = Absent THEN Absent ELSE Produce(w, key, old.read)
      BY <2>1, <3>1, <1>0 DEF TypeOK
    <3>3. QED BY <3>2
  <2>6. StampsFit'
    BY <1>0, <2>1, <2>2, <2>3, OwnFile
  <2>7. ASSUME Plan[s].stamped
        PROVE  /\ stamps[s] = NoStamp
               /\ SelfRead(Part(s, 1), old.inputs) /\ Unedited(files', old.inputs)
               /\ \A p \in 1 .. old.part : PartFits(files', s, p, key, old.inputs)
    <3>1. OnTrack(files', stamps, old)
      <4>1. old.pc \in {"work", "write"}
        BY <2>1
      <4>2. SameBut(Part(old.step, old.part).writes, files, files')
        BY <2>2 DEF SameBut
      <4>3. Plan[old.step].stamped
        BY <2>7
      <4> HIDE DEF old, r, next, done
      <4>4. QED BY <2>3, <4>1, <4>2, <4>3, RunsOn
    <3>2. PartFits(files', s, old.part, key, old.inputs)
      <4> SUFFICES ASSUME AllThere(files', s, old.part)
                   PROVE  files'[w] = Produce(w, key,
                            IF old.part = 1 THEN old.inputs
                            ELSE [f \in Part(s, old.part).reads |-> files'[f]])
        BY DEF PartFits
      <4>1. files'[w] # Absent
        BY <2>4 DEF AllThere, Present
      <4>2. CASE old.part = 1
        BY <4>1, <4>2, <2>5, <3>1 DEF OnTrack
      <4>3. CASE old.part # 1
        <5>1. \A f \in Part(s, old.part).reads : files'[f] # Absent
          <6>1. old.part > 1 /\ \A q \in 1 .. old.part - 1 : q \in 1 .. old.part
            BY <2>4, <4>3
          <6>2. QED BY <2>4, <6>1, PlanFiles DEF AllThere, Present
        <5>2. \A f \in Part(s, old.part).reads : files'[f] = old.read[f]
          BY <3>1, <4>3, <5>1 DEF Unedited, OnTrack
        <5>3. [f \in Part(s, old.part).reads |-> files'[f]] = old.read
          BY <3>1, <4>3, <5>2 DEF OnTrack
        <5>4. QED BY <2>5, <4>1, <4>3, <5>3
      <4>4. QED BY <4>2, <4>3
    <3>3. \A p \in 1 .. old.part : p = old.part \/ p \in 1 .. old.part - 1
      BY <2>4
    <3>4. QED BY <3>1, <3>2, <3>3 DEF OnTrack
  <2>8. RunFits(files', stamps, r)
    <3>1. CASE ~ Plan[s].stamped
      <4>1. next.step = s /\ RunFits(files', stamps, next)
        BY <2>3, <3>1 DEF RecordOK, Field, RunFits
      <4>2. Advanced(old, files').pc \in {"idle", "check"}
        BY <2>3, AdvancedOK
      <4>3. RunFits(files', stamps, Advanced(old, files'))
        BY <4>2, NotRunning
      <4>4. r = next \/ r = Advanced(old, files')
        BY <3>1
      <4>5. ASSUME r = next PROVE RunFits(files', stamps, r)
        BY <4>1, <4>5
      <4>6. ASSUME r = Advanced(old, files') PROVE RunFits(files', stamps, r)
        BY <4>3, <4>6
      <4>7. QED BY <4>4, <4>5, <4>6
    <3>2. CASE Plan[s].stamped /\ old.part < Len(Plan[s].parts)
      <4>1. /\ next.pc = "read" /\ next.part = old.part + 1 /\ next.step = s
            /\ next.setting = old.setting /\ next.inputs = old.inputs
        BY <2>3 DEF RecordOK, Field
      <4>2. Done(next) = 1 .. old.part
        BY <2>4, <4>1 DEF Done
      <4>3. RunFits(files', stamps, next)
        BY <2>7, <3>2, <4>1, <4>2 DEF RunFits
      <4>4. QED BY <3>2, <4>3
    <3>3. CASE Plan[s].stamped /\ ~ (old.part < Len(Plan[s].parts))
      <4>1. /\ done.pc = "stamp" /\ done.step = s /\ done.setting = old.setting
            /\ done.inputs = old.inputs
        BY <2>3 DEF RecordOK, Field
      <4>2. Done(done) = Parts(s) /\ Parts(s) = 1 .. old.part
        BY <2>4, <3>3, <4>1, PlanFacts DEF Done
      <4>3. RunFits(files', stamps, done)
        BY <2>7, <3>3, <4>1, <4>2 DEF RunFits
      <4>4. QED BY <3>3, <4>3
    <3>4. QED BY <3>1, <3>2, <3>3
  <2>9. QED BY <1>0, <2>1, <2>6, <2>8, Alone
<1>7. ASSUME NEW b \in Build, WriteStamp(b)
      PROVE  OneAtATime' /\ StampsFit' /\ RunsFit'
  <2> DEFINE old == build[b]
             s == old.step
             st == [key |-> StepKey(s, old.setting),
                    inputs |-> [f \in DOMAIN old.inputs |-> files[f]]]
  <2>1. /\ old.pc = "stamp" /\ UNCHANGED files
        /\ build' = [build EXCEPT ![b] = Advanced(old, files)]
        /\ \/ UNCHANGED stamps
           \/ /\ \A f \in DOMAIN old.inputs : files[f] # Absent
              /\ stamps' = [stamps EXCEPT ![s] = st]
    BY <1>7 DEF WriteStamp, Key, Present
  <2>2. RecordOK(old) /\ RunFits(files, stamps, old) /\ Running(old)
    BY <1>0, <1>t, <2>1 DEF RunsFit, Running
  <2>3. OneAtATime' /\ RunsFit'
    <3> DEFINE r == Advanced(old, files)
    <3>1. r.pc \in {"idle", "check"}
      BY <2>2, AdvancedOK
    <3>2. RunFits(files', stamps', r)
      BY <3>1, NotRunning
    <3>3. build' = [build EXCEPT ![b] = r] /\ build[b].pc # "idle"
      BY <2>1
    <3> HIDE DEF r
    <3>4. QED BY <1>0, <3>2, <3>3, Alone
  <2>4. ASSUME Plan[s].stamped, \A f \in DOMAIN old.inputs : files[f] # Absent
        PROVE  StampFits(files, s, st)
    <3>1. /\ SelfRead(Part(s, 1), old.inputs) /\ Unedited(files, old.inputs)
          /\ \A p \in Parts(s) : PartFits(files, s, p, StepKey(s, old.setting), old.inputs)
      BY <2>1, <2>2, <2>4 DEF RunFits, Done
    <3>2. st.inputs = old.inputs
      BY <2>4, <3>1 DEF SelfRead, Unedited
    <3>3. st.key = StepKey(s, old.setting)
      OBVIOUS
    <3>4. QED BY <3>1, <3>2, <3>3 DEF StampFits
  <2>5. StampsFit'
    <3> SUFFICES ASSUME NEW t \in Step PROVE StampFits(files, t, stamps'[t])
      BY <2>1 DEF StampsFit
    <3>1. CASE stamps'[t] = stamps[t]
      BY <1>0, <3>1 DEF StampsFit
    <3>2. CASE t = s /\ stamps'[t] = st /\ \A f \in DOMAIN old.inputs : files[f] # Absent
      BY <2>4, <3>2 DEF StampFits
    <3>3. QED
      <4>1. stamps' = [stamps EXCEPT ![s] = st] => stamps'[t] = IF t = s THEN st ELSE stamps[t]
        BY <1>0 DEF TypeOK
      <4>2. QED BY <2>1, <3>1, <3>2, <4>1
  <2>6. QED BY <2>3, <2>5
<1>8. ASSUME NEW b \in Build, Fail(b) \/ Kill(b)
      PROVE  OneAtATime' /\ StampsFit' /\ RunsFit'
  <2>1. /\ build[b].pc # "idle" /\ UNCHANGED <<files, stamps>>
        /\ build' = [build EXCEPT ![b] = Idle(Absent)]
    BY <1>8 DEF Fail, Kill
  <2>2. RunFits(files', stamps', Idle(Absent))
    BY IdleOK, NotRunning
  <2>3. OneAtATime' /\ RunsFit'
    BY <1>0, <2>1, <2>2, Alone
  <2>4. QED BY <1>0, <2>1, <2>3 DEF StampsFit
<1>9. ASSUME NEW f \in Source, NEW c \in Content, Edit(f, c)
      PROVE  OneAtATime' /\ StampsFit' /\ RunsFit'
  <2>1. /\ UNCHANGED <<stamps, build>> /\ \A g : g # f => files'[g] = files[g]
        /\ \A b \in Build : Plan[build[b].step].stamped => f \notin DOMAIN build[b].inputs
    BY <1>9, <1>t DEF Edit, Pending
  <2>2. \A s \in Step : \A q \in Parts(s) : files'[Part(s, q).writes] = files[Part(s, q).writes]
    <3>1. \A s \in Step : \A q \in Parts(s) : Part(s, q).writes # f
      BY PlanFiles, FileAssumption
    <3>2. QED BY <2>1, <3>1
  <2>3. StampsFit'
    BY <1>0, <2>1, <2>2, StampFitsKept DEF StampsFit
  <2>4. \A b \in Build : build[b].step \in Step
    BY <1>t DEF RecordOK
  <2>5. RunsFit'
    BY <1>0, <1>t, <2>1, <2>2, <2>4, RunFitsKept DEF RunsFit
  <2>6. QED BY <1>0, <2>1, <2>3, <2>5 DEF OneAtATime
<1>10. ASSUME NEW f \in File, Delete(f)
       PROVE  OneAtATime' /\ StampsFit' /\ RunsFit'
  <2>1. UNCHANGED <<stamps, build>> /\ \A g : files'[g] = files[g] \/ files'[g] = Absent
    BY <1>10, <1>t DEF Delete
  <2>2. StampsFit'
    BY <1>0, <2>1, StampFitsKept DEF StampsFit
  <2>3. RunsFit'
    BY <1>0, <1>t, <2>1, RunFitsKept DEF RunsFit
  <2>4. QED BY <1>0, <2>1, <2>2, <2>3 DEF OneAtATime
<1>11. ASSUME NEW s \in Step, DeleteStamp(s)
       PROVE  OneAtATime' /\ StampsFit' /\ RunsFit'
  <2>1. /\ UNCHANGED <<files, build>>
        /\ \A t \in Step : stamps'[t] = stamps[t] \/ stamps'[t] = NoStamp
    BY <1>0, <1>11 DEF DeleteStamp, TypeOK
  <2>2. StampsFit'
    BY <1>0, <2>1 DEF StampsFit, StampFits
  <2>3. RunsFit'
    BY <1>0, <1>t, <2>1 DEF RunsFit, RunFits, RecordOK
  <2>4. QED BY <1>0, <2>1, <2>2, <2>3 DEF OneAtATime
<1>12. ASSUME NEW b \in Build, StampTorn(b)
       PROVE  OneAtATime' /\ StampsFit' /\ RunsFit'
  BY <1>12 DEF StampTorn
<1>13. CASE UNCHANGED vars
  BY <1>0, <1>13 DEF vars, OneAtATime, StampsFit, RunsFit
<1>14. QED
  BY <1>1, <1>2, <1>3, <1>4, <1>5, <1>6, <1>7, <1>8, <1>9, <1>10, <1>11, <1>12, <1>13
  DEF Next, Proceed

\* The inductive invariant holds at first.
LEMMA StartsFresh == ASSUME Init PROVE IInv
<1>1. \A b \in Build : build[b] = Idle(Absent)
  BY DEF Init
<1>2. \A s \in Step : stamps[s] = NoStamp
  BY DEF Init
<1>3. TypeOK
  BY TypeInit
<1>4. OneAtATime
  BY <1>1, IdleOK DEF OneAtATime
<1> QED
  BY <1>1, <1>2, <1>3, <1>4, IdleOK, NotRunning DEF IInv, StampFits

\* Without an edit under a running step, a second build beside it, a stamp
\* cut short or a second place for a header, a step that cache.rs skips has
\* the outputs a run of it would write: UpToDateIsFresh.
THEOREM Freshness ==
  ASSUME Faults = {}, SingleCandidate PROVE Spec => []UpToDateIsFresh
<1>1. Init => IInv
  BY StartsFresh
<1>2. IInv /\ [Next]_vars => IInv'
  BY FreshStep
<1>3. IInv => UpToDateIsFresh
  BY HoldsFresh DEF IInv, UpToDateIsFresh
<1>4. QED BY <1>1, <1>2, <1>3, PTL DEF Spec

-----------------------------------------------------------------------------
(***************************************************************************)
(* What a clean build leaves.                                              *)
(***************************************************************************)

\* The first part reads sources, alone in having a front end; every other
\* step reads what earlier steps wrote.
InOrder ==
  /\ Len(Plan) > 1
  /\ Source # {}
  /\ Part(1, 1).reads \subseteq Source
  /\ \A s \in Step : s > 1 =>
       /\ ~ Part(s, 1).frontend
       /\ \A f \in Part(s, 1).reads : \E t \in 1 .. s - 1 : f \in Outputs(t)

LEMMA UpTo ==
  ASSUME NEW n \in Nat, NEW G, 0 \in G, \A m \in Nat : m < n /\ m \in G => m + 1 \in G
  PROVE  \A m \in 0 .. n : m \in G
<1> DEFINE R == {x \in Nat \X Nat : x[1] < x[2]}
           B == {m \in 0 .. n : m \notin G}
<1>1. IsWellFoundedOn(R, Nat)
  BY NatLessThanWellFounded DEF OpToRel
<1>2. \A x, y \in Nat : y < x <=> <<y, x>> \in R
  OBVIOUS
<1>3. B \subseteq Nat
  OBVIOUS
<1> SUFFICES B = {}
  OBVIOUS
<1> SUFFICES ASSUME B # {} PROVE FALSE
  OBVIOUS
<1>4. PICK m \in B : \A k \in B : ~ (<<k, m>> \in R)
  <2> HIDE DEF R, B
  <2> QED
    BY <1>1, <1>3, WFMin
<1>5. m # 0
  OBVIOUS
<1>6. m - 1 \in Nat /\ m - 1 < m /\ m - 1 < n /\ m - 1 + 1 = m
  BY <1>5
<1>7. m - 1 \notin B
  BY <1>2, <1>3, <1>4, <1>6
<1>8. m - 1 \in G
  BY <1>6, <1>7
<1> QED
  BY <1>6, <1>8

\* The two recursive functions are what their equations say.
LEMMA PartsRun ==
  ASSUME NEW fs, NEW s \in Step, NEW setting
  PROVE  LET after == AfterParts(fs, s, setting)
             last == Len(Plan[s].parts)
         IN  /\ after[0] = fs
             /\ \A p \in 1 .. last : after[p] = RunPart(after[p - 1], s, Part(s, p), setting)
<1> DEFINE Do(h, p) == RunPart(h, s, Part(s, p), setting)
           last == Len(Plan[s].parts)
           Runs(g, m) == g = [p \in 0 .. m |-> IF p = 0 THEN fs ELSE Do(g[p - 1], p)]
           G == {m \in Nat : \E g : Runs(g, m)}
<1>1. last \in Nat
  BY PlanFacts
<1>2. AfterParts(fs, s, setting) = CHOOSE g : Runs(g, last)
  BY DEF AfterParts
<1> HIDE DEF Do, last
<1>3. 0 \in G
  <2>1. Runs([p \in {0} |-> fs], 0)
    OBVIOUS
  <2> QED
    BY <2>1
<1>4. \A m \in Nat : m < last /\ m \in G => m + 1 \in G
  <2> SUFFICES ASSUME NEW m \in Nat, NEW g, Runs(g, m)
               PROVE  \E h : Runs(h, m + 1)
    OBVIOUS
  <2> DEFINE h == [p \in 0 .. m + 1 |-> IF p = m + 1 THEN Do(g[m], m + 1) ELSE g[p]]
  <2>1. ASSUME NEW p \in 0 .. m + 1
        PROVE  h[p] = IF p = 0 THEN fs ELSE Do(h[p - 1], p)
    <3>1. CASE p = m + 1
      <4>1. p - 1 = m /\ h[m] = g[m]
        BY <3>1
      <4> QED
        BY <3>1, <4>1
    <3>2. CASE p # m + 1
      <4>1. p \in 0 .. m /\ h[p] = g[p]
        BY <3>2
      <4>2. p # 0 => p - 1 \in 0 .. m /\ h[p - 1] = g[p - 1]
        BY <4>1
      <4> QED
        BY <4>1, <4>2
    <3> QED
      BY <3>1, <3>2
  <2>2. h = [p \in 0 .. m + 1 |-> h[p]]
    OBVIOUS
  <2> HIDE DEF h
  <2>3. Runs(h, m + 1)
    BY <2>1, <2>2
  <2> QED
    BY <2>3
<1>5. last \in G
  <2> HIDE DEF G
  <2> QED
    BY <1>1, <1>3, <1>4, UpTo
<1>6. Runs(AfterParts(fs, s, setting), last)
  <2>1. \E g : Runs(g, last)
    BY <1>5
  <2> HIDE DEF Runs
  <2> QED
    BY <1>2, <2>1
<1>7. AfterParts(fs, s, setting)[0] = fs
  BY <1>1, <1>6
<1>8. \A p \in 1 .. last : AfterParts(fs, s, setting)[p] = Do(AfterParts(fs, s, setting)[p - 1], p)
  BY <1>1, <1>6
<1> QED
  BY <1>7, <1>8 DEF Do, last

Blank(src) == [f \in File |-> IF f \in Source THEN src[f] ELSE Absent]

LEMMA StepsRun ==
  ASSUME NEW setting, NEW src
  PROVE  LET after == AfterSteps(setting, src)
         IN  /\ after[0] = Blank(src)
             /\ \A s \in Step : after[s] = RunStep(after[s - 1], s, setting)
<1> DEFINE Do(h, s) == RunStep(h, s, setting)
           fs == Blank(src)
           last == Len(Plan)
           Runs(g, m) == g = [s \in 0 .. m |-> IF s = 0 THEN fs ELSE Do(g[s - 1], s)]
           G == {m \in Nat : \E g : Runs(g, m)}
<1>1. last \in Nat
  BY PlanFacts
<1>2. AfterSteps(setting, src) = CHOOSE g : Runs(g, last)
  BY DEF AfterSteps, Blank
<1> HIDE DEF Do, last, fs
<1>3. 0 \in G
  <2>1. Runs([p \in {0} |-> fs], 0)
    OBVIOUS
  <2> QED
    BY <2>1
<1>4. \A m \in Nat : m < last /\ m \in G => m + 1 \in G
  <2> SUFFICES ASSUME NEW m \in Nat, NEW g, Runs(g, m)
               PROVE  \E h : Runs(h, m + 1)
    OBVIOUS
  <2> DEFINE h == [p \in 0 .. m + 1 |-> IF p = m + 1 THEN Do(g[m], m + 1) ELSE g[p]]
  <2>1. ASSUME NEW p \in 0 .. m + 1
        PROVE  h[p] = IF p = 0 THEN fs ELSE Do(h[p - 1], p)
    <3>1. CASE p = m + 1
      <4>1. p - 1 = m /\ h[m] = g[m]
        BY <3>1
      <4> QED
        BY <3>1, <4>1
    <3>2. CASE p # m + 1
      <4>1. p \in 0 .. m /\ h[p] = g[p]
        BY <3>2
      <4>2. p # 0 => p - 1 \in 0 .. m /\ h[p - 1] = g[p - 1]
        BY <4>1
      <4> QED
        BY <4>1, <4>2
    <3> QED
      BY <3>1, <3>2
  <2>2. h = [p \in 0 .. m + 1 |-> h[p]]
    OBVIOUS
  <2> HIDE DEF h
  <2>3. Runs(h, m + 1)
    BY <2>1, <2>2
  <2> QED
    BY <2>3
<1>5. last \in G
  <2> HIDE DEF G
  <2> QED
    BY <1>1, <1>3, <1>4, UpTo
<1>6. Runs(AfterSteps(setting, src), last)
  <2>1. \E g : Runs(g, last)
    BY <1>5
  <2> HIDE DEF Runs
  <2> QED
    BY <1>2, <2>1
<1>7. AfterSteps(setting, src)[0] = fs
  BY <1>1, <1>6
<1>8. \A s \in 1 .. last : AfterSteps(setting, src)[s] = Do(AfterSteps(setting, src)[s - 1], s)
  BY <1>1, <1>6
<1> QED
  BY <1>7, <1>8 DEF Do, last, fs, Step

\* Reading depends on the files that are read, and on the sources where a
\* part `includes.
LEMMA ReadingSame ==
  ASSUME NEW part, NEW fs, NEW gs, \A f \in part.reads : fs[f] = gs[f],
         part.frontend => \A f \in Source : fs[f] = gs[f]
  PROVE  Reading(part, fs) = Reading(part, gs) /\ (Readable(part, fs) <=> Readable(part, gs))
<1>1. \A i \in DOMAIN Candidates : Candidates[i] \in Source
  BY FileAssumption, LenProperties, ElementOfSeq
<1>2. Includes(part, fs) <=> Includes(part, gs)
  BY DEF Includes
<1>3. ASSUME Includes(part, fs)
      PROVE  Resolved(fs) = Resolved(gs) /\ \A f \in Resolved(fs) : fs[f] = gs[f]
  <2>1. \A f \in Source : fs[f] = gs[f]
    BY <1>3 DEF Includes
  <2>2. \A i \in DOMAIN Candidates : Present(fs, Candidates[i]) <=> Present(gs, Candidates[i])
    BY <1>1, <2>1 DEF Present
  <2>3. \A i \in DOMAIN Candidates : \A k \in 1 .. i - 1 : k \in DOMAIN Candidates
    <3>1. DOMAIN Candidates = 1 .. Len(Candidates) /\ Len(Candidates) \in Nat
      BY FileAssumption, LenProperties
    <3> QED
      BY <3>1
  <2>4. \A f : f \in Resolved(fs) <=> f \in Resolved(gs)
    BY <2>2, <2>3 DEF Resolved
  <2>5. \A f \in Resolved(fs) : f \in Source
    BY <1>1 DEF Resolved
  <2> QED
    BY <2>1, <2>4, <2>5
<1>4. ReadSet(part, fs) = ReadSet(part, gs) /\ \A f \in ReadSet(part, fs) : fs[f] = gs[f]
  BY <1>2, <1>3 DEF ReadSet
<1>5. Reading(part, fs) = Reading(part, gs)
  BY <1>4 DEF Reading
<1>6. Readable(part, fs) <=> Readable(part, gs)
  BY <1>2, <1>3 DEF Readable, Present
<1> QED
  BY <1>5, <1>6

\* A step writes its own files only, each made of its part's inputs as the
\* step leaves them.
LEMMA StepRuns ==
  ASSUME NEW fs, DOMAIN fs = File, NEW s \in Step, NEW setting
  PROVE  /\ DOMAIN RunStep(fs, s, setting) = File
         /\ \A f \in File \ Outputs(s) : RunStep(fs, s, setting)[f] = fs[f]
         /\ \A p \in Parts(s) :
              RunStep(fs, s, setting)[Part(s, p).writes] =
                Produce(Part(s, p).writes, StepKey(s, setting),
                        Reading(Part(s, p), RunStep(fs, s, setting)))
<1> DEFINE after == AfterParts(fs, s, setting)
           last == Len(Plan[s].parts)
           w(p) == Part(s, p).writes
           Kept(q) == /\ DOMAIN after[q] = File
                      /\ \A p \in 0 .. q : \A f \in File :
                           (\A k \in p + 1 .. q : f # w(k)) => after[q][f] = after[p][f]
           G == {q \in Nat : q <= last => Kept(q)}
<1>1. last \in Nat /\ Parts(s) = 1 .. last
  BY PlanFacts
<1>2. /\ after[0] = fs
      /\ \A p \in 1 .. last : after[p] = RunPart(after[p - 1], s, Part(s, p), setting)
  BY PartsRun
<1>3. RunStep(fs, s, setting) = after[last]
  BY DEF RunStep
<1>4. \A p \in Parts(s) : w(p) \in Derived /\ w(p) \in File /\ w(p) \in Outputs(s)
  BY PlanFiles DEF File, Outputs
<1> HIDE DEF after, last
<1>5. ASSUME NEW p \in 1 .. last, DOMAIN after[p - 1] = File
      PROVE  /\ DOMAIN after[p] = File
             /\ after[p][w(p)] = Produce(w(p), StepKey(s, setting), Reading(Part(s, p), after[p - 1]))
             /\ \A f \in File : f # w(p) => after[p][f] = after[p - 1][f]
  BY <1>1, <1>2, <1>4, <1>5 DEF RunPart
<1> HIDE DEF w
<1>6. 0 \in G
  BY <1>2
<1>7. \A m \in Nat : m < last /\ m \in G => m + 1 \in G
  <2> SUFFICES ASSUME NEW m \in Nat, m < last, m \in G, m + 1 <= last
               PROVE  Kept(m + 1)
    OBVIOUS
  <2>1. Kept(m) /\ m + 1 \in 1 .. last /\ m + 1 - 1 = m
    BY <1>1
  <2>2. /\ DOMAIN after[m + 1] = File
        /\ \A f \in File : f # w(m + 1) => after[m + 1][f] = after[m][f]
    BY <1>5, <2>1
  <2>3. ASSUME NEW p \in 0 .. m + 1, NEW f \in File, \A k \in p + 1 .. m + 1 : f # w(k)
        PROVE  after[m + 1][f] = after[p][f]
    <3>1. CASE p = m + 1
      BY <3>1
    <3>2. CASE p # m + 1
      <4>1. p \in 0 .. m /\ f # w(m + 1) /\ \A k \in p + 1 .. m : f # w(k)
        BY <2>3, <3>2
      <4> QED
        BY <2>1, <2>2, <4>1
    <3> QED
      BY <3>1, <3>2
  <2> QED
    BY <2>2, <2>3
<1>8. \A q \in 0 .. last : Kept(q)
  <2>1. \A q \in 0 .. last : q \in G
    <3> HIDE DEF G
    <3> QED
      BY <1>1, <1>6, <1>7, UpTo
  <2> QED
    BY <2>1
<1> HIDE DEF G
<1>9. DOMAIN after[last] = File /\ \A f \in File \ Outputs(s) : after[last][f] = fs[f]
  <2>1. \A f \in File \ Outputs(s) : \A k \in 0 + 1 .. last : f # w(k)
    BY <1>1, <1>4
  <2>2. 0 \in 0 .. last /\ last \in 0 .. last
    BY <1>1
  <2> QED
    BY <1>2, <1>8, <2>1, <2>2
<1>10. ASSUME NEW p \in Parts(s)
       PROVE  after[last][w(p)] = Produce(w(p), StepKey(s, setting), Reading(Part(s, p), after[last]))
  <2>1. p \in 1 .. last /\ p \in 0 .. last /\ p - 1 \in 0 .. last /\ last \in 0 .. last /\ p - 1 + 1 = p
    BY <1>1
  <2>2. \A q, k \in Parts(s) : q # k => w(q) # w(k)
    BY PlanFiles DEF w
  <2>3. after[last][w(p)] = after[p][w(p)]
    <3>1. \A k \in p + 1 .. last : k \in Parts(s) /\ k # p
      BY <1>1, <2>1
    <3>2. \A k \in p + 1 .. last : w(p) # w(k)
      BY <2>2, <3>1
    <3> QED
      BY <1>4, <1>8, <2>1, <3>2
  <2>4. after[p][w(p)] = Produce(w(p), StepKey(s, setting), Reading(Part(s, p), after[p - 1]))
    BY <1>5, <1>8, <2>1
  <2>5. ASSUME NEW f \in File, \A k \in p .. last : f # w(k)
        PROVE  after[p - 1][f] = after[last][f]
    BY <1>8, <2>1, <2>5
  <2>6. \A f \in Source : f \in File /\ \A k \in p .. last : f # w(k)
    <3>1. \A k \in p .. last : k \in Parts(s)
      BY <1>1, <2>1
    <3>2. \A k \in Parts(s) : w(k) \notin Source
      BY <1>4, FileAssumption
    <3> QED
      BY <3>1, <3>2 DEF File
  <2>7. \A f \in Part(s, p).reads : f \in File /\ \A k \in p .. last : f # w(k)
    <3>1. \A k \in p .. last : k \in Parts(s)
      BY <1>1, <2>1
    <3>2. CASE p = 1
      <4>1. \A f \in Part(s, p).reads : f \in File /\ f \notin Outputs(s)
        BY <3>2, PlanFacts, PlanAssumption DEF PlanWellFormed, PartType
      <4> QED
        BY <1>4, <3>1, <4>1
    <3>3. CASE p # 1
      <4>1. p > 1
        BY <2>1, <3>3
      <4>2. \A f \in Part(s, p).reads : \E q \in 1 .. p - 1 : f = w(q)
        BY <4>1, PlanFiles DEF w
      <4>3. \A q \in 1 .. p - 1 : q \in Parts(s) /\ \A k \in p .. last : q # k
        BY <1>1, <2>1
      <4> QED
        BY <1>4, <2>2, <3>1, <4>2, <4>3
    <3> QED
      BY <3>2, <3>3
  <2>8. \A f \in Part(s, p).reads : after[p - 1][f] = after[last][f]
    BY <2>5, <2>7
  <2>9. \A f \in Source : after[p - 1][f] = after[last][f]
    BY <2>5, <2>6
  <2>10. Reading(Part(s, p), after[p - 1]) = Reading(Part(s, p), after[last])
    BY <2>8, <2>9, ReadingSame
  <2> QED
    BY <2>3, <2>4, <2>10
<1> QED
  BY <1>3, <1>9, <1>10 DEF w

\* A clean build's files: the sources it took, and each derived file made of
\* its part's inputs as they are in the end.
LEMMA CleanFits ==
  ASSUME InOrder, NEW setting, NEW src
  PROVE  LET clean == CleanFiles(setting, src)
         IN  /\ \A f \in Source : clean[f] = src[f]
             /\ \A s \in Step : \A p \in Parts(s) :
                  clean[Part(s, p).writes] =
                    Produce(Part(s, p).writes, StepKey(s, setting), Reading(Part(s, p), clean))
<1> DEFINE after == AfterSteps(setting, src)
           last == Len(Plan)
           Kept(t) == /\ DOMAIN after[t] = File
                      /\ \A s \in 0 .. t : \A f \in File :
                           (\A k \in s + 1 .. t : f \notin Outputs(k)) => after[t][f] = after[s][f]
           G == {t \in Nat : t <= last => Kept(t)}
<1>1. last \in Nat /\ Step = 1 .. last
  BY PlanFacts DEF Step
<1>2. after[0] = Blank(src) /\ \A s \in Step : after[s] = RunStep(after[s - 1], s, setting)
  BY StepsRun
<1>3. CleanFiles(setting, src) = after[last]
  BY DEF CleanFiles
<1> HIDE DEF after, last
<1>4. ASSUME NEW s \in Step, DOMAIN after[s - 1] = File
      PROVE  /\ DOMAIN after[s] = File
             /\ \A f \in File \ Outputs(s) : after[s][f] = after[s - 1][f]
             /\ \A p \in Parts(s) :
                  after[s][Part(s, p).writes] =
                    Produce(Part(s, p).writes, StepKey(s, setting), Reading(Part(s, p), after[s]))
  BY <1>2, <1>4, StepRuns
<1>5. 0 \in G
  <2>1. DOMAIN after[0] = File
    BY <1>2 DEF Blank
  <2>2. 0 .. 0 = {0}
    OBVIOUS
  <2> QED
    BY <2>1, <2>2
<1>6. \A m \in Nat : m < last /\ m \in G => m + 1 \in G
  <2> SUFFICES ASSUME NEW m \in Nat, m < last, m \in G, m + 1 <= last
               PROVE  Kept(m + 1)
    OBVIOUS
  <2>1. Kept(m) /\ m + 1 \in Step /\ m + 1 - 1 = m
    BY <1>1
  <2>2. /\ DOMAIN after[m + 1] = File
        /\ \A f \in File \ Outputs(m + 1) : after[m + 1][f] = after[m][f]
    BY <1>4, <2>1
  <2>3. ASSUME NEW s \in 0 .. m + 1, NEW f \in File, \A k \in s + 1 .. m + 1 : f \notin Outputs(k)
        PROVE  after[m + 1][f] = after[s][f]
    <3>1. CASE s = m + 1
      BY <3>1
    <3>2. CASE s # m + 1
      <4>1. s \in 0 .. m /\ f \notin Outputs(m + 1) /\ \A k \in s + 1 .. m : f \notin Outputs(k)
        BY <2>3, <3>2
      <4> QED
        BY <2>1, <2>2, <4>1
    <3> QED
      BY <3>1, <3>2
  <2> QED
    BY <2>2, <2>3
<1>7. \A t \in 0 .. last : Kept(t)
  <2>1. \A t \in 0 .. last : t \in G
    <3> HIDE DEF G
    <3> QED
      BY <1>1, <1>5, <1>6, UpTo
  <2> QED
    BY <2>1
<1> HIDE DEF G
<1>8. \A f \in Source : f \in File /\ \A s \in Step : f \notin Outputs(s)
  <2>1. \A s \in Step : \A p \in Parts(s) : Part(s, p).writes \notin Source
    BY PlanFiles, FileAssumption
  <2> QED
    BY <2>1 DEF File, Outputs
<1>9. ASSUME NEW s \in 0 .. last, NEW f \in Source PROVE after[s][f] = src[f]
  <2>1. f \in File /\ \A k \in 0 + 1 .. s : f \notin Outputs(k)
    BY <1>1, <1>8
  <2>2. after[s][f] = after[0][f]
    <3>1. 0 \in 0 .. s
      BY <1>1
    <3> QED
      BY <1>7, <2>1, <3>1
  <2> QED
    BY <1>2, <2>1, <2>2 DEF Blank
<1>10. ASSUME NEW s \in Step, NEW t \in 1 .. s, NEW f \in Outputs(t)
       PROVE  f \in File /\ after[last][f] = after[s][f]
  <2>1. t \in Step /\ s \in 0 .. last /\ last \in 0 .. last
    BY <1>1
  <2>2. f \in File
    BY <2>1, PlanFiles DEF Outputs, File
  <2>3. \A k \in s + 1 .. last : k \in Step /\ k # t
    BY <1>1
  <2>4. \A k \in s + 1 .. last : f \notin Outputs(k)
    BY <2>1, <2>3, PlanAssumption DEF PlanWellFormed
  <2> QED
    BY <1>7, <2>1, <2>2, <2>4
<1>11. ASSUME NEW s \in Step, NEW p \in Parts(s)
       PROVE  after[last][Part(s, p).writes] =
                Produce(Part(s, p).writes, StepKey(s, setting), Reading(Part(s, p), after[last]))
  <2>1. s \in 1 .. s /\ s \in 0 .. last /\ last \in 0 .. last /\ s - 1 \in 0 .. last
    BY <1>1
  <2>2. after[last][Part(s, p).writes] = after[s][Part(s, p).writes]
    BY <1>10, <2>1 DEF Outputs
  <2>3. after[s][Part(s, p).writes] =
          Produce(Part(s, p).writes, StepKey(s, setting), Reading(Part(s, p), after[s]))
    BY <1>4, <1>7, <2>1
  <2>4. \A f \in Source : after[s][f] = after[last][f]
    BY <1>9, <2>1
  <2>5. \A f \in Part(s, p).reads : after[s][f] = after[last][f]
    <3>1. CASE p # 1
      <4>1. p > 1 /\ \A q \in 1 .. p - 1 : q \in Parts(s)
        BY <3>1, PlanFacts
      <4>2. \A f \in Part(s, p).reads : f \in Outputs(s)
        BY <4>1, PlanFiles DEF Outputs
      <4> QED
        BY <1>10, <2>1, <4>2
    <3>2. CASE p = 1 /\ s > 1
      <4>1. \A t \in 1 .. s - 1 : t \in 1 .. s
        BY <1>1
      <4> QED
        BY <1>10, <3>2, <4>1 DEF InOrder
    <3>3. CASE p = 1 /\ s = 1
      BY <2>4, <3>3 DEF InOrder
    <3> QED
      BY <1>1, <3>1, <3>2, <3>3
  <2>6. Reading(Part(s, p), after[s]) = Reading(Part(s, p), after[last])
    BY <2>4, <2>5, ReadingSame
  <2> QED
    BY <2>2, <2>3, <2>6
<1>12. \A f \in Source : after[last][f] = src[f]
  BY <1>1, <1>9
<1> QED
  BY <1>3, <1>11, <1>12

-----------------------------------------------------------------------------
(***************************************************************************)
(* A running build is on the way to the clean one's files.                 *)
(***************************************************************************)

\* Before its first read or skip a build has taken no sources.
Untaken(r) == r.step = 1 /\ r.part = 1 /\ r.pc \in {"check", "read"}

\* The file f is gone, or what the clean build of r's sources leaves.
Agrees(fs, r, f) == fs[f] = Absent \/ fs[f] = CleanFiles(r.setting, r.took)[f]

Tracks(fs, r) ==
  r.pc # "idle" =>
    /\ r.product = Absent
    /\ r.pc = "check" => r.part = 1
    /\ IF Untaken(r) THEN r.took = <<>>
       ELSE /\ r.took = [f \in Source |-> r.took[f]]
            /\ \A t \in 1 .. r.step - 1 : \A f \in Outputs(t) : Agrees(fs, r, f)
            /\ \A p \in Done(r) : Agrees(fs, r, Part(r.step, p).writes)
            /\ r.pc \in {"work", "write"} =>
                 r.read = Reading(Part(r.step, r.part), CleanFiles(r.setting, r.took))

AllTrack == \A b \in Build : Tracks(files, build[b])

SourcesOK == \A f \in Source : files[f] \in Content \cup {Absent}

LEMMA DoneParts ==
  ASSUME NEW r, RecordOK(r)
  PROVE  \A p \in Done(r) : p \in Parts(r.step)
  BY PlanFacts DEF RecordOK, Done

\* Derived files that are left alone or deleted are no obstacle.
LEMMA TracksKept ==
  ASSUME NEW fs, NEW gs, NEW r, RecordOK(r), Tracks(fs, r),
         \A f \in Derived : gs[f] = fs[f] \/ gs[f] = Absent
  PROVE  Tracks(gs, r)
<1>1. \A t \in 1 .. r.step - 1 : t \in Step
  BY PlanFacts DEF RecordOK, Step
<1>2. \A s \in Step : \A p \in Parts(s) : Part(s, p).writes \in Derived
  BY PlanFiles
<1>3. \A t \in 1 .. r.step - 1 : \A f \in Outputs(t) : f \in Derived
  BY <1>1, <1>2 DEF Outputs
<1>4. \A p \in Done(r) : Part(r.step, p).writes \in Derived
  BY <1>2, DoneParts DEF RecordOK
<1> QED
  BY <1>3, <1>4 DEF Tracks, Agrees

\* While one build runs the others are idle.
LEMMA TracksAlone ==
  ASSUME TypeOK, OneAtATime, NEW b \in Build, NEW r, build' = [build EXCEPT ![b] = r],
         build[b].pc # "idle" \/ \A c \in Build : build[c].pc = "idle",
         Tracks(files', r)
  PROVE  AllTrack'
<1>1. \A c \in Build : build'[c] = IF c = b THEN r ELSE build[c]
  BY DEF TypeOK
<1>2. \A c \in Build : c # b => build[c].pc = "idle"
  BY DEF OneAtATime
<1> QED
  BY <1>1, <1>2 DEF AllTrack, Tracks

\* What part p of the step will read is what the clean build's part reads.
LEMMA InputsAgree ==
  ASSUME InOrder, NEW fs, NEW r, RecordOK(r), NEW p \in Parts(r.step), Readable(Part(r.step, p), fs),
         NEW clean,
         r.step = 1 /\ p = 1 => \A f \in Source : fs[f] = clean[f],
         \A t \in 1 .. r.step - 1 : \A f \in Outputs(t) : fs[f] = Absent \/ fs[f] = clean[f],
         \A q \in 1 .. p - 1 :
           fs[Part(r.step, q).writes] = Absent \/ fs[Part(r.step, q).writes] = clean[Part(r.step, q).writes]
  PROVE  Reading(Part(r.step, p), fs) = Reading(Part(r.step, p), clean)
<1> DEFINE s == r.step
<1>1. s \in Step /\ p \in Nat /\ p >= 1 /\ s \in Nat /\ s >= 1
  BY PlanFacts DEF RecordOK, Step
<1>2. \A f \in Part(s, p).reads : fs[f] # Absent
  BY DEF Readable, Present
<1>3. CASE p # 1
  <2>1. p > 1
    BY <1>1, <1>3
  <2>2. ~ Part(s, p).frontend /\ \A f \in Part(s, p).reads : \E q \in 1 .. p - 1 : f = Part(s, q).writes
    BY <1>1, <2>1, PlanFiles
  <2>3. ASSUME NEW f \in Part(s, p).reads PROVE fs[f] = clean[f]
    <3>1. PICK q \in 1 .. p - 1 : f = Part(s, q).writes
      BY <2>2
    <3> QED
      BY <1>2, <3>1
  <2> QED
    BY <2>2, <2>3, ReadingSame
<1>4. CASE p = 1 /\ s # 1
  <2>1. ~ Part(s, p).frontend /\ \A f \in Part(s, p).reads : \E t \in 1 .. s - 1 : f \in Outputs(t)
    BY <1>1, <1>4 DEF InOrder
  <2>2. \A f \in Part(s, p).reads : fs[f] = clean[f]
    BY <1>2, <2>1
  <2> QED
    BY <2>1, <2>2, ReadingSame
<1>5. CASE p = 1 /\ s = 1
  <2>1. \A f \in Part(s, p).reads : fs[f] = clean[f]
    BY <1>5 DEF InOrder
  <2> QED
    BY <1>5, <2>1, ReadingSame
<1> QED
  BY <1>3, <1>4, <1>5

\* A step that is skipped has the clean build's outputs.
LEMMA FreshAgrees ==
  ASSUME InOrder, NEW r, RecordOK(r), NEW src,
         Fresh(r.step, StepKey(r.step, r.setting)),
         r.step = 1 => src = Sources,
         \A t \in 1 .. r.step - 1 : \A f \in Outputs(t) :
           files[f] = Absent \/ files[f] = CleanFiles(r.setting, src)[f]
  PROVE  \A p \in Parts(r.step) :
           files[Part(r.step, p).writes] = CleanFiles(r.setting, src)[Part(r.step, p).writes]
<1> DEFINE s == r.step
           clean == CleanFiles(r.setting, src)
           G == {m \in Nat : \A p \in 1 .. m : p \in Parts(s)
                               => files[Part(s, p).writes] = clean[Part(s, p).writes]}
           last == Len(Plan[s].parts)
<1>1. s \in Step /\ last \in Nat /\ Parts(s) = 1 .. last
  BY PlanFacts DEF RecordOK
<1>2. /\ \A f \in Source : clean[f] = src[f]
      /\ \A p \in Parts(s) :
           clean[Part(s, p).writes] =
             Produce(Part(s, p).writes, StepKey(s, r.setting), Reading(Part(s, p), clean))
  BY <1>1, CleanFits
<1> HIDE DEF clean
<1>3. 0 \in G
  OBVIOUS
<1>4. ASSUME NEW m \in Nat, m < last, m \in G PROVE m + 1 \in G
  <2> DEFINE p == m + 1
  <2>1. p \in Parts(s) /\ \A q \in 1 .. p - 1 : q \in 1 .. m /\ q \in Parts(s)
    BY <1>1, <1>4
  <2>2. \A q \in 1 .. p - 1 : files[Part(s, q).writes] = clean[Part(s, q).writes]
    BY <1>4, <2>1
  <2>3. /\ Readable(Part(s, p), files)
        /\ files[Part(s, p).writes] =
             Produce(Part(s, p).writes, StepKey(s, r.setting), Reading(Part(s, p), files))
    BY <2>1 DEF Fresh
  <2>4. s = 1 => \A f \in Source : files[f] = clean[f]
    BY <1>2 DEF Sources
  <2>5. Reading(Part(s, p), files) = Reading(Part(s, p), clean)
    <3>1. \A t \in 1 .. s - 1 : \A f \in Outputs(t) : files[f] = Absent \/ files[f] = clean[f]
      BY DEF clean
    <3> HIDE DEF p
    <3> QED
      BY <2>1, <2>2, <2>3, <2>4, <3>1, InputsAgree
  <2>6. files[Part(s, p).writes] = clean[Part(s, p).writes]
    BY <1>2, <2>1, <2>3, <2>5
  <2>7. \A q \in 1 .. p : q \in 1 .. m \/ q = p
    OBVIOUS
  <2> QED
    BY <1>4, <2>6, <2>7
<1> HIDE DEF G, last
<1>5. \A m \in 0 .. last : m \in G
  BY <1>1, <1>3, <1>4, UpTo
<1>6. last \in G
  BY <1>1, <1>5
<1> QED
  BY <1>1, <1>6 DEF clean, G


-----------------------------------------------------------------------------
(***************************************************************************)
(* The steps of the clean build (CleanBuild) that steps of builds are.     *)
(***************************************************************************)
RunningJob(setting, took) == [running |-> TRUE, setting |-> setting, took |-> took]

Job(r) ==
  IF r.pc = "idle" THEN [running |-> FALSE] ELSE RunningJob(r.setting, r.took)

Jobs == [b \in Build |-> Job(build[b])]
Products == [b \in Build |-> build[b].product]

LEMMA Taking ==
  ASSUME NEW setting, NEW old, NEW took
  PROVE  [RunningJob(setting, old) EXCEPT !.took = took] = RunningJob(setting, took)
<1> DEFINE fields == {"running", "setting", "took"}
           r == [running |-> TRUE, setting |-> setting, took |-> old]
           q == [running |-> TRUE, setting |-> setting, took |-> took]
           u == [r EXCEPT !.took = took]
<1>1. r = [x \in fields |-> r[x]] /\ DOMAIN r = fields /\ r.running = TRUE /\ r.setting = setting
  OBVIOUS
<1>2. q = [x \in fields |-> q[x]] /\ q.running = TRUE /\ q.setting = setting /\ q.took = took
  OBVIOUS
<1> HIDE DEF r, q
<1>3. u = [x \in fields |-> u[x]] /\ u.took = took /\ u.running = r.running /\ u.setting = r.setting
  BY <1>1
<1> HIDE DEF u
<1>4. \A x \in fields : u[x] = q[x]
  BY <1>1, <1>2, <1>3
<1>5. u = q
  BY <1>2, <1>3, <1>4
<1> QED
  BY <1>5 DEF u, r, q, RunningJob

\* One build's step is a step of its job and its product.
LEMMA OneJob ==
  ASSUME TypeOK, NEW b \in Build, NEW r, build' = [build EXCEPT ![b] = r]
  PROVE  Jobs' = [Jobs EXCEPT ![b] = Job(r)] /\ Products' = [Products EXCEPT ![b] = r.product]
<1>1. \A c \in Build : build'[c] = IF c = b THEN r ELSE build[c]
  BY DEF TypeOK
<1>2. /\ \A c \in Build : Jobs'[c] = IF c = b THEN Job(r) ELSE Jobs[c]
      /\ \A c \in Build : Products'[c] = IF c = b THEN r.product ELSE Products[c]
  BY <1>1 DEF Jobs, Products
<1>3. /\ Jobs' = [c \in Build |-> Jobs'[c]] /\ Jobs = [c \in Build |-> Jobs[c]]
      /\ Products' = [c \in Build |-> Products'[c]] /\ Products = [c \in Build |-> Products[c]]
  BY DEF Jobs, Products
<1> QED
  BY <1>2, <1>3

LEMMA OneJobKept ==
  ASSUME NEW b \in Build
  PROVE  [Jobs EXCEPT ![b] = Job(build[b])] = Jobs
         /\ [Products EXCEPT ![b] = build[b].product] = Products
  BY DEF Jobs, Products

\* The clean build's actions, of the jobs and products of builds.
LEMMA CleanStays ==
  /\ UNCHANGED Clean!vars <=> Sources' = Sources /\ Jobs' = Jobs /\ Products' = Products
  /\ Clean!Edit <=>
       Sources' \in [Source -> Content \cup {Absent}] /\ Jobs' = Jobs /\ Products' = Products
<1>1. UNCHANGED Clean!vars <=> Sources' = Sources /\ Jobs' = Jobs /\ Products' = Products
  BY Zenon DEF Clean!vars, Jobs, Products, Job, RunningJob
<1>2. Clean!Edit <=>
        Sources' \in [Source -> Content \cup {Absent}] /\ Jobs' = Jobs /\ Products' = Products
  BY Zenon DEF Clean!Edit, Jobs, Products, Job, RunningJob
<1> QED
  BY <1>1, <1>2

LEMMA CleanActions ==
  ASSUME NEW b \in Build
  PROVE  /\ Clean!Begin(b) <=>
              /\ Jobs[b] = [running |-> FALSE]
              /\ \E setting \in Setting : Jobs' = [Jobs EXCEPT ![b] = RunningJob(setting, <<>>)]
              /\ Products' = [Products EXCEPT ![b] = Absent]
              /\ Sources' = Sources
         /\ Clean!Take(b) <=>
              /\ Jobs[b].running
              /\ Jobs[b].took = <<>>
              /\ Jobs' = [Jobs EXCEPT ![b] = [Jobs[b] EXCEPT !.took = Sources]]
              /\ Sources' = Sources /\ Products' = Products
         /\ Clean!Finish(b) <=>
              /\ Jobs[b].running
              /\ Jobs[b].took # <<>>
              /\ Jobs' = [Jobs EXCEPT ![b] = [running |-> FALSE]]
              /\ \E left \in {Whole(Jobs[b].setting, Jobs[b].took), Absent} :
                   Products' = [Products EXCEPT ![b] = left]
              /\ Sources' = Sources
         /\ Clean!Stop(b) <=>
              /\ Jobs[b].running
              /\ Jobs' = [Jobs EXCEPT ![b] = [running |-> FALSE]]
              /\ Sources' = Sources /\ Products' = Products
<1>1. Clean!Begin(b) <=>
        /\ Jobs[b] = [running |-> FALSE]
        /\ \E setting \in Setting : Jobs' = [Jobs EXCEPT ![b] = RunningJob(setting, <<>>)]
        /\ Products' = [Products EXCEPT ![b] = Absent]
        /\ Sources' = Sources
  BY Zenon DEF Clean!Begin, Clean!NoJob, Clean!Untaken, Jobs, Products, Job, RunningJob
<1>2. Clean!Take(b) <=>
        /\ Jobs[b].running
        /\ Jobs[b].took = <<>>
        /\ Jobs' = [Jobs EXCEPT ![b] = [Jobs[b] EXCEPT !.took = Sources]]
        /\ Sources' = Sources /\ Products' = Products
  BY Zenon DEF Clean!Take, Clean!Untaken, Jobs, Products, Job, RunningJob
<1>3. Clean!Finish(b) <=>
        /\ Jobs[b].running
        /\ Jobs[b].took # <<>>
        /\ Jobs' = [Jobs EXCEPT ![b] = [running |-> FALSE]]
        /\ \E left \in {Whole(Jobs[b].setting, Jobs[b].took), Absent} :
             Products' = [Products EXCEPT ![b] = left]
        /\ Sources' = Sources
  BY Zenon DEF Clean!Finish, Clean!NoJob, Clean!Untaken, Jobs, Products, Job, RunningJob
<1>4. Clean!Stop(b) <=>
        /\ Jobs[b].running
        /\ Jobs' = [Jobs EXCEPT ![b] = [running |-> FALSE]]
        /\ Sources' = Sources /\ Products' = Products
  BY Zenon DEF Clean!Stop, Clean!NoJob, Jobs, Products, Job, RunningJob
<1> QED
  BY <1>1, <1>2, <1>3, <1>4

\* What a step of one build does to its job and product.
CleanMove(old, r) ==
  \/ Job(r) = Job(old) /\ r.product = old.product
  \/ /\ old.pc # "idle" /\ old.took = <<>>
     /\ Job(r) = RunningJob(old.setting, Sources) /\ r.product = old.product
  \/ /\ old.pc # "idle" /\ old.took # <<>> /\ r.pc = "idle"
     /\ r.product \in {Whole(old.setting, old.took), Absent}
  \/ old.pc # "idle" /\ r.pc = "idle" /\ r.product = old.product
  \/ /\ old.pc = "idle" /\ r.product = Absent
     /\ \E setting \in Setting : Job(r) = RunningJob(setting, <<>>)

LEMMA CleanMoves ==
  ASSUME TypeOK, NEW b \in Build, NEW r, build' = [build EXCEPT ![b] = r],
         Sources' = Sources, CleanMove(build[b], r)
  PROVE  [Clean!Next]_(Clean!vars)
<1> DEFINE old == build[b]
<1>1. /\ Jobs' = [Jobs EXCEPT ![b] = Job(r)] /\ Products' = [Products EXCEPT ![b] = r.product]
      /\ [Jobs EXCEPT ![b] = Job(old)] = Jobs
      /\ [Products EXCEPT ![b] = old.product] = Products
  BY OneJob, OneJobKept
<1>2. Jobs[b] = Job(old)
  BY DEF Jobs
<1>3. old.pc # "idle" =>
        /\ Job(old) = RunningJob(old.setting, old.took)
        /\ Job(old).running /\ Job(old).took = old.took /\ Job(old).setting = old.setting
  BY DEF Job, RunningJob
<1>4. CASE Job(r) = Job(old) /\ r.product = old.product
  BY <1>1, <1>4, CleanStays
<1>5. CASE /\ old.pc # "idle" /\ old.took = <<>>
           /\ Job(r) = RunningJob(old.setting, Sources) /\ r.product = old.product
  <2>1. [Jobs[b] EXCEPT !.took = Sources] = RunningJob(old.setting, Sources)
    BY <1>2, <1>3, <1>5, Taking
  <2>2. Clean!Take(b)
    BY <1>1, <1>2, <1>3, <1>5, <2>1, CleanActions
  <2> QED
    BY <2>2 DEF Clean!Next
<1>6. CASE /\ old.pc # "idle" /\ old.took # <<>> /\ r.pc = "idle"
           /\ r.product \in {Whole(old.setting, old.took), Absent}
  <2>1. Job(r) = [running |-> FALSE]
    BY <1>6 DEF Job
  <2>2. \E left \in {Whole(Jobs[b].setting, Jobs[b].took), Absent} :
          Products' = [Products EXCEPT ![b] = left]
    BY <1>1, <1>2, <1>3, <1>6
  <2>3. Clean!Finish(b)
    BY <1>1, <1>2, <1>3, <1>6, <2>1, <2>2, CleanActions
  <2> QED
    BY <2>3 DEF Clean!Next
<1>7. CASE old.pc # "idle" /\ r.pc = "idle" /\ r.product = old.product
  <2>1. Job(r) = [running |-> FALSE]
    BY <1>7 DEF Job
  <2>2. Clean!Stop(b)
    BY <1>1, <1>2, <1>3, <1>7, <2>1, CleanActions
  <2> QED
    BY <2>2 DEF Clean!Next
<1>8. CASE /\ old.pc = "idle" /\ r.product = Absent
           /\ \E setting \in Setting : Job(r) = RunningJob(setting, <<>>)
  <2>1. Jobs[b] = [running |-> FALSE]
    BY <1>2, <1>8 DEF Job
  <2>2. \E setting \in Setting : Jobs' = [Jobs EXCEPT ![b] = RunningJob(setting, <<>>)]
    BY <1>1, <1>8
  <2>3. Clean!Begin(b)
    BY <1>1, <1>8, <2>1, <2>2, CleanActions
  <2> QED
    BY <2>3 DEF Clean!Next
<1> HIDE DEF old
<1> QED
  BY <1>4, <1>5, <1>6, <1>7, <1>8 DEF CleanMove, old

LEMMA AdvancedIs ==
  ASSUME NEW r, RecordOK(r), NEW fs
  PROVE  /\ r.step = Len(Plan) =>
              Advanced(r, fs).pc = "idle" /\ Advanced(r, fs).product = fs[Bitstream]
         /\ r.step # Len(Plan) =>
              /\ Advanced(r, fs).pc = "check" /\ Advanced(r, fs).part = 1
              /\ Advanced(r, fs).step = r.step + 1 /\ Advanced(r, fs).setting = r.setting
              /\ Advanced(r, fs).took = r.took /\ Advanced(r, fs).product = r.product
<1>1. ASSUME r.step = Len(Plan)
      PROVE  Advanced(r, fs).pc = "idle" /\ Advanced(r, fs).product = fs[Bitstream]
  BY <1>1 DEF Advanced, Idle
<1>2. ASSUME r.step # Len(Plan)
      PROVE  /\ Advanced(r, fs).pc = "check" /\ Advanced(r, fs).part = 1
             /\ Advanced(r, fs).step = r.step + 1 /\ Advanced(r, fs).setting = r.setting
             /\ Advanced(r, fs).took = r.took /\ Advanced(r, fs).product = r.product
  BY <1>2 DEF Advanced, RecordOK, Field
<1> QED
  BY <1>1, <1>2

\* Past a step whose outputs are the clean build's.
LEMMA AdvancedTracks ==
  ASSUME InOrder, NEW r, RecordOK(r), NEW fs, r.product = Absent,
         r.took = [f \in Source |-> r.took[f]],
         \A t \in 1 .. r.step : \A f \in Outputs(t) : Agrees(fs, r, f)
  PROVE  /\ Tracks(fs, Advanced(r, fs))
         /\ r.took # <<>>
         /\ IF r.step = Len(Plan)
            THEN /\ Advanced(r, fs).pc = "idle"
                 /\ Advanced(r, fs).product \in {Whole(r.setting, r.took), Absent}
            ELSE Job(Advanced(r, fs)) = RunningJob(r.setting, r.took)
                 /\ Advanced(r, fs).product = Absent
<1> DEFINE next == Advanced(r, fs)
<1>1. r.took # <<>>
  <2>1. DOMAIN r.took = Source /\ Source # {}
    BY DEF InOrder
  <2>2. DOMAIN <<>> = {}
    OBVIOUS
  <2> QED
    BY <2>1, <2>2
<1>2. r.step \in Nat /\ r.step \in 1 .. r.step
  BY DEF RecordOK, Step
<1>3. CASE r.step = Len(Plan)
  <2>1. next.pc = "idle" /\ next.product = fs[Bitstream]
    BY <1>3, AdvancedIs
  <2>2. Bitstream \in Outputs(r.step)
    <3>1. r.step \in Step /\ Len(Plan[r.step].parts) \in Parts(r.step)
      BY PlanFacts DEF RecordOK
    <3> QED
      BY <1>3, <3>1 DEF Bitstream, Outputs, Part
  <2>3. fs[Bitstream] \in {Whole(r.setting, r.took), Absent}
    BY <1>2, <2>2 DEF Agrees, Whole
  <2>4. Tracks(fs, next)
    BY <2>1 DEF Tracks
  <2> HIDE DEF next
  <2> QED
    BY <1>1, <1>3, <2>1, <2>3, <2>4 DEF next
<1>4. CASE r.step # Len(Plan)
  <2>1. /\ next.pc = "check" /\ next.part = 1 /\ next.step = r.step + 1
        /\ next.setting = r.setting /\ next.took = r.took /\ next.product = r.product
    BY <1>4, AdvancedIs
  <2> HIDE DEF next
  <2>2. ~ Untaken(next) /\ Done(next) = {} /\ next.step - 1 = r.step
    BY <1>2, <2>1 DEF Untaken, Done
  <2>3. Tracks(fs, next)
    BY <2>1, <2>2 DEF Tracks, Agrees
  <2>4. Job(next) = RunningJob(r.setting, r.took) /\ next.product = Absent
    BY <2>1 DEF Job
  <2> QED
    BY <1>1, <1>4, <2>3, <2>4 DEF next
<1> QED
  BY <1>3, <1>4

LEMMA Moves ==
  ASSUME TypeOK, OneAtATime, SourcesOK, NEW b \in Build, NEW r, build' = [build EXCEPT ![b] = r],
         build[b].pc # "idle" \/ \A c \in Build : build[c].pc = "idle",
         Tracks(files', r), \A f \in Source : files'[f] = files[f], CleanMove(build[b], r)
  PROVE  AllTrack' /\ SourcesOK' /\ [Clean!Next]_(Clean!vars)
<1>1. Sources' = Sources
  BY DEF Sources
<1>2. AllTrack'
  BY TracksAlone
<1>3. [Clean!Next]_(Clean!vars)
  BY <1>1, CleanMoves
<1> QED
  BY <1>2, <1>3 DEF SourcesOK

LEMMA SkipMoves ==
  ASSUME SingleCandidate, InOrder, IInv, AllTrack, SourcesOK, NEW b \in Build, Skip(b)
  PROVE  AllTrack' /\ SourcesOK' /\ [Clean!Next]_(Clean!vars)
<1> DEFINE old == build[b]
           took == [old EXCEPT !.took = Took(old)]
           r == Advanced(took, files)
<1>1. /\ UNCHANGED <<files, stamps>> /\ build' = [build EXCEPT ![b] = r]
      /\ old.pc = "check" /\ Holds(old.step, StepKey(old.step, old.setting))
  BY DEF Skip, Key
<1>2. RecordOK(old) /\ Tracks(files, old) /\ StampFits(files, old.step, stamps[old.step]) /\ old.step \in Step
  BY DEF IInv, TypeOK, RecordOK, AllTrack
<1>3. /\ RecordOK(took) /\ took.pc = "check" /\ took.setting = old.setting /\ took.step = old.step
      /\ took.part = old.part /\ took.product = old.product /\ took.took = Took(old)
  BY <1>1, <1>2 DEF RecordOK, Field
<1> HIDE DEF old, took
<1>4. old.part = 1 /\ old.product = Absent
  BY <1>1, <1>2 DEF Tracks
<1>5. Fresh(took.step, StepKey(took.step, took.setting))
  BY <1>1, <1>2, <1>3, HoldsFresh
<1>6. /\ took.took = [f \in Source |-> took.took[f]]
      /\ took.step = 1 => took.took = Sources /\ old.took = <<>>
      /\ took.step # 1 => took.took = old.took
      /\ \A t \in 1 .. took.step - 1 : \A f \in Outputs(t) : Agrees(files, took, f)
  <2>1. CASE old.step = 1
    <3>1. took.took = Sources
      BY <1>3, <1>4, <2>1 DEF Took
    <3>2. old.took = <<>>
      BY <1>1, <1>2, <1>4, <2>1 DEF Tracks, Untaken
    <3>3. 1 .. took.step - 1 = {}
      BY <1>3, <2>1
    <3> QED
      BY <1>3, <2>1, <3>1, <3>2, <3>3 DEF Sources
  <2>2. CASE old.step # 1
    <3>1. took.took = old.took
      BY <1>3, <2>2 DEF Took
    <3> QED
      BY <1>1, <1>2, <1>3, <2>2, <3>1 DEF Tracks, Untaken, Agrees
  <2> QED
    BY <2>1, <2>2
<1>7. \A p \in Parts(took.step) :
        files[Part(took.step, p).writes] = CleanFiles(took.setting, took.took)[Part(took.step, p).writes]
  <2>1. \A t \in 1 .. took.step - 1 : \A f \in Outputs(t) :
          files[f] = Absent \/ files[f] = CleanFiles(took.setting, took.took)[f]
    BY <1>6 DEF Agrees
  <2>2. took.step = 1 => took.took = Sources
    BY <1>6
  <2>3. RecordOK(took)
    BY <1>3
  <2> HIDE DEF r
  <2> QED
    BY <1>5, <2>1, <2>2, <2>3, FreshAgrees
<1>8. \A t \in 1 .. took.step : \A f \in Outputs(t) : Agrees(files, took, f)
  <2>1. \A t \in 1 .. took.step : t = took.step \/ t \in 1 .. took.step - 1
    BY <1>2, <1>3 DEF Step
  <2>2. \A f \in Outputs(took.step) : Agrees(files, took, f)
    BY <1>7 DEF Outputs, Agrees
  <2> QED
    BY <1>6, <2>1, <2>2
<1>9. /\ Tracks(files, r)
      /\ took.took # <<>>
      /\ IF took.step = Len(Plan)
         THEN r.pc = "idle" /\ r.product \in {Whole(took.setting, took.took), Absent}
         ELSE Job(r) = RunningJob(took.setting, took.took) /\ r.product = Absent
  BY <1>3, <1>4, <1>6, <1>8, AdvancedTracks
<1> HIDE DEF r
<1>10. CleanMove(old, r)
  <2>1. CASE took.step = 1
    <3>1. took.step # Len(Plan)
      <4>1. Len(Plan) \in Nat /\ Len(Plan) > 1
        BY PlanFacts DEF InOrder
      <4>2. \A n \in Nat : n > 1 => n # 1
        OBVIOUS
      <4>3. Len(Plan) # 1
        BY <4>1, <4>2, Zenon
      <4> QED
        BY <2>1, <4>3, Zenon
    <3> QED
      BY <1>1, <1>3, <1>4, <1>6, <1>9, <2>1, <3>1 DEF CleanMove
  <2>2. CASE took.step # 1 /\ took.step = Len(Plan)
    BY <1>1, <1>3, <1>6, <1>9, <2>2 DEF CleanMove
  <2>3. CASE took.step # 1 /\ took.step # Len(Plan)
    <3>1. Job(old) = RunningJob(old.setting, old.took)
      BY <1>1 DEF Job
    <3> QED
      BY <1>3, <1>4, <1>6, <1>9, <2>3, <3>1 DEF CleanMove
  <2> QED
    BY <2>1, <2>2, <2>3
<1> QED
  <2>1. build[b].pc # "idle" /\ CleanMove(build[b], r)
    BY <1>1, <1>10 DEF old
  <2>2. Tracks(files', r) /\ \A f \in Source : files'[f] = files[f]
    BY <1>1, <1>9
  <2> QED
    BY <1>1, <2>1, <2>2, Moves DEF IInv

LEMMA ReadMoves ==
  ASSUME InOrder, IInv, AllTrack, SourcesOK, NEW b \in Build, Read(b)
  PROVE  AllTrack' /\ SourcesOK' /\ [Clean!Next]_(Clean!vars)
<1> DEFINE old == build[b]
           part == Part(old.step, old.part)
           r == [old EXCEPT !.pc = "work", !.read = Reading(part, files),
                            !.inputs = IF old.part = 1 THEN Reading(part, files) ELSE @,
                            !.took = Took(old)]
<1>1. /\ old.pc = "read" /\ Readable(part, files) /\ UNCHANGED <<files, stamps>>
      /\ build' = [build EXCEPT ![b] = r]
  BY DEF Read
<1>2. RecordOK(old) /\ Tracks(files, old) /\ old.step \in Step /\ old.part \in Parts(old.step)
  BY DEF IInv, TypeOK, RecordOK, AllTrack
<1>3. /\ r.pc = "work" /\ r.part = old.part /\ r.step = old.step /\ r.setting = old.setting
      /\ r.read = Reading(part, files) /\ r.took = Took(old) /\ r.product = old.product
  BY <1>2 DEF RecordOK, Field
<1> HIDE DEF old, r
<1>4. old.product = Absent
  BY <1>1, <1>2 DEF Tracks
<1> DEFINE clean == CleanFiles(r.setting, r.took)
<1>5. /\ r.took = [f \in Source |-> r.took[f]]
      /\ old.step = 1 /\ old.part = 1 => r.took = Sources /\ old.took = <<>>
      /\ ~ (old.step = 1 /\ old.part = 1) => r.took = old.took
      /\ \A t \in 1 .. r.step - 1 : \A f \in Outputs(t) : Agrees(files, r, f)
      /\ \A q \in 1 .. r.part - 1 : Agrees(files, r, Part(r.step, q).writes)
  <2>1. CASE old.step = 1 /\ old.part = 1
    <3>1. r.took = Sources
      BY <1>3, <2>1 DEF Took
    <3>2. old.took = <<>>
      BY <1>1, <1>2, <2>1 DEF Tracks, Untaken
    <3>3. 1 .. r.step - 1 = {} /\ 1 .. r.part - 1 = {}
      BY <1>3, <2>1
    <3> QED
      BY <2>1, <3>1, <3>2, <3>3 DEF Sources
  <2>2. CASE ~ (old.step = 1 /\ old.part = 1)
    <3>1. r.took = old.took /\ ~ Untaken(old) /\ Done(old) = 1 .. old.part - 1
      BY <1>1, <1>3, <2>2 DEF Took, Untaken, Done
    <3> QED
      BY <1>1, <1>2, <1>3, <2>2, <3>1 DEF Tracks, Agrees
  <2> QED
    BY <2>1, <2>2
<1>6. r.read = Reading(part, clean)
  <2>1. r.step = 1 /\ r.part = 1 => \A f \in Source : files[f] = clean[f]
    <3>1. \A f \in Source : clean[f] = r.took[f]
      BY CleanFits
    <3> QED
      BY <1>3, <1>5, <3>1 DEF Sources
  <2>2. \A t \in 1 .. r.step - 1 : \A f \in Outputs(t) : files[f] = Absent \/ files[f] = clean[f]
    BY <1>5 DEF Agrees
  <2>3. \A q \in 1 .. r.part - 1 :
          \/ files[Part(r.step, q).writes] = Absent
          \/ files[Part(r.step, q).writes] = clean[Part(r.step, q).writes]
    BY <1>5 DEF Agrees
  <2> HIDE DEF clean
  <2>4. /\ old.step = 1 /\ old.part = 1 => \A f \in Source : files[f] = clean[f]
        /\ \A t \in 1 .. old.step - 1 : \A f \in Outputs(t) : files[f] = Absent \/ files[f] = clean[f]
        /\ \A q \in 1 .. old.part - 1 :
             \/ files[Part(old.step, q).writes] = Absent
             \/ files[Part(old.step, q).writes] = clean[Part(old.step, q).writes]
    BY <1>3, <2>1, <2>2, <2>3
  <2>5. Readable(Part(old.step, old.part), files) /\ RecordOK(old) /\ old.part \in Parts(old.step)
    BY <1>1, <1>2
  <2>6. Reading(Part(old.step, old.part), files) = Reading(Part(old.step, old.part), clean)
    BY <2>4, <2>5, InputsAgree
  <2> QED
    BY <1>3, <2>6
<1>7. Tracks(files, r)
  <2>1. ~ Untaken(r) /\ Done(r) = 1 .. r.part - 1
    BY <1>3 DEF Untaken, Done
  <2> QED
    BY <1>3, <1>4, <1>5, <1>6, <2>1 DEF Tracks
<1>8. CleanMove(old, r)
  <2>1. Job(r) = RunningJob(old.setting, r.took) /\ Job(old) = RunningJob(old.setting, old.took)
    BY <1>1, <1>3 DEF Job
  <2> QED
    BY <1>1, <1>3, <1>5, <2>1 DEF CleanMove
<1> QED
  <2>1. build[b].pc # "idle" /\ CleanMove(build[b], r)
    BY <1>1, <1>8 DEF old
  <2>2. Tracks(files', r) /\ \A f \in Source : files'[f] = files[f]
    BY <1>1, <1>7
  <2> QED
    BY <1>1, <2>1, <2>2, Moves DEF IInv

\* The file w is of the running part only.
OwnOnly(r, w) ==
  /\ \A f \in Source : f # w
  /\ \A t \in 1 .. r.step - 1 : \A f \in Outputs(t) : f # w
  /\ \A p \in 1 .. r.part - 1 : Part(r.step, p).writes # w

LEMMA OwnOnlyIs ==
  ASSUME NEW r, RecordOK(r) PROVE OwnOnly(r, Part(r.step, r.part).writes)
<1> DEFINE w == Part(r.step, r.part).writes
<1>1. r.step \in Step /\ r.part \in Parts(r.step)
  BY DEF RecordOK
<1>2. \A f \in Source : f # w
  BY <1>1, PlanFiles, FileAssumption
<1>3. \A t \in 1 .. r.step - 1 : t \in Step /\ t # r.step
  BY <1>1 DEF Step
<1>4. \A t \in 1 .. r.step - 1 : \A f \in Outputs(t) : f # w
  BY <1>1, <1>3, PlanFiles DEF Outputs
<1>5. \A p \in 1 .. r.part - 1 : p \in Parts(r.step) /\ p # r.part
  BY <1>1, PlanFacts
<1>6. \A p \in 1 .. r.part - 1 : Part(r.step, p).writes # w
  BY <1>1, <1>5, PlanFiles
<1> QED
  BY <1>2, <1>4, <1>6 DEF OwnOnly

\* A step whose outputs are the clean build's is done.
LEMMA DoneMoves ==
  ASSUME InOrder, NEW r, RecordOK(r), NEW fs, r.pc # "idle", r.product = Absent,
         r.took = [f \in Source |-> r.took[f]],
         \A t \in 1 .. r.step - 1 : \A f \in Outputs(t) : Agrees(fs, r, f),
         \A p \in Parts(r.step) : Agrees(fs, r, Part(r.step, p).writes)
  PROVE  Tracks(fs, Advanced(r, fs)) /\ CleanMove(r, Advanced(r, fs))
<1>1. \A t \in 1 .. r.step : t = r.step \/ t \in 1 .. r.step - 1
  BY DEF RecordOK, Step
<1>2. \A f \in Outputs(r.step) : Agrees(fs, r, f)
  BY DEF Outputs
<1>3. \A t \in 1 .. r.step : \A f \in Outputs(t) : Agrees(fs, r, f)
  BY <1>1, <1>2
<1>4. /\ Tracks(fs, Advanced(r, fs))
      /\ r.took # <<>>
      /\ IF r.step = Len(Plan)
         THEN Advanced(r, fs).pc = "idle" /\ Advanced(r, fs).product \in {Whole(r.setting, r.took), Absent}
         ELSE Job(Advanced(r, fs)) = RunningJob(r.setting, r.took) /\ Advanced(r, fs).product = Absent
  BY <1>3, AdvancedTracks
<1>5. Job(r) = RunningJob(r.setting, r.took)
  BY DEF Job
<1> QED
  BY <1>4, <1>5 DEF CleanMove

LEMMA OpenMoves ==
  ASSUME IInv, AllTrack, SourcesOK, NEW b \in Build, Open(b)
  PROVE  AllTrack' /\ SourcesOK' /\ [Clean!Next]_(Clean!vars)
<1> DEFINE old == build[b]
           w == Part(old.step, old.part).writes
           r == [old EXCEPT !.pc = "write"]
<1>1. /\ old.pc = "work" /\ build' = [build EXCEPT ![b] = r]
      /\ files' = [files EXCEPT ![w] = Torn]
  BY DEF Open
<1>2. RecordOK(old) /\ Tracks(files, old)
  BY DEF IInv, TypeOK, RecordOK, AllTrack
<1>3. /\ r.pc = "write" /\ r.part = old.part /\ r.step = old.step /\ r.setting = old.setting
      /\ r.read = old.read /\ r.took = old.took /\ r.product = old.product
  BY <1>2 DEF RecordOK, Field
<1>4. \A f : f # w => files'[f] = files[f]
  BY <1>1 DEF IInv, TypeOK
<1> HIDE DEF old, r
<1>5. OwnOnly(old, w)
  BY <1>2, OwnOnlyIs DEF w
<1> HIDE DEF w
<1>6. Tracks(files', r)
  <2>1. ~ Untaken(old) /\ ~ Untaken(r) /\ Done(old) = 1 .. old.part - 1 /\ Done(r) = 1 .. r.part - 1
    BY <1>1, <1>3 DEF Untaken, Done
  <2> QED
    BY <1>1, <1>2, <1>3, <1>4, <1>5, <2>1 DEF Tracks, Agrees, OwnOnly
<1>7. CleanMove(old, r)
  BY <1>1, <1>3 DEF CleanMove, Job
<1> QED
  <2>1. build[b].pc # "idle" /\ CleanMove(build[b], r)
    BY <1>1, <1>7 DEF old
  <2>2. Tracks(files', r) /\ \A f \in Source : files'[f] = files[f]
    BY <1>4, <1>5, <1>6 DEF OwnOnly
  <2> QED
    BY <1>1, <2>1, <2>2, Moves DEF IInv

LEMMA WriteMoves ==
  ASSUME InOrder, IInv, AllTrack, SourcesOK, NEW b \in Build, Write(b)
  PROVE  AllTrack' /\ SourcesOK' /\ [Clean!Next]_(Clean!vars)
<1> DEFINE old == build[b]
           s == old.step
           key == StepKey(s, old.setting)
           w == Part(s, old.part).writes
           clean == CleanFiles(old.setting, old.took)
           next == [old EXCEPT !.pc = "read", !.part = old.part + 1]
           done == [old EXCEPT !.pc = "stamp"]
           r == IF old.part < Len(Plan[s].parts) THEN next
                ELSE IF Plan[s].stamped THEN done ELSE Advanced(old, files')
<1>1. /\ old.pc = "write" /\ build' = [build EXCEPT ![b] = r]
      /\ files' = [files EXCEPT ![w] = IF @ = Absent THEN Absent ELSE Produce(w, key, old.read)]
  BY DEF Write, Key
<1>2. RecordOK(old) /\ Tracks(files, old) /\ s \in Step /\ old.part \in Parts(s)
  BY DEF IInv, TypeOK, RecordOK, AllTrack
<1>3. \A f : f # w => files'[f] = files[f]
  BY <1>1 DEF IInv, TypeOK
<1>4. files'[w] = Absent \/ files'[w] = clean[w]
  <2>1. w \in File
    BY <1>2, PlanFiles DEF File
  <2>2. files'[w] = IF files[w] = Absent THEN Absent ELSE Produce(w, key, old.read)
    BY <1>1, <2>1 DEF IInv, TypeOK
  <2>3. old.read = Reading(Part(s, old.part), clean)
    BY <1>1, <1>2 DEF Tracks, Untaken
  <2>4. clean[w] = Produce(w, key, Reading(Part(s, old.part), clean))
    BY <1>2, CleanFits
  <2> QED
    BY <2>2, <2>3, <2>4
<1> HIDE DEF key, clean
<1>5. OwnOnly(old, w)
  BY <1>2, OwnOnlyIs
<1>6. /\ old.product = Absent /\ old.took = [f \in Source |-> old.took[f]]
      /\ \A t \in 1 .. s - 1 : \A f \in Outputs(t) : Agrees(files', old, f)
      /\ \A p \in 1 .. old.part : Agrees(files', old, Part(s, p).writes)
  <2>1. ~ Untaken(old) /\ Done(old) = 1 .. old.part - 1
    BY <1>1 DEF Untaken, Done
  <2>2. /\ old.product = Absent /\ old.took = [f \in Source |-> old.took[f]]
        /\ \A t \in 1 .. s - 1 : \A f \in Outputs(t) : Agrees(files, old, f)
        /\ \A p \in 1 .. old.part - 1 : Agrees(files, old, Part(s, p).writes)
    BY <1>1, <1>2, <2>1 DEF Tracks
  <2>3. \A p \in 1 .. old.part : p = old.part \/ p \in 1 .. old.part - 1
    BY <1>2, PlanFacts
  <2>4. /\ \A t \in 1 .. s - 1 : \A f \in Outputs(t) : Agrees(files', old, f)
        /\ \A p \in 1 .. old.part - 1 : Agrees(files', old, Part(s, p).writes)
    BY <1>3, <1>5, <2>2 DEF Agrees, OwnOnly
  <2>5. Agrees(files', old, w)
    BY <1>4 DEF Agrees, clean
  <2> QED
    BY <2>2, <2>3, <2>4, <2>5
<1>7. Job(old) = RunningJob(old.setting, old.took)
  BY <1>1 DEF Job
<1> HIDE DEF old, w
<1>8. Tracks(files', r) /\ CleanMove(old, r)
  <2>1. CASE old.part < Len(Plan[s].parts)
    <3>1. /\ next.pc = "read" /\ next.part = old.part + 1 /\ next.step = s
          /\ next.setting = old.setting /\ next.took = old.took /\ next.product = old.product
      BY <1>2 DEF RecordOK, Field
    <3> HIDE DEF next
    <3>2. ~ Untaken(next) /\ Done(next) = 1 .. old.part
      <4>1. old.part \in Nat /\ old.part >= 1
        BY <1>2, PlanFacts
      <4> QED
        BY <3>1, <4>1 DEF Untaken, Done
    <3>3. Tracks(files', next)
      BY <1>6, <3>1, <3>2 DEF Tracks, Agrees
    <3>4. CleanMove(old, next)
      BY <1>1, <1>7, <3>1 DEF CleanMove, Job
    <3> QED
      BY <2>1, <3>3, <3>4
  <2>2. CASE ~ (old.part < Len(Plan[s].parts)) /\ Plan[s].stamped
    <3>1. /\ done.pc = "stamp" /\ done.part = old.part /\ done.step = s
          /\ done.setting = old.setting /\ done.took = old.took /\ done.product = old.product
      BY <1>2 DEF RecordOK, Field
    <3> HIDE DEF done
    <3>2. ~ Untaken(done) /\ Done(done) = 1 .. old.part
      <4>1. Parts(s) = 1 .. old.part
        BY <1>2, <2>2, PlanFacts
      <4> QED
        BY <3>1, <4>1 DEF Untaken, Done
    <3>3. Tracks(files', done)
      BY <1>6, <3>1, <3>2 DEF Tracks, Agrees
    <3>4. CleanMove(old, done)
      BY <1>1, <1>7, <3>1 DEF CleanMove, Job
    <3> QED
      BY <2>2, <3>3, <3>4
  <2>3. CASE ~ (old.part < Len(Plan[s].parts)) /\ ~ Plan[s].stamped
    <3>1. Parts(s) = 1 .. old.part
      BY <1>2, <2>3, PlanFacts
    <3> HIDE DEF next, done
    <3>2. Tracks(files', Advanced(old, files')) /\ CleanMove(old, Advanced(old, files'))
      BY <1>1, <1>2, <1>6, <1>7, <3>1, DoneMoves
    <3> QED
      BY <2>3, <3>2
  <2> QED
    BY <2>1, <2>2, <2>3
<1> HIDE DEF r
<1> QED
  <2>1. build[b].pc # "idle" /\ CleanMove(build[b], r)
    BY <1>1, <1>8 DEF old
  <2>2. Tracks(files', r) /\ \A f \in Source : files'[f] = files[f]
    BY <1>3, <1>5, <1>8 DEF OwnOnly
  <2> QED
    BY <1>1, <2>1, <2>2, Moves DEF IInv

LEMMA StampMoves ==
  ASSUME InOrder, IInv, AllTrack, SourcesOK, NEW b \in Build, WriteStamp(b)
  PROVE  AllTrack' /\ SourcesOK' /\ [Clean!Next]_(Clean!vars)
<1> DEFINE old == build[b]
           r == Advanced(old, files)
<1>1. old.pc = "stamp" /\ UNCHANGED files /\ build' = [build EXCEPT ![b] = r]
  BY DEF WriteStamp
<1>2. RecordOK(old) /\ Tracks(files, old)
  BY DEF IInv, TypeOK, RecordOK, AllTrack
<1> HIDE DEF old
<1>3. /\ old.product = Absent /\ old.took = [f \in Source |-> old.took[f]]
      /\ \A t \in 1 .. old.step - 1 : \A f \in Outputs(t) : Agrees(files, old, f)
      /\ \A p \in Parts(old.step) : Agrees(files, old, Part(old.step, p).writes)
  BY <1>1, <1>2 DEF Tracks, Untaken, Done
<1>4. Tracks(files, r) /\ CleanMove(old, r)
  BY <1>1, <1>2, <1>3, DoneMoves
<1> HIDE DEF r
<1> QED
  <2>1. build[b].pc # "idle" /\ CleanMove(build[b], r)
    BY <1>1, <1>4 DEF old
  <2>2. Tracks(files', r) /\ \A f \in Source : files'[f] = files[f]
    BY <1>1, <1>4
  <2> QED
    BY <1>1, <2>1, <2>2, Moves DEF IInv

LEMMA CleanStep ==
  ASSUME Faults = {}, SingleCandidate, InOrder, IInv, AllTrack, SourcesOK, [Next]_vars
  PROVE  AllTrack' /\ SourcesOK' /\ [Clean!Next]_(Clean!vars)
<1>0. TypeOK /\ \A b \in Build : RecordOK(build[b]) /\ Tracks(files, build[b])
  BY DEF IInv, TypeOK, RecordOK, AllTrack
<1>1. ASSUME NEW b \in Build, NEW setting \in Setting, NEW cache \in BOOLEAN,
             Start(b, setting, cache)
      PROVE  AllTrack' /\ SourcesOK' /\ [Clean!Next]_(Clean!vars)
  <2> DEFINE r == [Idle(Absent) EXCEPT !.pc = "check", !.setting = setting, !.cache = cache]
  <2>1. /\ build[b].pc = "idle" /\ \A c \in Build : build[c].pc = "idle"
        /\ build' = [build EXCEPT ![b] = r] /\ UNCHANGED <<files, stamps>>
    BY <1>1 DEF Start
  <2>2. /\ r.pc = "check" /\ r.step = 1 /\ r.part = 1 /\ r.setting = setting
        /\ r.took = <<>> /\ r.product = Absent
    BY DEF Idle
  <2> HIDE DEF r
  <2>3. Tracks(files', r)
    BY <2>2 DEF Tracks, Untaken
  <2>4. CleanMove(build[b], r)
    BY <2>1, <2>2 DEF CleanMove, Job
  <2> QED
    BY <1>0, <2>1, <2>3, <2>4, Moves DEF IInv
<1>2. ASSUME NEW b \in Build, Miss(b)
      PROVE  AllTrack' /\ SourcesOK' /\ [Clean!Next]_(Clean!vars)
  <2> DEFINE old == build[b]
             r == [old EXCEPT !.pc = "read", !.part = 1]
  <2>1. build' = [build EXCEPT ![b] = r]
    <3>1. [build EXCEPT ![b].pc = "read", ![b].part = 1] = [build EXCEPT ![b] = r]
      BY <1>0 DEF TypeOK
    <3> QED
      BY <1>2, <3>1 DEF Miss
  <2>2. old.pc = "check" /\ UNCHANGED files
    BY <1>2 DEF Miss
  <2>3. /\ r.pc = "read" /\ r.step = old.step /\ r.part = 1 /\ r.setting = old.setting
        /\ r.took = old.took /\ r.product = old.product
    BY <1>0 DEF RecordOK, Field
  <2>4. Tracks(files, old)
    BY <1>0
  <2> HIDE DEF old, r
  <2>5. old.part = 1
    BY <2>2, <2>4 DEF Tracks
  <2>6. (Untaken(r) <=> Untaken(old)) /\ Done(r) = {}
    BY <2>2, <2>3, <2>5 DEF Untaken, Done
  <2>7. Tracks(files', r)
    BY <2>2, <2>3, <2>4, <2>6 DEF Tracks, Agrees
  <2>8. CleanMove(old, r)
    BY <2>2, <2>3 DEF CleanMove, Job
  <2> QED
    BY <1>0, <2>1, <2>2, <2>7, <2>8, Moves DEF IInv, old
<1>3. ASSUME NEW b \in Build, Fail(b) \/ Kill(b)
      PROVE  AllTrack' /\ SourcesOK' /\ [Clean!Next]_(Clean!vars)
  <2> DEFINE r == Idle(Absent)
  <2>1. build[b].pc # "idle" /\ build' = [build EXCEPT ![b] = r] /\ UNCHANGED files
    BY <1>3 DEF Fail, Kill
  <2>2. r.pc = "idle" /\ r.product = Absent
    BY DEF Idle
  <2> HIDE DEF r
  <2>3. build[b].product = Absent
    BY <1>0, <2>1 DEF Tracks
  <2>4. Tracks(files', r) /\ CleanMove(build[b], r)
    BY <2>1, <2>2, <2>3 DEF Tracks, CleanMove
  <2> QED
    BY <1>0, <2>1, <2>4, Moves DEF IInv
<1>4. ASSUME UNCHANGED build, \A f \in Derived : files'[f] = files[f] \/ files'[f] = Absent,
             \A f \in Source : files'[f] \in Content \cup {Absent}
      PROVE  AllTrack' /\ SourcesOK' /\ [Clean!Next]_(Clean!vars)
  <2>1. AllTrack'
    BY <1>0, <1>4, TracksKept DEF AllTrack
  <2>2. Sources' \in [Source -> Content \cup {Absent}]
    BY <1>4 DEF Sources
  <2>3. Jobs' = Jobs /\ Products' = Products
    BY <1>4 DEF Jobs, Products
  <2>4. Clean!Edit
    BY <2>2, <2>3, CleanStays
  <2> QED
    BY <1>4, <2>1, <2>4 DEF SourcesOK, Clean!Next
<1>5. ASSUME NEW f \in Source, NEW c \in Content, Edit(f, c)
      PROVE  AllTrack' /\ SourcesOK' /\ [Clean!Next]_(Clean!vars)
  <2>1. UNCHANGED build /\ files' = [files EXCEPT ![f] = c]
    BY <1>5 DEF Edit
  <2>2. \A g \in File : files'[g] = IF g = f THEN c ELSE files[g]
    BY <1>0, <2>1 DEF TypeOK
  <2>3. \A g \in Derived : g # f
    BY FileAssumption
  <2> QED
    BY <1>4, <2>1, <2>2, <2>3 DEF File, SourcesOK
<1>6. ASSUME NEW f \in File, Delete(f)
      PROVE  AllTrack' /\ SourcesOK' /\ [Clean!Next]_(Clean!vars)
  <2>1. UNCHANGED build /\ files' = [files EXCEPT ![f] = Absent]
    BY <1>6 DEF Delete
  <2>2. \A g \in File : files'[g] = IF g = f THEN Absent ELSE files[g]
    BY <1>0, <2>1 DEF TypeOK
  <2> QED
    BY <1>4, <2>1, <2>2 DEF File, SourcesOK
<1>7. ASSUME UNCHANGED <<files, build>>
      PROVE  AllTrack' /\ SourcesOK' /\ [Clean!Next]_(Clean!vars)
  BY <1>4, <1>7 DEF SourcesOK
<1>8. ASSUME NEW b \in Build, StampTorn(b) PROVE FALSE
  BY <1>8 DEF StampTorn
<1>9. ASSUME NEW s \in Step, DeleteStamp(s)
      PROVE  AllTrack' /\ SourcesOK' /\ [Clean!Next]_(Clean!vars)
  BY <1>7, <1>9 DEF DeleteStamp
<1>10. CASE UNCHANGED vars
  BY <1>7, <1>10 DEF vars
<1> QED
  BY <1>1, <1>2, <1>3, <1>5, <1>6, <1>8, <1>9, <1>10, SkipMoves, ReadMoves, OpenMoves, WriteMoves,
     StampMoves
  DEF Next, Proceed

\* Without an edit under a running step, a second build beside it, a stamp
\* cut short or a second place for a header, a build that skips whatever is
\* up to date, and may be killed, or lose files, at any moment, leaves the
\* bitstream of a full build on the sources it took, or none: what cache.rs
\* and flow.rs do implements a clean build.
THEOREM Refinement ==
  ASSUME Faults = {}, SingleCandidate, InOrder PROVE Spec => ImplementsCleanBuild
<1> DEFINE Inv == IInv /\ AllTrack /\ SourcesOK
<1>1. Init => Inv /\ Clean!Init
  <2> SUFFICES ASSUME Init PROVE Inv /\ Clean!Init
    OBVIOUS
  <2>1. /\ \A b \in Build : build[b] = Idle(Absent) /\ Idle(Absent).pc = "idle" /\ Idle(Absent).product = Absent
        /\ \A f \in Source : files[f] \in Content
    BY FileAssumption DEF Init, Idle, File
  <2>2. IInv
    BY StartsFresh
  <2>3. AllTrack /\ SourcesOK
    BY <2>1 DEF AllTrack, Tracks, SourcesOK
  <2>4. Sources \in [Source -> Content]
    BY <2>1 DEF Sources
  <2>5. /\ Jobs = [b \in Build |-> [running |-> FALSE]]
        /\ Products = [b \in Build |-> Absent]
    BY <2>1 DEF Jobs, Job, Products
  <2>6. Clean!Init
    BY <2>4, <2>5, Zenon DEF Clean!Init, Clean!NoJob, Jobs, Job, RunningJob, Products
  <2> QED
    BY <2>2, <2>3, <2>6
<1>2. Inv /\ [Next]_vars => Inv' /\ [Clean!Next]_(Clean!vars)
  BY CleanStep, FreshStep
<1> HIDE DEF Inv
<1> QED
  BY <1>1, <1>2, PTL DEF Spec, ImplementsCleanBuild, Clean!Spec

-----------------------------------------------------------------------------
(***************************************************************************)
(* Half-written files, edits under a running step and torn stamps          *)
(* notwithstanding.                                                        *)
(***************************************************************************)

\* One build at a time; a file that is gone or whole is not half written.
HalfAssumed ==
  /\ "concurrent" \notin Faults
  /\ Absent # Torn
  /\ \A f, key, in : Produce(f, key, in) # Torn

StampWhole(fs, s, stamp) ==
  Plan[s].stamped /\ stamp # NoStamp => \A p \in Parts(s) : fs[Part(s, p).writes] # Torn

\* A step without its stamp is under way, its parts so far whole.
RunWhole(fs, sts, r) ==
  Running(r) /\ Plan[r.step].stamped =>
    /\ sts[r.step] = NoStamp
    /\ \A p \in Done(r) : fs[Part(r.step, p).writes] # Torn

HalfInv ==
  /\ TypeOK
  /\ OneAtATime
  /\ \A s \in Step : StampWhole(files, s, stamps[s])
  /\ \A b \in Build : RunWhole(files, stamps, build[b])

\* A step of one build that writes only its running part's file, and has no
\* stamp but its own step's.
LEMMA HalfAlone ==
  ASSUME HalfAssumed, HalfInv, TypeOK', NEW b \in Build, NEW r, build' = [build EXCEPT ![b] = r],
         build[b].pc # "idle" \/ \A c \in Build : build[c].pc = "idle",
         RunWhole(files', stamps', r),
         \A s \in Step : StampWhole(files', s, stamps'[s])
  PROVE  HalfInv'
<1>1. \A c \in Build : build'[c] = IF c = b THEN r ELSE build[c]
  BY DEF HalfInv, TypeOK
<1>2. \A c \in Build : c # b => build[c].pc = "idle"
  BY DEF HalfInv, OneAtATime
<1>3. OneAtATime'
  BY <1>1, <1>2 DEF OneAtATime
<1>4. \A c \in Build : RunWhole(files', stamps', build'[c])
  BY <1>1, <1>2 DEF RunWhole, Running
<1> QED
  BY <1>3, <1>4 DEF HalfInv

\* Another step's file, or a file deleted, is in no stamp's way.
LEMMA HalfKept ==
  ASSUME HalfAssumed, NEW fs, NEW gs, NEW s \in Step, NEW stamp, StampWhole(fs, s, stamp),
         \A p \in Parts(s) : LET o == Part(s, p).writes IN gs[o] = fs[o] \/ gs[o] = Absent
  PROVE  StampWhole(gs, s, stamp)
  BY DEF StampWhole, HalfAssumed

LEMMA HalfStep ==
  ASSUME HalfAssumed, HalfInv, [Next]_vars PROVE HalfInv'
<1>0. /\ TypeOK /\ TypeOK' /\ OneAtATime
      /\ \A b \in Build : RecordOK(build[b]) /\ RunWhole(files, stamps, build[b])
      /\ \A s \in Step : StampWhole(files, s, stamps[s])
  BY TypeStep DEF HalfInv, TypeOK, RecordOK
<1>i. ASSUME NEW r, NEW fs, NEW sts, r.pc \in {"idle", "check"} PROVE RunWhole(fs, sts, r)
  BY <1>i DEF RunWhole, Running
<1>1. ASSUME NEW b \in Build, NEW setting \in Setting, NEW cache \in BOOLEAN,
             Start(b, setting, cache)
      PROVE  HalfInv'
  <2> DEFINE r == [Idle(Absent) EXCEPT !.pc = "check", !.setting = setting, !.cache = cache]
  <2>1. /\ \A c \in Build : build[c].pc = "idle"
        /\ build' = [build EXCEPT ![b] = r] /\ UNCHANGED <<files, stamps>>
    BY <1>1 DEF Start, HalfAssumed
  <2>2. r.pc = "check"
    BY DEF Idle
  <2> HIDE DEF r
  <2>3. RunWhole(files', stamps', r)
    BY <1>i, <2>2
  <2> QED
    BY <1>0, <2>1, <2>3, HalfAlone
<1>2. ASSUME NEW b \in Build, Skip(b) PROVE HalfInv'
  <2> DEFINE took == [build[b] EXCEPT !.took = Took(build[b])]
             r == Advanced(took, files)
  <2>1. /\ UNCHANGED <<files, stamps>> /\ build' = [build EXCEPT ![b] = r]
        /\ build[b].pc # "idle"
    BY <1>2 DEF Skip
  <2>2. RecordOK(took)
    BY <1>0 DEF RecordOK, Field
  <2>3. r.pc \in {"idle", "check"}
    BY <2>2, AdvancedOK
  <2> HIDE DEF r
  <2>4. RunWhole(files', stamps', r)
    BY <1>i, <2>3
  <2> QED
    BY <1>0, <2>1, <2>4, HalfAlone
<1>3. ASSUME NEW b \in Build, Miss(b) PROVE HalfInv'
  <2> DEFINE old == build[b]
             r == [old EXCEPT !.pc = "read", !.part = 1]
  <2>1. build' = [build EXCEPT ![b] = r] /\ build[b].pc # "idle"
    <3>1. [build EXCEPT ![b].pc = "read", ![b].part = 1] = [build EXCEPT ![b] = r]
      BY <1>0 DEF TypeOK
    <3> QED
      BY <1>3, <3>1 DEF Miss
  <2>2. UNCHANGED files /\ \A t \in Step : stamps'[t] = IF t = old.step THEN NoStamp ELSE stamps[t]
    BY <1>0, <1>3 DEF Miss, TypeOK
  <2>3. r.pc = "read" /\ r.part = 1 /\ r.step = old.step /\ old.step \in Step
    BY <1>0 DEF RecordOK, Field
  <2> HIDE DEF r
  <2>4. Done(r) = {}
    BY <2>3 DEF Done
  <2>5. RunWhole(files', stamps', r)
    BY <2>2, <2>3, <2>4 DEF RunWhole
  <2>6. \A s \in Step : StampWhole(files', s, stamps'[s])
    BY <1>0, <2>2 DEF StampWhole
  <2> QED
    BY <1>0, <2>1, <2>5, <2>6, HalfAlone
<1>4. ASSUME NEW b \in Build, Read(b) PROVE HalfInv'
  <2> DEFINE old == build[b]
             part == Part(old.step, old.part)
             r == [old EXCEPT !.pc = "work", !.read = Reading(part, files),
                              !.inputs = IF old.part = 1 THEN Reading(part, files) ELSE @,
                              !.took = Took(old)]
  <2>1. /\ old.pc = "read" /\ UNCHANGED <<files, stamps>> /\ build' = [build EXCEPT ![b] = r]
    BY <1>4 DEF Read
  <2>2. r.pc = "work" /\ r.part = old.part /\ r.step = old.step
    BY <1>0 DEF RecordOK, Field
  <2>3. RunWhole(files, stamps, old)
    BY <1>0
  <2> HIDE DEF r
  <2>4. RunWhole(files', stamps', r)
    BY <2>1, <2>2, <2>3 DEF RunWhole, Running, Done
  <2> QED
    BY <1>0, <2>1, <2>4, HalfAlone
<1>5. ASSUME NEW b \in Build, Open(b) \/ Write(b)
      PROVE  HalfInv'
  <2> DEFINE old == build[b]
             w == Part(old.step, old.part).writes
  <2>0. RecordOK(old) /\ old.step \in Step /\ old.part \in Parts(old.step) /\ RunWhole(files, stamps, old)
    BY <1>0 DEF RecordOK
  <2>1. /\ old.pc \in {"work", "write"} /\ UNCHANGED stamps
        /\ \A f : f # w => files'[f] = files[f]
    <3>1. CASE Open(b)
      BY <1>0, <3>1 DEF Open, TypeOK
    <3>2. CASE Write(b)
      <4>1. \E c : files' = [files EXCEPT ![w] = c]
        BY <3>2, Zenon DEF Write
      <4>2. old.pc = "write" /\ UNCHANGED stamps
        BY <3>2 DEF Write
      <4> QED
        BY <1>0, <4>1, <4>2 DEF TypeOK
    <3> QED
      BY <1>5, <3>1, <3>2
  <2>2. \A s \in Step : StampWhole(files', s, stamps'[s])
    <3> SUFFICES ASSUME NEW s \in Step PROVE StampWhole(files', s, stamps[s])
      BY <2>1
    <3>1. CASE s = old.step
      BY <2>0, <2>1, <3>1 DEF RunWhole, Running, StampWhole
    <3>2. CASE s # old.step
      <4>1. \A q \in Parts(s) : Part(s, q).writes # w
        BY <2>0, <3>2, PlanFiles
      <4> QED
        BY <1>0, <2>1, <4>1, HalfKept
    <3> QED
      BY <3>1, <3>2
  <2>3. OwnOnly(old, w)
    BY <2>0, OwnOnlyIs
  <2>4. Plan[old.step].stamped =>
          /\ stamps'[old.step] = NoStamp
          /\ \A p \in 1 .. old.part - 1 : files'[Part(old.step, p).writes] # Torn
    <3>1. Done(old) = 1 .. old.part - 1
      BY <2>1 DEF Done
    <3> QED
      BY <2>0, <2>1, <2>3, <3>1 DEF RunWhole, Running, OwnOnly
  <2>5. CASE Open(b)
    <3> DEFINE r == [old EXCEPT !.pc = "write"]
    <3>1. build' = [build EXCEPT ![b] = r] /\ build[b].pc # "idle"
      BY <2>5 DEF Open
    <3>2. r.pc = "write" /\ r.part = old.part /\ r.step = old.step
      BY <2>0 DEF RecordOK, Field
    <3> HIDE DEF r
    <3>3. RunWhole(files', stamps', r)
      BY <2>4, <3>2 DEF RunWhole, Done
    <3> QED
      BY <1>0, <2>2, <3>1, <3>3, HalfAlone
  <2>6. CASE Write(b)
    <3> DEFINE next == [old EXCEPT !.pc = "read", !.part = old.part + 1]
               done == [old EXCEPT !.pc = "stamp"]
               r == IF old.part < Len(Plan[old.step].parts) THEN next
                    ELSE IF Plan[old.step].stamped THEN done ELSE Advanced(old, files')
    <3>1. /\ build' = [build EXCEPT ![b] = r] /\ build[b].pc # "idle"
          /\ files' = [files EXCEPT ![w] = IF @ = Absent THEN Absent
                                           ELSE Produce(w, Key(b), old.read)]
      BY <2>6 DEF Write
    <3>2. files'[w] # Torn
      <4>1. w \in File
        BY <2>0, PlanFiles DEF File
      <4>2. files'[w] = IF files[w] = Absent THEN Absent ELSE Produce(w, Key(b), old.read)
        BY <1>0, <3>1, <4>1 DEF TypeOK
      <4> QED
        BY <4>2 DEF HalfAssumed
    <3>3. Plan[old.step].stamped =>
            \A p \in 1 .. old.part : files'[Part(old.step, p).writes] # Torn
      <4>1. \A p \in 1 .. old.part : p = old.part \/ p \in 1 .. old.part - 1
        BY <2>0, PlanFacts
      <4> QED
        BY <2>4, <3>2, <4>1
    <3> HIDE DEF w
    <3>4. RunWhole(files', stamps', r)
      <4>1. CASE old.part < Len(Plan[old.step].parts)
        <5>1. next.pc = "read" /\ next.part = old.part + 1 /\ next.step = old.step
          BY <2>0 DEF RecordOK, Field
        <5>2. r = next
          BY <4>1
        <5> HIDE DEF next, r
        <5>3. Done(next) = 1 .. old.part
          BY <2>0, <5>1, PlanFacts DEF Done
        <5> QED
          BY <2>4, <3>3, <5>1, <5>2, <5>3 DEF RunWhole
      <4>2. CASE ~ (old.part < Len(Plan[old.step].parts)) /\ Plan[old.step].stamped
        <5>1. done.pc = "stamp" /\ done.step = old.step
          BY <2>0 DEF RecordOK, Field
        <5>2. r = done
          BY <4>2
        <5> HIDE DEF done, r
        <5>3. Done(done) = 1 .. old.part
          BY <2>0, <4>2, <5>1, PlanFacts DEF Done
        <5> QED
          BY <2>4, <3>3, <5>1, <5>2, <5>3 DEF RunWhole
      <4>3. CASE ~ (old.part < Len(Plan[old.step].parts)) /\ ~ Plan[old.step].stamped
        <5>1. Advanced(old, files').pc \in {"idle", "check"}
          BY <2>0, AdvancedOK
        <5>2. r = Advanced(old, files')
          BY <4>3
        <5> HIDE DEF r
        <5>3. r.pc \in {"idle", "check"}
          BY <5>1, <5>2
        <5> QED
          BY <1>i, <5>3
      <4> QED
        BY <4>1, <4>2, <4>3
    <3> HIDE DEF r
    <3> QED
      BY <1>0, <2>2, <3>1, <3>4, HalfAlone
  <2> QED
    BY <1>5, <2>5, <2>6
<1>6. ASSUME NEW b \in Build, build[b].pc = "stamp", UNCHANGED files,
             \A t \in Step : t # build[b].step => stamps'[t] = stamps[t]
      PROVE  \A t \in Step : StampWhole(files', t, stamps'[t])
  <2> DEFINE s == build[b].step
  <2>1. Plan[s].stamped => \A p \in Parts(s) : files[Part(s, p).writes] # Torn
    BY <1>0, <1>6 DEF RunWhole, Running, Done
  <2> QED
    BY <1>0, <1>6, <2>1 DEF StampWhole
<1>7. ASSUME NEW b \in Build, WriteStamp(b) PROVE HalfInv'
  <2>1. RecordOK(build[b])
    BY <1>0
  <2>2. Advanced(build[b], files).pc \in {"idle", "check"}
    BY <2>1, AdvancedOK
  <2> DEFINE r == Advanced(build[b], files)
  <2>3. /\ build[b].pc = "stamp" /\ build' = [build EXCEPT ![b] = r] /\ UNCHANGED files
    BY <1>7 DEF WriteStamp
  <2>4. \A t \in Step : t # build[b].step => stamps'[t] = stamps[t]
    <3>1. UNCHANGED stamps \/ \E st : stamps' = [stamps EXCEPT ![build[b].step] = st]
      BY <1>7, Zenon DEF WriteStamp
    <3> QED
      BY <1>0, <3>1 DEF TypeOK
  <2>5. r.pc \in {"idle", "check"}
    BY <2>2
  <2> HIDE DEF r
  <2>6. RunWhole(files', stamps', r)
    BY <1>i, <2>5
  <2>7. \A t \in Step : StampWhole(files', t, stamps'[t])
    BY <1>6, <2>3, <2>4
  <2>8. build[b].pc # "idle"
    BY <2>3
  <2> QED
    BY <1>0, <2>3, <2>6, <2>7, <2>8, HalfAlone
<1>8. ASSUME NEW b \in Build, StampTorn(b) PROVE HalfInv'
  <2> DEFINE r == Idle(Absent)
  <2>1. /\ build[b].pc = "stamp" /\ build' = [build EXCEPT ![b] = r] /\ UNCHANGED files
    BY <1>8 DEF StampTorn
  <2>3. \A t \in Step : t # build[b].step => stamps'[t] = stamps[t]
    <3>1. \E st : stamps' = [stamps EXCEPT ![build[b].step] = st]
      BY <1>8, Zenon DEF StampTorn
    <3> QED
      BY <1>0, <3>1 DEF TypeOK
  <2>2. r.pc \in {"idle", "check"}
    BY IdleOK
  <2> HIDE DEF r
  <2>6. RunWhole(files', stamps', r)
    BY <1>i, <2>2
  <2>7. \A t \in Step : StampWhole(files', t, stamps'[t])
    BY <1>6, <2>1, <2>3
  <2>8. build[b].pc # "idle"
    BY <2>1
  <2> QED
    BY <1>0, <2>1, <2>6, <2>7, <2>8, HalfAlone
<1>9. ASSUME NEW b \in Build, Fail(b) \/ Kill(b) PROVE HalfInv'
  <2> DEFINE r == Idle(Absent)
  <2>1. build[b].pc # "idle" /\ build' = [build EXCEPT ![b] = r] /\ UNCHANGED <<files, stamps>>
    BY <1>9 DEF Fail, Kill
  <2>2. r.pc \in {"idle", "check"}
    BY IdleOK
  <2> HIDE DEF r
  <2>3. RunWhole(files', stamps', r)
    BY <1>i, <2>2
  <2> QED
    BY <1>0, <2>1, <2>3, HalfAlone
<1>10. ASSUME UNCHANGED build, \A f \in Derived : files'[f] = files[f] \/ files'[f] = Absent,
              \A s \in Step : stamps'[s] = stamps[s] \/ stamps'[s] = NoStamp
       PROVE  HalfInv'
  <2>1. \A s \in Step : \A p \in Parts(s) : Part(s, p).writes \in Derived
    BY PlanFiles
  <2>2. \A s \in Step : StampWhole(files', s, stamps'[s])
    BY <1>0, <1>10, <2>1 DEF StampWhole, HalfAssumed
  <2>3. ASSUME NEW b \in Build PROVE RunWhole(files', stamps', build'[b])
    <3>1. RecordOK(build[b]) /\ build[b].step \in Step /\ RunWhole(files, stamps, build[b])
      BY <1>0 DEF RecordOK
    <3>2. \A p \in Done(build[b]) : Part(build[b].step, p).writes \in Derived
      BY <2>1, <3>1, DoneParts
    <3> QED
      BY <1>10, <3>1, <3>2 DEF RunWhole, HalfAssumed
  <2> QED
    BY <1>0, <1>10, <2>2, <2>3 DEF HalfInv, OneAtATime
<1>11. ASSUME NEW f \in Source, NEW c \in Content, Edit(f, c) PROVE HalfInv'
  <2>1. UNCHANGED <<build, stamps>> /\ \A g \in Derived : files'[g] = files[g]
    BY <1>0, <1>11, FileAssumption DEF Edit, TypeOK
  <2> QED
    BY <1>10, <2>1
<1>12. ASSUME NEW f \in File, Delete(f) PROVE HalfInv'
  <2>1. UNCHANGED <<build, stamps>> /\ \A g : files'[g] = files[g] \/ files'[g] = Absent
    BY <1>0, <1>12 DEF Delete, TypeOK
  <2> QED
    BY <1>10, <2>1
<1>13. ASSUME NEW s \in Step, DeleteStamp(s) PROVE HalfInv'
  <2>1. UNCHANGED <<build, files>> /\ \A t \in Step : stamps'[t] = stamps[t] \/ stamps'[t] = NoStamp
    BY <1>0, <1>13 DEF DeleteStamp, TypeOK
  <2> QED
    BY <1>10, <2>1
<1>14. CASE UNCHANGED vars
  BY <1>10, <1>14 DEF vars
<1> QED
  BY <1>1, <1>2, <1>3, <1>4, <1>5, <1>7, <1>8, <1>9, <1>11, <1>12, <1>13, <1>14
  DEF Next, Proceed

LEMMA HalfStarts == ASSUME HalfAssumed PROVE Init => HalfInv
<1> SUFFICES ASSUME Init PROVE HalfInv
  OBVIOUS
<1>1. /\ \A b \in Build : build[b] = Idle(Absent) /\ Idle(Absent).pc = "idle"
      /\ \A s \in Step : stamps[s] = NoStamp
  BY IdleOK DEF Init
<1> QED
  BY <1>1, TypeInit DEF HalfInv, OneAtATime, StampWhole, RunWhole, Running

LEMMA HalfSound == HalfInv => HalfWrittenNeverUpToDate
BY DEF HalfInv, HalfWrittenNeverUpToDate, Holds, StampWhole, Outputs

\* One build at a time, but edits under a running step, torn stamps and
\* kills at any moment: no stamp vouches for a half-written file (cache.rs,
\* Stamp::run): HalfWrittenNeverUpToDate.
THEOREM HalfWritten ==
  ASSUME HalfAssumed PROVE Spec => []HalfWrittenNeverUpToDate
<1>1. HalfInv /\ [Next]_vars => HalfInv'
  BY HalfStep
<1> QED
  BY <1>1, HalfStarts, HalfSound, PTL DEF Spec
===============================================================================
