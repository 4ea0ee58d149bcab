-------------------------- MODULE VendorInstallProofs --------------------------
(***************************************************************************)
(* Proofs about VendorInstall for any archives, packs, programs and        *)
(* chipsmiths, and as many faults as MaxFaults says.                       *)
(***************************************************************************)
EXTENDS VendorInstall, FiniteSetTheorems, SequenceTheorems, WellFoundedInduction, TLAPS

Fetching == {"archive", "request", "receive", "unzip", "unzipping", "mark"}
Listed(stage) == IF stage = "base" THEN ToSet(Base) ELSE ToSet(Packs)

\* What a process is doing goes together: its list is of the stage it is in,
\* it holds a descriptor while it receives or has the installer patched and no
\* longer, a final patch is an `install`'s, and one that found the version
\* installed is past the base.
Control(r) ==
  /\ r.at # "idle" => r.paths \in Offered
  /\ r.at \in Fetching => r.stage \in {"base", "devices"} /\ r.todo \in Seq(Listed(r.stage))
  /\ r.at \in Fetching \ {"archive"} => r.todo # <<>>
  /\ r.at \in {"unzip", "unzipping", "mark", "compat"} => r.stage = "devices"
  /\ r.at \in {"receive", "elf"} <=> r.fd # 0
  /\ r.at = "elf" => r.stage = "base" /\ r.paths \in Unsandboxed
  /\ r.at = "installer" => r.stage \in {"base", "local"}
  /\ r.at = "patch" => r.stage \in {"base", "local", "final"} /\ r.paths # NotNeeded
  /\ r.stage = "final" => r.cmd = "install"
  /\ r.found => r.stage \in {"devices", "final"}

Controlled == \A p \in Process : Control(proc[p])

-----------------------------------------------------------------------------
LEMMA ArchiveFacts ==
  /\ ToSet(Base) \subseteq Archive /\ ToSet(Packs) \subseteq Archive
  /\ Base \in Seq(Archive) /\ Packs \in Seq(Archive)
  /\ \A stage : Listed(stage) \subseteq Archive
BY ShapeAssumption DEF Archive, Listed

LEMMA InstallerIsArchive == Installer \in ToSet(Base) /\ Installer \in Archive
<1>1. Len(Base) \in 1 .. Len(Base)
  BY ShapeAssumption, EmptySeq, LenProperties
<1>2. Installer \in ToSet(Base)
  BY <1>1 DEF Installer, Last, ToSet
<1>3. QED BY <1>2, ArchiveFacts

LEMMA ListedIsArchives ==
  ASSUME NEW stage, NEW s \in Seq(Listed(stage))
  PROVE  s \in Seq(Archive)
BY ArchiveFacts, SeqMonotonic

LEMMA HeadAndTail ==
  ASSUME NEW S, NEW s \in Seq(S), s # <<>>
  PROVE  Head(s) \in S /\ Tail(s) \in Seq(S)
BY HeadTailProperties

\* A process's record is replaced by another that is right.
LEMMA Replaced ==
  ASSUME TypeOK, Controlled, NEW p \in Process, NEW r \in Doing, Control(r),
         proc' = [proc EXCEPT ![p] = r]
  PROVE  proc' \in [Process -> Doing] /\ Controlled'
BY DEF TypeOK, Controlled

LEMMA IdleOK ==
  /\ Idle \in Doing
  /\ Idle.stage = "base" /\ Idle.found = FALSE /\ Idle.fd = 0 /\ Idle.at = "idle"
<1>1. <<>> \in Seq(Archive) /\ 0 \in 0 .. Chunks
  BY ShapeAssumption
<1>2. Idle \in Doing
  BY <1>1 DEF Idle, Doing, At
<1>3. QED BY <1>2 DEF Idle

\* A command that is over.
Ended(cmd, paths, verdict) == [Idle EXCEPT !.at = verdict, !.cmd = cmd, !.paths = paths]

LEMMA EndedOK ==
  ASSUME NEW verdict \in {"ok", "failed"}, NEW cmd \in {"install", "use", "local"},
         NEW paths \in Offered, paths \in StorePaths \cup {NotNeeded}
  PROVE  /\ Ended(cmd, paths, verdict) \in Doing /\ Control(Ended(cmd, paths, verdict))
         /\ Ended(cmd, paths, verdict).at = verdict
         /\ Ended(cmd, paths, verdict).cmd = cmd /\ Ended(cmd, paths, verdict).paths = paths
         /\ Ended(cmd, paths, verdict).found = FALSE /\ Ended(cmd, paths, verdict).fd = 0
<1> DEFINE r == Ended(cmd, paths, verdict)
<1>1. verdict \in At
  BY DEF At
<1>2. r \in Doing
  BY <1>1, IdleOK DEF Ended, Doing
<1>3. /\ r.at = verdict /\ r.cmd = cmd /\ r.paths = paths
      /\ r.stage = "base" /\ r.found = FALSE /\ r.fd = 0
  BY IdleOK DEF Ended, Doing
<1>4. Control(r)
  BY <1>3 DEF Control, Fetching
<1>5. QED BY <1>2, <1>3, <1>4

LEMMA OverOK ==
  ASSUME TypeOK, Controlled, NEW p \in Process, NEW verdict \in {"ok", "failed"},
         proc[p].at # "idle", Over(p, verdict)
  PROVE  proc' \in [Process -> Doing] /\ Controlled'
<1>1. proc[p] \in Doing /\ proc[p].paths \in Offered
  BY DEF TypeOK, Controlled, Control
<1>2. proc[p].cmd \in {"install", "use", "local"} /\ proc[p].paths \in StorePaths \cup {NotNeeded}
  BY <1>1 DEF Doing
<1>3. proc' = [proc EXCEPT ![p] = Ended(proc[p].cmd, proc[p].paths, verdict)]
  BY DEF Over, Ended
<1>4. QED BY <1>1, <1>2, <1>3, EndedOK, Replaced

LEMMA GiveUpOK ==
  ASSUME TypeOK, Controlled, NEW p \in Process, proc[p].at \in Fetching \ {"archive"}, GiveUp(p)
  PROVE  proc' \in [Process -> Doing] /\ Controlled'
<1> DEFINE r == [proc[p] EXCEPT !.at = "archive", !.todo = Tail(@), !.fd = 0, !.got = 0]
<1>1. CASE proc[p].stage = "base"
  BY <1>1, OverOK DEF GiveUp, Fetching
<1>2. CASE proc[p].stage # "base"
  <2>1. proc[p] \in Doing /\ Control(proc[p])
    BY DEF TypeOK, Controlled
  <2>2. proc[p].todo \in Seq(Listed(proc[p].stage)) /\ proc[p].todo # <<>> /\ proc[p].stage = "devices"
    BY <1>2, <2>1 DEF Control, Fetching
  <2>3. Tail(proc[p].todo) \in Seq(Listed(proc[p].stage))
    BY <2>2, HeadAndTail
  <2>4. Tail(proc[p].todo) \in Seq(Archive)
    BY <2>2, <2>3, ArchiveFacts DEF Listed
  <2>5. r \in Doing
    <3>1. "archive" \in At /\ 0 \in 0 .. Chunks
      BY ShapeAssumption DEF At
    <3>2. QED BY <2>1, <2>4, <3>1 DEF Doing
  <2>6. Control(r)
    BY <2>1, <2>2, <2>3 DEF Control, Fetching, Doing
  <2>7. proc' = [proc EXCEPT ![p] = r]
    BY <1>2 DEF GiveUp
  <2>8. QED BY <2>5, <2>6, <2>7, Replaced
<1>3. QED BY <1>1, <1>2

LEMMA UnionBound ==
  ASSUME NEW S, NEW T, IsFiniteSet(S), IsFiniteSet(T)
  PROVE  IsFiniteSet(S \cup T) /\ Cardinality(S \cup T) <= Cardinality(S) + Cardinality(T)
<1>1. Cardinality(S) \in Nat /\ Cardinality(T) \in Nat /\ Cardinality(S \cap T) \in Nat
  BY FS_CardinalityType, FS_Intersection
<1>2. /\ IsFiniteSet(S \cup T)
      /\ Cardinality(S \cup T) = Cardinality(S) + Cardinality(T) - Cardinality(S \cap T)
  BY FS_Union
<1>3. QED BY <1>1, <1>2

\* Every .part file, cached file and descriptor together are fewer than the
\* inodes there are, when one of the processes holds none.
LEMMA FreeInodeIsFree ==
  ASSUME TypeOK, NEW p \in Process, proc[p].fd = 0
  PROVE  FreeInode \in Inode \ InUse
<1> DEFINE P == {part[a] : a \in Archive}
           C == {cached[a] : a \in Archive}
           D == {proc[q].fd : q \in Process}
           B == ToSet(Base)
           K == ToSet(Packs)
<1>1. IsFiniteSet(B) /\ Cardinality(B) <= Len(Base)
  <2>1. Base \in [1 .. Len(Base) -> B] /\ Len(Base) \in Nat
    BY ShapeAssumption, LenProperties
  <2>2. Base \in Surjection(1 .. Len(Base), B)
    BY <2>1 DEF Surjection, ToSet
  <2>3. QED BY <2>1, <2>2, FS_Interval, FS_Surjection
<1>2. IsFiniteSet(K) /\ Cardinality(K) <= Len(Packs)
  <2>1. Packs \in [1 .. Len(Packs) -> K] /\ Len(Packs) \in Nat
    BY ShapeAssumption, LenProperties
  <2>2. Packs \in Surjection(1 .. Len(Packs), K)
    BY <2>1 DEF Surjection, ToSet
  <2>3. QED BY <2>1, <2>2, FS_Interval, FS_Surjection
<1>3. IsFiniteSet(Archive) /\ Cardinality(Archive) <= Len(Base) + Len(Packs)
  <2>1. Cardinality(B \cap K) = 0
    BY ShapeAssumption, FS_EmptySet
  <2>2. Cardinality(B) \in Nat /\ Cardinality(K) \in Nat /\ Len(Base) \in Nat /\ Len(Packs) \in Nat
    BY <1>1, <1>2, ShapeAssumption, FS_CardinalityType, LenProperties
  <2> HIDE DEF B, K
  <2>3. IsFiniteSet(B \cup K) /\ Cardinality(B \cup K) = Cardinality(B) + Cardinality(K) - 0
    BY <1>1, <1>2, <2>1, FS_Union
  <2>4. Archive = B \cup K
    BY DEF Archive, B, K
  <2>5. QED BY <1>1, <1>2, <2>2, <2>3, <2>4
<1>4. IsFiniteSet(P) /\ Cardinality(P) <= Cardinality(Archive)
  <2>1. part \in Surjection(Archive, P)
    BY DEF Surjection, TypeOK
  <2>2. QED BY <1>3, <2>1, FS_Surjection
<1>5. IsFiniteSet(C) /\ Cardinality(C) <= Cardinality(Archive)
  <2>1. cached \in Surjection(Archive, C)
    BY DEF Surjection, TypeOK
  <2>2. QED BY <1>3, <2>1, FS_Surjection
<1>6. IsFiniteSet(D) /\ Cardinality(D) <= Cardinality(Process)
  <2>1. [q \in Process |-> proc[q].fd] \in Surjection(Process, D)
    BY DEF Surjection
  <2>2. QED BY <2>1, ShapeAssumption, FS_Surjection
<1>a. InUse = (P \cup C) \cup D /\ 0 \in InUse
  BY DEF InUse
<1> HIDE DEF P, C, D
<1> DEFINE most == 2 * (Len(Base) + Len(Packs)) + Cardinality(Process)
<1>7. Cardinality(Process) \in Nat /\ Len(Base) \in Nat /\ Len(Packs) \in Nat /\ most \in Nat
  BY ShapeAssumption, FS_CardinalityType, LenProperties
<1>8. IsFiniteSet(InUse) /\ Cardinality(InUse) <= most
  <2>1. IsFiniteSet(P \cup C) /\ Cardinality(P \cup C) <= Cardinality(P) + Cardinality(C)
    BY <1>4, <1>5, UnionBound
  <2>2. /\ IsFiniteSet((P \cup C) \cup D)
        /\ Cardinality((P \cup C) \cup D) <= Cardinality(P \cup C) + Cardinality(D)
    BY <1>6, <2>1, UnionBound
  <2>3. /\ Cardinality(P) \in Nat /\ Cardinality(C) \in Nat /\ Cardinality(D) \in Nat
        /\ Cardinality(Archive) \in Nat /\ Cardinality(P \cup C) \in Nat
        /\ Cardinality((P \cup C) \cup D) \in Nat
    BY <1>3, <1>4, <1>5, <1>6, <2>1, <2>2, FS_CardinalityType
  <2>4. Cardinality((P \cup C) \cup D) <= most
    BY <1>3, <1>4, <1>5, <1>6, <1>7, <2>1, <2>2, <2>3
  <2>5. QED BY <1>a, <2>2, <2>4
<1>9. IsFiniteSet(InUse \ {0}) /\ Cardinality(InUse \ {0}) < most
  <2>1. Cardinality(InUse) \in Nat
    BY <1>8, FS_CardinalityType
  <2>2. IsFiniteSet(InUse \ {0}) /\ Cardinality(InUse \ {0}) = Cardinality(InUse) - 1
    BY <1>8, <1>a, FS_RemoveElement
  <2>3. QED BY <1>7, <1>8, <2>1, <2>2
<1>b. Inode = 1 .. most
  BY DEF Inode
<1> HIDE DEF most
<1>10. Inode \ InUse # {}
  <2>1. Cardinality(1 .. most) = most /\ IsFiniteSet(1 .. most)
    <3>1. 1 \in Int /\ most \in Int /\ most >= 0
      BY <1>7
    <3>2. /\ IsFiniteSet(1 .. most)
          /\ Cardinality(1 .. most) = IF 1 > most THEN 0 ELSE most - 1 + 1
      BY <3>1, FS_Interval
    <3>3. QED BY <3>1, <3>2
  <2>a. 0 \notin Inode
    BY <1>7, <1>b
  <2> SUFFICES ASSUME Inode \ InUse = {} PROVE FALSE
    OBVIOUS
  <2>2. Inode \in SUBSET (InUse \ {0})
    BY <2>a
  <2>3. Cardinality(1 .. most) <= Cardinality(InUse \ {0})
    BY <1>9, <1>b, <2>2, FS_Subset
  <2>4. Cardinality(InUse \ {0}) \in Nat
    BY <1>9, FS_CardinalityType
  <2>5. QED BY <1>7, <1>9, <2>1, <2>3, <2>4
<1>11. \E i \in Inode \ InUse : \A j \in Inode \ InUse : i <= j
  <2>1. Inode \subseteq Nat
    BY <1>7, <1>b
  <2> DEFINE R == {x \in Nat \X Nat : x[1] < x[2]}
  <2>2. IsWellFoundedOn(R, Nat)
    BY NatLessThanWellFounded DEF OpToRel
  <2>3. PICK i \in Inode \ InUse : \A j \in Inode \ InUse : ~(<<j, i>> \in R)
    <3> HIDE DEF R
    <3> QED BY <1>10, <2>1, <2>2, WFMin
  <2>4. ASSUME NEW j \in Inode \ InUse PROVE i <= j
    <3>1. i \in Nat /\ j \in Nat
      BY <2>1, <2>3, <2>4
    <3>2. ~(j < i)
      BY <2>3, <2>4, <3>1
    <3>3. QED BY <3>1, <3>2
  <2>5. QED BY <2>3, <2>4
<1>12. QED BY <1>11 DEF FreeInode

-----------------------------------------------------------------------------
LEMMA TypeInit == Init => TypeOK /\ Controlled
<1> SUFFICES ASSUME Init PROVE TypeOK /\ Controlled
  OBVIOUS
<1>1. \A p \in Process : Control(proc[p])
  BY IdleOK DEF Init, Control, Fetching
<1>2. proc \in [Process -> Doing]
  BY IdleOK DEF Init
<1>3. files \in [Programs -> StorePaths \cup {Missing, Shipped}] /\ stamp \in StorePaths \cup {Missing}
  BY ShapeAssumption DEF Init, StorePaths
<1>4. /\ bytes \in [Inode -> SUBSET Whole]
      /\ part \in [Archive -> Inode \cup {0}] /\ cached \in [Archive -> Inode \cup {0}]
      /\ unpacked \in [ToSet(Packs) -> {"none", "half", "whole"}]
      /\ marked \subseteq ToSet(Packs)
  BY DEF Init
<1>5. faults \in 0 .. MaxFaults
  BY ShapeAssumption DEF Init
<1>6. QED BY <1>1, <1>2, <1>3, <1>4, <1>5 DEF TypeOK, Controlled

LEMMA BaseDoneOK ==
  ASSUME TypeOK, Controlled, NEW p \in Process, proc[p].at \in {"installer", "patch"},
         proc[p].stage \in {"base", "local"}, BaseDone(p)
  PROVE  proc' \in [Process -> Doing] /\ Controlled'
<1> DEFINE r == [proc[p] EXCEPT !.at = "archive", !.stage = "devices", !.todo = Packs]
<1>1. CASE proc[p].stage = "local"
  BY <1>1, OverOK DEF BaseDone
<1>2. CASE proc[p].stage # "local"
  <2>1. proc[p] \in Doing /\ Control(proc[p])
    BY DEF TypeOK, Controlled
  <2>2. Packs \in Seq(Archive) /\ Packs \in Seq(Listed("devices"))
    BY ShapeAssumption, ArchiveFacts DEF Listed
  <2>3. proc' = [proc EXCEPT ![p] = r]
    BY <1>2 DEF BaseDone
  <2>4. r \in Doing
    BY <2>1, <2>2 DEF Doing, At
  <2>5. Control(r)
    BY <2>1, <2>2 DEF Control, Fetching, Doing
  <2> HIDE DEF r
  <2>6. QED BY <2>3, <2>4, <2>5, Replaced
<1>3. QED BY <1>1, <1>2

\* What a step leaves of the rest of the state is typed as it was.
RestOK ==
  /\ bytes \in [Inode -> SUBSET Whole]
  /\ part \in [Archive -> Inode \cup {0}]
  /\ cached \in [Archive -> Inode \cup {0}]
  /\ files \in [Programs -> StorePaths \cup {Missing, Shipped}]
  /\ stamp \in StorePaths \cup {Missing}
  /\ unpacked \in [ToSet(Packs) -> {"none", "half", "whole"}]
  /\ marked \subseteq ToSet(Packs)
  /\ faults \in 0 .. MaxFaults

LEMMA TypeStep == TypeOK /\ Controlled /\ [Next]_vars => TypeOK' /\ Controlled'
<1> SUFFICES ASSUME TypeOK, Controlled, [Next]_vars PROVE TypeOK' /\ Controlled'
  OBVIOUS
<1> DEFINE ProcOK == proc' \in [Process -> Doing] /\ Controlled'
<1>0. RestOK
  BY DEF TypeOK, RestOK
<1>a. ASSUME NEW p \in Process
      PROVE  proc[p] \in Doing /\ Control(proc[p])
  BY DEF TypeOK, Controlled
<1>b. 0 \in 0 .. Chunks
  BY ShapeAssumption
<1>c. ASSUME UNCHANGED <<cache, install, faults>> PROVE RestOK'
  BY <1>0, <1>c DEF RestOK, cache, install
<1>1. ASSUME NEW p \in Process, NEW cmd \in Commands, NEW paths \in Offered, Run(p, cmd, paths)
      PROVE  RestOK' /\ ProcOK
  <2> DEFINE r == [Idle EXCEPT !.cmd = cmd, !.paths = paths,
                    !.stage = IF cmd = "local" THEN "local" ELSE "base",
                    !.left = IF cmd = "local" THEN Programs ELSE {},
                    !.at = IF cmd = "local" THEN "installer" ELSE "check"]
  <2>1. paths \in StorePaths \cup {NotNeeded} /\ cmd \in {"install", "use", "local"}
    BY ShapeAssumption DEF StorePaths
  <2>2. r \in Doing
    BY <2>1, IdleOK DEF Doing, At
  <2>3. /\ r.paths = paths /\ r.fd = 0 /\ r.found = FALSE
        /\ r.at = IF cmd = "local" THEN "installer" ELSE "check"
        /\ r.stage = IF cmd = "local" THEN "local" ELSE "base"
    BY IdleOK DEF Doing
  <2>4. Control(r)
    BY <2>3 DEF Control, Fetching
  <2>5. proc' = [proc EXCEPT ![p] = r] /\ UNCHANGED <<cache, install, faults>>
    BY <1>1 DEF Run
  <2> HIDE DEF r
  <2>6. QED BY <1>c, <2>2, <2>4, <2>5, Replaced
<1>2. ASSUME NEW p \in Process, Check(p)
      PROVE  RestOK' /\ ProcOK
  <2>1. PICK found \in BOOLEAN : found <=> Installed
    OBVIOUS
  <2> DEFINE stage == IF found THEN "devices" ELSE "base"
             todo == IF found THEN Packs ELSE Base
             r == [proc[p] EXCEPT !.at = "archive", !.found = found, !.stage = stage, !.todo = todo]
  <2>2. todo \in Seq(Listed(stage)) /\ stage \in {"base", "devices"}
    BY ShapeAssumption DEF Listed
  <2>3. found => stage = "devices"
    OBVIOUS
  <2>4. proc' = [proc EXCEPT ![p] = r] /\ UNCHANGED <<cache, install, faults>>
    <3>1. proc' = [proc EXCEPT ![p].at = "archive", ![p].found = Installed,
                          ![p].stage = IF Installed THEN "devices" ELSE "base",
                          ![p].todo = IF Installed THEN Packs ELSE Base]
      BY <1>2 DEF Check
    <3>2. found = Installed
      BY <2>1 DEF Installed
    <3>3. QED BY <1>2, <3>1, <3>2 DEF Check
  <2> HIDE DEF stage, todo
  <2>5. todo \in Seq(Archive)
    BY <2>2, ListedIsArchives
  <2>6. r \in Doing
    BY <1>a, <2>2, <2>5 DEF Doing, At
  <2>7. Control(r)
    BY <1>2, <1>a, <2>2, <2>3 DEF Control, Fetching, Doing, Check
  <2> HIDE DEF r
  <2>8. QED BY <1>c, <2>4, <2>6, <2>7, Replaced
<1>3. ASSUME NEW p \in Process, NextArchive(p)
      PROVE  RestOK' /\ ProcOK
  <2>1. proc[p].todo \in Seq(Listed(proc[p].stage)) /\ proc[p].todo # <<>> /\ proc[p].at = "archive"
    BY <1>3, <1>a DEF Control, Fetching, NextArchive
  <2>2. Tail(proc[p].todo) \in Seq(Listed(proc[p].stage))
    BY <2>1, HeadAndTail
  <2>3. Tail(proc[p].todo) \in Seq(Archive)
    BY <2>2, ListedIsArchives
  <2>4. CASE proc' = [proc EXCEPT ![p].todo = Tail(@)]
    <3> DEFINE r == [proc[p] EXCEPT !.todo = Tail(@)]
    <3>1. r \in Doing
      BY <1>a, <2>3 DEF Doing
    <3>2. Control(r)
      BY <1>a, <2>1, <2>2 DEF Control, Fetching, Doing
    <3>3. proc' = [proc EXCEPT ![p] = r]
      BY <2>4
    <3>4. QED BY <1>c, <1>3, <3>1, <3>2, <3>3, Replaced DEF NextArchive
  <2>5. ASSUME NEW at \in {"unzip", "request"}, Goto(p, at), at = "unzip" => proc[p].stage # "base"
        PROVE  RestOK' /\ ProcOK
    <3> DEFINE r == [proc[p] EXCEPT !.at = at]
    <3>1. r \in Doing
      BY <1>a DEF Doing, At
    <3>2. Control(r)
      BY <1>a, <2>1, <2>5 DEF Control, Fetching, Doing
    <3>3. proc' = [proc EXCEPT ![p] = r]
      BY <2>5 DEF Goto
    <3>4. QED BY <1>c, <1>3, <3>1, <3>2, <3>3, Replaced DEF NextArchive
  <2>6. QED BY <1>3, <2>4, <2>5 DEF NextArchive
<1>4. ASSUME NEW p \in Process, NoArchiveLeft(p) \/ InstallerPatched(p)
      PROVE  RestOK' /\ ProcOK
  <2>1. /\ proc[p].at \in {"archive", "elf"} /\ UNCHANGED <<part, cached, install, faults>>
        /\ proc[p].at = "elf" => proc[p].stage = "base"
    BY <1>4, <1>a DEF NoArchiveLeft, InstallerPatched, Control
  <2>2. RestOK'
    <3>1. \E i \in Inode, c \in {{}, Whole} : bytes' \in {bytes, [bytes EXCEPT ![i] = c]}
      <4>1. CASE NoArchiveLeft(p) /\ cached[Installer] # 0
        <5>1. cached[Installer] \in Inode
          BY <1>0, <4>1, InstallerIsArchive DEF RestOK
        <5>2. QED BY <4>1, <5>1 DEF NoArchiveLeft
      <4>2. CASE NoArchiveLeft(p) /\ cached[Installer] = 0
        <5>1. bytes' = bytes
          BY <4>2 DEF NoArchiveLeft, Intact
        <5>2. 1 \in Inode
          <6>1. Len(Base) \in Nat /\ Len(Base) # 0 /\ Len(Packs) \in Nat /\ Cardinality(Process) \in Nat
            BY ShapeAssumption, EmptySeq, LenProperties, FS_CardinalityType
          <6>2. QED BY <6>1 DEF Inode
        <5>3. QED BY <5>1, <5>2
      <4>3. CASE InstallerPatched(p)
        <5>1. proc[p].fd \in Inode
          BY <1>a, <4>3 DEF InstallerPatched, Control, Doing
        <5>2. QED BY <4>3, <5>1 DEF InstallerPatched
      <4>4. QED BY <1>4, <4>1, <4>2, <4>3
    <3>2. bytes' \in [Inode -> SUBSET Whole]
      BY <1>0, <3>1 DEF RestOK
    <3>3. QED BY <1>0, <2>1, <3>2 DEF RestOK, install
  <2>3. CASE Over(p, "failed")
    BY <2>1, <2>2, <2>3, OverOK
  <2>4. CASE /\ proc[p].stage = "base"
             /\ proc' = [proc EXCEPT ![p].at = "installer", ![p].left = Programs, ![p].fd = 0]
    <3> DEFINE r == [proc[p] EXCEPT !.at = "installer", !.left = Programs, !.fd = 0]
    <3>1. r \in Doing
      BY <1>a DEF Doing, At
    <3>2. Control(r)
      BY <1>a, <2>1, <2>4 DEF Control, Fetching, Doing
    <3>3. proc' = [proc EXCEPT ![p] = r]
      BY <2>4
    <3> HIDE DEF r
    <3>4. QED BY <2>2, <3>1, <3>2, <3>3, Replaced
  <2>5. CASE /\ proc[p].at = "archive" /\ proc[p].stage = "base" /\ proc[p].paths \in Unsandboxed
             /\ cached[Installer] # 0
             /\ proc' = [proc EXCEPT ![p].at = "elf", ![p].fd = cached[Installer], ![p].got = 0]
    <3> DEFINE r == [proc[p] EXCEPT !.at = "elf", !.fd = cached[Installer], !.got = 0]
    <3>1. cached[Installer] \in Inode
      BY <1>0, <2>5, InstallerIsArchive DEF RestOK
    <3>2. r \in Doing
      BY <1>a, <1>b, <3>1 DEF Doing, At
    <3>3. Control(r)
      BY <1>a, <2>5 DEF Control, Fetching, Doing
    <3>4. proc' = [proc EXCEPT ![p] = r]
      BY <2>5
    <3> HIDE DEF r
    <3>5. QED BY <2>2, <3>2, <3>3, <3>4, Replaced
  <2>6. CASE /\ proc[p].at = "archive" /\ proc[p].stage # "base"
             /\ proc' = [proc EXCEPT ![p].at = "compat"]
    <3> DEFINE r == [proc[p] EXCEPT !.at = "compat"]
    <3>1. r \in Doing
      BY <1>a DEF Doing, At
    <3>2. Control(r)
      BY <1>a, <2>6 DEF Control, Fetching, Doing
    <3>3. proc' = [proc EXCEPT ![p] = r]
      BY <2>6
    <3> HIDE DEF r
    <3>4. QED BY <2>2, <3>1, <3>2, <3>3, Replaced
  <2>7. QED BY <1>4, <2>1, <2>3, <2>4, <2>5, <2>6
            DEF NoArchiveLeft, InstallerPatched, StartInstaller, Intact
<1>5. ASSUME NEW p \in Process, Create(p)
      PROVE  RestOK' /\ ProcOK
  <2>1. proc[p].at = "request" /\ proc[p].fd = 0
    BY <1>5, <1>a DEF Create, Control, Doing
  <2>2. PICK i : /\ i = IF part[Head(proc[p].todo)] # 0 THEN part[Head(proc[p].todo)] ELSE FreeInode
                 /\ bytes' = [bytes EXCEPT ![i] = {}]
                 /\ part' = [part EXCEPT ![Head(proc[p].todo)] = i]
                 /\ proc' = [proc EXCEPT ![p].at = "receive", ![p].fd = i, ![p].got = 0]
                 /\ UNCHANGED <<cached, install, faults>>
    BY <1>5 DEF Create
  <2>3. proc[p].todo \in Seq(Listed(proc[p].stage)) /\ proc[p].todo # <<>>
    BY <1>a, <2>1 DEF Control, Fetching
  <2>4. Head(proc[p].todo) \in Archive
    BY <2>3, HeadAndTail, ArchiveFacts
  <2>5. i \in Inode
    BY <2>1, <2>2, <2>4, <1>0, FreeInodeIsFree DEF RestOK
  <2>6. i # 0
    BY <2>5 DEF Inode
  <2> DEFINE r == [proc[p] EXCEPT !.at = "receive", !.fd = i, !.got = 0]
  <2>7. r \in Doing
    BY <1>a, <1>b, <2>5 DEF Doing, At
  <2>8. Control(r)
    BY <1>a, <2>1, <2>6 DEF Control, Fetching, Doing
  <2>9. proc' = [proc EXCEPT ![p] = r]
    BY <2>2
  <2>10. RestOK'
    BY <1>0, <2>2, <2>5 DEF RestOK, install
  <2> HIDE DEF r
  <2>11. QED BY <2>7, <2>8, <2>9, <2>10, Replaced
<1>6. ASSUME NEW p \in Process, Receive(p)
      PROVE  RestOK' /\ ProcOK
  <2> DEFINE r == [proc[p] EXCEPT !.got = @ + 1]
  <2>1. proc[p].got + 1 \in 0 .. Chunks /\ proc[p].got + 1 \in Whole
    BY <1>6, <1>a, ShapeAssumption DEF Receive, Doing, Whole
  <2>2. r \in Doing
    BY <1>a, <2>1 DEF Doing
  <2>3. Control(r)
    BY <1>a DEF Control, Fetching, Doing
  <2>4. proc' = [proc EXCEPT ![p] = r]
    BY <1>6 DEF Receive
  <2>5. RestOK'
    BY <1>0, <1>6, <2>1 DEF RestOK, Receive, install
  <2> HIDE DEF r
  <2>6. QED BY <2>2, <2>3, <2>4, <2>5, Replaced
<1>7. ASSUME NEW p \in Process, Rename(p)
      PROVE  RestOK' /\ ProcOK
  <2> DEFINE a == Head(proc[p].todo)
  <2>1. proc[p].at = "receive" /\ UNCHANGED <<install, faults>>
    BY <1>7 DEF Rename
  <2>2. CASE GiveUp(p) /\ UNCHANGED cache
    BY <1>c, <2>1, <2>2, GiveUpOK DEF Fetching
  <2>3. CASE /\ cached' = [cached EXCEPT ![a] = part[a]] /\ part' = [part EXCEPT ![a] = 0]
             /\ proc' = [proc EXCEPT ![p].at = "archive", ![p].fd = 0, ![p].got = 0]
             /\ UNCHANGED bytes
    <3> DEFINE r == [proc[p] EXCEPT !.at = "archive", !.fd = 0, !.got = 0]
    <3>1. proc[p].todo \in Seq(Listed(proc[p].stage)) /\ proc[p].todo # <<>>
      BY <1>a, <2>1 DEF Control, Fetching
    <3>2. a \in Archive
      BY <3>1, HeadAndTail, ArchiveFacts
    <3>3. r \in Doing
      BY <1>a, <1>b DEF Doing, At
    <3>4. Control(r)
      BY <1>a, <2>1 DEF Control, Fetching, Doing
    <3>5. proc' = [proc EXCEPT ![p] = r]
      BY <2>3
    <3>6. RestOK'
      BY <1>0, <2>1, <2>3, <3>2 DEF RestOK, install
    <3> HIDE DEF r
    <3>7. QED BY <3>3, <3>4, <3>5, <3>6, Replaced
  <2>4. QED BY <1>7, <2>2, <2>3 DEF Rename
<1>8. ASSUME NEW p \in Process, DownloadFails(p) \/ UnzipFails(p)
      PROVE  RestOK' /\ ProcOK
  <2>1. /\ GiveUp(p) /\ proc[p].at \in Fetching \ {"archive"}
        /\ UNCHANGED <<cache, install>> /\ faults < MaxFaults /\ faults' = faults + 1
    BY <1>8 DEF DownloadFails, UnzipFails, Fetching
  <2>2. RestOK'
    BY <1>0, <2>1, ShapeAssumption DEF RestOK, cache, install
  <2>3. QED BY <2>1, <2>2, GiveUpOK
<1>9. ASSUME NEW p \in Process, Interrupt(p)
      PROVE  RestOK' /\ ProcOK
  <2>1. /\ Over(p, "failed") /\ proc[p].at # "idle"
        /\ UNCHANGED <<cache, install>> /\ faults < MaxFaults /\ faults' = faults + 1
    BY <1>9 DEF Interrupt, AtRest
  <2>2. RestOK'
    BY <1>0, <2>1, ShapeAssumption DEF RestOK, cache, install
  <2>3. QED BY <2>1, <2>2, OverOK
<1>10. ASSUME NEW p \in Process, InstallProgram(p) \/ PatchProgram(p)
       PROVE  RestOK' /\ ProcOK
  <2>1. PICK f \in proc[p].left, x \in StorePaths \cup {Missing, Shipped} :
          /\ files' = [files EXCEPT ![f] = x]
          /\ proc' = [proc EXCEPT ![p].left = @ \ {f}]
          /\ UNCHANGED <<cache, stamp, unpacked, marked, faults>>
    <3>1. CASE InstallProgram(p)
      BY <3>1 DEF InstallProgram
    <3>2. CASE PatchProgram(p)
      <4>1. PICK f \in proc[p].left :
              /\ files' = [files EXCEPT ![f] = IF @ = Missing THEN @ ELSE proc[p].paths]
              /\ proc' = [proc EXCEPT ![p].left = @ \ {f}]
              /\ UNCHANGED <<cache, stamp, unpacked, marked, faults>>
        BY <3>2 DEF PatchProgram
      <4>2. proc[p].paths \in StorePaths /\ files[f] \in StorePaths \cup {Missing, Shipped}
        BY <1>0, <1>a, <3>2 DEF PatchProgram, Control, Doing, RestOK
      <4>3. files' = [files EXCEPT ![f] = IF files[f] = Missing THEN files[f] ELSE proc[p].paths]
        BY <4>1
      <4>4. QED BY <4>1, <4>2, <4>3
    <3>3. QED BY <1>10, <3>1, <3>2
  <2> DEFINE r == [proc[p] EXCEPT !.left = @ \ {f}]
  <2>2. r \in Doing
    BY <1>a DEF Doing
  <2>3. Control(r)
    BY <1>a DEF Control, Fetching, Doing
  <2>4. proc' = [proc EXCEPT ![p] = r]
    BY <2>1
  <2>5. RestOK'
    BY <1>0, <2>1 DEF RestOK, cache
  <2> HIDE DEF r
  <2>6. QED BY <2>2, <2>3, <2>4, <2>5, Replaced
<1>11. ASSUME NEW p \in Process, InstallerDone(p)
       PROVE  RestOK' /\ ProcOK
  <2>1. /\ proc[p].at = "installer" /\ proc[p].stage \in {"base", "local"}
        /\ UNCHANGED <<cache, install, faults>>
    BY <1>11, <1>a DEF InstallerDone, Control
  <2>2. CASE BaseDone(p)
    BY <1>c, <2>1, <2>2, BaseDoneOK
  <2>3. CASE /\ proc[p].paths # NotNeeded
             /\ proc' = [proc EXCEPT ![p].at = "patch", ![p].left = Programs]
    <3> DEFINE r == [proc[p] EXCEPT !.at = "patch", !.left = Programs]
    <3>1. r \in Doing
      BY <1>a DEF Doing, At
    <3>2. Control(r)
      BY <1>a, <2>1, <2>3 DEF Control, Fetching, Doing
    <3>3. proc' = [proc EXCEPT ![p] = r]
      BY <2>3
    <3> HIDE DEF r
    <3>4. QED BY <1>c, <2>1, <3>1, <3>2, <3>3, Replaced
  <2>4. QED BY <1>11, <2>2, <2>3 DEF InstallerDone
<1>12. ASSUME NEW p \in Process, WriteStamp(p)
       PROVE  RestOK' /\ ProcOK
  <2>1. /\ proc[p].at = "patch" /\ proc[p].stage \in {"base", "local", "final"}
        /\ proc[p].paths \in StorePaths
        /\ stamp' = proc[p].paths /\ UNCHANGED <<cache, files, unpacked, marked, faults>>
    BY <1>12, <1>a DEF WriteStamp, Control, Doing
  <2>2. RestOK'
    BY <1>0, <2>1 DEF RestOK, cache
  <2>3. CASE Over(p, "ok")
    BY <2>1, <2>2, <2>3, OverOK
  <2>4. CASE proc[p].stage # "final" /\ BaseDone(p)
    BY <2>1, <2>2, <2>4, BaseDoneOK
  <2>5. QED BY <1>12, <2>3, <2>4 DEF WriteStamp
<1>13. ASSUME NEW p \in Process, Unzip(p)
       PROVE  RestOK' /\ ProcOK
  <2>1. /\ proc[p].at = "unzip"
        /\ unpacked' \in {unpacked, [unpacked EXCEPT ![Head(proc[p].todo)] = "half"]}
        /\ UNCHANGED <<cache, files, stamp, marked, faults>>
        /\ Goto(p, "unzipping") \/ GiveUp(p)
    BY <1>13 DEF Unzip
  <2>2. RestOK'
    BY <1>0, <2>1 DEF RestOK, cache
  <2>3. CASE Goto(p, "unzipping")
    <3> DEFINE r == [proc[p] EXCEPT !.at = "unzipping"]
    <3>1. r \in Doing
      BY <1>a DEF Doing, At
    <3>2. Control(r)
      BY <1>a, <2>1 DEF Control, Fetching, Doing
    <3>3. proc' = [proc EXCEPT ![p] = r]
      BY <2>3 DEF Goto
    <3> HIDE DEF r
    <3>4. QED BY <2>2, <3>1, <3>2, <3>3, Replaced
  <2>4. CASE GiveUp(p)
    BY <2>1, <2>2, <2>4, GiveUpOK DEF Fetching
  <2>5. QED BY <2>1, <2>3, <2>4
<1>14. ASSUME NEW p \in Process, UnzipDone(p)
       PROVE  RestOK' /\ ProcOK
  <2> DEFINE r == [proc[p] EXCEPT !.at = "mark"]
  <2>1. r \in Doing
    BY <1>a DEF Doing, At
  <2>2. Control(r)
    BY <1>a, <1>14 DEF Control, Fetching, Doing, UnzipDone
  <2>3. proc' = [proc EXCEPT ![p] = r]
    BY <1>14 DEF Goto, UnzipDone
  <2>4. RestOK'
    BY <1>0, <1>14 DEF RestOK, cache, UnzipDone
  <2> HIDE DEF r
  <2>5. QED BY <2>1, <2>2, <2>3, <2>4, Replaced
<1>15. ASSUME NEW p \in Process, Mark(p)
       PROVE  RestOK' /\ ProcOK
  <2> DEFINE r == [proc[p] EXCEPT !.at = "archive", !.todo = Tail(@)]
  <2>1. /\ proc[p].todo \in Seq(Listed(proc[p].stage)) /\ proc[p].todo # <<>>
        /\ proc[p].stage = "devices" /\ proc[p].at = "mark"
    BY <1>15, <1>a DEF Control, Fetching, Mark
  <2>2. Head(proc[p].todo) \in ToSet(Packs) /\ Tail(proc[p].todo) \in Seq(Listed(proc[p].stage))
    BY <2>1, HeadAndTail DEF Listed
  <2>3. Tail(proc[p].todo) \in Seq(Archive)
    BY <2>2, ListedIsArchives
  <2>4. r \in Doing
    BY <1>a, <2>3 DEF Doing, At
  <2>5. Control(r)
    BY <1>a, <2>1, <2>2 DEF Control, Fetching, Doing
  <2>6. proc' = [proc EXCEPT ![p] = r]
    BY <1>15 DEF Mark
  <2>7. RestOK'
    BY <1>0, <1>15, <2>2 DEF RestOK, cache, Mark
  <2> HIDE DEF r
  <2>8. QED BY <2>4, <2>5, <2>6, <2>7, Replaced
<1>16. ASSUME NEW p \in Process, Compat(p)
       PROVE  RestOK' /\ ProcOK
  <2>1. proc[p].at = "compat" /\ UNCHANGED <<cache, install, faults>>
    BY <1>16 DEF Compat
  <2>2. CASE \E verdict \in {"ok", "failed"} : Over(p, verdict)
    BY <1>c, <2>1, <2>2, OverOK
  <2>3. CASE /\ proc[p].paths # NotNeeded /\ proc[p].cmd = "install"
             /\ proc' = [proc EXCEPT ![p].at = "patch", ![p].stage = "final", ![p].left = Programs]
    <3> DEFINE r == [proc[p] EXCEPT !.at = "patch", !.stage = "final", !.left = Programs]
    <3>1. r \in Doing
      BY <1>a DEF Doing, At
    <3>2. Control(r)
      BY <1>a, <2>1, <2>3 DEF Control, Fetching, Doing
    <3>3. proc' = [proc EXCEPT ![p] = r]
      BY <2>3
    <3> HIDE DEF r
    <3>4. QED BY <1>c, <2>1, <3>1, <3>2, <3>3, Replaced
  <2>4. QED BY <1>16, <2>2, <2>3 DEF Compat
<1>17. ASSUME UNCHANGED vars PROVE RestOK' /\ ProcOK
  <2>1. UNCHANGED <<cache, install, faults>> /\ proc' = proc
    BY <1>17 DEF vars, cache, install
  <2>2. RestOK'
    BY <1>c, <2>1
  <2>3. Controlled' /\ proc' \in [Process -> Doing]
    BY <2>1 DEF TypeOK, Controlled
  <2>4. QED BY <2>2, <2>3
<1>18. RestOK' /\ ProcOK
  <2> HIDE DEF ProcOK
  <2>1. ASSUME NEW p \in Process, Proceed(p) PROVE RestOK' /\ ProcOK
    BY <1>2, <1>3, <1>4, <1>5, <1>6, <1>7, <1>10, <1>11, <1>12, <1>13, <1>14, <1>15, <1>16, <2>1
    DEF Proceed
  <2>2. QED BY <1>1, <1>8, <1>9, <1>17, <2>1 DEF Next
<1>19. QED BY <1>18 DEF RestOK, TypeOK

\* Every behaviour keeps to the types of VendorInstall's state.
THEOREM TypeInvariant == Spec => []TypeOK
<1>1. TypeOK /\ Controlled /\ [Next]_vars => TypeOK' /\ Controlled'
  BY TypeStep
<1>2. QED BY TypeInit, <1>1, PTL DEF Spec

LEMMA Controls == Spec => [](TypeOK /\ Controlled)
<1>1. TypeOK /\ Controlled /\ [Next]_vars => TypeOK' /\ Controlled'
  BY TypeStep
<1>2. QED BY TypeInit, <1>1, PTL DEF Spec

-----------------------------------------------------------------------------
(***************************************************************************)
(* One process at a time: nothing in the code keeps two apart.             *)
(***************************************************************************)
OneProcess == \E p \in Process : Process = {p}

\* Files under their own names are whole, but for an installer that is patched
\* or was when it was cut off; no two names share a file, and a descriptor is
\* open only for the .part file, or the installer that is patched.
CacheFits ==
  /\ \A a \in Archive : cached[a] # 0 =>
       \/ bytes[cached[a]] = Whole
       \/ a = Installer /\ (CutInPlace \/ \E p \in Process : proc[p].at = "elf")
  /\ \A a, b \in Archive : cached[a] # 0 /\ cached[a] = cached[b] => a = b
  /\ \A p \in Process : proc[p].at = "elf" =>
       cached[Installer] = proc[p].fd /\ bytes[proc[p].fd] = {}
  /\ \A a, b \in Archive : part[a] # 0 => part[a] # cached[b] /\ (part[a] = part[b] => a = b)
  /\ \A p \in Process : proc[p].at = "receive" =>
       part[Head(proc[p].todo)] = proc[p].fd /\ bytes[proc[p].fd] = 1 .. proc[p].got

\* A marked pack is unpacked, and is not unpacked again.
MarksFit ==
  /\ \A d \in marked : unpacked[d] = "whole"
  /\ \A p \in Process :
       /\ proc[p].at \in {"unzip", "unzipping"} => Head(proc[p].todo) \notin marked
       /\ proc[p].at = "mark" => unpacked[Head(proc[p].todo)] = "whole"

\* Nothing is installed, or everything is, but while the installer runs.
AllThere == \A f \in Programs : files[f] # Missing
NoneThere == \A f \in Programs : files[f] = Missing

InstallFits ==
  \A p \in Process :
    /\ proc[p].at = "installer" => \A f \in Programs \ proc[p].left : files[f] # Missing
    /\ proc[p].at # "installer" => AllThere \/ NoneThere
    /\ \/ proc[p].at \in {"patch", "compat", "ok"}
       \/ proc[p].at \in Fetching /\ proc[p].stage = "devices"
       => AllThere

(***************************************************************************)
(* When the record of a patch can be trusted: on NixOS when nobody is      *)
(* interrupted, or when one chipsmith meets what others left, and nobody   *)
(* reinstalls by hand; elsewhere when no patched install is met.           *)
(***************************************************************************)
Uninterrupted == NotNeeded \notin Offered /\ Faults \cap {"kill", "installer"} = {}
OneChipsmith ==
  /\ \E x \in Offered : Offered = {x} /\ x # NotNeeded /\ x \notin Earlier
  /\ "local" \notin Commands
OffNixOS == Offered = {NotNeeded} /\ Earlier \subseteq {Missing, Shipped}

PatchFits ==
  \A p \in Process :
    /\ proc[p].at \notin {"installer", "patch"} =>
         \A y \in Offered : stamp = y => \A f \in Programs : files[f] \in {Missing, y}
    /\ proc[p].at = "patch" =>
         \A f \in Programs \ proc[p].left : files[f] \in {Missing, proc[p].paths}
    /\ proc[p].at = "ok" => stamp = proc[p].paths

\* With one chipsmith, its own paths are recorded only when there is an install
\* that nothing but an `install` by hand would write over.
RecordFits ==
  /\ stamp \in Offered => Installed
  /\ \A p \in Process :
       /\ \/ proc[p].at \in {"elf", "installer", "patch"}
          \/ proc[p].at \in Fetching /\ proc[p].stage = "base"
          => stamp # proc[p].paths
       /\ \/ proc[p].at \in {"patch", "compat"}
          \/ proc[p].at \in Fetching /\ proc[p].stage = "devices"
          => Installed
       /\ proc[p].at = "installer" => Installed \/ QuartusSh \in proc[p].left
       /\ proc[p].cmd # "local" /\ proc[p].stage # "local"

ShippedOnly == \A f \in Programs : files[f] \in {Missing, Shipped}

-----------------------------------------------------------------------------
LEMMA OverEffect ==
  ASSUME TypeOK, Controlled, NEW p \in Process, NEW verdict \in {"ok", "failed"},
         proc[p].at # "idle", Over(p, verdict)
  PROVE  /\ proc'[p].at = verdict /\ proc'[p].paths = proc[p].paths
         /\ proc'[p].cmd = proc[p].cmd /\ proc'[p].stage = "base"
         /\ \A q \in Process \ {p} : proc'[q] = proc[q]
<1>1. proc[p] \in Doing /\ proc[p].paths \in Offered
  BY DEF TypeOK, Controlled, Control
<1>2. proc[p].cmd \in {"install", "use", "local"} /\ proc[p].paths \in StorePaths \cup {NotNeeded}
  BY <1>1 DEF Doing
<1>3. proc' = [proc EXCEPT ![p] = Ended(proc[p].cmd, proc[p].paths, verdict)]
  BY DEF Over, Ended
<1> DEFINE r == Ended(proc[p].cmd, proc[p].paths, verdict)
<1>4. r.at = verdict /\ r.paths = proc[p].paths /\ r.cmd = proc[p].cmd
  BY IdleOK DEF Ended, Doing
<1>5. r.stage = "base"
  BY IdleOK DEF Ended, Doing
<1>6. proc'[p] = r /\ \A q \in Process \ {p} : proc'[q] = proc[q]
  BY <1>3 DEF TypeOK
<1>7. QED BY <1>4, <1>5, <1>6

LEMMA GiveUpEffect ==
  ASSUME TypeOK, Controlled, NEW p \in Process, proc[p].at \in Fetching \ {"archive"}, GiveUp(p)
  PROVE  /\ proc'[p].at \in {"failed", "archive"} /\ proc'[p].paths = proc[p].paths
         /\ proc'[p].cmd = proc[p].cmd
         /\ proc'[p].at = "archive" =>
              proc'[p].stage = proc[p].stage /\ proc[p].stage = "devices"
         /\ \A q \in Process \ {p} : proc'[q] = proc[q]
<1>1. CASE proc[p].stage = "base"
  BY <1>1, OverEffect DEF GiveUp, Fetching
<1>2. CASE proc[p].stage # "base"
  BY <1>2 DEF GiveUp, TypeOK, Controlled, Control, Doing, Fetching
<1>3. QED BY <1>1, <1>2

\* The installer is started or refused, patched first, or not needed.
LEMMA StartEffect ==
  ASSUME TypeOK, Controlled, NEW p \in Process, NoArchiveLeft(p) \/ InstallerPatched(p)
  PROVE  /\ UNCHANGED <<part, cached, install, faults>>
         /\ proc'[p].paths = proc[p].paths /\ proc'[p].cmd = proc[p].cmd
         /\ \A q \in Process \ {p} : proc'[q] = proc[q]
         /\ \/ NoArchiveLeft(p) /\ proc[p].at = "archive"
            \/ /\ InstallerPatched(p) /\ proc[p].at = "elf" /\ proc[p].stage = "base"
               /\ bytes' = [bytes EXCEPT ![proc[p].fd] = Whole] /\ proc'[p].at # "elf"
         /\ \/ proc'[p].at = "failed" /\ proc'[p].stage = "base"
            \/ /\ proc'[p].at = "installer" /\ proc'[p].left = Programs
               /\ proc[p].stage = "base" /\ proc'[p].stage = "base"
            \/ /\ proc'[p].at = "elf" /\ proc[p].stage = "base" /\ proc'[p].stage = "base"
               /\ proc[p].at = "archive" /\ Intact(Installer)
               /\ proc'[p].fd = cached[Installer] /\ proc'[p].got = 0
               /\ bytes' = [bytes EXCEPT ![cached[Installer]] = {}]
            \/ /\ proc'[p].at = "compat" /\ proc[p].at = "archive"
               /\ proc[p].stage = "devices" /\ proc'[p].stage = "devices"
         /\ NoArchiveLeft(p) /\ proc'[p].at # "elf" => bytes' = bytes
<1>a. proc[p] \in Doing /\ Control(proc[p])
  BY DEF TypeOK, Controlled
<1>1. /\ proc[p].at \in {"archive", "elf"} /\ UNCHANGED <<part, cached, install, faults>>
      /\ NoArchiveLeft(p) => proc[p].at = "archive"
      /\ InstallerPatched(p) => /\ proc[p].at = "elf" /\ proc[p].stage = "base"
                                /\ bytes' = [bytes EXCEPT ![proc[p].fd] = Whole]
  BY <1>a DEF NoArchiveLeft, InstallerPatched, Control
<1>2. CASE Over(p, "failed") /\ (NoArchiveLeft(p) => bytes' = bytes)
  BY <1>1, <1>2, OverEffect
<1>3. CASE /\ proc[p].stage = "base" /\ (NoArchiveLeft(p) => bytes' = bytes)
           /\ proc' = [proc EXCEPT ![p].at = "installer", ![p].left = Programs, ![p].fd = 0]
  <2>1. /\ proc'[p].at = "installer" /\ proc'[p].left = Programs /\ proc'[p].stage = "base"
        /\ proc'[p].paths = proc[p].paths /\ proc'[p].cmd = proc[p].cmd
        /\ \A q \in Process \ {p} : proc'[q] = proc[q]
    BY <1>3, <1>a DEF TypeOK, Doing
  <2>2. QED BY <1>1, <1>3, <2>1
<1>4. CASE /\ NoArchiveLeft(p) /\ proc[p].stage = "base" /\ Intact(Installer)
           /\ proc' = [proc EXCEPT ![p].at = "elf", ![p].fd = cached[Installer], ![p].got = 0]
           /\ bytes' = [bytes EXCEPT ![cached[Installer]] = {}]
  <2>1. /\ proc'[p].at = "elf" /\ proc'[p].fd = cached[Installer] /\ proc'[p].got = 0
        /\ proc'[p].stage = "base" /\ proc'[p].paths = proc[p].paths /\ proc'[p].cmd = proc[p].cmd
        /\ \A q \in Process \ {p} : proc'[q] = proc[q]
    BY <1>4, <1>a DEF TypeOK, Doing
  <2>2. QED BY <1>1, <1>4, <2>1
<1>5. CASE /\ NoArchiveLeft(p) /\ proc[p].stage # "base" /\ bytes' = bytes
           /\ proc' = [proc EXCEPT ![p].at = "compat"]
  <2>1. proc[p].stage = "devices"
    BY <1>1, <1>a, <1>5 DEF Control, Fetching
  <2>2. /\ proc'[p].at = "compat" /\ proc'[p].stage = "devices"
        /\ proc'[p].paths = proc[p].paths /\ proc'[p].cmd = proc[p].cmd
        /\ \A q \in Process \ {p} : proc'[q] = proc[q]
    BY <1>5, <1>a, <2>1 DEF TypeOK, Doing
  <2>3. QED BY <1>1, <1>5, <2>1, <2>2
<1>6. QED BY <1>1, <1>2, <1>3, <1>4, <1>5 DEF NoArchiveLeft, InstallerPatched, StartInstaller

LEMMA FaultsStay ==
  ASSUME TypeOK, [Next]_vars
  PROVE  faults # 0 => faults' # 0
<1>1. faults \in Nat
  BY ShapeAssumption DEF TypeOK
<1>2. CASE UNCHANGED vars
  BY <1>2 DEF vars
<1>3. ASSUME NEW p \in Process, Proceed(p) PROVE faults' = faults
  <2>1. CASE NoArchiveLeft(p) \/ InstallerPatched(p)
    BY <2>1 DEF NoArchiveLeft, InstallerPatched
  <2>2. CASE Check(p) \/ NextArchive(p) \/ Create(p) \/ Receive(p) \/ Rename(p)
    BY <2>2 DEF Check, NextArchive, Create, Receive, Rename
  <2>3. CASE InstallProgram(p) \/ InstallerDone(p) \/ PatchProgram(p) \/ WriteStamp(p)
    BY <2>3 DEF InstallProgram, InstallerDone, PatchProgram, WriteStamp
  <2>4. CASE Unzip(p) \/ UnzipDone(p) \/ Mark(p) \/ Compat(p)
    BY <2>4 DEF Unzip, UnzipDone, Mark, Compat
  <2>5. QED BY <1>3, <2>1, <2>2, <2>3, <2>4 DEF Proceed
<1>4. ASSUME NEW p \in Process, DownloadFails(p) \/ UnzipFails(p) \/ Interrupt(p)
      PROVE  faults' = faults + 1
  BY <1>4 DEF DownloadFails, UnzipFails, Interrupt
<1>5. ASSUME NEW p \in Process, NEW cmd \in Commands, NEW paths \in Offered, Run(p, cmd, paths)
      PROVE  faults' = faults
  BY <1>5 DEF Run
<1>6. QED BY <1>1, <1>2, <1>3, <1>4, <1>5 DEF Next

LEMMA CacheFitsKept ==
  ASSUME CacheFits, UNCHANGED cache, faults # 0 => faults' # 0,
         \A q \in Process : proc'[q].at \in {"receive", "elf"} => proc'[q] = proc[q],
         \A q \in Process : proc[q].at = "elf" => proc'[q].at = "elf"
  PROVE  CacheFits'
<1>1. CutInPlace => CutInPlace'
  BY DEF CutInPlace, cache
<1>2. \A a \in Archive : cached'[a] # 0 =>
        \/ bytes'[cached'[a]] = Whole
        \/ a = Installer /\ (CutInPlace' \/ \E p \in Process : proc'[p].at = "elf")
  BY <1>1 DEF CacheFits, cache
<1>3. \A p \in Process : proc'[p].at = "elf" =>
        cached'[Installer] = proc'[p].fd /\ bytes'[proc'[p].fd] = {}
  BY DEF CacheFits, cache
<1>4. \A p \in Process : proc'[p].at = "receive" =>
        part'[Head(proc'[p].todo)] = proc'[p].fd /\ bytes'[proc'[p].fd] = 1 .. proc'[p].got
  BY DEF CacheFits, cache
<1>5. QED BY <1>2, <1>3, <1>4 DEF CacheFits, cache

LEMMA MarksFitKept ==
  ASSUME MarksFit, UNCHANGED <<unpacked, marked>>,
         \A q \in Process : proc'[q].at \in {"unzip", "unzipping", "mark"} => proc'[q] = proc[q]
  PROVE  MarksFit'
BY DEF MarksFit

LEMMA CacheStep ==
  ASSUME OneProcess, TypeOK, Controlled, CacheFits, MarksFit, [Next]_vars
  PROVE  CacheFits' /\ MarksFit'
<1>0. ASSUME NEW p \in Process, NEW q \in Process PROVE p = q
  BY DEF OneProcess
<1>a. ASSUME NEW p \in Process
      PROVE  proc[p] \in Doing /\ Control(proc[p])
  BY DEF TypeOK, Controlled
<1> DEFINE Quiet(p) == /\ proc[p].at # "elf"
                       /\ proc'[p].at \notin {"receive", "elf", "unzip", "unzipping", "mark"}
<1>f. faults # 0 => faults' # 0
  BY FaultsStay
<1>b. ASSUME NEW p \in Process, Quiet(p), UNCHANGED <<cache, unpacked, marked>>
      PROVE  CacheFits' /\ MarksFit'
  <2>1. \A q \in Process : q = p
    BY <1>0
  <2>2. CacheFits'
    BY <1>b, <1>f, <2>1, CacheFitsKept
  <2>3. MarksFit'
    BY <1>b, <2>1, MarksFitKept
  <2>4. QED BY <2>2, <2>3
<1>1. ASSUME NEW p \in Process, NEW cmd \in Commands, NEW paths \in Offered, Run(p, cmd, paths)
      PROVE  CacheFits' /\ MarksFit'
  <2>1. proc'[p].at \in {"installer", "check"} /\ UNCHANGED <<cache, install>> /\ proc[p].at # "elf"
    BY <1>1, <1>a, IdleOK DEF Run, TypeOK, Doing, AtRest
  <2>2. QED BY <1>b, <2>1 DEF install
<1>2. ASSUME NEW p \in Process, Check(p) PROVE CacheFits' /\ MarksFit'
  BY <1>2, <1>a, <1>b DEF Check, TypeOK, Doing, install
<1>3. ASSUME NEW p \in Process, NextArchive(p) PROVE CacheFits' /\ MarksFit'
  <2>1. UNCHANGED <<cache, unpacked, marked>> /\ proc[p].at = "archive"
    BY <1>3 DEF NextArchive, install
  <2>2. CASE proc' = [proc EXCEPT ![p].todo = Tail(@)]
    BY <1>b, <1>a, <2>1, <2>2 DEF TypeOK, Doing
  <2>3. CASE Goto(p, "request")
    BY <1>b, <1>a, <2>1, <2>3 DEF Goto, TypeOK, Doing
  <2>4. CASE Goto(p, "unzip") /\ Head(proc[p].todo) \notin marked
    <3>1. proc'[p].at = "unzip" /\ proc'[p].todo = proc[p].todo
      BY <1>a, <2>4 DEF Goto, TypeOK, Doing
    <3>2. CacheFits'
      BY <1>0, <1>f, <2>1, <3>1, CacheFitsKept
    <3>3. MarksFit'
      BY <1>0, <2>1, <2>4, <3>1 DEF MarksFit
    <3>4. QED BY <3>2, <3>3
  <2>5. QED BY <1>3, <2>2, <2>3, <2>4 DEF NextArchive
<1>4. ASSUME NEW p \in Process, NoArchiveLeft(p) \/ InstallerPatched(p)
      PROVE  CacheFits' /\ MarksFit'
  <2>1. UNCHANGED <<part, cached, unpacked, marked, faults>> /\ \A q \in Process : q = p
    BY <1>0, <1>4, StartEffect DEF install
  <2>2. proc'[p].at \in {"failed", "installer", "elf", "compat"}
    BY <1>4, StartEffect
  <2>3. MarksFit'
    BY <2>1, <2>2, MarksFitKept
  <2>4. CASE NoArchiveLeft(p) /\ proc'[p].at # "elf"
    <3>1. bytes' = bytes /\ proc[p].at = "archive"
      BY <1>4, <2>4, StartEffect DEF NoArchiveLeft
    <3>2. QED BY <1>b, <2>1, <2>2, <2>4, <3>1 DEF cache
  <2>5. CASE proc'[p].at = "elf"
    <3>1. /\ proc'[p].fd = cached[Installer] /\ Intact(Installer) /\ proc[p].at = "archive"
          /\ bytes' = [bytes EXCEPT ![cached[Installer]] = {}]
      BY <1>4, <2>5, StartEffect
    <3>2. cached[Installer] # 0 /\ cached[Installer] \in Inode /\ Installer \in Archive
      BY <3>1, InstallerIsArchive DEF Intact, TypeOK
    <3>3. bytes'[cached[Installer]] = {}
      BY <3>1, <3>2 DEF TypeOK
    <3>4. ASSUME NEW a \in Archive, cached[a] # 0, a # Installer PROVE bytes'[cached[a]] = Whole
      <4>1. cached[a] # cached[Installer] /\ bytes[cached[a]] = Whole
        BY <3>2, <3>4 DEF CacheFits
      <4>2. bytes'[cached[a]] = bytes[cached[a]]
        BY <3>1, <3>4, <4>1 DEF TypeOK
      <4>3. QED BY <4>1, <4>2
    <3>5. QED BY <2>1, <2>3, <2>5, <3>1, <3>3, <3>4 DEF CacheFits
  <2>6. CASE InstallerPatched(p)
    <3>1. /\ proc[p].at = "elf" /\ bytes' = [bytes EXCEPT ![proc[p].fd] = Whole] /\ proc'[p].at # "elf"
      BY <1>4, <2>6, StartEffect DEF NoArchiveLeft, InstallerPatched
    <3>2. cached[Installer] = proc[p].fd /\ proc[p].fd # 0 /\ proc[p].fd \in Inode
      BY <1>a, <3>1 DEF CacheFits, Control, Doing
    <3>3. ASSUME NEW a \in Archive, cached[a] # 0 PROVE bytes'[cached[a]] = Whole
      <4>1. CASE cached[a] = proc[p].fd
        BY <3>1, <3>2, <4>1 DEF TypeOK
      <4>2. CASE cached[a] # proc[p].fd
        <5>1. bytes[cached[a]] = Whole
          BY <2>1, <3>2, <3>3, <4>2 DEF CacheFits, CutInPlace
        <5>2. QED BY <3>1, <3>3, <4>2, <5>1 DEF TypeOK
      <4>3. QED BY <4>1, <4>2
    <3>4. QED BY <2>1, <2>2, <2>3, <3>1, <3>3 DEF CacheFits
  <2>7. QED BY <1>4, <2>4, <2>5, <2>6
<1>5. ASSUME NEW p \in Process, Create(p) PROVE CacheFits' /\ MarksFit'
  <2> DEFINE a == Head(proc[p].todo)
             i == IF part[a] # 0 THEN part[a] ELSE FreeInode
  <2>1. /\ proc[p].at = "request" /\ proc[p].fd = 0
        /\ proc[p].todo \in Seq(Listed(proc[p].stage)) /\ proc[p].todo # <<>>
    BY <1>5, <1>a DEF Create, Control, Fetching, Doing
  <2>2. a \in Archive
    BY <2>1, HeadAndTail, ArchiveFacts
  <2>3. /\ i \in Inode /\ i # 0
        /\ \A b \in Archive : i # cached[b] /\ (b # a => i # part[b])
    <3>1. CASE part[a] # 0
      BY <2>2, <3>1 DEF CacheFits, TypeOK, Inode
    <3>2. CASE part[a] = 0
      BY <2>1, <2>2, <3>2, FreeInodeIsFree DEF InUse, Inode
    <3>3. QED BY <3>1, <3>2
  <2>4. /\ bytes' = [bytes EXCEPT ![i] = {}] /\ part' = [part EXCEPT ![a] = i]
        /\ proc' = [proc EXCEPT ![p].at = "receive", ![p].fd = i, ![p].got = 0]
        /\ UNCHANGED <<cached, unpacked, marked>>
    BY <1>5 DEF Create, install
  <2>5. /\ proc'[p].at = "receive" /\ proc'[p].fd = i /\ proc'[p].got = 0
        /\ proc'[p].todo = proc[p].todo
    BY <1>a, <2>4 DEF TypeOK, Doing
  <2> HIDE DEF i, a
  <2>6. \A b \in Archive : bytes'[cached'[b]] = bytes[cached[b]]
    BY <2>3, <2>4 DEF TypeOK
  <2>7. part'[a] = i /\ bytes'[i] = {} /\ \A b \in Archive \ {a} : part'[b] = part[b]
    BY <2>2, <2>3, <2>4 DEF TypeOK
  <2>8. CacheFits'
    <3>1. \A b \in Archive : cached'[b] # 0 =>
            bytes'[cached'[b]] = Whole \/ (b = Installer /\ CutInPlace')
      <4>1. ASSUME NEW b \in Archive, cached'[b] # 0, bytes'[cached'[b]] # Whole
            PROVE  b = Installer /\ CutInPlace
        BY <1>0, <2>1, <2>4, <2>6, <4>1 DEF CacheFits
      <4>2. CutInPlace => CutInPlace'
        BY <1>f, <2>4, <2>6, InstallerIsArchive DEF CutInPlace
      <4>3. QED BY <4>1, <4>2
    <3>2. \A b, c \in Archive : part'[b] # 0 =>
             part'[b] # cached'[c] /\ (part'[b] = part'[c] => b = c)
      BY <2>3, <2>4, <2>7 DEF CacheFits
    <3>3. \A q \in Process : part'[Head(proc'[q].todo)] = proc'[q].fd
                               /\ bytes'[proc'[q].fd] = 1 .. proc'[q].got
      <4>1. part'[Head(proc'[p].todo)] = proc'[p].fd /\ bytes'[proc'[p].fd] = {}
        BY <2>5, <2>7 DEF a
      <4>2. 1 .. proc'[p].got = {}
        BY <2>5
      <4>3. QED BY <1>0, <4>1, <4>2
    <3>4. \A q \in Process : proc'[q].at # "elf"
      BY <1>0, <2>5
    <3>5. \A b, c \in Archive : cached'[b] # 0 /\ cached'[b] = cached'[c] => b = c
      BY <2>4 DEF CacheFits
    <3>6. QED BY <3>1, <3>2, <3>3, <3>4, <3>5 DEF CacheFits
  <2>9. MarksFit'
    BY <1>0, <2>4, <2>5, MarksFitKept
  <2>10. QED BY <2>8, <2>9
<1>6. ASSUME NEW p \in Process, Receive(p) PROVE CacheFits' /\ MarksFit'
  <2> DEFINE i == proc[p].fd
             n == proc[p].got
             a == Head(proc[p].todo)
  <2>1. /\ proc[p].at = "receive" /\ i # 0 /\ i \in Inode /\ n \in 0 .. Chunks
        /\ proc[p].todo \in Seq(Listed(proc[p].stage)) /\ proc[p].todo # <<>>
    BY <1>6, <1>a DEF Receive, Control, Doing, Fetching
  <2>2. a \in Archive
    BY <2>1, HeadAndTail, ArchiveFacts
  <2>3. part[a] = i /\ bytes[i] = 1 .. n /\ \A b \in Archive : i # cached[b]
    BY <2>1, <2>2 DEF CacheFits
  <2>4. /\ bytes' = [bytes EXCEPT ![i] = @ \cup {n + 1}]
        /\ proc' = [proc EXCEPT ![p].got = @ + 1]
        /\ UNCHANGED <<part, cached, unpacked, marked>>
    BY <1>6 DEF Receive, install
  <2>5. /\ proc'[p].at = "receive" /\ proc'[p].fd = i /\ proc'[p].got = n + 1
        /\ proc'[p].todo = proc[p].todo
    BY <1>a, <2>1, <2>4 DEF TypeOK, Doing
  <2>6. bytes'[i] = 1 .. n + 1
    <3>1. bytes'[i] = (1 .. n) \cup {n + 1}
      BY <2>1, <2>3, <2>4 DEF TypeOK
    <3>2. n \in Nat
      BY <2>1, ShapeAssumption
    <3>3. QED BY <3>1, <3>2
  <2> HIDE DEF i, n
  <2>7. \A b \in Archive : bytes'[cached[b]] = bytes[cached[b]]
    BY <2>3, <2>4 DEF TypeOK
  <2>8. CacheFits'
    <3>1. \A b \in Archive : cached'[b] # 0 =>
            bytes'[cached'[b]] = Whole \/ (b = Installer /\ CutInPlace')
      <4>1. ASSUME NEW b \in Archive, cached'[b] # 0, bytes'[cached'[b]] # Whole
            PROVE  b = Installer /\ CutInPlace
        BY <1>0, <2>1, <2>4, <2>7, <4>1 DEF CacheFits
      <4>2. CutInPlace => CutInPlace'
        BY <1>f, <2>4, <2>7, InstallerIsArchive DEF CutInPlace
      <4>3. QED BY <4>1, <4>2
    <3>2. \A b, c \in Archive : part'[b] # 0 =>
             part'[b] # cached'[c] /\ (part'[b] = part'[c] => b = c)
      BY <2>4 DEF CacheFits
    <3>3. \A q \in Process : part'[Head(proc'[q].todo)] = proc'[q].fd
                               /\ bytes'[proc'[q].fd] = 1 .. proc'[q].got
      BY <1>0, <2>3, <2>4, <2>5, <2>6
    <3>4. \A q \in Process : proc'[q].at # "elf"
      BY <1>0, <2>5
    <3>5. \A b, c \in Archive : cached'[b] # 0 /\ cached'[b] = cached'[c] => b = c
      BY <2>4 DEF CacheFits
    <3>6. QED BY <3>1, <3>2, <3>3, <3>4, <3>5 DEF CacheFits
  <2>9. MarksFit'
    BY <1>0, <2>4, <2>5, MarksFitKept
  <2>10. QED BY <2>8, <2>9
<1>7. ASSUME NEW p \in Process, Rename(p) PROVE CacheFits' /\ MarksFit'
  <2> DEFINE a == Head(proc[p].todo)
  <2>1. /\ proc[p].at = "receive" /\ proc[p].got = Chunks
        /\ proc[p].todo \in Seq(Listed(proc[p].stage)) /\ proc[p].todo # <<>>
        /\ UNCHANGED <<unpacked, marked>>
    BY <1>7, <1>a DEF Rename, Control, Fetching, install
  <2>2. a \in Archive
    BY <2>1, HeadAndTail, ArchiveFacts
  <2>3. CASE GiveUp(p) /\ UNCHANGED cache
    <3>1. Quiet(p)
      BY <2>1, <2>3, GiveUpEffect DEF Fetching
    <3>2. QED BY <1>b, <2>1, <2>3, <3>1
  <2>4. CASE /\ part[a] # 0
             /\ cached' = [cached EXCEPT ![a] = part[a]] /\ part' = [part EXCEPT ![a] = 0]
             /\ proc' = [proc EXCEPT ![p].at = "archive", ![p].fd = 0, ![p].got = 0]
             /\ UNCHANGED bytes
    <3>1. proc'[p].at = "archive"
      BY <1>a, <2>4 DEF TypeOK, Doing
    <3>2. part[a] = proc[p].fd /\ bytes[part[a]] = Whole
      BY <2>1 DEF CacheFits, Whole
    <3> HIDE DEF a
    <3>3. \A b \in Archive : cached'[b] = IF b = a THEN part[a] ELSE cached[b]
      BY <2>2, <2>4 DEF TypeOK
    <3>4. \A b \in Archive : part'[b] = IF b = a THEN 0 ELSE part[b]
      BY <2>2, <2>4 DEF TypeOK
    <3>5. \A b \in Archive : cached'[b] # 0 =>
            bytes'[cached'[b]] = Whole \/ (b = Installer /\ CutInPlace')
      <4>1. ASSUME NEW b \in Archive, cached'[b] # 0, bytes'[cached'[b]] # Whole
            PROVE  b # a /\ b = Installer /\ CutInPlace
        BY <1>0, <2>1, <2>4, <3>2, <3>3, <4>1 DEF CacheFits
      <4>2. CutInPlace /\ Installer # a => CutInPlace'
        BY <1>f, <2>4, <3>2, <3>3, InstallerIsArchive DEF CutInPlace
      <4>3. QED BY <4>1, <4>2
    <3>a. \A b, c \in Archive : cached'[b] # 0 /\ cached'[b] = cached'[c] => b = c
      <4>1. ASSUME NEW b \in Archive PROVE part[a] # cached[b]
        BY <2>2, <2>4 DEF CacheFits
      <4>2. \A b, c \in Archive : cached[b] # 0 /\ cached[b] = cached[c] => b = c
        BY DEF CacheFits
      <4>3. QED BY <3>3, <4>1, <4>2
    <3>6. \A b, c \in Archive : part'[b] # 0 =>
             part'[b] # cached'[c] /\ (part'[b] = part'[c] => b = c)
      BY <2>2, <3>3, <3>4 DEF CacheFits
    <3>7. CacheFits'
      BY <1>0, <3>1, <3>5, <3>6, <3>a DEF CacheFits
    <3>8. MarksFit'
      BY <1>0, <2>1, <3>1, MarksFitKept
    <3>9. QED BY <3>7, <3>8
  <2>5. QED BY <1>7, <2>3, <2>4 DEF Rename
<1>8. ASSUME NEW p \in Process, DownloadFails(p) \/ UnzipFails(p) PROVE CacheFits' /\ MarksFit'
  <2>1. /\ proc[p].at \in {"request", "receive", "unzipping"} /\ GiveUp(p)
        /\ UNCHANGED <<cache, unpacked, marked>>
    BY <1>8 DEF DownloadFails, UnzipFails, install
  <2>2. Quiet(p)
    BY <2>1, GiveUpEffect DEF Fetching
  <2>3. QED BY <1>b, <2>1, <2>2
<1>9. ASSUME NEW p \in Process, Interrupt(p) PROVE CacheFits' /\ MarksFit'
  <2>1. /\ proc[p].at # "idle" /\ Over(p, "failed") /\ UNCHANGED <<cache, unpacked, marked>>
        /\ faults \in Nat /\ faults' = faults + 1
    BY <1>9, ShapeAssumption DEF Interrupt, AtRest, install, TypeOK
  <2>2. CASE proc[p].at # "elf"
    BY <1>b, <2>1, <2>2, OverEffect
  <2>3. CASE proc[p].at = "elf"
    <3>1. proc'[p].at = "failed" /\ \A q \in Process : q = p
      BY <1>0, <2>1, OverEffect
    <3>2. Unsandboxed # {} /\ cached[Installer] # 0 /\ bytes[cached[Installer]] = {}
      BY <1>a, <2>3 DEF Control, CacheFits
    <3>3. CutInPlace'
      BY <2>1, <3>2 DEF CutInPlace, cache
    <3>4. CacheFits'
      BY <2>1, <3>1, <3>3 DEF CacheFits, cache
    <3>5. MarksFit'
      BY <2>1, <3>1, MarksFitKept
    <3>6. QED BY <3>4, <3>5
  <2>4. QED BY <2>2, <2>3
<1>10. ASSUME NEW p \in Process, InstallProgram(p) \/ PatchProgram(p)
       PROVE  CacheFits' /\ MarksFit'
  <2>1. /\ proc'[p].at \in {"installer", "patch"} /\ UNCHANGED <<cache, unpacked, marked>>
        /\ proc[p].at # "elf"
    BY <1>10, <1>a DEF InstallProgram, PatchProgram, TypeOK, Doing
  <2>2. QED BY <1>b, <2>1
<1>11. ASSUME NEW p \in Process, proc[p].at \in {"installer", "patch"}, BaseDone(p)
       PROVE  Quiet(p)
  <2>1. CASE Over(p, "ok")
    BY <1>11, <2>1, OverEffect
  <2>2. CASE proc' = [proc EXCEPT ![p].at = "archive", ![p].stage = "devices", ![p].todo = Packs]
    <3>1. DOMAIN proc = Process /\ DOMAIN proc[p] = DOMAIN proc'[p] /\ "at" \in DOMAIN proc[p]
      <4>1. proc \in [Process -> Doing] /\ proc[p] \in Doing
        BY <1>11 DEF TypeOK
      <4>2. QED BY <1>11, <2>2, <4>1 DEF Doing
    <3>2. proc'[p].at = "archive"
      BY <1>11, <2>2, <3>1
    <3>3. QED BY <1>11, <3>2
  <2>3. QED BY <1>11, <2>1, <2>2 DEF BaseDone
<1>12. ASSUME NEW p \in Process, InstallerDone(p) PROVE CacheFits' /\ MarksFit'
  <2>1. proc[p].at = "installer" /\ UNCHANGED <<cache, unpacked, marked>>
    BY <1>12 DEF InstallerDone, install
  <2>2. CASE BaseDone(p)
    BY <1>b, <1>11, <2>1, <2>2
  <2>3. CASE proc' = [proc EXCEPT ![p].at = "patch", ![p].left = Programs]
    BY <1>a, <1>b, <2>1, <2>3 DEF TypeOK, Doing
  <2>4. QED BY <1>12, <2>2, <2>3 DEF InstallerDone
<1>13. ASSUME NEW p \in Process, WriteStamp(p) PROVE CacheFits' /\ MarksFit'
  <2>1. proc[p].at = "patch" /\ UNCHANGED <<cache, unpacked, marked>>
    BY <1>13 DEF WriteStamp
  <2>2. CASE BaseDone(p)
    BY <1>b, <1>11, <2>1, <2>2
  <2>3. CASE Over(p, "ok")
    BY <1>b, <2>1, <2>3, OverEffect
  <2>4. QED BY <1>13, <2>2, <2>3 DEF WriteStamp
<1>14. ASSUME NEW p \in Process, Unzip(p) PROVE CacheFits' /\ MarksFit'
  <2> DEFINE a == Head(proc[p].todo)
  <2>1. proc[p].at = "unzip" /\ UNCHANGED <<cache, marked>> /\ a \notin marked
    BY <1>14 DEF Unzip, MarksFit
  <2>2. \A d \in marked : unpacked'[d] = unpacked[d]
    <3>1. unpacked' \in {unpacked, [unpacked EXCEPT ![a] = "half"]}
      BY <1>14 DEF Unzip
    <3> HIDE DEF a
    <3>2. QED BY <2>1, <3>1 DEF TypeOK
  <2>3. CASE Goto(p, "unzipping")
    <3>1. proc'[p].at = "unzipping" /\ proc'[p].todo = proc[p].todo
      BY <1>a, <2>3 DEF Goto, TypeOK, Doing
    <3>2. CacheFits'
      BY <1>0, <1>f, <2>1, <3>1, CacheFitsKept
    <3>3. MarksFit'
      BY <1>0, <2>1, <2>2, <3>1 DEF MarksFit
    <3>4. QED BY <3>2, <3>3
  <2>4. CASE GiveUp(p)
    <3>1. Quiet(p)
      BY <2>1, <2>4, GiveUpEffect DEF Fetching
    <3>2. CacheFits'
      BY <1>0, <1>f, <2>1, <3>1, CacheFitsKept
    <3>3. MarksFit'
      BY <1>0, <2>1, <2>2, <3>1 DEF MarksFit
    <3>4. QED BY <3>2, <3>3
  <2>5. QED BY <1>14, <2>3, <2>4 DEF Unzip
<1>15. ASSUME NEW p \in Process, UnzipDone(p) PROVE CacheFits' /\ MarksFit'
  <2> DEFINE a == Head(proc[p].todo)
  <2>1. /\ proc[p].at = "unzipping" /\ UNCHANGED <<cache, marked>> /\ a \notin marked
        /\ unpacked' = [unpacked EXCEPT ![a] = "whole"] /\ Goto(p, "mark")
    BY <1>15 DEF UnzipDone, MarksFit
  <2>2. a \in ToSet(Packs)
    BY <1>a, <2>1, HeadAndTail DEF Control, Fetching, Listed
  <2>3. proc'[p].at = "mark" /\ proc'[p].todo = proc[p].todo
    BY <1>a, <2>1 DEF Goto, TypeOK, Doing
  <2>4. CacheFits'
    BY <1>0, <1>f, <2>1, <2>3, CacheFitsKept
  <2>5. unpacked'[Head(proc'[p].todo)] = "whole"
    BY <2>1, <2>2, <2>3 DEF TypeOK
  <2>6. \A d \in marked' : unpacked'[d] = "whole"
    BY <2>1 DEF TypeOK, MarksFit
  <2>7. MarksFit'
    BY <1>0, <2>3, <2>5, <2>6 DEF MarksFit
  <2>8. QED BY <2>4, <2>7
<1>16. ASSUME NEW p \in Process, Mark(p) PROVE CacheFits' /\ MarksFit'
  <2>1. /\ proc[p].at = "mark" /\ UNCHANGED <<cache, unpacked>>
        /\ marked' = marked \cup {Head(proc[p].todo)}
        /\ unpacked[Head(proc[p].todo)] = "whole"
    BY <1>16 DEF Mark, MarksFit
  <2>2. proc'[p].at = "archive"
    BY <1>16, <1>a DEF Mark, TypeOK, Doing
  <2>3. CacheFits'
    BY <1>0, <1>f, <2>1, <2>2, CacheFitsKept
  <2>4. MarksFit'
    BY <1>0, <2>1, <2>2 DEF MarksFit
  <2>5. QED BY <2>3, <2>4
<1>17. ASSUME NEW p \in Process, Compat(p) PROVE CacheFits' /\ MarksFit'
  <2>1. proc[p].at = "compat" /\ UNCHANGED <<cache, unpacked, marked>>
    BY <1>17 DEF Compat, install
  <2>2. CASE \E verdict \in {"ok", "failed"} : Over(p, verdict)
    BY <1>b, <2>1, <2>2, OverEffect
  <2>3. CASE proc' = [proc EXCEPT ![p].at = "patch", ![p].stage = "final", ![p].left = Programs]
    BY <1>a, <1>b, <2>1, <2>3 DEF TypeOK, Doing
  <2>4. QED BY <1>17, <2>2, <2>3 DEF Compat
<1>18. ASSUME UNCHANGED vars PROVE CacheFits' /\ MarksFit'
  <2>1. UNCHANGED <<cache, faults, unpacked, marked, proc>>
    BY <1>18 DEF vars, cache
  <2>2. QED BY <2>1, CacheFitsKept, MarksFitKept
<1>19. ASSUME NEW p \in Process, Proceed(p) PROVE CacheFits' /\ MarksFit'
  BY <1>2, <1>3, <1>4, <1>5, <1>6, <1>7, <1>10, <1>12, <1>13, <1>14, <1>15, <1>16, <1>17, <1>19
  DEF Proceed
<1>20. QED BY <1>1, <1>8, <1>9, <1>18, <1>19 DEF Next

\* When chipsmith-vendor processes do not run at once, whatever is interrupted
\* and whatever fails, an archive under its own name is the whole archive and a
\* pack with a marker is all in the install directory (download.rs renames the
\* file last, install.rs writes the marker last).  Only the installer may be
\* damaged, where NixOS has no sandbox for it, by a kill while patchelf rewrites
\* it in the cache (runner.rs).
THEOREM CacheSound ==
  ASSUME OneProcess
  PROVE  Spec => []CacheIsSound
<1>1. Init => CacheFits /\ MarksFit
  BY IdleOK DEF Init, CacheFits, MarksFit
<1>2. /\ TypeOK /\ Controlled /\ CacheFits /\ MarksFit /\ [Next]_vars
      => CacheFits' /\ MarksFit'
  BY OneProcess, CacheStep
<1>3. CacheFits /\ MarksFit => CacheIsSound
  BY DEF CacheFits, MarksFit, CacheIsSound, CachedIsWhole, MarkedIsUnpacked, Intact
<1>4. QED BY <1>1, <1>2, <1>3, Controls, PTL DEF Spec
-----------------------------------------------------------------------------
(***************************************************************************)
(* Any number of processes.  They may share a .part file and truncate it   *)
(* under each other; but whoever truncated it last has its pieces so far   *)
(* in it, and lets go before it has them all only by being cut off.        *)
(***************************************************************************)
Named(i) == \E a \in Archive : i \in {part[a], cached[a]}
TornFiles == {i \in Inode : Named(i) /\ ~Filled(i)}
SharedFits == Cardinality(TornFiles) <= faults

LEMMA FewFiles ==
  /\ IsFiniteSet(Inode) /\ 0 \notin Inode
  /\ IsFiniteSet(TornFiles) /\ Cardinality(TornFiles) \in Nat
  /\ IsFiniteSet(TornFiles') /\ Cardinality(TornFiles)' \in Nat
<1> DEFINE most == 2 * (Len(Base) + Len(Packs)) + Cardinality(Process)
<1>1. most \in Nat
  BY ShapeAssumption, FS_CardinalityType, LenProperties
<1>2. Inode = 1 .. most
  BY DEF Inode
<1> HIDE DEF most
<1>3. IsFiniteSet(Inode) /\ 0 \notin Inode
  BY <1>1, <1>2, FS_Interval
<1>4. TornFiles \subseteq Inode /\ TornFiles' \subseteq Inode
  BY DEF TornFiles
<1>5. IsFiniteSet(TornFiles) /\ IsFiniteSet(TornFiles')
  BY <1>3, <1>4, FS_Subset
<1>6. Cardinality(TornFiles) \in Nat /\ Cardinality(TornFiles') \in Nat
  BY <1>5, FS_CardinalityType
<1>7. QED BY <1>3, <1>5, <1>6

LEMMA NoMoreTorn ==
  ASSUME SharedFits, faults \in Nat, faults' \in {faults, faults + 1},
         \A i \in Inode : Named(i)' => Named(i) \/ Filled(i)',
         \A i \in Inode : Filled(i) => Filled(i)'
  PROVE  SharedFits'
<1>1. TornFiles' \subseteq TornFiles
  BY DEF TornFiles
<1>2. Cardinality(TornFiles') <= Cardinality(TornFiles)
  BY <1>1, FewFiles, FS_Subset
<1> HIDE DEF TornFiles
<1>3. QED BY <1>2, FewFiles DEF SharedFits

LEMMA OneMoreTorn ==
  ASSUME SharedFits, faults \in Nat, faults' = faults + 1, NEW torn,
         \A i \in Inode : Named(i)' => Named(i),
         \A i \in Inode \ {torn} : Filled(i) => Filled(i)'
  PROVE  SharedFits'
<1>1. TornFiles' \subseteq TornFiles \cup {torn}
  BY DEF TornFiles
<1>2. /\ IsFiniteSet(TornFiles \cup {torn})
      /\ Cardinality(TornFiles \cup {torn}) \in {Cardinality(TornFiles), Cardinality(TornFiles) + 1}
  BY FewFiles, FS_AddElement
<1>3. Cardinality(TornFiles') <= Cardinality(TornFiles \cup {torn})
  BY <1>1, <1>2, FS_Subset
<1> HIDE DEF TornFiles
<1>4. QED BY <1>2, <1>3, FewFiles DEF SharedFits

\* A step of one process that writes nothing keeps every file filled that this
\* process is not filling, or has filled.
LEMMA FilledKept ==
  ASSUME TypeOK, NEW p \in Process, bytes' = bytes,
         \A q \in Process \ {p} : proc'[q] = proc[q],
         NEW i \in Inode, Filled(i), proc[p].fd # i \/ proc[p].got = Chunks
  PROVE  Filled(i)'
<1>1. CASE bytes[i] = Whole
  BY <1>1 DEF Filled
<1>2. CASE bytes[i] # Whole
  <2>1. PICK q \in Process : proc[q].fd = i /\ 1 .. proc[q].got \subseteq bytes[i]
    BY <1>2 DEF Filled
  <2>2. q # p
    <3> SUFFICES ASSUME q = p PROVE FALSE
      OBVIOUS
    <3>1. proc[p].got = Chunks /\ Whole \subseteq bytes[i]
      BY <2>1 DEF Whole
    <3>2. bytes[i] \subseteq Whole
      BY DEF TypeOK
    <3>3. QED BY <1>2, <3>1, <3>2
  <2>3. QED BY <2>1, <2>2 DEF Filled
<1>3. QED BY <1>1, <1>2

\* One that opens a file, truncated, fills it as far as it has got.
LEMMA Opened ==
  ASSUME TypeOK, NEW p \in Process, proc[p].fd = 0, NEW i \in Inode,
         bytes' = [bytes EXCEPT ![i] = {}], proc'[p].fd = i, proc'[p].got = 0,
         \A q \in Process \ {p} : proc'[q] = proc[q]
  PROVE  Filled(i)' /\ \A j \in Inode : Filled(j) => Filled(j)'
<1>1. Filled(i)'
  <2>1. 1 .. proc'[p].got = {}
    OBVIOUS
  <2>2. QED BY <2>1 DEF Filled
<1>2. ASSUME NEW j \in Inode, j # i, Filled(j) PROVE Filled(j)'
  <2>1. bytes'[j] = bytes[j] /\ j # 0
    BY <1>2, FewFiles DEF TypeOK
  <2>2. QED BY <1>2, <2>1 DEF Filled
<1>3. QED BY <1>1, <1>2

LEMMA SharedStep ==
  ASSUME TypeOK, Controlled, SharedFits, [Next]_vars
  PROVE  SharedFits'
<1>a. ASSUME NEW p \in Process
      PROVE  proc[p] \in Doing /\ (proc[p].at \notin {"receive", "elf"} => proc[p].fd = 0)
  BY DEF TypeOK, Controlled, Control
<1>n. faults \in Nat
  BY ShapeAssumption DEF TypeOK
<1>b. ASSUME NEW p \in Process, proc[p].at \notin {"receive", "elf"}, UNCHANGED cache,
             \A q \in Process \ {p} : proc'[q] = proc[q], faults' \in {faults, faults + 1}
      PROVE  SharedFits'
  <2>1. \A i \in Inode : proc[p].fd # i
    BY <1>a, <1>b, FewFiles
  <2>2. \A i \in Inode : Filled(i) => Filled(i)'
    BY <1>b, <2>1, FilledKept DEF cache
  <2>3. \A i \in Inode : Named(i)' => Named(i)
    BY <1>b DEF Named, cache
  <2>4. QED BY <1>b, <1>n, <2>2, <2>3, NoMoreTorn
<1>1. ASSUME NEW p \in Process, NEW cmd \in Commands, NEW paths \in Offered, Run(p, cmd, paths)
      PROVE  SharedFits'
  BY <1>1, <1>b DEF Run, AtRest, TypeOK
<1>2. ASSUME NEW p \in Process,
             \/ Check(p) \/ NextArchive(p)
             \/ InstallProgram(p) \/ InstallerDone(p) \/ PatchProgram(p) \/ WriteStamp(p)
             \/ Unzip(p) \/ UnzipDone(p) \/ Mark(p) \/ Compat(p)
      PROVE  SharedFits'
  <2>1. proc[p].at \notin {"receive", "elf"} /\ UNCHANGED cache /\ UNCHANGED faults
    BY <1>2 DEF Check, NextArchive, InstallProgram, InstallerDone, PatchProgram,
       WriteStamp, Unzip, UnzipDone, Mark, Compat
  <2>2. proc \in [Process -> Doing]
    BY DEF TypeOK
  <2>3. \A q \in Process \ {p} : proc'[q] = proc[q]
    <3>1. CASE Check(p) \/ NextArchive(p)
      BY <2>2, <3>1 DEF Check, NextArchive, Goto
    <3>2. CASE InstallProgram(p) \/ InstallerDone(p) \/ PatchProgram(p) \/ WriteStamp(p)
      BY <2>2, <3>2 DEF InstallProgram, InstallerDone, PatchProgram, WriteStamp, BaseDone, Over
    <3>3. CASE Unzip(p) \/ UnzipDone(p) \/ Mark(p) \/ Compat(p)
      BY <2>2, <3>3 DEF Unzip, UnzipDone, Mark, Compat, Goto, Over, GiveUp
    <3>4. QED BY <1>2, <3>1, <3>2, <3>3
  <2>4. QED BY <1>b, <2>1, <2>3
<1>3. ASSUME NEW p \in Process, Create(p) PROVE SharedFits'
  <2>1. PICK i : /\ i = IF part[Head(proc[p].todo)] # 0 THEN part[Head(proc[p].todo)] ELSE FreeInode
                 /\ bytes' = [bytes EXCEPT ![i] = {}]
                 /\ part' = [part EXCEPT ![Head(proc[p].todo)] = i]
                 /\ proc' = [proc EXCEPT ![p].at = "receive", ![p].fd = i, ![p].got = 0]
                 /\ UNCHANGED <<cached, install, faults>>
    BY <1>3 DEF Create
  <2>2. proc[p].at = "request" /\ proc[p].fd = 0
    BY <1>3, <1>a DEF Create
  <2>3. proc'[p].fd = i /\ proc'[p].got = 0 /\ \A q \in Process \ {p} : proc'[q] = proc[q]
    BY <1>a, <2>1 DEF TypeOK, Doing
  <2>4. i \in Inode
    <3>1. Head(proc[p].todo) \in Archive
      BY <1>a, <2>2, HeadAndTail, ArchiveFacts DEF Controlled, Control, Fetching
    <3>2. CASE part[Head(proc[p].todo)] # 0
      BY <2>1, <3>1, <3>2 DEF TypeOK
    <3>3. CASE part[Head(proc[p].todo)] = 0
      BY <2>1, <2>2, <3>3, FreeInodeIsFree
    <3>4. QED BY <3>2, <3>3
  <2>5. Filled(i)' /\ \A j \in Inode : Filled(j) => Filled(j)'
    BY <2>1, <2>2, <2>3, <2>4, Opened
  <2>6. \A j \in Inode : Named(j)' => Named(j) \/ j = i
    BY <2>1 DEF Named, TypeOK
  <2>7. QED BY <1>n, <2>1, <2>5, <2>6, NoMoreTorn
<1>4. ASSUME NEW p \in Process, Receive(p) PROVE SharedFits'
  <2>1. /\ proc[p].at = "receive" /\ proc[p].got < Chunks /\ proc[p].got \in 0 .. Chunks
        /\ bytes' = [bytes EXCEPT ![proc[p].fd] = @ \cup {proc[p].got + 1}]
        /\ proc' = [proc EXCEPT ![p].got = @ + 1]
        /\ UNCHANGED <<part, cached, faults>>
    BY <1>4, <1>a DEF Receive, Doing
  <2>2. /\ proc'[p].got = proc[p].got + 1 /\ proc'[p].fd = proc[p].fd
        /\ \A q \in Process \ {p} : proc'[q] = proc[q]
    BY <1>a, <2>1 DEF TypeOK, Doing
  <2>3. ASSUME NEW j \in Inode, Filled(j) PROVE Filled(j)'
    <3>1. bytes[j] \subseteq bytes'[j] /\ bytes'[j] \subseteq Whole
      BY <1>a, <2>1, TypeStep DEF TypeOK
    <3>2. CASE bytes[j] = Whole
      BY <3>1, <3>2 DEF Filled
    <3>3. CASE bytes[j] # Whole
      <4>1. PICK q \in Process : proc[q].fd = j /\ 1 .. proc[q].got \subseteq bytes[j]
        BY <2>3, <3>3 DEF Filled
      <4>2. CASE q # p
        <5>1. proc'[q].fd = j /\ 1 .. proc'[q].got \subseteq bytes'[j]
          BY <2>2, <3>1, <4>1, <4>2
        <5>2. QED BY <5>1 DEF Filled
      <4>3. CASE q = p
        <5>1. bytes'[j] = bytes[j] \cup {proc[p].got + 1}
          BY <2>1, <4>1, <4>3 DEF TypeOK
        <5>2. proc'[p].fd = j /\ 1 .. proc'[p].got \subseteq bytes'[j]
          <6>1. 1 .. proc[p].got + 1 = (1 .. proc[p].got) \cup {proc[p].got + 1}
            BY <2>1, ShapeAssumption
          <6>2. QED BY <2>2, <4>1, <4>3, <5>1, <6>1
        <5>3. QED BY <5>2 DEF Filled
      <4>4. QED BY <4>2, <4>3
    <3>4. QED BY <3>2, <3>3
  <2>4. \A j \in Inode : Named(j)' => Named(j)
    BY <2>1 DEF Named
  <2>5. QED BY <1>n, <2>1, <2>3, <2>4, NoMoreTorn
<1>5. ASSUME NEW p \in Process, Rename(p) PROVE SharedFits'
  <2>1. proc[p].got = Chunks /\ bytes' = bytes /\ UNCHANGED faults
    BY <1>5 DEF Rename, cache
  <2>2. \A q \in Process \ {p} : proc'[q] = proc[q]
    BY <1>5 DEF Rename, GiveUp, Over, TypeOK
  <2>3. \A a \in Archive : part'[a] \in {0, part[a]} /\ cached'[a] \in {cached[a], part[a]}
    BY <1>5 DEF Rename, TypeOK, cache
  <2>4. \A i \in Inode : Filled(i) => Filled(i)'
    BY <2>1, <2>2, FilledKept
  <2>5. \A i \in Inode : Named(i)' => Named(i)
    BY <2>3, FewFiles DEF Named
  <2>6. QED BY <1>n, <2>1, <2>4, <2>5, NoMoreTorn
<1>6. ASSUME NEW p \in Process, DownloadFails(p) \/ UnzipFails(p) \/ Interrupt(p) PROVE SharedFits'
  <2>1. UNCHANGED cache /\ faults' = faults + 1
    BY <1>6 DEF DownloadFails, UnzipFails, Interrupt
  <2>2. \A q \in Process \ {p} : proc'[q] = proc[q]
    BY <1>6 DEF DownloadFails, UnzipFails, Interrupt, GiveUp, Over, TypeOK
  <2>3. PICK torn : torn = proc[p].fd
    OBVIOUS
  <2>4. \A i \in Inode \ {torn} : Filled(i) => Filled(i)'
    BY <2>1, <2>2, <2>3, FilledKept DEF cache
  <2>5. \A i \in Inode : Named(i)' => Named(i)
    BY <2>1 DEF Named, cache
  <2>6. QED BY <1>n, <2>1, <2>4, <2>5, OneMoreTorn
<1>7. ASSUME NEW p \in Process, NoArchiveLeft(p) \/ InstallerPatched(p) PROVE SharedFits'
  <2>1. /\ UNCHANGED <<part, cached, faults>> /\ \A q \in Process \ {p} : proc'[q] = proc[q]
    BY <1>7, StartEffect
  <2>2. \A i \in Inode : Named(i)' => Named(i)
    BY <2>1 DEF Named
  <2>3. CASE NoArchiveLeft(p) /\ proc'[p].at # "elf"
    <3>1. proc[p].at = "archive" /\ bytes' = bytes
      BY <1>7, <2>3, StartEffect DEF NoArchiveLeft
    <3>2. QED BY <1>b, <2>1, <3>1 DEF cache
  <2>4. CASE proc'[p].at = "elf"
    <3>1. /\ proc[p].at = "archive" /\ Intact(Installer) /\ proc'[p].fd = cached[Installer]
          /\ proc'[p].got = 0 /\ bytes' = [bytes EXCEPT ![cached[Installer]] = {}]
      BY <1>7, <2>4, StartEffect
    <3>2. cached[Installer] \in Inode /\ proc[p].fd = 0
      BY <1>a, <3>1, InstallerIsArchive DEF Intact, TypeOK
    <3>3. \A j \in Inode : Filled(j) => Filled(j)'
      BY <2>1, <3>1, <3>2, Opened
    <3>4. QED BY <1>n, <2>1, <2>2, <3>3, NoMoreTorn
  <2>5. CASE InstallerPatched(p)
    <3>1. bytes' = [bytes EXCEPT ![proc[p].fd] = Whole]
      BY <2>5 DEF InstallerPatched
    <3>2. ASSUME NEW j \in Inode, Filled(j) PROVE Filled(j)'
      <4>1. CASE j = proc[p].fd
        BY <3>1, <3>2, <4>1 DEF Filled, TypeOK
      <4>2. CASE j # proc[p].fd
        BY <2>1, <3>1, <3>2, <4>2 DEF Filled, TypeOK
      <4>3. QED BY <4>1, <4>2
    <3>3. QED BY <1>n, <2>1, <2>2, <3>2, NoMoreTorn
  <2>6. QED BY <1>7, <2>3, <2>4, <2>5
<1>8. CASE UNCHANGED vars
  <2>1. UNCHANGED <<bytes, part, cached, proc, faults>>
    BY <1>8 DEF vars
  <2>2. QED BY <1>n, <2>1, NoMoreTorn DEF Named, Filled
<1>9. ASSUME NEW p \in Process, Proceed(p) PROVE SharedFits'
  BY <1>2, <1>3, <1>4, <1>5, <1>7, <1>9 DEF Proceed
<1>10. QED BY <1>1, <1>6, <1>8, <1>9 DEF Next

LEMMA SharedStarts == Init => SharedFits
<1> SUFFICES ASSUME Init PROVE SharedFits
  OBVIOUS
<1>1. TornFiles = {}
  BY FewFiles DEF Init, TornFiles, Named
<1>2. QED BY <1>1, FS_EmptySet DEF SharedFits, Init

LEMMA SharedSound == TypeOK /\ SharedFits => TornOnePerFault
<1> SUFFICES ASSUME TypeOK, SharedFits PROVE TornOnePerFault
  OBVIOUS
<1> DEFINE torn == {i \in Inode : (\E a \in Archive : cached[a] = i) /\ ~Filled(i)}
<1>1. torn \subseteq TornFiles
  BY DEF TornFiles, Named
<1>2. IsFiniteSet(torn) /\ Cardinality(torn) <= Cardinality(TornFiles)
  BY <1>1, FewFiles, FS_Subset
<1>3. Cardinality(torn) \in Nat /\ faults \in Nat
  BY <1>2, FS_CardinalityType, ShapeAssumption DEF TypeOK
<1>4. QED BY <1>2, <1>3, FewFiles DEF SharedFits, TornOnePerFault

\* Any number of processes that fetch at once into the same .part files, with
\* any that are killed or fail among them, leave whole archives in the download
\* cache and ones that are still being filled by who truncated them, and part
\* of an archive at most once for every time one was cut off (download_file).
THEOREM SharedDownloads == Spec => []TornOnePerFault
<1>1. TypeOK /\ Controlled /\ SharedFits /\ [Next]_vars => SharedFits'
  BY SharedStep
<1>2. QED BY <1>1, SharedStarts, SharedSound, Controls, PTL DEF Spec
-----------------------------------------------------------------------------
\* What a base archive or a pack that cannot be had, and the end of the base
\* install, leave a process at.
LEMMA BaseDoneEffect ==
  ASSUME TypeOK, Controlled, NEW p \in Process, proc[p].at \in {"installer", "patch"},
         BaseDone(p)
  PROVE  /\ proc'[p].at = "ok" \/ (proc'[p].at = "archive" /\ proc'[p].stage = "devices")
         /\ proc'[p].paths = proc[p].paths /\ proc'[p].cmd = proc[p].cmd
<1>1. CASE Over(p, "ok")
  BY <1>1, OverEffect
<1>2. CASE proc' = [proc EXCEPT ![p].at = "archive", ![p].stage = "devices", ![p].todo = Packs]
  BY <1>2 DEF TypeOK, Doing
<1>3. QED BY <1>1, <1>2 DEF BaseDone

\* A command past its base install: its toolchain is there.
Past(r) == r.at \in {"patch", "compat", "ok"} \/ (r.at \in Fetching /\ r.stage = "devices")

\* Where a step of the fetching part leads: on, to the end of the archives, or
\* out.
LEMMA FetchStep ==
  ASSUME TypeOK, Controlled, NEW p \in Process,
         \/ NextArchive(p) \/ Create(p) \/ Receive(p) \/ Rename(p)
         \/ Unzip(p) \/ UnzipDone(p) \/ Mark(p) \/ DownloadFails(p) \/ UnzipFails(p)
  PROVE  /\ proc[p].at \in Fetching /\ UNCHANGED <<files, stamp>>
         /\ proc'[p].paths = proc[p].paths /\ proc'[p].cmd = proc[p].cmd
         /\ \/ proc'[p].at \in Fetching /\ proc'[p].stage = proc[p].stage
            \/ proc'[p].at = "failed" /\ proc'[p].stage = "base"
<1>a. proc[p] \in Doing /\ Control(proc[p])
  BY DEF TypeOK, Controlled
<1> DEFINE On == /\ proc'[p].paths = proc[p].paths /\ proc'[p].cmd = proc[p].cmd
                 /\ \/ proc'[p].at \in Fetching /\ proc'[p].stage = proc[p].stage
                    \/ proc'[p].at = "failed" /\ proc'[p].stage = "base"
<1>1. ASSUME proc[p].at \in Fetching \ {"archive"}, GiveUp(p) PROVE On
  <2>1. CASE proc[p].stage = "base"
    BY <1>1, <2>1, OverEffect DEF GiveUp, Fetching
  <2>2. CASE proc[p].stage # "base"
    BY <1>1, <1>a, <2>2 DEF GiveUp, TypeOK, Doing, Fetching
  <2>3. QED BY <2>1, <2>2
<1>2. ASSUME NEW at \in Fetching, Goto(p, at) PROVE On
  BY <1>a, <1>2 DEF Goto, TypeOK, Doing
<1>3. CASE NextArchive(p)
  <2>1. CASE proc' = [proc EXCEPT ![p].todo = Tail(@)]
    BY <1>3, <1>a, <2>1 DEF NextArchive, TypeOK, Doing, Fetching, install
  <2>2. CASE \E at \in {"unzip", "request"} : Goto(p, at)
    BY <1>2, <1>3, <2>2 DEF NextArchive, Fetching, install
  <2>3. QED BY <1>3, <2>1, <2>2 DEF NextArchive
<1>4. CASE Create(p)
  <2>1. PICK i \in {part[Head(proc[p].todo)], FreeInode} :
           proc' = [proc EXCEPT ![p].at = "receive", ![p].fd = i, ![p].got = 0]
    BY <1>4 DEF Create
  <2>2. QED BY <1>4, <1>a, <2>1 DEF Create, TypeOK, Doing, Fetching, install
<1>4a. CASE Receive(p)
  BY <1>4a, <1>a DEF Receive, TypeOK, Doing, Fetching, install
<1>5. CASE Rename(p)
  <2>1. CASE GiveUp(p)
    BY <1>1, <1>5, <2>1 DEF Rename, Fetching, install
  <2>2. CASE proc' = [proc EXCEPT ![p].at = "archive", ![p].fd = 0, ![p].got = 0]
    BY <1>5, <1>a, <2>2 DEF Rename, TypeOK, Doing, Fetching, install
  <2>3. QED BY <1>5, <2>1, <2>2 DEF Rename
<1>6. CASE Unzip(p)
  BY <1>1, <1>2, <1>6 DEF Unzip, Fetching
<1>7. CASE UnzipDone(p)
  BY <1>2, <1>7 DEF UnzipDone, Fetching
<1>8. CASE Mark(p)
  BY <1>8, <1>a DEF Mark, TypeOK, Doing, Fetching
<1>9. CASE DownloadFails(p) \/ UnzipFails(p)
  BY <1>1, <1>9 DEF DownloadFails, UnzipFails, Fetching, install
<1>10. QED BY <1>3, <1>4, <1>4a, <1>5, <1>6, <1>7, <1>8, <1>9

LEMMA InstallStep ==
  ASSUME OneProcess, "installer" \notin Faults, TypeOK, Controlled, InstallFits, [Next]_vars
  PROVE  InstallFits'
<1>0. ASSUME NEW p \in Process, NEW q \in Process PROVE p = q
  BY DEF OneProcess
<1>a. ASSUME NEW p \in Process
      PROVE  /\ proc[p] \in Doing /\ Control(proc[p]) /\ proc[p].paths # Missing
  BY ShapeAssumption DEF TypeOK, Controlled, Doing, StorePaths
<1>b. ASSUME NEW p \in Process, UNCHANGED files, AllThere \/ NoneThere,
             proc'[p].at # "installer", Past(proc'[p]) => AllThere
      PROVE  InstallFits'
  <2>1. \A q \in Process : q = p
    BY <1>0
  <2>2. AllThere' = AllThere /\ NoneThere' = NoneThere
    BY <1>b DEF AllThere, NoneThere
  <2>3. QED BY <1>b, <2>1, <2>2 DEF InstallFits, Past
<1>c. ASSUME NEW p \in Process, proc[p].at # "installer"
      PROVE  (AllThere \/ NoneThere) /\ (Past(proc[p]) => AllThere)
  BY <1>c DEF InstallFits, Past
<1>d. ASSUME NEW p \in Process, UNCHANGED files, proc'[p].at = "installer", proc'[p].left = Programs
      PROVE  InstallFits'
  BY <1>0, <1>d DEF InstallFits, Fetching
<1>1. ASSUME NEW p \in Process, NEW cmd \in Commands, NEW paths \in Offered, Run(p, cmd, paths)
      PROVE  InstallFits'
  <2>1. /\ proc'[p].at = IF cmd = "local" THEN "installer" ELSE "check"
        /\ proc'[p].left = IF cmd = "local" THEN Programs ELSE {}
        /\ UNCHANGED files
    BY <1>1, <1>a, IdleOK DEF Run, TypeOK, Doing, install
  <2>2. proc[p].at # "installer"
    BY <1>1 DEF Run, AtRest
  <2>3. QED BY <1>b, <1>c, <1>d, <2>1, <2>2 DEF Past, Fetching
<1>2. ASSUME NEW p \in Process, Check(p) PROVE InstallFits'
  <2>1. /\ proc[p].at = "check" /\ proc'[p].at = "archive" /\ UNCHANGED files
        /\ proc'[p].stage = IF Installed THEN "devices" ELSE "base"
    BY <1>2, <1>a DEF Check, TypeOK, Doing, install
  <2>2. Installed => AllThere
    BY <1>c, <2>1, ShapeAssumption DEF Installed, NoneThere
  <2>3. QED BY <1>b, <1>c, <2>1, <2>2 DEF Past
<1>3. ASSUME NEW p \in Process, 
             \/ NextArchive(p) \/ Create(p) \/ Receive(p) \/ Rename(p)
             \/ Unzip(p) \/ UnzipDone(p) \/ Mark(p) \/ DownloadFails(p) \/ UnzipFails(p)
      PROVE  InstallFits'
  <2>1. /\ proc[p].at \in Fetching /\ UNCHANGED files
        /\ \/ proc'[p].at \in Fetching /\ proc'[p].stage = proc[p].stage
           \/ proc'[p].at = "failed" /\ proc'[p].stage = "base"
    BY <1>3, FetchStep
  <2>2. Past(proc'[p]) => Past(proc[p])
    BY <2>1 DEF Past, Fetching
  <2>3. QED BY <1>b, <1>c, <2>1, <2>2 DEF Fetching
<1>4. ASSUME NEW p \in Process, NoArchiveLeft(p) \/ InstallerPatched(p) PROVE InstallFits'
  <2>1. proc[p].at \in {"archive", "elf"} /\ UNCHANGED files
    BY <1>4, StartEffect DEF install
  <2>2. CASE proc'[p].at = "installer" /\ proc'[p].left = Programs
    BY <1>d, <2>1, <2>2
  <2>3. CASE proc'[p].at \in {"failed", "elf"}
    BY <1>b, <1>c, <2>1, <2>3 DEF Past, Fetching
  <2>4. CASE proc'[p].at = "compat" /\ proc[p].at = "archive" /\ proc[p].stage = "devices"
    <3>1. Past(proc[p])
      BY <2>4 DEF Past, Fetching
    <3>2. QED BY <1>b, <1>c, <2>1, <2>4, <3>1
  <2>5. QED BY <1>4, <2>2, <2>3, <2>4, StartEffect
<1>5. ASSUME NEW p \in Process, Interrupt(p) PROVE InstallFits'
  <2>1. proc[p].at \notin {"installer", "idle"} /\ Over(p, "failed") /\ UNCHANGED files
    BY <1>5 DEF Interrupt, AtRest, install
  <2>2. QED BY <1>b, <1>c, <2>1, OverEffect DEF Past, Fetching
<1>6. ASSUME NEW p \in Process, InstallProgram(p) PROVE InstallFits'
  <2>1. PICK f \in proc[p].left :
          /\ files' = [files EXCEPT ![f] = Shipped]
          /\ proc' = [proc EXCEPT ![p].left = @ \ {f}]
    BY <1>6 DEF InstallProgram
  <2>2. /\ proc[p].at = "installer" /\ proc'[p].at = "installer"
        /\ proc'[p].left = proc[p].left \ {f} /\ f \in Programs
    BY <1>6, <1>a, <2>1 DEF InstallProgram, TypeOK, Doing
  <2>3. \A g \in Programs \ proc'[p].left : files'[g] # Missing
    BY <2>1, <2>2, ShapeAssumption DEF InstallFits, TypeOK
  <2>4. QED BY <1>0, <2>2, <2>3 DEF InstallFits, Fetching
<1>7. ASSUME NEW p \in Process, InstallerDone(p) PROVE InstallFits'
  <2>1. proc[p].at = "installer" /\ UNCHANGED files /\ AllThere
    BY <1>7 DEF InstallerDone, install, InstallFits, AllThere
  <2>2. CASE BaseDone(p)
    BY <1>b, <2>1, <2>2, BaseDoneEffect
  <2>3. CASE proc' = [proc EXCEPT ![p].at = "patch", ![p].left = Programs]
    BY <1>a, <1>b, <2>1, <2>3 DEF TypeOK, Doing
  <2>4. QED BY <1>7, <2>2, <2>3 DEF InstallerDone
<1>8. ASSUME NEW p \in Process, PatchProgram(p) PROVE InstallFits'
  <2>1. PICK f \in proc[p].left :
          /\ files' = [files EXCEPT ![f] = IF @ = Missing THEN @ ELSE proc[p].paths]
          /\ proc' = [proc EXCEPT ![p].left = @ \ {f}]
    BY <1>8 DEF PatchProgram
  <2>2. proc[p].at = "patch" /\ proc'[p].at = "patch" /\ f \in Programs
    BY <1>8, <1>a, <2>1 DEF PatchProgram, TypeOK, Doing
  <2>3. AllThere'
    BY <1>a, <1>c, <2>1, <2>2 DEF AllThere, Past, TypeOK
  <2>4. QED BY <1>0, <2>2, <2>3 DEF InstallFits
<1>9. ASSUME NEW p \in Process, WriteStamp(p) PROVE InstallFits'
  <2>1. proc[p].at = "patch" /\ UNCHANGED files /\ AllThere
    BY <1>9, <1>c DEF WriteStamp, Past
  <2>2. CASE BaseDone(p)
    BY <1>b, <2>1, <2>2, BaseDoneEffect
  <2>3. CASE Over(p, "ok")
    BY <1>b, <2>1, <2>3, OverEffect
  <2>4. QED BY <1>9, <2>2, <2>3 DEF WriteStamp
<1>10. ASSUME NEW p \in Process, Compat(p) PROVE InstallFits'
  <2>1. proc[p].at = "compat" /\ UNCHANGED files /\ AllThere
    BY <1>10, <1>c DEF Compat, install, Past
  <2>2. CASE \E verdict \in {"ok", "failed"} : Over(p, verdict)
    BY <1>b, <2>1, <2>2, OverEffect
  <2>3. CASE proc' = [proc EXCEPT ![p].at = "patch", ![p].stage = "final", ![p].left = Programs]
    BY <1>a, <1>b, <2>1, <2>3 DEF TypeOK, Doing
  <2>4. QED BY <1>10, <2>2, <2>3 DEF Compat
<1>11. ASSUME UNCHANGED vars PROVE InstallFits'
  BY <1>11 DEF vars, InstallFits, AllThere, NoneThere
<1>12. ASSUME NEW p \in Process, Proceed(p) PROVE InstallFits'
  BY <1>2, <1>3, <1>4, <1>6, <1>7, <1>8, <1>9, <1>10, <1>12 DEF Proceed
<1>13. QED BY <1>1, <1>3, <1>5, <1>11, <1>12 DEF Next

\* When chipsmith-vendor processes do not run at once and the installer is let
\* finish, a command that got its toolchain finds every program of it
\* (toolchain.rs, ensure_installed), whatever else is killed or fails.
THEOREM EnsuredIsInstalled ==
  ASSUME OneProcess, "installer" \notin Faults
  PROVE  Spec => []InstallIsWhole
<1>1. Init => InstallFits
  BY IdleOK DEF Init, InstallFits, AllThere, NoneThere, Fetching
<1>2. TypeOK /\ Controlled /\ InstallFits /\ [Next]_vars => InstallFits'
  BY InstallStep
<1>3. InstallFits => InstallIsWhole
  BY DEF InstallFits, InstallIsWhole, AllThere
<1>4. QED BY <1>1, <1>2, <1>3, Controls, PTL DEF Spec
-----------------------------------------------------------------------------
\* Of all steps only the installer's, the patch's and the record's touch the
\* programs and the record.
LEMMA StepAt ==
  ASSUME TypeOK, Controlled, [Next]_vars
  PROVE  \/ UNCHANGED <<files, stamp>>
         \/ \E p \in Process : /\ InstallProgram(p) \/ PatchProgram(p) \/ WriteStamp(p)
                               /\ \A q \in Process \ {p} : proc'[q] = proc[q]
<1>1. ASSUME NEW p \in Process, NEW cmd \in Commands, NEW paths \in Offered, Run(p, cmd, paths)
      PROVE  UNCHANGED <<files, stamp>>
  BY <1>1 DEF Run, install
<1>2. ASSUME NEW p \in Process, Check(p) \/ NoArchiveLeft(p) \/ InstallerPatched(p)
                                  \/ InstallerDone(p) \/ Compat(p) \/ Interrupt(p)
      PROVE  UNCHANGED <<files, stamp>>
  BY <1>2 DEF Check, NoArchiveLeft, InstallerPatched, InstallerDone, Compat, Interrupt, install
<1>3. ASSUME NEW p \in Process, 
             \/ NextArchive(p) \/ Create(p) \/ Receive(p) \/ Rename(p)
             \/ Unzip(p) \/ UnzipDone(p) \/ Mark(p) \/ DownloadFails(p) \/ UnzipFails(p)
      PROVE  UNCHANGED <<files, stamp>>
  BY <1>3, FetchStep
<1>4. ASSUME NEW p \in Process, InstallProgram(p) \/ PatchProgram(p)
      PROVE  \A q \in Process \ {p} : proc'[q] = proc[q]
  BY <1>4 DEF InstallProgram, PatchProgram, TypeOK
<1>5. ASSUME NEW p \in Process, WriteStamp(p)
      PROVE  \A q \in Process \ {p} : proc'[q] = proc[q]
  BY <1>5 DEF WriteStamp, BaseDone, Over, TypeOK
<1>6. CASE UNCHANGED vars
  BY <1>6 DEF vars
<1>7. ASSUME NEW p \in Process, Proceed(p)
      PROVE  UNCHANGED <<files, stamp>> \/ InstallProgram(p) \/ PatchProgram(p) \/ WriteStamp(p)
  BY <1>2, <1>3, <1>7 DEF Proceed
<1>8. QED BY <1>1, <1>2, <1>3, <1>4, <1>5, <1>6, <1>7 DEF Next

LEMMA UseStep ==
  ASSUME TypeOK, Controlled, [Next]_vars, NEW p \in Process,
         proc[p].cmd = "use", proc[p].found, proc'[p] # proc[p]
  PROVE  UNCHANGED <<files, stamp>>
<1>1. proc[p].at \notin {"installer", "patch"}
  BY DEF Controlled, Control
<1>2. ~InstallProgram(p) /\ ~PatchProgram(p) /\ ~WriteStamp(p)
  BY <1>1 DEF InstallProgram, PatchProgram, WriteStamp
<1>3. QED BY <1>2, StepAt

\* Where a process stands after each of the steps between archives, installer,
\* patch and verdict.
LEMMA TurnStep ==
  ASSUME TypeOK, Controlled, NEW p \in Process,
         \/ Check(p) \/ NoArchiveLeft(p) \/ InstallerPatched(p)
         \/ InstallerDone(p) \/ Compat(p) \/ Interrupt(p)
  PROVE  /\ UNCHANGED <<files, stamp>>
         /\ proc'[p].paths = proc[p].paths /\ proc'[p].cmd = proc[p].cmd
         /\ proc[p].at = "check" => /\ proc'[p].at \in {"archive", "failed"}
                                    /\ \/ proc'[p].stage = "devices" /\ Installed
                                       \/ proc'[p].stage = "base" /\ ~Installed
                                       \/ proc'[p].stage = "base" /\ proc'[p].at = "failed"
         /\ proc[p].at \in {"archive", "elf"} =>
              \/ proc'[p].at = "failed" /\ proc'[p].stage = "base"
              \/ /\ proc'[p].at = "installer" /\ proc'[p].left = Programs
                 /\ proc[p].stage = "base" /\ proc'[p].stage = "base"
              \/ proc'[p].at = "elf" /\ proc[p].stage = "base" /\ proc'[p].stage = "base"
              \/ /\ proc'[p].at = "compat" /\ proc[p].at = "archive"
                 /\ proc[p].stage = "devices" /\ proc'[p].stage = "devices"
         /\ proc[p].at = "installer" =>
              \/ proc'[p].at = "failed" /\ proc'[p].stage = "base"
              \/ /\ proc'[p].at = "patch" /\ proc'[p].left = Programs /\ proc[p].left = {}
                 /\ proc'[p].stage = proc[p].stage
              \/ proc[p].paths = NotNeeded
         /\ proc[p].at = "compat" =>
              \/ proc'[p].at = "failed" /\ proc'[p].stage = "base"
              \/ /\ proc'[p].at = "patch" /\ proc'[p].left = Programs /\ proc[p].paths # stamp
                 /\ proc'[p].stage = "final"
              \/ /\ proc'[p].at = "ok" /\ proc'[p].stage = "base"
                 /\ proc[p].paths \in {NotNeeded, stamp}
         /\ proc[p].at \notin {"check", "archive", "elf", "installer", "compat"} =>
              proc'[p].at = "failed" /\ proc'[p].stage = "base" /\ Interrupt(p)
<1>a. proc[p] \in Doing /\ Control(proc[p])
  BY DEF TypeOK, Controlled
<1>1. CASE Check(p)
  BY <1>1, <1>a DEF Check, TypeOK, Doing, install
<1>2. CASE NoArchiveLeft(p) \/ InstallerPatched(p)
  <2>1. proc[p].at \in {"archive", "elf"}
    BY <1>2 DEF NoArchiveLeft, InstallerPatched
  <2>2. QED BY <1>2, <2>1, StartEffect DEF install
<1>3. CASE InstallerDone(p)
  <2>1. CASE proc[p].paths = NotNeeded /\ BaseDone(p)
    BY <1>3, <2>1, BaseDoneEffect DEF InstallerDone, install
  <2>2. CASE proc' = [proc EXCEPT ![p].at = "patch", ![p].left = Programs]
    BY <1>3, <1>a, <2>2 DEF InstallerDone, TypeOK, Doing, install
  <2>3. QED BY <1>3, <2>1, <2>2 DEF InstallerDone
<1>4. CASE Compat(p)
  <2>1. CASE proc[p].paths \in {NotNeeded, stamp} /\ Over(p, "ok")
    BY <1>4, <2>1, OverEffect DEF Compat, install
  <2>2. CASE Over(p, "failed")
    BY <1>4, <2>2, OverEffect DEF Compat, install
  <2>3. CASE /\ proc[p].paths # stamp
             /\ proc' = [proc EXCEPT ![p].at = "patch", ![p].stage = "final", ![p].left = Programs]
    BY <1>4, <1>a, <2>3 DEF Compat, TypeOK, Doing, install
  <2>4. QED BY <1>4, <2>1, <2>2, <2>3 DEF Compat
<1>5. CASE Interrupt(p)
  BY <1>5, OverEffect DEF Interrupt, AtRest, install
<1>6. QED BY <1>1, <1>2, <1>3, <1>4, <1>5

\* A program is written, or the record is.
LEMMA WriteStep ==
  ASSUME TypeOK, Controlled, NEW p \in Process
  PROVE  /\ InstallProgram(p) => 
              /\ proc[p].at = "installer" /\ UNCHANGED stamp
              /\ \E f \in proc[p].left : /\ f \in Programs /\ proc'[p].left = proc[p].left \ {f}
                                         /\ files' = [files EXCEPT ![f] = Shipped]
         /\ PatchProgram(p) => 
              /\ proc[p].at = "patch" /\ UNCHANGED stamp
              /\ \E f \in proc[p].left : 
                   /\ f \in Programs /\ proc'[p].left = proc[p].left \ {f}
                   /\ files' = [files EXCEPT ![f] = IF @ = Missing THEN @ ELSE proc[p].paths]
         /\ InstallProgram(p) \/ PatchProgram(p) =>
              /\ proc'[p].at = proc[p].at /\ proc'[p].paths = proc[p].paths
              /\ proc'[p].cmd = proc[p].cmd /\ proc'[p].stage = proc[p].stage
         /\ WriteStamp(p) =>
              /\ proc[p].at = "patch" /\ proc[p].left = {}
              /\ UNCHANGED files /\ stamp' = proc[p].paths
              /\ proc'[p].paths = proc[p].paths /\ proc'[p].cmd = proc[p].cmd
              /\ \/ proc'[p].at = "ok" /\ proc'[p].stage = "base"
                 \/ proc'[p].at = "archive" /\ proc'[p].stage = "devices"
<1>a. proc[p] \in Doing /\ Control(proc[p])
  BY DEF TypeOK, Controlled
<1>1. CASE InstallProgram(p) \/ PatchProgram(p)
  <2>1. PICK f \in proc[p].left :
          /\ InstallProgram(p) => files' = [files EXCEPT ![f] = Shipped]
          /\ PatchProgram(p) => files' = [files EXCEPT ![f] = IF @ = Missing THEN @ ELSE proc[p].paths]
          /\ proc' = [proc EXCEPT ![p].left = @ \ {f}]
    BY <1>1 DEF InstallProgram, PatchProgram
  <2>2. /\ proc'[p].left = proc[p].left \ {f} /\ f \in Programs
        /\ proc'[p].at = proc[p].at /\ proc'[p].paths = proc[p].paths
        /\ proc'[p].cmd = proc[p].cmd /\ proc'[p].stage = proc[p].stage
    BY <1>a, <2>1 DEF TypeOK, Doing
  <2>3. QED BY <1>1, <2>1, <2>2 DEF InstallProgram, PatchProgram, WriteStamp
<1>2. CASE WriteStamp(p)
  <2>1. CASE Over(p, "ok")
    BY <1>2, <2>1, OverEffect DEF WriteStamp, InstallProgram, PatchProgram
  <2>2. CASE proc[p].stage # "local" /\ BaseDone(p)
    <3>1. proc' = [proc EXCEPT ![p].at = "archive", ![p].stage = "devices", ![p].todo = Packs]
      BY <2>2 DEF BaseDone
    <3>2. QED BY <1>2, <1>a, <3>1 DEF WriteStamp, InstallProgram, PatchProgram, TypeOK, Doing
  <2>3. QED BY <1>2, <2>1, <2>2 DEF WriteStamp, BaseDone
<1>3. QED BY <1>1, <1>2
LEMMA RunStep ==
  ASSUME TypeOK, Controlled, NEW p \in Process, NEW cmd \in Commands, NEW paths \in Offered,
         Run(p, cmd, paths)
  PROVE  /\ UNCHANGED <<files, stamp>>
         /\ proc'[p].at = IF cmd = "local" THEN "installer" ELSE "check"
         /\ proc'[p].left = IF cmd = "local" THEN Programs ELSE {}
         /\ proc'[p].stage = IF cmd = "local" THEN "local" ELSE "base"
         /\ proc'[p].cmd = cmd /\ proc'[p].paths = paths
         /\ proc[p].at \in AtRest
BY IdleOK DEF Run, TypeOK, Doing, install

\* The three shapes a step of one process has, for the invariants about programs
\* and their record.
Fetched(p) ==
  \/ NextArchive(p) \/ Create(p) \/ Receive(p) \/ Rename(p)
  \/ Unzip(p) \/ UnzipDone(p) \/ Mark(p) \/ DownloadFails(p) \/ UnzipFails(p)
Turned(p) == \/ Check(p) \/ NoArchiveLeft(p) \/ InstallerPatched(p)
             \/ InstallerDone(p) \/ Compat(p) \/ Interrupt(p)
Wrote(p) == InstallProgram(p) \/ PatchProgram(p) \/ WriteStamp(p)

LEMMA Shapes ==
  ASSUME [Next]_vars
  PROVE  \/ \E p \in Process : Fetched(p) \/ Turned(p) \/ Wrote(p)
         \/ \E p \in Process, cmd \in Commands, paths \in Offered : Run(p, cmd, paths)
         \/ UNCHANGED vars
<1>1. ASSUME NEW p \in Process, Proceed(p) PROVE Fetched(p) \/ Turned(p) \/ Wrote(p)
  BY <1>1 DEF Proceed, Fetched, Turned, Wrote
<1>2. ASSUME NEW p \in Process, DownloadFails(p) \/ UnzipFails(p) \/ Interrupt(p)
      PROVE  Fetched(p) \/ Turned(p)
  BY <1>2 DEF Fetched, Turned
<1>3. QED BY <1>1, <1>2 DEF Next

LEMMA RecordStep ==
  ASSUME OneProcess, OneChipsmith, TypeOK, Controlled, RecordFits, [Next]_vars
  PROVE  RecordFits'
<1>0. ASSUME NEW p \in Process, NEW q \in Process PROVE p = q
  BY DEF OneProcess
<1>x. PICK x : Offered = {x} /\ x # NotNeeded
  BY DEF OneChipsmith
<1>a. ASSUME NEW p \in Process
      PROVE  /\ proc[p].at # "idle" => proc[p].paths = x
             /\ Control(proc[p])
  BY <1>x DEF Controlled, Control
<1>1. ASSUME NEW p \in Process, Fetched(p) PROVE RecordFits'
  <2>1. /\ proc[p].at \in Fetching /\ UNCHANGED <<files, stamp>>
        /\ proc'[p].paths = proc[p].paths /\ proc'[p].cmd = proc[p].cmd
        /\ \/ proc'[p].at \in Fetching /\ proc'[p].stage = proc[p].stage
           \/ proc'[p].at = "failed" /\ proc'[p].stage = "base"
    BY <1>1, FetchStep DEF Fetched
  <2>2. \A q \in Process : q = p
    BY <1>0
  <2>3. QED BY <2>1, <2>2 DEF RecordFits, Fetching, Installed
<1>2. ASSUME NEW p \in Process, Turned(p) PROVE RecordFits'
  <2>1. UNCHANGED <<files, stamp>> /\ proc'[p].paths = proc[p].paths /\ proc'[p].cmd = proc[p].cmd
    BY <1>2, TurnStep DEF Turned
  <2>2. \A q \in Process : q = p
    BY <1>0
  <2>3. ASSUME /\ \/ proc'[p].at \in {"elf", "installer", "patch"}
                  \/ proc'[p].at \in Fetching /\ proc'[p].stage = "base"
                  => stamp # proc[p].paths
               /\ \/ proc'[p].at \in {"patch", "compat"}
                  \/ proc'[p].at \in Fetching /\ proc'[p].stage = "devices"
                  => Installed
               /\ proc'[p].at = "installer" => QuartusSh \in proc'[p].left
               /\ proc'[p].stage # "local"
        PROVE  RecordFits'
    BY <2>1, <2>2, <2>3 DEF RecordFits, Installed
  <2>4. CASE proc[p].at = "check"
    <3>1. ~Installed => stamp # proc[p].paths
      BY <1>a, <1>x, <2>4 DEF RecordFits
    <3>2. QED BY <1>2, <2>3, <2>4, <3>1, TurnStep DEF Turned, Fetching
  <2>5. CASE proc[p].at \in {"archive", "elf"}
    BY <1>2, <2>3, <2>5, TurnStep, ShapeAssumption DEF Turned, Fetching, RecordFits
  <2>6. CASE proc[p].at = "installer"
    <3>1. proc[p].paths # NotNeeded /\ stamp # proc[p].paths
      BY <1>a, <1>x, <2>6 DEF RecordFits
    <3>2. proc[p].left = {} => Installed
      BY <2>6 DEF RecordFits
    <3>3. proc[p].stage # "local"
      BY DEF RecordFits
    <3>4. QED BY <1>2, <2>3, <2>6, <3>1, <3>2, <3>3, TurnStep DEF Turned, Fetching
  <2>7. CASE proc[p].at = "compat"
    <3>1. Installed
      BY <2>7 DEF RecordFits
    <3>2. QED BY <1>2, <2>3, <2>7, <3>1, TurnStep DEF Turned, Fetching
  <2>8. CASE proc[p].at \notin {"check", "archive", "elf", "installer", "compat"}
    <3>1. proc'[p].at = "failed" /\ proc'[p].stage = "base"
      BY <1>2, <2>8, TurnStep DEF Turned
    <3>2. QED BY <2>3, <3>1 DEF Fetching
  <2>9. QED BY <2>4, <2>5, <2>6, <2>7, <2>8
<1>3. ASSUME NEW p \in Process, Wrote(p) PROVE RecordFits'
  <2>2. \A q \in Process : q = p
    BY <1>0
  <2>3. CASE InstallProgram(p)
    <3>1. PICK f \in proc[p].left : /\ f \in Programs /\ proc'[p].left = proc[p].left \ {f}
                                    /\ files' = [files EXCEPT ![f] = Shipped]
      BY <2>3, WriteStep
    <3>2. /\ proc[p].at = "installer" /\ UNCHANGED stamp
          /\ proc'[p].at = proc[p].at /\ proc'[p].paths = proc[p].paths
          /\ proc'[p].cmd = proc[p].cmd /\ proc'[p].stage = proc[p].stage
      BY <2>3, WriteStep
    <3>3. Installed' \/ QuartusSh \in proc'[p].left
      BY <3>1, <3>2, ShapeAssumption DEF RecordFits, Installed, TypeOK
    <3>4. Installed => Installed'
      BY <3>1, ShapeAssumption DEF Installed, TypeOK
    <3>5. QED BY <2>2, <3>2, <3>3, <3>4 DEF RecordFits, Fetching
  <2>4. CASE PatchProgram(p)
    <3>1. PICK f \in proc[p].left :
            /\ f \in Programs
            /\ files' = [files EXCEPT ![f] = IF @ = Missing THEN @ ELSE proc[p].paths]
      BY <2>4, WriteStep
    <3>2. /\ proc[p].at = "patch" /\ UNCHANGED stamp
          /\ proc'[p].at = proc[p].at /\ proc'[p].paths = proc[p].paths
          /\ proc'[p].cmd = proc[p].cmd /\ proc'[p].stage = proc[p].stage
      BY <2>4, WriteStep
    <3>3. x # Missing /\ proc[p].paths = x
      BY <1>a, <1>x, <3>2, ShapeAssumption
    <3>4. Installed => Installed'
      BY <3>1, <3>3, ShapeAssumption DEF Installed, TypeOK
    <3>5. QED BY <2>2, <3>2, <3>4 DEF RecordFits, Fetching
  <2>5. CASE WriteStamp(p)
    <3>1. /\ proc[p].at = "patch" /\ UNCHANGED files
          /\ proc'[p].cmd = proc[p].cmd
          /\ \/ proc'[p].at = "ok" /\ proc'[p].stage = "base"
             \/ proc'[p].at = "archive" /\ proc'[p].stage = "devices"
      BY <2>5, WriteStep
    <3>2. Installed
      BY <3>1 DEF RecordFits
    <3>3. QED BY <2>2, <3>1, <3>2 DEF RecordFits, Installed, Fetching
  <2>6. QED BY <1>3, <2>3, <2>4, <2>5 DEF Wrote
<1>4. ASSUME NEW p \in Process, NEW cmd \in Commands, NEW paths \in Offered, Run(p, cmd, paths)
      PROVE  RecordFits'
  <2>1. cmd # "local"
    BY DEF OneChipsmith
  <2>2. \A q \in Process : q = p
    BY <1>0
  <2>3. QED BY <1>4, <2>1, <2>2, RunStep DEF RecordFits, Installed, Fetching
<1>5. ASSUME UNCHANGED vars PROVE RecordFits'
  BY <1>5 DEF vars, RecordFits, Installed
<1>6. QED BY <1>1, <1>2, <1>3, <1>4, <1>5, Shapes

LEMMA PatchStep ==
  ASSUME OneProcess, NotNeeded \notin Offered,
         \/ Faults \cap {"kill", "installer"} = {}
         \/ RecordFits /\ OneChipsmith,
         TypeOK, Controlled, PatchFits, [Next]_vars
  PROVE  PatchFits'
<1>0. ASSUME NEW p \in Process, NEW q \in Process PROVE p = q
  BY DEF OneProcess
<1>a. ASSUME NEW p \in Process, proc[p].at # "idle"
      PROVE  proc[p].paths \in Offered /\ proc[p].paths # NotNeeded
  BY <1>a DEF Controlled, Control
<1> DEFINE Told == \A y \in Offered : stamp = y => \A f \in Programs : files[f] \in {Missing, y}
<1>b. ASSUME NEW p \in Process, UNCHANGED <<files, stamp>>, proc'[p].at \notin {"installer", "patch"},
             Told, proc'[p].at = "ok" => stamp = proc'[p].paths
      PROVE  PatchFits'
  <2>1. \A q \in Process : q = p
    BY <1>0
  <2>2. QED BY <1>b, <2>1 DEF PatchFits
<1>c. ASSUME NEW p \in Process, UNCHANGED <<files, stamp>>,
             \/ proc'[p].at = "installer"
             \/ proc'[p].at = "patch" /\ proc'[p].left = Programs
      PROVE  PatchFits'
  <2>1. \A q \in Process : q = p
    BY <1>0
  <2>2. QED BY <1>c, <2>1 DEF PatchFits
<1>d. ASSUME NEW p \in Process, proc[p].at \notin {"installer", "patch"} PROVE Told
  BY <1>d DEF PatchFits
<1>e. ASSUME NEW p \in Process, Interrupt(p) PROVE Told
  <2>1. CASE proc[p].at \notin {"installer", "patch"}
    BY <1>d, <2>1
  <2>2. CASE proc[p].at \in {"installer", "patch"} /\ RecordFits /\ OneChipsmith
    <3>1. stamp # proc[p].paths /\ proc[p].paths \in Offered
      BY <1>a, <2>2 DEF RecordFits
    <3>2. stamp \notin Offered
      BY <2>2, <3>1 DEF OneChipsmith
    <3>3. QED BY <3>2
  <2>3. CASE Faults \cap {"kill", "installer"} = {}
    BY <1>e, <2>3 DEF Interrupt
  <2>4. QED BY <2>1, <2>2, <2>3
<1>1. ASSUME NEW p \in Process, Fetched(p) PROVE PatchFits'
  <2>1. /\ proc[p].at \in Fetching /\ UNCHANGED <<files, stamp>>
        /\ proc'[p].at \in Fetching \cup {"failed"}
    BY <1>1, FetchStep DEF Fetched
  <2>2. QED BY <1>b, <1>d, <2>1 DEF Fetching
<1>2. ASSUME NEW p \in Process, Turned(p) PROVE PatchFits'
  <2>1. UNCHANGED <<files, stamp>> /\ proc'[p].paths = proc[p].paths
    BY <1>2, TurnStep DEF Turned
  <2>2. CASE Interrupt(p)
    <3>1. proc'[p].at = "failed"
      BY <2>2, OverEffect DEF Interrupt, AtRest
    <3>2. QED BY <1>b, <1>e, <2>1, <2>2, <3>1
  <2>3. CASE proc[p].at = "check"
    BY <1>2, <1>b, <1>d, <2>1, <2>3, TurnStep DEF Turned
  <2>4. CASE proc[p].at \in {"archive", "elf"}
    BY <1>2, <1>b, <1>c, <1>d, <2>1, <2>4, TurnStep DEF Turned
  <2>5. CASE proc[p].at = "installer" /\ ~Interrupt(p)
    <3>1. proc[p].paths # NotNeeded /\ InstallerDone(p)
      BY <1>2, <1>a, <2>5 DEF Turned, Check, NoArchiveLeft, InstallerPatched, Compat
    <3>2. proc' = [proc EXCEPT ![p].at = "patch", ![p].left = Programs]
      BY <3>1 DEF InstallerDone
    <3>3. proc'[p].at = "patch" /\ proc'[p].left = Programs
      BY <3>2 DEF TypeOK, Doing
    <3>4. QED BY <1>c, <2>1, <3>3
  <2>6. CASE proc[p].at = "compat"
    <3>1. proc[p].paths # NotNeeded
      BY <1>a, <2>6
    <3>2. QED BY <1>2, <1>b, <1>c, <1>d, <2>1, <2>6, <3>1, TurnStep DEF Turned
  <2>7. CASE proc[p].at \notin {"check", "archive", "elf", "installer", "compat"}
    BY <1>2, <2>2, <2>7, TurnStep DEF Turned
  <2>8. QED BY <2>2, <2>3, <2>4, <2>5, <2>6, <2>7
<1>3. ASSUME NEW p \in Process, Wrote(p) PROVE PatchFits'
  <2>2. \A q \in Process : q = p
    BY <1>0
  <2>3. CASE InstallProgram(p)
    BY <2>2, <2>3, WriteStep DEF PatchFits
  <2>4. CASE PatchProgram(p)
    <3>1. PICK f \in proc[p].left :
            /\ f \in Programs /\ proc'[p].left = proc[p].left \ {f}
            /\ files' = [files EXCEPT ![f] = IF @ = Missing THEN @ ELSE proc[p].paths]
      BY <2>4, WriteStep
    <3>2. proc[p].at = "patch" /\ proc'[p].at = "patch" /\ proc'[p].paths = proc[p].paths
      BY <2>4, WriteStep
    <3>3. \A g \in Programs \ proc'[p].left : files'[g] \in {Missing, proc[p].paths}
      BY <3>1, <3>2 DEF PatchFits, TypeOK
    <3>4. QED BY <2>2, <3>2, <3>3 DEF PatchFits
  <2>5. CASE WriteStamp(p)
    <3>1. /\ proc[p].at = "patch" /\ proc[p].left = {} /\ UNCHANGED files
          /\ stamp' = proc[p].paths /\ proc'[p].paths = proc[p].paths
          /\ proc'[p].at \in {"ok", "archive"}
      BY <2>5, WriteStep
    <3>2. \A f \in Programs : files[f] \in {Missing, proc[p].paths}
      BY <3>1 DEF PatchFits
    <3>3. QED BY <2>2, <3>1, <3>2 DEF PatchFits
  <2>6. QED BY <1>3, <2>3, <2>4, <2>5 DEF Wrote
<1>4. ASSUME NEW p \in Process, NEW cmd \in Commands, NEW paths \in Offered, Run(p, cmd, paths)
      PROVE  PatchFits'
  <2>1. Told
    BY <1>4, <1>d, RunStep DEF AtRest
  <2>2. CASE cmd = "local"
    BY <1>4, <1>c, <2>2, RunStep
  <2>3. CASE cmd # "local"
    BY <1>4, <1>b, <2>1, <2>3, RunStep
  <2>4. QED BY <2>2, <2>3
<1>5. ASSUME UNCHANGED vars PROVE PatchFits'
  BY <1>5 DEF vars, PatchFits
<1>6. QED BY <1>1, <1>2, <1>3, <1>4, <1>5, Shapes

\* Off NixOS nothing is ever patched.
LEMMA ShippedStep ==
  ASSUME OffNixOS, TypeOK, Controlled, ShippedOnly, [Next]_vars
  PROVE  ShippedOnly'
<1>1. CASE UNCHANGED <<files, stamp>>
  BY <1>1 DEF ShippedOnly
<1>2. ASSUME NEW p \in Process, InstallProgram(p) PROVE ShippedOnly'
  BY <1>2, WriteStep DEF ShippedOnly, TypeOK
<1>3. ASSUME NEW p \in Process, PatchProgram(p) \/ WriteStamp(p) PROVE FALSE
  <2>1. proc[p].at = "patch"
    BY <1>3 DEF PatchProgram, WriteStamp
  <2>2. QED BY <2>1 DEF OffNixOS, Controlled, Control
<1>4. QED BY <1>1, <1>2, <1>3, StepAt

\* In each of these situations a command that got its toolchain has every
\* program of it pointing where its own chipsmith says; and never, however many
\* processes there are, does anything but an `install` or an installer rewrite
\* the programs or their record (nixos.rs, install.rs).
THEOREM Patched ==
  ASSUME \/ OneProcess /\ (Uninterrupted \/ OneChipsmith)
         \/ OffNixOS
  PROVE  Spec => PatchesAreMine
<1> DEFINE Told == OneProcess /\ (Uninterrupted \/ OneChipsmith)
           Fits == /\ Told => PatchFits
                   /\ OneProcess /\ OneChipsmith => RecordFits
                   /\ OffNixOS => ShippedOnly
<1>1. Init => Fits
  <2> SUFFICES ASSUME Init PROVE Fits
    OBVIOUS
  <2>1. PICK e \in Earlier :
          /\ files = [f \in Programs |-> e]
          /\ stamp \in IF e \in StorePaths THEN {Missing, e} ELSE {Missing}
    BY DEF Init
  <2>2. /\ \A p \in Process : proc[p].at = "idle" /\ proc[p].stage = "base" /\ proc[p].cmd = "install"
    BY IdleOK DEF Init, Idle
  <2>3. \A y \in Offered : stamp = y => \A f \in Programs : files[f] \in {Missing, y}
    BY <2>1, ShapeAssumption
  <2>4. PatchFits
    BY <2>2, <2>3 DEF PatchFits
  <2>5. OneChipsmith => RecordFits
    BY <2>1, <2>2, ShapeAssumption DEF RecordFits, OneChipsmith, Fetching
  <2>6. OffNixOS => ShippedOnly
    BY <2>1 DEF OffNixOS, ShippedOnly
  <2>7. QED BY <2>4, <2>5, <2>6
<1>2. TypeOK /\ Controlled /\ Fits /\ [Next]_vars => Fits'
  <2>1. Told => NotNeeded \notin Offered
    BY DEF Uninterrupted, OneChipsmith
  <2>2. Uninterrupted => Faults \cap {"kill", "installer"} = {}
    BY DEF Uninterrupted
  <2>3. QED BY <2>1, <2>2, PatchStep, RecordStep, ShippedStep
<1>3. TypeOK /\ Controlled /\ Fits => PatchedForMe
  <2> SUFFICES ASSUME Controlled, Fits, NEW p \in Process, proc[p].at = "ok", NEW f \in Programs
               PROVE  files[f] \in {Missing, IF proc[p].paths = NotNeeded THEN Shipped ELSE proc[p].paths}
    BY DEF PatchedForMe
  <2>1. proc[p].paths \in Offered
    BY DEF Controlled, Control
  <2>2. CASE Told
    <3>1. proc[p].paths # NotNeeded
      BY <2>1, <2>2 DEF Uninterrupted, OneChipsmith
    <3>2. QED BY <2>1, <2>2, <3>1 DEF PatchFits
  <2>3. CASE OffNixOS
    BY <2>1, <2>3 DEF OffNixOS, ShippedOnly
  <2>4. QED BY <2>2, <2>3
<1>4. TypeOK /\ Controlled /\ [Next]_vars =>
        [\A p \in Process : proc[p].cmd = "use" /\ proc[p].found /\ proc'[p] # proc[p]
           => UNCHANGED <<files, stamp>>]_vars
  BY UseStep
<1> HIDE DEF Fits
<1>5. Spec => [](Fits /\ TypeOK /\ Controlled)
  BY <1>1, <1>2, Controls, PTL DEF Spec
<1>6. Spec => []PatchedForMe
  BY <1>3, <1>5, PTL
<1>7. Spec => UsePatchesNothing
  BY <1>4, Controls, PTL DEF Spec, UsePatchesNothing
<1>8. QED BY <1>6, <1>7 DEF PatchesAreMine
=============================================================================
