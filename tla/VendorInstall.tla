---------------------------- MODULE VendorInstall ----------------------------
(***************************************************************************)
(* Acquiring a Quartus version (crates/vendor-quartus-common: install.rs,  *)
(* download.rs, runner.rs, nixos.rs).                                      *)
(*                                                                         *)
(* chipsmith-vendor processes share a download cache and an install        *)
(* directory.  One that finds the version missing downloads the installer  *)
(* and the archives it reads, runs the installer and, on NixOS, points     *)
(* every program at the store paths this chipsmith carries, recording them *)
(* in a stamp.  Where NixOS has no sandbox for it the installer itself is  *)
(* patched first, in the cache, under the name it is used by.  Then it     *)
(* unpacks the device packs that have no marker, and either patches an     *)
(* install whose stamp names other paths (`install`) or refuses it (every  *)
(* other command).                                                         *)
(*                                                                         *)
(* A file being downloaded is an inode: `File::create` truncates the .part *)
(* file that is there, a rename leaves open descriptors writing to it.     *)
(***************************************************************************)
EXTENDS Naturals, Sequences, SequencesExt

CONSTANTS
  Process,     \* chipsmith-vendor processes
  Base,        \* the archives an install reads, the installer the last
  Packs,       \* the device support archives, in order
  Chunks,      \* an archive arrives in this many pieces
  Programs,    \* the programs of the directories patch_install visits
  QuartusSh,   \* the one whose presence means "installed"
  Offered,     \* the store paths a chipsmith may carry, NotNeeded off NixOS
  Unsandboxed, \* those with no bubblewrap for this product's installer
  Earlier,     \* what an earlier chipsmith may have left the programs at
  Commands,    \* what users run
  Faults,      \* which of FaultKind happen
  MaxFaults    \* bound: faults in a behaviour

CONSTANTS Missing, Shipped, NotNeeded

VARIABLES
  bytes,    \* inode -> the pieces of the archive it holds
  part,     \* archive -> the inode of its .part file, or 0
  cached,   \* archive -> the inode under its own name, or 0
  files,    \* program -> Missing, Shipped, or the paths it is patched for
  stamp,    \* what .chipsmith-nix-patch says, or Missing
  unpacked, \* pack -> how much of it is in the install directory
  marked,   \* the packs with a marker file
  proc,     \* what every process is doing
  faults    \* how many faults there were

vars == <<bytes, part, cached, files, stamp, unpacked, marked, proc, faults>>
cache == <<bytes, part, cached>>
install == <<files, stamp, unpacked, marked>>

(***************************************************************************)
(* "kill"       a process dies anywhere but while the installer runs       *)
(* "installer"  the installer is interrupted or fails                      *)
(* "io"         a request, a transfer or an unzip fails                    *)
(***************************************************************************)
FaultKind == {"kill", "installer", "io"}

Archive == ToSet(Base) \cup ToSet(Packs)
Whole == 1 .. Chunks
Installer == Last(Base)

\* Archives come in the order they are listed; what an install may be found at
\* is nothing, a fresh install or one patched for a chipsmith.
ASSUME ShapeAssumption ==
  /\ IsFiniteSet(Process)
  /\ QuartusSh \in Programs
  /\ Chunks \in Nat \ {0}
  /\ Base \in Seq(ToSet(Base)) /\ Base # <<>> /\ Packs \in Seq(ToSet(Packs))
  /\ ToSet(Base) \cap ToSet(Packs) = {}
  /\ Faults \subseteq FaultKind /\ MaxFaults \in Nat
  /\ Commands \subseteq {"install", "use", "local"}
  /\ Missing # Shipped /\ NotNeeded \notin {Missing, Shipped}
  /\ Offered \cap {Missing, Shipped} = {} /\ NotNeeded \notin Earlier
  /\ NotNeeded \notin Unsandboxed

StorePaths == (Offered \cup Earlier) \ {Missing, Shipped, NotNeeded}

\* Descriptors, .part files and cached files are all that refer to an inode.
Inode == 1 .. 2 * (Len(Base) + Len(Packs)) + Cardinality(Process)

At == {"idle", "check", "archive", "request", "receive", "unzip", "unzipping",
       "mark", "elf", "installer", "patch", "stamp", "compat", "ok", "failed"}
AtRest == {"idle", "ok", "failed"}

Idle == [at |-> "idle", cmd |-> "install", paths |-> NotNeeded, found |-> FALSE,
         stage |-> "base", todo |-> <<>>, left |-> {}, fd |-> 0, got |-> 0]

\* Earlier commands left the install as they found it, or complete.
Init ==
  /\ bytes = [i \in Inode |-> {}]
  /\ part = [a \in Archive |-> 0]
  /\ cached = [a \in Archive |-> 0]
  /\ \E e \in Earlier :
       /\ files = [f \in Programs |-> e]
       /\ stamp \in IF e \in StorePaths THEN {Missing, e} ELSE {Missing}
  /\ unpacked = [d \in ToSet(Packs) |-> "none"]
  /\ marked = {}
  /\ proc = [p \in Process |-> Idle]
  /\ faults = 0

-----------------------------------------------------------------------------
Installed == files[QuartusSh] # Missing

\* A process that is over keeps what it was asked, and its verdict.
Over(p, verdict) ==
  proc' = [proc EXCEPT ![p] = [Idle EXCEPT !.at = verdict, !.cmd = proc[p].cmd,
                                           !.paths = proc[p].paths]]

Goto(p, at) == proc' = [proc EXCEPT ![p].at = at]

\* The base archives are each needed; a pack that cannot be had is warned
\* about and skipped.
GiveUp(p) ==
  IF proc[p].stage = "base"
  THEN Over(p, "failed")
  ELSE proc' = [proc EXCEPT ![p].at = "archive", ![p].todo = Tail(@),
                            ![p].fd = 0, ![p].got = 0]

Run(p, cmd, paths) ==
  /\ proc[p].at \in AtRest
  /\ proc' = [proc EXCEPT ![p] =
       [Idle EXCEPT !.cmd = cmd, !.paths = paths,
                    !.stage = IF cmd = "local" THEN "local" ELSE "base",
                    !.left = IF cmd = "local" THEN Programs ELSE {},
                    !.at = IF cmd = "local" THEN "installer" ELSE "check"]]
  /\ UNCHANGED <<cache, install, faults>>

Check(p) ==
  /\ proc[p].at = "check"
  /\ proc' = [proc EXCEPT ![p].at = "archive", ![p].found = Installed,
                          ![p].stage = IF Installed THEN "devices" ELSE "base",
                          ![p].todo = IF Installed THEN Packs ELSE Base]
  /\ UNCHANGED <<cache, install, faults>>

\* The next archive: a pack with a marker is done, a cached one is used, and
\* any other is asked for.
NextArchive(p) ==
  /\ proc[p].at = "archive" /\ proc[p].todo # <<>>
  /\ LET a == Head(proc[p].todo) IN
       IF a \in marked \/ (cached[a] # 0 /\ proc[p].stage = "base")
       THEN proc' = [proc EXCEPT ![p].todo = Tail(@)]
       ELSE Goto(p, IF cached[a] # 0 THEN "unzip" ELSE "request")
  /\ UNCHANGED <<cache, install, faults>>

\* The installer refuses archives that are not whole.
Intact(a) == cached[a] # 0 /\ bytes[cached[a]] = Whole
StartInstaller(p) ==
  IF \E a \in ToSet(Base) : ~Intact(a)'
  THEN Over(p, "failed")
  ELSE proc' = [proc EXCEPT ![p].at = "installer", ![p].left = Programs, ![p].fd = 0]

\* patchelf reads the installer, truncates it and writes it again; of a file it
\* cannot read it keeps off, which nobody looks at.
NoArchiveLeft(p) ==
  /\ proc[p].at = "archive" /\ proc[p].todo = <<>>
  /\ UNCHANGED <<part, cached, install, faults>>
  /\ IF proc[p].stage = "base" /\ proc[p].paths \in Unsandboxed /\ Intact(Installer)
     THEN /\ bytes' = [bytes EXCEPT ![cached[Installer]] = {}]
          /\ proc' = [proc EXCEPT ![p].at = "elf", ![p].fd = cached[Installer], ![p].got = 0]
     ELSE /\ UNCHANGED bytes
          /\ IF proc[p].stage = "base"
             THEN StartInstaller(p)
             ELSE proc' = [proc EXCEPT ![p].at = "compat"]

InstallerPatched(p) ==
  /\ proc[p].at = "elf"
  /\ bytes' = [bytes EXCEPT ![proc[p].fd] = Whole]
  /\ UNCHANGED <<part, cached, install, faults>>
  /\ StartInstaller(p)

-----------------------------------------------------------------------------
(***************************************************************************)
(* download_file: the answer arrives, the .part file is created, filled    *)
(* and renamed.                                                            *)
(***************************************************************************)
InUse == {part[a] : a \in Archive} \cup {cached[a] : a \in Archive}
           \cup {proc[p].fd : p \in Process}
FreeInode == CHOOSE i \in Inode \ InUse : \A j \in Inode \ InUse : i <= j

Create(p) ==
  /\ proc[p].at = "request"
  /\ LET a == Head(proc[p].todo)
         i == IF part[a] # 0 THEN part[a] ELSE FreeInode
     IN /\ bytes' = [bytes EXCEPT ![i] = {}]
        /\ part' = [part EXCEPT ![a] = i]
        /\ proc' = [proc EXCEPT ![p].at = "receive", ![p].fd = i, ![p].got = 0]
  /\ UNCHANGED <<cached, install, faults>>

Receive(p) ==
  /\ proc[p].at = "receive" /\ proc[p].got < Chunks
  /\ bytes' = [bytes EXCEPT ![proc[p].fd] = @ \cup {proc[p].got + 1}]
  /\ proc' = [proc EXCEPT ![p].got = @ + 1]
  /\ UNCHANGED <<part, cached, install, faults>>

\* Wrong on purpose: the last piece is not waited for.
RenameEarly(p) ==
  /\ proc[p].at = "receive" /\ proc[p].got >= Chunks - 1
  /\ LET a == Head(proc[p].todo) IN
       IF part[a] = 0
       THEN GiveUp(p) /\ UNCHANGED cache
       ELSE /\ cached' = [cached EXCEPT ![a] = part[a]]
            /\ part' = [part EXCEPT ![a] = 0]
            /\ proc' = [proc EXCEPT ![p].at = "archive", ![p].fd = 0, ![p].got = 0]
            /\ UNCHANGED bytes
  /\ UNCHANGED <<install, faults>>

\* The name may be gone: another process renamed the shared .part file.
Rename(p) ==
  /\ proc[p].at = "receive" /\ proc[p].got = Chunks
  /\ LET a == Head(proc[p].todo) IN
       IF part[a] = 0
       THEN GiveUp(p) /\ UNCHANGED cache
       ELSE /\ cached' = [cached EXCEPT ![a] = part[a]]
            /\ part' = [part EXCEPT ![a] = 0]
            /\ proc' = [proc EXCEPT ![p].at = "archive", ![p].fd = 0, ![p].got = 0]
            /\ UNCHANGED bytes
  /\ UNCHANGED <<install, faults>>

DownloadFails(p) ==
  /\ "io" \in Faults /\ faults < MaxFaults
  /\ proc[p].at \in {"request", "receive"}
  /\ GiveUp(p)
  /\ faults' = faults + 1
  /\ UNCHANGED <<cache, install>>

-----------------------------------------------------------------------------
(***************************************************************************)
(* install_quartus: the installer writes the programs in an order of its   *)
(* own, then patch_install visits them.                                    *)
(***************************************************************************)
InstallProgram(p) ==
  /\ proc[p].at = "installer"
  /\ \E f \in proc[p].left :
       /\ files' = [files EXCEPT ![f] = Shipped]
       /\ proc' = [proc EXCEPT ![p].left = @ \ {f}]
  /\ UNCHANGED <<cache, stamp, unpacked, marked, faults>>

\* After the installer, or after its programs are patched.
BaseDone(p) ==
  IF proc[p].stage = "local"
  THEN Over(p, "ok")
  ELSE proc' = [proc EXCEPT ![p].at = "archive", ![p].stage = "devices",
                            ![p].todo = Packs]

\* Wrong on purpose: the installer is started and not waited for.
InstallerNotAwaited(p) ==
  /\ proc[p].at = "installer"
  /\ IF proc[p].paths = NotNeeded
     THEN BaseDone(p)
     ELSE proc' = [proc EXCEPT ![p].at = "patch", ![p].left = Programs]
  /\ UNCHANGED <<cache, install, faults>>

InstallerDone(p) ==
  /\ proc[p].at = "installer" /\ proc[p].left = {}
  /\ IF proc[p].paths = NotNeeded
     THEN BaseDone(p)
     ELSE proc' = [proc EXCEPT ![p].at = "patch", ![p].left = Programs]
  /\ UNCHANGED <<cache, install, faults>>

\* patch_dir lists the directory, so it meets only what is there.
PatchProgram(p) ==
  /\ proc[p].at = "patch"
  /\ \E f \in proc[p].left :
       /\ files' = [files EXCEPT ![f] = IF @ = Missing THEN @ ELSE proc[p].paths]
       /\ proc' = [proc EXCEPT ![p].left = @ \ {f}]
  /\ UNCHANGED <<cache, stamp, unpacked, marked, faults>>

WriteStamp(p) ==
  /\ proc[p].at = "patch" /\ proc[p].left = {}
  /\ stamp' = proc[p].paths
  /\ IF proc[p].stage = "final" THEN Over(p, "ok") ELSE BaseDone(p)
  /\ UNCHANGED <<cache, files, unpacked, marked, faults>>

-----------------------------------------------------------------------------
(***************************************************************************)
(* install_device_support: `unzip -o` over what is there, then the marker. *)
(***************************************************************************)
Unzip(p) ==
  /\ proc[p].at = "unzip"
  /\ LET a == Head(proc[p].todo) IN
       IF Intact(a)
       THEN /\ unpacked' = [unpacked EXCEPT ![a] = "half"]
            /\ Goto(p, "unzipping")
       ELSE /\ unpacked' \in {unpacked, [unpacked EXCEPT ![a] = "half"]}
            /\ GiveUp(p)
  /\ UNCHANGED <<cache, files, stamp, marked, faults>>

UnzipDone(p) ==
  /\ proc[p].at = "unzipping"
  /\ unpacked' = [unpacked EXCEPT ![Head(proc[p].todo)] = "whole"]
  /\ Goto(p, "mark")
  /\ UNCHANGED <<cache, files, stamp, marked, faults>>

\* Wrong on purpose: a failed unzip falls through to the marker.
UnzipFailsMarked(p) ==
  /\ "io" \in Faults /\ faults < MaxFaults
  /\ proc[p].at = "unzipping"
  /\ Goto(p, "mark")
  /\ faults' = faults + 1
  /\ UNCHANGED <<cache, install>>

UnzipFails(p) ==
  /\ "io" \in Faults /\ faults < MaxFaults
  /\ proc[p].at = "unzipping"
  /\ GiveUp(p)
  /\ faults' = faults + 1
  /\ UNCHANGED <<cache, install>>

\* Wrong on purpose: the marker of a pack is written to the wrong directory.
MarkNothing(p) ==
  /\ proc[p].at = "mark"
  /\ proc' = [proc EXCEPT ![p].at = "archive", ![p].todo = Tail(@)]
  /\ UNCHANGED <<cache, install, faults>>

Mark(p) ==
  /\ proc[p].at = "mark"
  /\ marked' = marked \cup {Head(proc[p].todo)}
  /\ proc' = [proc EXCEPT ![p].at = "archive", ![p].todo = Tail(@)]
  /\ UNCHANGED <<cache, files, stamp, unpacked, faults>>

-----------------------------------------------------------------------------
\* Wrong on purpose: a stale patch is put right by whoever meets it.
CompatRepatches(p) ==
  /\ proc[p].at = "compat"
  /\ IF proc[p].paths \in {NotNeeded, stamp}
     THEN Over(p, "ok")
     ELSE proc' = [proc EXCEPT ![p].at = "patch", ![p].stage = "final",
                               ![p].left = Programs]
  /\ UNCHANGED <<cache, install, faults>>

\* The end of ensure_installed: is this install patched for these paths?
Compat(p) ==
  /\ proc[p].at = "compat"
  /\ IF proc[p].paths \in {NotNeeded, stamp}
     THEN Over(p, "ok")
     ELSE IF proc[p].cmd = "install"
     THEN proc' = [proc EXCEPT ![p].at = "patch", ![p].stage = "final",
                               ![p].left = Programs]
     ELSE Over(p, "failed")
  /\ UNCHANGED <<cache, install, faults>>

\* A signal, or an installer that exits with an error.
Interrupt(p) ==
  /\ proc[p].at \notin AtRest
  /\ (IF proc[p].at = "installer" THEN "installer" ELSE "kill") \in Faults
  /\ faults < MaxFaults
  /\ Over(p, "failed")
  /\ faults' = faults + 1
  /\ UNCHANGED <<cache, install>>

Proceed(p) ==
  \/ Check(p) \/ NextArchive(p) \/ NoArchiveLeft(p) \/ InstallerPatched(p)
  \/ Create(p) \/ Receive(p) \/ Rename(p)
  \/ InstallProgram(p) \/ InstallerDone(p)
  \/ PatchProgram(p) \/ WriteStamp(p)
  \/ Unzip(p) \/ UnzipDone(p) \/ Mark(p) \/ Compat(p)

Next ==
  \E p \in Process :
    \/ \E cmd \in Commands, paths \in Offered : Run(p, cmd, paths)
    \/ Proceed(p)
    \/ DownloadFails(p) \/ UnzipFails(p) \/ Interrupt(p)

Spec == Init /\ [][Next]_vars

\* A process runs; someone keeps asking for the version to be installed.
LiveSpec ==
  /\ Spec
  /\ \A p \in Process :
       /\ WF_vars(Proceed(p))
       /\ SF_vars(\E paths \in Offered : Run(p, "install", paths))

-----------------------------------------------------------------------------
Doing == [at: At, cmd: {"install", "use", "local"}, paths: StorePaths \cup {NotNeeded},
          found: BOOLEAN, stage: {"base", "local", "devices", "final"}, todo: Seq(Archive),
          left: SUBSET Programs, fd: Inode \cup {0}, got: 0 .. Chunks]

TypeOK ==
  /\ bytes \in [Inode -> SUBSET Whole]
  /\ part \in [Archive -> Inode \cup {0}]
  /\ cached \in [Archive -> Inode \cup {0}]
  /\ files \in [Programs -> StorePaths \cup {Missing, Shipped}]
  /\ stamp \in StorePaths \cup {Missing}
  /\ unpacked \in [ToSet(Packs) -> {"none", "half", "whole"}]
  /\ marked \subseteq ToSet(Packs)
  /\ proc \in [Process -> Doing]
  /\ faults \in 0 .. MaxFaults

\* What a kill leaves of an installer that was being patched in the cache.
CutInPlace ==
  Unsandboxed # {} /\ faults # 0 /\ cached[Installer] # 0 /\ bytes[cached[Installer]] = {}

\* A file under an archive's own name that nobody is writing is the whole
\* archive, whatever was killed: download_file renames it into place last
\* (download.rs:95).  The one exception is the installer, when a process was cut
\* off while patchelf rewrote it there (runner.rs:176).
CachedIsWhole ==
  \A a \in Archive :
    cached[a] # 0 /\ (\A p \in Process : proc[p].fd # cached[a]) =>
      Intact(a) \/ (a = Installer /\ CutInPlace)

\* Processes share a .part file: one truncates it under another, which then
\* renames what it finds, and an unzip or an installer may meet part of an archive
\* (download.rs:42, 73, 99).  Such a file is one that the process which truncated
\* it last still has open, with all it got so far in it: it will be whole, unless
\* that process is cut off, which costs one file each time.
Filled(i) ==
  bytes[i] = Whole \/ \E p \in Process : proc[p].fd = i /\ 1 .. proc[p].got \subseteq bytes[i]
TornOnePerFault ==
  Cardinality({i \in Inode : (\E a \in Archive : cached[a] = i) /\ ~Filled(i)}) <= faults

\* A device pack with a marker is in the install directory, all of it, unless
\* another process is unpacking it again: the marker is written last.
MarkedIsUnpacked ==
  \A d \in marked :
    \/ unpacked[d] = "whole"
    \/ \E p \in Process : proc[p].at = "unzipping" /\ Head(proc[p].todo) = d

\* Archives under their own names and packs with a marker are whole, whatever
\* was cut off, but for an installer cut off while it was patched in the cache,
\* which stays there as it is: no later command looks at it (download.rs:42).
CacheIsSound == CachedIsWhole /\ MarkedIsUnpacked

\* A command that got its toolchain has every program of it pointing where its
\* own chipsmith says (nixos.rs, "Whether `install_dir` was last patched
\* against exactly these paths"), as shipped off NixOS.
PatchedForMe ==
  \A p \in Process : proc[p].at = "ok" =>
    \A f \in Programs :
      files[f] \in {Missing, IF proc[p].paths = NotNeeded THEN Shipped ELSE proc[p].paths}

\* Ensured installed means installed (toolchain.rs, ensure_installed): a
\* command that got its toolchain finds every program of it.
InstallIsWhole ==
  \A p \in Process : proc[p].at = "ok" => \A f \in Programs : files[f] # Missing

\* Only `install` rewrites an install that was there (install.rs, StalePatch):
\* any other command leaves its programs and its patch record alone.
UsePatchesNothing ==
  [][\A p \in Process : proc[p].cmd = "use" /\ proc[p].found /\ proc'[p] # proc[p]
       => UNCHANGED <<files, stamp>>]_vars

\* Programs point where the chipsmith that uses them says, and only `install`
\* ever points them elsewhere (nixos.rs, install.rs).
PatchesAreMine == []PatchedForMe /\ UsePatchesNothing

\* Running `install` again repairs what interruptions left, unless they hit the
\* installer's run: in the end the version is whole, patched, with its packs.  Or
\* the installer was cut off while it was patched in the cache, before anything
\* was installed: then no `install` ever succeeds, for nothing fetches it again.
Repaired ==
  \/ <>[](/\ \E paths \in Offered : \A f \in Programs :
               files[f] = IF paths = NotNeeded THEN Shipped ELSE paths
          /\ \A d \in ToSet(Packs) : d \in marked /\ unpacked[d] = "whole")
  \/ <>[](CutInPlace /\ ~Installed)
=============================================================================
