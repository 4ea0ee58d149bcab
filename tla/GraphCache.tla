------------------------------ MODULE GraphCache ------------------------------
(***************************************************************************)
(* The routing graph and its cache (chipsmith-route: chipdb.rs; load_graph *)
(* of chipsmith-cyclone2/route.rs and load of chipsmith-xc7/xray.rs), and  *)
(* the thread a plan loads it on (chipsmith: flow.rs, Plan::run, Prefetch).*)
(*                                                                         *)
(* Chipsmiths of several formats share one cache file.  A plan's loader    *)
(* reads it or parses the chip database and writes it anew, while the      *)
(* plan's own thread runs the stages before placement: one of those may    *)
(* fail, or placement be up to date, and the process ends with its loader  *)
(* wherever that is.                                                       *)
(***************************************************************************)
EXTENDS Naturals, FiniteSets

CONSTANTS
  Process,  \* places a chipsmith can run
  Pids,     \* process ids, used again once their process is over
  Magics,   \* the cache formats of the chipsmiths around
  MaxRuns,  \* bound: chipsmiths started in a behaviour
  None

VARIABLES
  file,  \* "cache", or the process id of a temporary file -> what it holds
  proc,  \* what every process is doing
  world, \* whether the path is writable, the chip database there
  runs   \* chipsmiths started so far

vars == <<file, proc, world, runs>>

Idle == [at |-> "over", verdict |-> None, pid |-> None, magic |-> None, early |-> FALSE,
         loader |-> "none", graph |-> None, needed |-> FALSE]

Live(p) == proc[p].at # "over"

\* One piece of a file is on disk before the other.
Holds(magic, whole) == [magic |-> magic, whole |-> whole]

Init ==
  /\ file = [n \in Pids \cup {"cache"} |-> None]
  /\ proc = [p \in Process |-> Idle]
  /\ world \in [writable: BOOLEAN, database: BOOLEAN]
  /\ runs = 0

-----------------------------------------------------------------------------
(***************************************************************************)
(* The plan.  A Cyclone II plan loads its graph on a thread of its own     *)
(* from the start; a 7-series plan when placement asks for it.             *)
(***************************************************************************)
Run(p, pid, magic, early) ==
  /\ ~Live(p) /\ runs < MaxRuns
  /\ \A q \in Process : Live(q) => proc[q].pid # pid
  /\ proc' = [proc EXCEPT ![p] =
       [Idle EXCEPT !.at = "stages", !.pid = pid, !.magic = magic, !.early = early,
                    !.loader = IF early THEN "look" ELSE "none"]]
  /\ runs' = runs + 1
  /\ UNCHANGED <<file, world>>

\* The process ends, and its loader with it.
End(p, verdict) ==
  proc' = [proc EXCEPT ![p] = [Idle EXCEPT !.verdict = verdict, !.magic = proc[p].magic,
                                           !.graph = proc[p].graph,
                                           !.needed = proc[p].needed]]

StageFails(p) ==
  /\ proc[p].at = "stages"
  /\ End(p, "stage")
  /\ UNCHANGED <<file, world, runs>>

\* The stamp of the placed design holds: the graph is not asked for.
PlacedAlready(p) ==
  /\ proc[p].at = "stages"
  /\ End(p, "ok")
  /\ UNCHANGED <<file, world, runs>>

\* Prefetch::take: wait for the thread, or load on the spot.
Take(p) ==
  /\ proc[p].at = "stages"
  /\ proc' = [proc EXCEPT ![p].at = "take", ![p].needed = TRUE,
                          ![p].loader = IF proc[p].early THEN @ ELSE "look"]
  /\ UNCHANGED <<file, world, runs>>

Taken(p) ==
  /\ proc[p].at = "take" /\ proc[p].loader \in {"loaded", "nothing"}
  /\ End(p, IF proc[p].loader = "loaded" THEN "ok" ELSE "failed")
  /\ UNCHANGED <<file, world, runs>>

Kill(p) ==
  /\ Live(p)
  /\ End(p, "killed")
  /\ UNCHANGED <<file, world, runs>>

-----------------------------------------------------------------------------
Step(p, from, to) ==
  /\ Live(p) /\ proc[p].loader = from
  /\ proc' = [proc EXCEPT ![p].loader = to]

Look(p) ==
  /\ Step(p, "look", IF file["cache"] # None THEN "read" ELSE "parse")
  /\ UNCHANGED <<file, world, runs>>

\* read_cache: the magic of this chipsmith, and nothing short or left over.
Readable(p) ==
  /\ file["cache"] # None
  /\ file["cache"].magic = proc[p].magic
  /\ file["cache"].whole

\* A cache that cannot be read is parsed around.
Read(p) ==
  /\ Live(p) /\ proc[p].loader = "read"
  /\ proc' = IF Readable(p)
             THEN [proc EXCEPT ![p].loader = "loaded", ![p].graph = file["cache"].magic]
             ELSE [proc EXCEPT ![p].loader = "parse"]
  /\ UNCHANGED <<file, world, runs>>

Parse(p) ==
  /\ Live(p) /\ proc[p].loader = "parse"
  /\ proc' = IF world.database
             THEN [proc EXCEPT ![p].loader = "create", ![p].graph = proc[p].magic]
             ELSE [proc EXCEPT ![p].loader = "nothing"]
  /\ UNCHANGED <<file, world, runs>>

\* Wrong on purpose: the cache is written in place.
TmpInPlace(p) == "cache"

\* write_cache's temporary file is named for the process.
Tmp(p) == proc[p].pid

\* A write that fails is ignored; the graph is there all the same.
Create(p) ==
  /\ Step(p, "create", IF world.writable THEN "write" ELSE "loaded")
  /\ file' = IF world.writable THEN [file EXCEPT ![Tmp(p)] = Holds(proc[p].magic, FALSE)] ELSE file
  /\ UNCHANGED <<world, runs>>

\* A file that was deleted meanwhile stays so, and cannot be renamed.
Write(p) ==
  /\ \/ /\ Step(p, "write", "rename")
        /\ file' = [file EXCEPT ![Tmp(p)] =
                      IF @ = None THEN @ ELSE Holds(proc[p].magic, TRUE)]
     \/ /\ Step(p, "write", "loaded")   \* the disk is full
        /\ UNCHANGED file
  /\ UNCHANGED <<world, runs>>

Rename(p) ==
  /\ Step(p, "rename", "loaded")
  /\ file' = IF file[Tmp(p)] = None THEN file
             ELSE [[file EXCEPT ![Tmp(p)] = None] EXCEPT !["cache"] = file[Tmp(p)]]
  /\ UNCHANGED <<world, runs>>

Load(p) == Look(p) \/ Read(p) \/ Parse(p) \/ Create(p) \/ Write(p) \/ Rename(p)

\* The devshell points the cache into target/, which users clean.
Clean ==
  /\ file # [n \in DOMAIN file |-> None]
  /\ file' = [n \in DOMAIN file |-> None]
  /\ UNCHANGED <<proc, world, runs>>

Next ==
  \/ \E p \in Process :
       \/ \E pid \in Pids, magic \in Magics, early \in BOOLEAN : Run(p, pid, magic, early)
       \/ StageFails(p) \/ PlacedAlready(p) \/ Take(p) \/ Taken(p) \/ Kill(p)
       \/ Load(p)
  \/ Clean

Spec == Init /\ [][Next]_vars

-----------------------------------------------------------------------------
\* "a reader never sees half a cache" (chipdb.rs, write_cache): what is under
\* the cache's name is whole whenever it is there, whoever was cut off writing
\* it and under whatever process id.
CacheIsWhole == file["cache"] # None => file["cache"].whole

\* Nobody works on a graph of another format, and nobody who asked for a graph
\* goes on without one.
GraphIsMine ==
  \A p \in Process :
    /\ proc[p].graph \in {None, proc[p].magic}
    /\ proc[p].verdict = "ok" /\ proc[p].needed => proc[p].graph # None

\* A plan fails for want of a graph only if placement had to run and neither a
\* cache of its format nor the chip database was there; one whose placement is
\* up to date ends well whatever became of its loader.
FailsForWant ==
  \A p \in Process : proc[p].verdict = "failed" => proc[p].needed /\ ~world.database

-----------------------------------------------------------------------------
(***************************************************************************)
(* What the properties rest on.  No two live processes have the same       *)
(* process id, so that a temporary file is written by one of them alone,   *)
(* and is whole when it is renamed; a loader that got past the parser has  *)
(* the graph its process wants.                                            *)
(***************************************************************************)
Loader == {"none", "look", "read", "parse", "create", "write", "rename", "loaded", "nothing"}

Doing ==
  [at : {"stages", "take", "over"}, verdict : {None, "stage", "ok", "failed", "killed"},
   pid : Pids \cup {None}, magic : Magics \cup {None}, early : BOOLEAN, loader : Loader,
   graph : Magics \cup {None}, needed : BOOLEAN]

TypeOK ==
  /\ file \in [Pids \cup {"cache"} -> [magic : Magics, whole : BOOLEAN] \cup {None}]
  /\ proc \in [Process -> Doing]
  /\ world \in [writable : BOOLEAN, database : BOOLEAN]
  /\ runs \in Nat

PidsApart == \A p, q \in Process : Live(p) /\ Live(q) /\ proc[p].pid = proc[q].pid => p = q

TmpIsWhole ==
  \A p \in Process : Live(p) /\ proc[p].loader = "rename" /\ file[Tmp(p)] # None =>
    file[Tmp(p)].whole

Parsed == {"create", "write", "rename", "loaded"}

\* What a process's record says of where it is.
InStep(s) ==
  /\ s.at # "over" => s.pid \in Pids /\ s.magic \in Magics /\ s.verdict = None
  /\ s.at = "stages" => ~s.needed
  /\ s.at = "take" => s.needed
  /\ s.at # "over" /\ s.loader \in Parsed => s.graph = s.magic
  /\ s.at # "over" /\ s.loader = "nothing" => ~world.database
  /\ s.graph \in {None, s.magic}
  /\ s.verdict = "ok" /\ s.needed => s.graph # None
  /\ s.verdict = "failed" => s.needed /\ ~world.database

IInv ==
  /\ TypeOK /\ CacheIsWhole /\ PidsApart /\ TmpIsWhole
  /\ \A p \in Process : InStep(proc[p])

-----------------------------------------------------------------------------
\* A temporary file is named for a number; a magic and a verdict are something.
NamesApart == "cache" \notin Pids /\ None \notin Magics \cup {"ok", "failed"}

Quiet == UNCHANGED <<file, world>>
=============================================================================
