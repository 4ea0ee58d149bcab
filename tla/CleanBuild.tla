------------------------------ MODULE CleanBuild ------------------------------
(***************************************************************************)
(* What `chipsmith build` promises, the cache out of sight: a build takes  *)
(* the sources as they are at one moment and, if it succeeds, leaves the   *)
(* bitstream of those sources under its settings, as a build that ran      *)
(* every step would.                                                       *)
(***************************************************************************)
CONSTANTS
  Source, Content, Setting, Build,
  Whole(_, _),    \* (setting, sources): the bitstream of a full build
  Absent          \* a file that is not there, a build without a result

VARIABLES
  source,         \* the contents of every source
  job,            \* what every running build builds
  product         \* the bitstream the last build that succeeded left

vars == <<source, job, product>>

Untaken == <<>>
NoJob == [running |-> FALSE]

Init ==
  /\ source \in [Source -> Content]
  /\ job = [b \in Build |-> NoJob]
  /\ product = [b \in Build |-> Absent]

Edit ==
  /\ source' \in [Source -> Content \cup {Absent}]
  /\ UNCHANGED <<job, product>>

Begin(b) ==
  /\ job[b] = NoJob
  /\ \E setting \in Setting :
       job' = [job EXCEPT ![b] = [running |-> TRUE, setting |-> setting, took |-> Untaken]]
  /\ product' = [product EXCEPT ![b] = Absent]
  /\ UNCHANGED source

Take(b) ==
  /\ job[b].running
  /\ job[b].took = Untaken
  /\ job' = [job EXCEPT ![b].took = source]
  /\ UNCHANGED <<source, product>>

\* The bitstream may have been deleted again by the time the build is over.
Finish(b) ==
  /\ job[b].running
  /\ job[b].took # Untaken
  /\ job' = [job EXCEPT ![b] = NoJob]
  /\ \E left \in {Whole(job[b].setting, job[b].took), Absent} :
       product' = [product EXCEPT ![b] = left]
  /\ UNCHANGED source

Stop(b) ==
  /\ job[b].running
  /\ job' = [job EXCEPT ![b] = NoJob]
  /\ UNCHANGED <<source, product>>

Next == Edit \/ \E b \in Build : Begin(b) \/ Take(b) \/ Finish(b) \/ Stop(b)

Spec == Init /\ [][Next]_vars
===============================================================================
