----------------------------- MODULE RouterProofs -----------------------------
(***************************************************************************)
(* Proofs about Router for every graph, every set of nets and any number   *)
(* of iterations, batches and repairs: the occupancy is exact, no step     *)
(* between two repairs leaves a node to two nets, a repair that is undone  *)
(* leaves the routing (and the critical path reported) as it was and none  *)
(* makes it longer, a barred net stays out, and the nets of one round of a *)
(* batch, like the users of an exclusive group, are kept apart.            *)
(***************************************************************************)
EXTENDS Router, FiniteSetTheorems, WellFoundedInduction, TLAPS

-----------------------------------------------------------------------------
(* Trees, and the first of a set of nets.                                  *)

\* A tree is a set of pips, and never empty: a net has sinks to reach.
LEMMA TreeFacts ==
  ASSUME NEW i \in Net, NEW P \in Trees[i]
  PROVE  P \in SUBSET Edge /\ P # {}
<1>1. P \in SUBSET Reached(i) /\ IsTree(i, P)
  BY TreesAssumption DEF TreesOf
<1>2. Reached(i) \subseteq Edge
  BY DEF Reached
<1>3. Sinks[i] # {} /\ Sinks[i] \subseteq {To[e] : e \in P}
  BY <1>1, GraphAssumption DEF IsTree
<1> QED
  BY <1>1, <1>2, <1>3

LEMMA NodesFacts ==
  ASSUME NEW i \in Net, NEW P \in SUBSET Edge
  PROVE  Nodes(i, P) \subseteq Node
<1>1. Source[i] \in Node /\ \A e \in P : To[e] \in Node
  BY GraphAssumption
<1> QED
  BY <1>1 DEF Nodes

LEMMA NodesEmpty == \A i : Nodes(i, {}) = {}
  BY DEF Nodes

LEMMA FirstIn ==
  ASSUME NEW S \in SUBSET Net, S # {}
  PROVE  First(S) \in S
<1> DEFINE R == {p \in Nat \X Nat : p[1] < p[2]}
<1>1. S \subseteq Nat
  BY GraphAssumption DEF Net
<1>2. PICK x \in S : \A y \in S : ~ (<<y, x>> \in R)
  <2>1. IsWellFoundedOn(R, Nat)
    BY NatLessThanWellFounded DEF OpToRel
  <2> HIDE DEF R
  <2> QED
    BY <1>1, <2>1, WFMin
<1>3. \A y \in S : x <= y
  <2> SUFFICES ASSUME NEW y \in S
               PROVE  x <= y
    OBVIOUS
  <2>1. x \in Nat /\ y \in Nat
    BY <1>1
  <2>2. ~ (y < x)
    BY <1>2, <2>1
  <2> QED
    BY <2>1, <2>2
<1> QED
  BY <1>3 DEF First

-----------------------------------------------------------------------------
(* Counting users.                                                         *)

\* o counts, per node, the nets i with the node in h[i].
Counts(o, h) == \A n \in Node : o[n] = Cardinality({i \in Net : n \in h[i]})

LEMMA FiniteNets == ASSUME NEW S \in SUBSET Net
                    PROVE  IsFiniteSet(S) /\ Cardinality(S) \in Nat
<1>1. IsFiniteSet(Net)
  BY FS_Interval, GraphAssumption DEF Net
<1> QED
  BY <1>1, FS_Subset, FS_CardinalityType

LEMMA LiftCounts ==
  ASSUME NEW o, NEW h, NEW g, NEW S \in SUBSET Net, NEW ts,
         Counts(o, h),
         \A i \in S : Nodes(i, ts[i]) \subseteq h[i],
         \A i \in S : g[i] = h[i] \ Nodes(i, ts[i]),
         \A i \in Net \ S : g[i] = h[i]
  PROVE  Counts(Lift(o, S, ts), g)
<1> SUFFICES ASSUME NEW n \in Node
             PROVE  Lift(o, S, ts)[n] = Cardinality({i \in Net : n \in g[i]})
  BY DEF Counts
<1> DEFINE A == {i \in Net : n \in h[i]}
           B == {i \in S : n \in Nodes(i, ts[i])}
           C == {i \in Net : n \in g[i]}
<1>1. C = A \ B /\ A \cap B = B
  OBVIOUS
<1>2. IsFiniteSet(A) /\ Cardinality(A) \in Nat /\ Cardinality(B) \in Nat
  BY FiniteNets
<1>3. Lift(o, S, ts)[n] = Cardinality(A) - Cardinality(B)
  BY DEF Lift, Counts
<1> HIDE DEF A, B, C
<1>4. Cardinality(C) = Cardinality(A) - Cardinality(B)
  <2>1. Cardinality(A \ B) = Cardinality(A) - Cardinality(A \cap B)
    BY <1>2, FS_Difference
  <2> QED
    BY <1>1, <2>1
<1> QED
  BY <1>3, <1>4 DEF C

LEMMA PlaceCounts ==
  ASSUME NEW o, NEW h, NEW g, NEW S \in SUBSET Net, NEW ts,
         Counts(o, h),
         \A i \in S : h[i] = {},
         \A i \in S : g[i] = Nodes(i, ts[i]),
         \A i \in Net \ S : g[i] = h[i]
  PROVE  Counts(Place(o, S, ts), g)
<1> SUFFICES ASSUME NEW n \in Node
             PROVE  Place(o, S, ts)[n] = Cardinality({i \in Net : n \in g[i]})
  BY DEF Counts
<1> DEFINE A == {i \in Net : n \in h[i]}
           B == {i \in S : n \in Nodes(i, ts[i])}
           C == {i \in Net : n \in g[i]}
<1>1. C = A \cup B /\ A \cap B = {}
  OBVIOUS
<1>2. /\ IsFiniteSet(A) /\ Cardinality(A) \in Nat
      /\ IsFiniteSet(B) /\ Cardinality(B) \in Nat
  BY FiniteNets
<1>3. Place(o, S, ts)[n] = Cardinality(A) + Cardinality(B)
  BY DEF Place, Counts
<1> HIDE DEF A, B, C
<1>4. Cardinality(C) = Cardinality(A) + Cardinality(B)
  <2>1. Cardinality(A \cup B) = Cardinality(A) + Cardinality(B) - Cardinality(A \cap B)
    BY <1>2, FS_Union
  <2>2. Cardinality(A \cap B) = 0
    BY <1>1, FS_EmptySet
  <2> QED
    BY <1>1, <1>2, <2>1, <2>2
<1> QED
  BY <1>3, <1>4 DEF C

\* Nets that leave one tree for another.
LEMMA SwapCounts ==
  ASSUME NEW o, NEW h, NEW g, NEW S \in SUBSET Net, NEW ts, NEW us,
         Counts(o, h),
         \A i \in S : h[i] = Nodes(i, ts[i]),
         \A i \in S : g[i] = Nodes(i, us[i]),
         \A i \in Net \ S : g[i] = h[i]
  PROVE  Counts(Place(Lift(o, S, ts), S, us), g)
<1> DEFINE k == [i \in Net |-> IF i \in S THEN {} ELSE h[i]]
<1>1. Counts(Lift(o, S, ts), k)
  <2>1. /\ \A i \in S : k[i] = h[i] \ Nodes(i, ts[i])
        /\ \A i \in Net \ S : k[i] = h[i]
    OBVIOUS
  <2>2. \A i \in S : Nodes(i, ts[i]) \subseteq h[i]
    OBVIOUS
  <2> HIDE DEF k
  <2> QED
    BY <2>1, <2>2, LiftCounts
<1>2. /\ \A i \in S : k[i] = {}
      /\ \A i \in Net \ S : g[i] = k[i]
  OBVIOUS
<1> HIDE DEF k
<1> QED
  BY <1>1, <1>2, PlaceCounts

\* A node of two nets is counted as overused.
LEMMA TwoUsers ==
  ASSUME NEW o, NEW h, Counts(o, h), NEW n \in Node,
         NEW i \in Net, NEW j \in Net, i # j, n \in h[i], n \in h[j]
  PROVE  n \in Overused(o)
<1> DEFINE A == {k \in Net : n \in h[k]}
<1>1. {i, j} \in SUBSET A /\ A \in SUBSET Net
  OBVIOUS
<1>2. Cardinality({i, j}) = 2
  <2>1. IsFiniteSet({i}) /\ Cardinality({i}) = 1 /\ {i, j} = {i} \cup {j} /\ j \notin {i}
    BY FS_Singleton
  <2>2. Cardinality({i} \cup {j}) = Cardinality({i}) + 1
    BY <2>1, FS_AddElement
  <2> QED
    BY <2>1, <2>2
<1> HIDE DEF A
<1>3. Cardinality(A) \in Nat /\ Cardinality({i, j}) <= Cardinality(A)
  BY <1>1, FiniteNets, FS_Subset
<1>4. o[n] = Cardinality(A)
  BY DEF Counts, A
<1> QED
  BY <1>2, <1>3, <1>4 DEF Overused

-----------------------------------------------------------------------------
(* What searches and the exclusive groups give.                            *)

\* The trees ts keep out of the groups their nets are barred from.
Outside(ts, barred) == \A i \in Net : \A e \in ts[i] : Group[e] \notin barred[i]

LEMMA StartFacts ==
  ASSUME NEW i, NEW P, NEW o, NEW own
  PROVE  Start(i, P, o, own) \subseteq P
  BY DEF Start, Kept

LEMMA RoutesFacts ==
  ASSUME NEW i \in Net, NEW kept, NEW barred, NEW P \in Routes(i, kept, barred),
         \A e \in kept : Group[e] \notin barred
  PROVE  /\ P \in Trees[i] /\ P \in SUBSET Edge /\ P # {}
         /\ \A e \in P : Group[e] \notin barred
<1>1. P \in Trees[i] /\ {Group[e] : e \in P \ kept} \cap barred = {}
  BY DEF Routes
<1>2. P \in SUBSET Edge /\ P # {}
  BY <1>1, TreeFacts
<1>3. \A e \in P \ kept : Group[e] \notin barred
  BY <1>1
<1> QED
  BY <1>1, <1>2, <1>3

LEMMA OneEachFacts ==
  ASSUME NEW routes, NEW f \in OneEach(routes)
  PROVE  \A i \in DOMAIN routes : f[i] \in routes[i]
  BY DEF OneEach

\* Only a net that uses a group has one to leave.
LEMMA BreaksFacts ==
  ASSUME NEW uses, NEW S, \A u \in uses : u[1] \in S
  PROVE  \A b \in Breaks(uses) : b[1] \in S
<1> DEFINE crowded == {p \in Firsts(uses) \X uses :
                         p[1] # p[2] /\ BankOf(p[1][2]) = BankOf(p[2][2])}
<1>1. Firsts(uses) \subseteq uses
  BY DEF Firsts
<1>2. OverCapacity(uses) \subseteq uses
  BY <1>1 DEF OverCapacity
<1>3. \A p \in crowded : p[2] \in uses
  OBVIOUS
<1>4. Breaks(uses) = {p[2] : p \in crowded}
                     \cup {<<p[2][1], Twin(p[2][2])>> : p \in {q \in crowded : q[1][1] # q[2][1]}}
                     \cup OverCapacity(uses)
  BY DEF Breaks
<1> HIDE DEF crowded
<1>5. SUFFICES ASSUME NEW b \in Breaks(uses)
               PROVE  b[1] \in S
  OBVIOUS
<1>6. CASE b \in {p[2] : p \in crowded} \cup OverCapacity(uses)
  BY <1>2, <1>3, <1>6
<1>7. CASE b \in {<<p[2][1], Twin(p[2][2])>> : p \in {q \in crowded : q[1][1] # q[2][1]}}
  <2>1. PICK p \in crowded : b = <<p[2][1], Twin(p[2][2])>>
    BY <1>7
  <2> QED
    BY <1>3, <2>1
<1> QED
  BY <1>4, <1>6, <1>7

LEMMA UsesFacts ==
  ASSUME NEW ts, DOMAIN ts = Net
  PROVE  \A u \in Uses(ts) : u[1] \in Net
  BY DEF Uses, UsesOf

-----------------------------------------------------------------------------
(* The invariant.                                                          *)

BatchRecord ==
  [nets : SUBSET Net, again : SUBSET Net, on : SUBSET Net, took : SUBSET Node,
   old : [Net -> SUBSET Edge], fresh : [Net -> SUBSET Edge]]

Typed ==
  /\ trees \in [Net -> SUBSET Edge]
  /\ todo \in SUBSET Net
  /\ batch \in BatchRecord
  /\ iteration \in Nat
  /\ rep = [round |-> rep.round, todo |-> rep.todo, improved |-> rep.improved,
            users |-> rep.users, net |-> rep.net, saved |-> rep.saved,
            tries |-> rep.tries, moving |-> rep.moving]
  /\ rep.moving \in SUBSET Net
  /\ \A c \in rep.todo : c.net \in Net
  /\ \A i \in DOMAIN rep.saved : i \in Net /\ rep.saved[i] \in SUBSET Edge

\* A net in a batch has no tree in `trees`; it may have its old one, in the
\* occupancy, while it is not ripped up.
BatchFits ==
  /\ pc \notin {"round", "commit", "failed"} => batch = NoBatch
  /\ pc \in {"round", "commit"} => batch.nets # {}
  /\ pc = "round" => batch.again = {}
  /\ batch.nets \cap batch.again = {}
  /\ batch.on \subseteq batch.nets \cup batch.again
  /\ \A i \in batch.nets \cup batch.again : trees[i] = {}
  /\ pc = "commit" => \A i \in batch.nets : batch.fresh[i] # {}

HeldBy == [i \in Net |-> Held(i)]

Counted == Counts(occ, HeldBy)

\* A net is without a tree only until the first iteration comes to it, and
\* while it is in a batch.
Rooted ==
  pc # "failed" =>
    /\ iteration = 0 => pc = "begin"
    /\ pc \notin {"single", "batches", "round", "commit"} => todo = {}
    /\ \A i \in Net : trees[i] = {} => \/ iteration = 0
                                       \/ iteration = 1 /\ i \in todo
                                       \/ i \in batch.nets \cup batch.again

\* The routing an undo would go back to.
Back == [i \in Net |-> IF pc \in {"displace", "move"} /\ i \in DOMAIN rep.saved
                       THEN rep.saved[i] ELSE trees[i]]

Apart(ts) == \A i, j \in Net : i # j => Nodes(i, ts[i]) \cap Nodes(j, ts[j]) = {}

\* From the first legal routing on, there is a legal one to go back to, and
\* its critical path is the limit.
Legal ==
  /\ pc = "move" => rep.moving # {}
  /\ pc \in {"analyse", "repair", "nets", "displace", "move", "done"} =>
       /\ Apart(Back)
       /\ \A i \in Net : Back[i] # {}
       /\ limit = Critical(Back)

Barred ==
  pc # "failed" =>
    /\ banned = [i \in Net |-> banned[i]]
    /\ Outside(trees, banned) /\ Outside(Back, banned)
    /\ Outside(batch.old, banned) /\ Outside(batch.fresh, banned)

IInv == Typed /\ BatchFits /\ Counted /\ Rooted /\ Legal /\ Barred

\* What a step that moves no tree and no saved tree keeps.
LEMMA NoBatchFacts ==
  /\ NoBatch \in BatchRecord
  /\ NoBatch.nets = {} /\ NoBatch.again = {} /\ NoBatch.on = {}
  /\ NoBatch.old = [i \in Net |-> {}] /\ NoBatch.fresh = [i \in Net |-> {}]
  BY DEF NoBatch, None, BatchRecord

LEMMA HeldIdle ==
  ASSUME batch = NoBatch
  PROVE  \A i \in Net : HeldBy[i] = Nodes(i, trees[i])
  BY NoBatchFacts DEF HeldBy, Held

LEMMA HeldIdleNext ==
  ASSUME batch' = NoBatch
  PROVE  \A i \in Net : HeldBy'[i] = Nodes(i, trees'[i])
  BY NoBatchFacts DEF HeldBy, Held

-----------------------------------------------------------------------------
(* Steps that move no tree.                                                *)

LEMMA CountedSame ==
  ASSUME Counted, trees' = trees, batch' = batch, occ' = occ
  PROVE  Counted'
  BY DEF Counted, Counts, HeldBy, Held

\* No repair is under way, before or after.
LEMMA BackSame ==
  ASSUME trees' = trees, pc \notin {"displace", "move"}, pc' \notin {"displace", "move"}
  PROVE  Back' = Back /\ Back = [i \in Net |-> trees[i]]
  BY DEF Back

LEMMA BarredSame ==
  ASSUME Barred, pc # "failed", trees' = trees, Back' = Back, batch' = batch, banned' = banned
  PROVE  Barred'
  BY DEF Barred, Outside

LEMMA InitIInv == Init => IInv
<1> SUFFICES ASSUME Init
             PROVE  IInv
  OBVIOUS
<1>1. batch = NoBatch /\ trees = [i \in Net |-> {}] /\ pc = "begin" /\ iteration = 0
  BY DEF Init, None
<1>2. Typed
  BY <1>1, NoBatchFacts DEF Init, Typed, NoRepair
<1>3. BatchFits
  BY <1>1, NoBatchFacts DEF BatchFits
<1>4. Counted
  <2>1. \A i \in Net : HeldBy[i] = {}
    BY <1>1, HeldIdle, NodesEmpty
  <2> SUFFICES ASSUME NEW n \in Node
               PROVE  occ[n] = Cardinality({i \in Net : n \in HeldBy[i]})
    BY DEF Counted, Counts
  <2>2. {i \in Net : n \in HeldBy[i]} = {}
    BY <2>1
  <2>3. occ[n] = 0
    BY DEF Init
  <2> QED
    BY <2>2, <2>3, FS_EmptySet
<1>5. Rooted
  BY <1>1 DEF Init, Rooted
<1>6. Legal
  BY <1>1 DEF Legal
<1>7. Barred
  <2>1. banned = [i \in Net |-> banned[i]]
    BY DEF Init, None
  <2>2. \A i \in Net : trees[i] = {} /\ Back[i] = {} /\ batch.old[i] = {} /\ batch.fresh[i] = {}
    BY <1>1, NoBatchFacts DEF Back
  <2> QED
    BY <2>1, <2>2 DEF Barred, Outside
<1> QED
  BY <1>2, <1>3, <1>4, <1>5, <1>6, <1>7 DEF IInv

LEMMA BeginStep == ASSUME IInv, Begin PROVE IInv'
<1> USE DEF IInv
<1>1. /\ pc = "begin" /\ pc' \in {"single", "batches"}
      /\ trees' = trees /\ batch' = batch /\ occ' = occ /\ banned' = banned
      /\ rep' = rep /\ iteration' = iteration + 1 /\ batch = NoBatch
  BY DEF Begin, BatchFits
<1>2. Typed'
  BY <1>1 DEF Typed, Begin
<1>3. BatchFits'
  BY <1>1, NoBatchFacts DEF BatchFits
<1>4. Counted'
  BY <1>1, CountedSame
<1>5. Rooted'
  <2>1. iteration \in Nat /\ iteration' # 0
    BY <1>1 DEF Typed
  <2>2. iteration = 0 => todo' = Net
    <3>1. iteration = 0 => todo' = Net \/ todo' = {i \in Net : NeedsReroute(iteration + 1, i)}
      BY DEF Begin
    <3> QED
      BY <3>1 DEF NeedsReroute
  <2>3. \A i \in Net : trees[i] = {} => iteration = 0
    <3>1. todo = {}
      BY <1>1 DEF Rooted
    <3> QED
      BY <1>1, <3>1, NoBatchFacts DEF Rooted
  <2> QED
    BY <1>1, <2>1, <2>2, <2>3 DEF Rooted
<1>6. Legal'
  BY <1>1 DEF Legal
<1>7. Barred'
  <2>1. Back' = Back
    BY <1>1, BackSame
  <2> QED
    BY <1>1, <2>1, BarredSame
<1> QED
  BY <1>2, <1>3, <1>4, <1>5, <1>6, <1>7

\* A routing that fails keeps the counts.
LEMMA GiveUpStep == ASSUME IInv, GiveUp PROVE IInv'
<1> USE DEF IInv, GiveUp, Fail
<1>1. Typed'
  BY DEF Typed
<1>2. BatchFits'
  BY DEF BatchFits
<1>3. Counted'
  BY CountedSame
<1>4. Rooted' /\ Legal' /\ Barred'
  BY DEF Rooted, Legal, Barred
<1> QED
  BY <1>1, <1>2, <1>3, <1>4

LEMMA KeepStep == ASSUME IInv, Keep PROVE IInv'
<1> USE DEF IInv
<1>1. /\ pc = "single" /\ UNCHANGED <<pc, trees, batch, occ, banned, rep, iteration>>
      /\ batch = NoBatch /\ todo' = todo \ {First(todo)}
  BY DEF Keep, BatchFits
<1>2. Typed'
  BY <1>1 DEF Typed
<1>3. BatchFits'
  BY <1>1 DEF BatchFits
<1>4. Counted'
  BY <1>1, CountedSame
<1>5. Rooted'
  <2>1. iteration # 1
    BY DEF Keep, NeedsReroute
  <2> QED
    BY <1>1, <2>1 DEF Rooted
<1>6. Legal'
  BY <1>1 DEF Legal
<1>7. Barred'
  <2>1. Back' = Back
    BY <1>1, BackSame
  <2> QED
    BY <1>1, <2>1, BarredSame
<1> QED
  BY <1>2, <1>3, <1>4, <1>5, <1>6, <1>7

\* Nothing is overused, so no node is in two trees.
LEMMA ApartIfClear ==
  ASSUME Typed, Counted, batch = NoBatch, Overused(occ) = {}
  PROVE  Apart(trees)
<1> SUFFICES ASSUME NEW i \in Net, NEW j \in Net, i # j,
                    NEW n \in Nodes(i, trees[i]), n \in Nodes(j, trees[j])
             PROVE  FALSE
  BY DEF Apart
<1>1. n \in Node
  BY NodesFacts DEF Typed
<1>2. n \in HeldBy[i] /\ n \in HeldBy[j]
  BY HeldIdle
<1> QED
  BY <1>1, <1>2, TwoUsers DEF Counted

LEMMA AnalyseStep == ASSUME IInv, Analyse PROVE IInv'
<1> USE DEF IInv
<1>1. /\ pc \in {"single", "batches"} /\ todo = {} /\ pc' \in {"analyse", "begin"}
      /\ UNCHANGED <<trees, batch, occ, banned, rep, iteration, todo>>
      /\ batch = NoBatch
  BY DEF Analyse, EndOfIteration, BatchFits
<1>2. Typed'
  BY <1>1 DEF Typed
<1>3. BatchFits'
  BY <1>1, NoBatchFacts DEF BatchFits
<1>4. Counted'
  BY <1>1, CountedSame
<1>5. Rooted' /\ \A i \in Net : trees[i] # {}
  BY <1>1, NoBatchFacts DEF Rooted
<1>6. Back' = Back /\ Back = trees
  <2>1. trees = [i \in Net |-> trees[i]]
    BY DEF Typed
  <2> QED
    BY <1>1, <2>1, BackSame
<1>7. Legal'
  <2> SUFFICES ASSUME pc' = "analyse"
               PROVE  Apart(trees) /\ limit' = Critical(trees)
    BY <1>1, <1>5, <1>6 DEF Legal
  <2>1. Overused(occ) = {} /\ limit' = Critical(trees)
    BY DEF Analyse
  <2> QED
    BY <1>1, <2>1, ApartIfClear
<1>8. Barred'
  BY <1>1, <1>6, BarredSame
<1> QED
  BY <1>2, <1>3, <1>4, <1>5, <1>7, <1>8

-----------------------------------------------------------------------------
(* Steps between repairs.                                                  *)

LEMMA FinishStep == ASSUME IInv, Finish PROVE IInv'
<1> USE DEF IInv
<1>1. /\ UNCHANGED <<trees, batch, occ, banned, limit, iteration, todo>>
      /\ pc = "analyse" /\ pc' \in {"repair", "done"}
      /\ batch = NoBatch
  BY DEF Finish, NoRepair, BatchFits
<1>2. Typed'
  BY <1>1 DEF Typed, Finish, NoRepair
<1>3. BatchFits'
  BY <1>1 DEF BatchFits
<1>4. Counted'
  BY <1>1, CountedSame
<1>5. Rooted'
  BY <1>1 DEF Rooted
<1>6. Back' = Back
  BY <1>1, BackSame
<1>7. Legal'
  BY <1>1, <1>6 DEF Legal, Apart
<1>8. Barred'
  BY <1>1, <1>6, BarredSame
<1> QED
  BY <1>2, <1>3, <1>4, <1>5, <1>7, <1>8

LEMMA RepairRoundStep == ASSUME IInv, RepairRound PROVE IInv'
<1> USE DEF IInv
<1>1. /\ UNCHANGED <<trees, batch, occ, banned, limit, iteration, todo>>
      /\ pc = "repair" /\ pc' = "nets"
      /\ batch = NoBatch
  BY DEF RepairRound, Candidates, BatchFits
<1>2. Typed'
  <2>1. PICK chosen \in SUBSET Candidates :
          rep' = [rep EXCEPT !.round = @ + 1, !.improved = FALSE, !.todo = chosen]
    BY DEF RepairRound
  <2>2. rep' = [round |-> rep.round + 1, todo |-> chosen, improved |-> FALSE,
                users |-> rep.users, net |-> rep.net, saved |-> rep.saved,
                tries |-> rep.tries, moving |-> rep.moving]
    BY <2>1 DEF Typed
  <2>3. \A c \in chosen : c.net \in Net
    <3> DEFINE record(i) == [net |-> i, worst |-> Max({Through(trees, i, s) : s \in Sinks[i]}),
                             sinks |-> RepairSinks(trees, i)]
               able == {j \in Net : RepairSinks(trees, j) # {} /\ Cardinality(Sinks[j]) <= WideNet}
    <3>1. Candidates = {record(i) : i \in able}
      BY DEF Candidates
    <3>2. \A i \in able : record(i).net \in Net
      OBVIOUS
    <3> HIDE DEF record, able
    <3> QED
      BY <2>1, <3>1, <3>2
  <2> QED
    BY <1>1, <2>2, <2>3 DEF Typed
<1>3. BatchFits'
  BY <1>1 DEF BatchFits
<1>4. Counted'
  BY <1>1, CountedSame
<1>5. Rooted'
  BY <1>1 DEF Rooted
<1>6. Back' = Back
  BY <1>1, BackSame
<1>7. Legal'
  BY <1>1, <1>6 DEF Legal, Apart
<1>8. Barred'
  BY <1>1, <1>6, BarredSame
<1> QED
  BY <1>2, <1>3, <1>4, <1>5, <1>7, <1>8

LEMMA RepairDoneStep == ASSUME IInv, RepairDone PROVE IInv'
<1> USE DEF IInv
<1>1. /\ UNCHANGED <<trees, batch, occ, banned, limit, iteration, todo>>
      /\ pc \in {"repair", "nets"} /\ pc' = "done"
      /\ batch = NoBatch
  BY DEF RepairDone, NoRepair, BatchFits
<1>2. Typed'
  BY <1>1 DEF Typed, RepairDone, NoRepair
<1>3. BatchFits'
  BY <1>1 DEF BatchFits
<1>4. Counted'
  BY <1>1, CountedSame
<1>5. Rooted'
  BY <1>1 DEF Rooted
<1>6. Back' = Back
  BY <1>1, BackSame
<1>7. Legal'
  BY <1>1, <1>6 DEF Legal, Apart
<1>8. Barred'
  BY <1>1, <1>6, BarredSame
<1> QED
  BY <1>2, <1>3, <1>4, <1>5, <1>7, <1>8

LEMMA ImprovedStep == ASSUME IInv, Improved PROVE IInv'
<1> USE DEF IInv
<1>1. /\ UNCHANGED <<trees, batch, occ, banned, limit, iteration, todo>>
      /\ pc = "nets" /\ pc' = "repair" /\ rep' = rep
      /\ batch = NoBatch
  BY DEF Improved, BatchFits
<1>2. Typed'
  BY <1>1 DEF Typed, Improved
<1>3. BatchFits'
  BY <1>1 DEF BatchFits
<1>4. Counted'
  BY <1>1, CountedSame
<1>5. Rooted'
  BY <1>1 DEF Rooted
<1>6. Back' = Back
  BY <1>1, BackSame
<1>7. Legal'
  BY <1>1, <1>6 DEF Legal, Apart
<1>8. Barred'
  BY <1>1, <1>6, BarredSame
<1> QED
  BY <1>2, <1>3, <1>4, <1>5, <1>7, <1>8

LEMMA DisplaceStep == ASSUME IInv, Displace PROVE IInv'
<1> USE DEF IInv
<1>1. /\ UNCHANGED <<trees, batch, occ, banned, limit, iteration, todo>>
      /\ pc = "displace" /\ pc' = "move" /\ rep'.saved = rep.saved /\ rep'.moving # {}
      /\ batch = NoBatch
  BY DEF Displace, Displaced, Typed, BatchFits
<1>2. Typed'
  BY <1>1 DEF Typed, Displace, Displaced, Typed
<1>3. BatchFits'
  BY <1>1 DEF BatchFits
<1>4. Counted'
  BY <1>1, CountedSame
<1>5. Rooted'
  BY <1>1 DEF Rooted
<1>6. Back' = Back
  BY <1>1 DEF Back
<1>7. Legal'
  BY <1>1, <1>6 DEF Legal, Apart
<1>8. Barred'
  BY <1>1, <1>6, BarredSame
<1> QED
  BY <1>2, <1>3, <1>4, <1>5, <1>7, <1>8

\* A repair that stays leaves every node to one net: if two had one, one of
\* them is not the repaired net and is displaced.
LEMMA AcceptStep == ASSUME IInv, Accept PROVE IInv'
<1> USE DEF IInv
<1>1. /\ UNCHANGED <<trees, batch, occ, banned, iteration, todo>>
      /\ pc = "displace" /\ pc' = "nets"
      /\ batch = NoBatch
  BY DEF Accept, BatchFits
<1>2. Typed'
  <2>1. rep' = [round |-> rep.round, todo |-> rep.todo, improved |-> TRUE,
                users |-> UsersAfter(rep.users), net |-> 0, saved |-> <<>>,
                tries |-> 0, moving |-> rep.moving]
    BY DEF Accept, Typed
  <2> QED
    BY <1>1, <2>1 DEF Typed
<1>3. BatchFits'
  BY <1>1 DEF BatchFits
<1>4. Counted'
  BY <1>1, CountedSame
<1>5. Rooted' /\ \A i \in Net : trees[i] # {}
  BY <1>1, NoBatchFacts DEF Rooted
<1>6. Back' = trees
  <2>1. trees = [i \in Net |-> trees[i]]
    BY DEF Typed
  <2> QED
    BY <1>1, <2>1 DEF Back
<1>7. Apart(trees)
  <2> SUFFICES ASSUME NEW i \in Net, NEW j \in Net, i # j,
                      NEW n \in Nodes(i, trees[i]), n \in Nodes(j, trees[j])
               PROVE  FALSE
    BY DEF Apart
  <2>1. n \in Node
    BY NodesFacts DEF Typed
  <2>2. n \in HeldBy[i] /\ n \in HeldBy[j]
    BY <1>1, HeldIdle
  <2>3. n \in Overused(occ)
    BY <2>1, <2>2, TwoUsers DEF Counted
  <2>4. PICK k \in {i, j} : k # rep.net
    OBVIOUS
  <2>5. k \in Displaced
    BY <2>3, <2>4 DEF Displaced, Congested
  <2> QED
    BY <2>5 DEF Accept, Acceptable, Settled
<1>8. Legal'
  <2>1. limit' = Critical(trees)
    BY DEF Accept
  <2> QED
    BY <1>1, <1>5, <1>6, <1>7, <2>1 DEF Legal
<1>9. Barred'
  BY <1>1, <1>6 DEF Barred, Outside
<1> QED
  BY <1>2, <1>3, <1>4, <1>5, <1>8, <1>9

-----------------------------------------------------------------------------
(* Iterations.                                                             *)

\* Nets of S leave the tree they have for another, outside a batch.
LEMMA SwapCounted ==
  ASSUME Counted, batch = NoBatch, batch' = NoBatch, NEW S \in SUBSET Net,
         occ' = Place(Lift(occ, S, trees), S, trees'),
         \A i \in Net \ S : trees'[i] = trees[i]
  PROVE  Counted'
<1>1. /\ \A i \in S : HeldBy[i] = Nodes(i, trees[i])
      /\ \A i \in S : HeldBy'[i] = Nodes(i, trees'[i])
      /\ \A i \in Net \ S : HeldBy'[i] = HeldBy[i]
  BY HeldIdle, HeldIdleNext
<1>2. Counts(occ, HeldBy)
  BY DEF Counted
<1>3. Counts(Place(Lift(occ, S, trees), S, trees'), HeldBy')
  BY <1>1, <1>2, SwapCounts
<1> QED
  BY <1>3 DEF Counted, Counts

LEMMA RerouteStep == ASSUME IInv, Reroute PROVE IInv'
<1> USE DEF IInv
<1> DEFINE i == First(todo)
           kept == Start(i, trees[i], Lift(occ, {i}, trees), 0)
<1>1. /\ pc = "single" /\ batch = NoBatch /\ i \in Net /\ todo # {}
      /\ UNCHANGED <<iteration, banned, batch, rep>>
  <2>1. todo \in SUBSET Net /\ todo # {}
    BY DEF Typed, Reroute
  <2>2. First(todo) \in todo
    BY <2>1, FirstIn
  <2> QED
    BY <2>1, <2>2 DEF Reroute, BatchFits
<1>2. CASE \E P \in Routes(i, kept, banned[i]) :
             /\ trees' = [trees EXCEPT ![i] = P]
             /\ occ' = Place(Lift(occ, {i}, trees), {i}, trees')
             /\ todo' = todo \ {i}
             /\ pc' = pc
  <2>1. PICK P \in Routes(i, kept, banned[i]) :
             /\ trees' = [trees EXCEPT ![i] = P]
             /\ occ' = Place(Lift(occ, {i}, trees), {i}, trees')
             /\ todo' = todo \ {i}
             /\ pc' = pc
    BY <1>2
  <2>2. \A e \in kept : Group[e] \notin banned[i]
    <3>1. kept \subseteq trees[i]
      BY StartFacts
    <3> QED
      BY <1>1, <3>1 DEF Barred, Outside
  <2> HIDE DEF kept, i
  <2>3. P \in SUBSET Edge /\ P # {} /\ \A e \in P : Group[e] \notin banned[i]
    BY <1>1, <2>2, RoutesFacts
  <2>4. trees' \in [Net -> SUBSET Edge] /\ trees'[i] = P
        /\ \A j \in Net \ {i} : trees'[j] = trees[j]
    BY <1>1, <2>1, <2>3 DEF Typed
  <2>5. Typed'
    BY <1>1, <2>1, <2>4 DEF Typed
  <2>6. BatchFits'
    BY <1>1, <2>1, NoBatchFacts DEF BatchFits
  <2>7. Counted'
    BY <1>1, <2>1, <2>4, SwapCounted
  <2>8. Rooted'
    BY <1>1, <2>1, <2>3, <2>4, NoBatchFacts DEF Rooted
  <2>9. Legal'
    BY <1>1, <2>1 DEF Legal
  <2>10. Barred'
    <3>1. Outside(trees, banned)'
      BY <1>1, <2>3, <2>4 DEF Barred, Outside
    <3>2. \A j \in Net : Back'[j] = trees'[j]
      BY <1>1, <2>1 DEF Back
    <3> QED
      BY <1>1, <3>1, <3>2 DEF Barred, Outside
  <2> QED
    BY <2>5, <2>6, <2>7, <2>8, <2>9, <2>10
<1>3. CASE pc' = "failed" /\ UNCHANGED <<trees, occ, todo>>
  <2>1. Typed' /\ BatchFits' /\ Rooted' /\ Legal' /\ Barred'
    BY <1>1, <1>3, NoBatchFacts DEF Typed, BatchFits, Rooted, Legal, Barred
  <2>2. Counted'
    BY <1>1, <1>3, CountedSame
  <2> QED
    BY <2>1, <2>2
<1> QED
  BY <1>2, <1>3 DEF Reroute, Fail

\* The nets of a batch move from `trees` to `batch.old`, still counted.
LEMMA NextBatchStep == ASSUME IInv, NextBatch PROVE IInv'
<1> USE DEF IInv
<1>1. PICK B \in SUBSET todo :
        LET nets == {i \in B : NeedsReroute(iteration, i)}
        IN  /\ todo' = todo \ B
            /\ batch' = [NoBatch EXCEPT !.nets = nets, !.on = nets,
                                        !.old = [i \in Net |-> IF i \in nets THEN trees[i] ELSE {}]]
            /\ trees' = [i \in Net |-> IF i \in nets THEN {} ELSE trees[i]]
            /\ pc' = IF nets = {} THEN "batches" ELSE "round"
  BY DEF NextBatch
<1> DEFINE nets == {i \in B : NeedsReroute(iteration, i)}
<1>2. /\ todo' = todo \ B
      /\ trees' = [i \in Net |-> IF i \in nets THEN {} ELSE trees[i]]
      /\ pc' = IF nets = {} THEN "batches" ELSE "round"
  BY <1>1
<1>3. pc = "batches" /\ batch = NoBatch /\ UNCHANGED <<iteration, occ, banned, rep>>
  BY DEF NextBatch, BatchFits
<1>4. nets \in SUBSET Net /\ (iteration = 1 => nets = B)
  BY DEF Typed, NeedsReroute
<1>5. batch' = [nets |-> nets, again |-> {}, on |-> nets, took |-> {},
                old |-> [i \in Net |-> IF i \in nets THEN trees[i] ELSE {}], fresh |-> None]
  BY <1>1 DEF NoBatch
<1> HIDE DEF nets
<1>6. Typed'
  <2>1. batch' \in BatchRecord
    BY <1>4, <1>5 DEF Typed, BatchRecord, None
  <2>2. trees' \in [Net -> SUBSET Edge] /\ todo' \in SUBSET Net
    BY <1>2 DEF Typed
  <2> QED
    BY <1>3, <2>1, <2>2 DEF Typed
<1>7. BatchFits'
  <2>1. nets = {} => batch' = NoBatch
    BY <1>5 DEF NoBatch, None
  <2> QED
    BY <1>2, <1>4, <1>5, <2>1 DEF BatchFits
<1>8. Counted'
  <2>1. \A i \in Net : HeldBy'[i] = HeldBy[i]
    <3> SUFFICES ASSUME NEW i \in Net
                 PROVE  HeldBy'[i] = Nodes(i, trees[i])
      BY <1>3, HeldIdle
    <3>1. CASE i \in nets
      BY <1>2, <1>5, <3>1, NodesEmpty DEF HeldBy, Held
    <3>2. CASE i \notin nets
      BY <1>2, <1>5, <3>2 DEF HeldBy, Held
    <3> QED
      BY <3>1, <3>2
  <2>2. HeldBy' = HeldBy
    BY <2>1 DEF HeldBy
  <2> QED
    BY <1>3, <2>2 DEF Counted, Counts
<1>9. Rooted'
  <2> SUFFICES ASSUME NEW i \in Net, trees'[i] = {}, i \notin nets
               PROVE  iteration = 1 /\ i \in todo'
    BY <1>2, <1>3, <1>5 DEF Rooted
  <2>1. trees[i] = {}
    BY <1>2
  <2>2. iteration = 1 /\ i \in todo
    BY <1>3, <2>1, NoBatchFacts DEF Rooted
  <2> QED
    BY <1>2, <1>4, <2>2
<1>10. Legal'
  BY <1>2 DEF Legal
<1>11. Barred'
  <2>1. Outside(trees, banned)'
    BY <1>2, <1>3 DEF Barred, Outside
  <2>2. \A j \in Net : Back'[j] = trees'[j]
    BY <1>2 DEF Back
  <2>3. Outside(batch.old, banned)' /\ Outside(batch.fresh, banned)'
    BY <1>3, <1>5 DEF Barred, Outside, None
  <2> QED
    BY <1>3, <2>1, <2>2, <2>3 DEF Barred, Outside
<1> QED
  BY <1>6, <1>7, <1>8, <1>9, <1>10, <1>11

\* Every net of a batch searches; those still in the occupancy are ripped up
\* first, or left there until they commit.
LEMMA RoundStep == ASSUME IInv, Round PROVE IInv'
<1> USE DEF IInv
<1> DEFINE routes == [i \in batch.nets |->
                        Routes(i, Start(i, batch.old[i], occ', OwnCount), banned[i])]
<1>1. /\ pc = "round" /\ UNCHANGED <<iteration, trees, todo, banned, rep>>
      /\ occ' = Lift(occ, ToLift, batch.old)
      /\ batch.again = {} /\ batch \in BatchRecord
  BY DEF Round, BatchFits, Typed
<1>2. ToLift \subseteq batch.on /\ batch.on \subseteq batch.nets /\ batch.nets \in SUBSET Net
  BY <1>1 DEF BatchRecord, BatchFits, ToLift
<1>3. ASSUME batch'.on = batch.on \ ToLift, batch'.old = batch.old
      PROVE  Counted'
  <2>1. \A i \in ToLift : /\ Nodes(i, batch.old[i]) \subseteq HeldBy[i]
                          /\ HeldBy'[i] = HeldBy[i] \ Nodes(i, batch.old[i])
    <3> SUFFICES ASSUME NEW i \in ToLift
                 PROVE  HeldBy[i] = Nodes(i, batch.old[i]) /\ HeldBy'[i] = {}
      OBVIOUS
    <3>1. i \in Net /\ trees[i] = {} /\ trees'[i] = {} /\ i \in batch.on /\ i \notin batch'.on
      BY <1>1, <1>2, <1>3 DEF BatchFits
    <3> QED
      BY <3>1, NodesEmpty DEF HeldBy, Held
  <2>2. \A i \in Net \ ToLift : HeldBy'[i] = HeldBy[i]
    BY <1>1, <1>3 DEF HeldBy, Held
  <2>3. Counts(Lift(occ, ToLift, batch.old), HeldBy')
    <3>1. Counts(occ, HeldBy) /\ ToLift \in SUBSET Net
      BY <1>2 DEF Counted
    <3> QED
      BY <2>1, <2>2, <3>1, LiftCounts
  <2> QED
    BY <1>1, <2>3 DEF Counted, Counts
<1>4. CASE \E fresh \in OneEach(routes) :
             /\ batch' = [batch EXCEPT !.on = @ \ ToLift, !.took = NewStamp(@),
                             !.fresh = [i \in Net |-> IF i \in batch.nets THEN fresh[i] ELSE {}]]
             /\ pc' = "commit"
  <2>1. PICK fresh \in OneEach(routes) :
             /\ batch' = [batch EXCEPT !.on = @ \ ToLift, !.took = NewStamp(@),
                             !.fresh = [i \in Net |-> IF i \in batch.nets THEN fresh[i] ELSE {}]]
             /\ pc' = "commit"
    BY <1>4
  <2>2. batch' = [nets |-> batch.nets, again |-> batch.again, on |-> batch.on \ ToLift, took |-> {},
                  old |-> batch.old,
                  fresh |-> [i \in Net |-> IF i \in batch.nets THEN fresh[i] ELSE {}]]
    BY <1>1, <2>1 DEF NewStamp, BatchRecord
  <2>3. ASSUME NEW i \in batch.nets
        PROVE  fresh[i] \in SUBSET Edge /\ fresh[i] # {}
               /\ \A e \in fresh[i] : Group[e] \notin banned[i]
    <3>1. i \in Net
      BY <1>2
    <3>2. fresh[i] \in Routes(i, Start(i, batch.old[i], occ', OwnCount), banned[i])
      BY OneEachFacts
    <3>3. \A e \in Start(i, batch.old[i], occ', OwnCount) : Group[e] \notin banned[i]
      <4>1. Start(i, batch.old[i], occ', OwnCount) \subseteq batch.old[i]
        BY StartFacts
      <4> QED
        BY <1>1, <3>1, <4>1 DEF Barred, Outside
    <3> HIDE DEF routes
    <3> QED
      BY <3>1, <3>2, <3>3, RoutesFacts
  <2> HIDE DEF routes
  <2>4. Typed'
    <3>1. batch' \in BatchRecord
      BY <1>1, <1>2, <2>2, <2>3 DEF BatchRecord
    <3> QED
      BY <1>1, <3>1 DEF Typed
  <2>5. BatchFits'
    BY <1>1, <1>2, <2>1, <2>2, <2>3 DEF BatchFits
  <2>6. Counted'
    BY <1>3, <2>2
  <2>7. Rooted'
    BY <1>1, <2>1, <2>2 DEF Rooted
  <2>8. Legal'
    BY <2>1 DEF Legal
  <2>9. Barred'
    <3>1. Outside(batch.old, banned)' /\ Outside(trees, banned)'
      BY <1>1, <2>2 DEF Barred, Outside
    <3>2. Outside(batch.fresh, banned)'
      BY <1>1, <2>2, <2>3 DEF Outside
    <3>3. Outside(Back, banned)'
      BY <2>1, <3>1 DEF Outside, Back
    <3> QED
      BY <1>1, <3>1, <3>2, <3>3 DEF Barred
  <2> QED
    BY <2>4, <2>5, <2>6, <2>7, <2>8, <2>9
<1>5. CASE pc' = "failed" /\ batch' = [batch EXCEPT !.on = @ \ ToLift]
  <2>1. batch' = [nets |-> batch.nets, again |-> batch.again, on |-> batch.on \ ToLift,
                  took |-> batch.took, old |-> batch.old, fresh |-> batch.fresh]
    BY <1>1, <1>5 DEF BatchRecord
  <2>2. Typed'
    <3>1. batch' \in BatchRecord
      BY <1>1, <2>1 DEF BatchRecord
    <3> QED
      BY <1>1, <3>1 DEF Typed
  <2>3. BatchFits' /\ Rooted' /\ Legal' /\ Barred'
    BY <1>1, <1>2, <1>5, <2>1 DEF BatchFits, Rooted, Legal, Barred
  <2>4. Counted'
    BY <1>3, <2>1
  <2> QED
    BY <2>2, <2>3, <2>4
<1> QED
  BY <1>4, <1>5 DEF Round, Fail

\* What is left of a batch b after its net i.
LEMMA AfterFacts ==
  ASSUME NEW b \in BatchRecord, NEW i
  PROVE  /\ BatchAfter(b, i) \in BatchRecord
         /\ b.nets \ {i} # {} =>
              /\ BatchAfter(b, i).nets = b.nets \ {i} /\ BatchAfter(b, i).again = b.again
              /\ BatchAfter(b, i).on = b.on /\ BatchAfter(b, i).old = b.old
              /\ BatchAfter(b, i).fresh = b.fresh /\ BatchAfter(b, i).took = b.took
         /\ b.nets \ {i} = {} /\ b.again # {} =>
              /\ BatchAfter(b, i).nets = b.again /\ BatchAfter(b, i).again = {}
              /\ BatchAfter(b, i).on = b.on /\ BatchAfter(b, i).old = b.old
              /\ BatchAfter(b, i).fresh = None
         /\ b.nets \ {i} = {} /\ b.again = {} => BatchAfter(b, i) = NoBatch
<1> DEFINE left == [b EXCEPT !.nets = @ \ {i}]
<1>1. left = [nets |-> b.nets \ {i}, again |-> b.again, on |-> b.on, took |-> b.took,
              old |-> b.old, fresh |-> b.fresh]
  BY DEF BatchRecord
<1>2. BatchAfter(b, i) = IF left.nets # {} THEN left
                         ELSE IF left.again = {} THEN NoBatch
                         ELSE [left EXCEPT !.nets = left.again, !.again = {}, !.fresh = None]
  BY DEF BatchAfter
<1> HIDE DEF left
<1>3. CASE b.nets \ {i} # {}
  BY <1>1, <1>2, <1>3 DEF BatchRecord
<1>4. CASE b.nets \ {i} = {} /\ b.again = {}
  BY <1>1, <1>2, <1>4, NoBatchFacts
<1>5. CASE b.nets \ {i} = {} /\ b.again # {}
  <2>1. BatchAfter(b, i) = [nets |-> b.again, again |-> {}, on |-> b.on, took |-> b.took,
                            old |-> b.old, fresh |-> None]
    BY <1>1, <1>2, <1>5
  <2> QED
    BY <1>5, <2>1 DEF BatchRecord, None
<1> QED
  BY <1>3, <1>4, <1>5

\* The old tree of net i goes off the occupancy, unless it is already, and
\* the new one on it; no other net's nodes change.
LEMMA CommittedFacts ==
  ASSUME IInv, pc = "commit", NEW i \in batch.nets, NEW P \in SUBSET Edge, P # {},
         \A e \in P : Group[e] \notin banned[i],
         Committed(i, P), UNCHANGED <<iteration, banned, todo, rep>>
  PROVE  IInv'
<1> USE DEF IInv
<1> DEFINE cleared == [batch.old EXCEPT ![i] = {}]
           after == [batch EXCEPT !.on = @ \ {i}, !.old = cleared, !.took = @ \cup Nodes(i, P)]
<1>0. PICK b : b = after
  OBVIOUS
<1>1. batch \in BatchRecord /\ i \in Net /\ batch.nets \cap batch.again = {}
      /\ batch.on \subseteq batch.nets \cup batch.again
  BY DEF Typed, BatchFits, BatchRecord
<1>2. /\ b = [nets |-> batch.nets, again |-> batch.again, on |-> batch.on \ {i},
              took |-> batch.took \cup Nodes(i, P), old |-> cleared,
              fresh |-> batch.fresh]
      /\ b \in BatchRecord
  <2>1. Nodes(i, P) \subseteq Node
    BY <1>1, NodesFacts
  <2>2. b = [nets |-> batch.nets, again |-> batch.again, on |-> batch.on \ {i},
             took |-> batch.took \cup Nodes(i, P), old |-> cleared,
             fresh |-> batch.fresh]
    <3> HIDE DEF cleared
    <3> QED
      BY <1>0, <1>1 DEF BatchRecord
  <2>3. cleared \in [Net -> SUBSET Edge]
    BY <1>1 DEF BatchRecord
  <2> HIDE DEF cleared, after
  <2> QED
    BY <1>1, <2>1, <2>2, <2>3 DEF BatchRecord
<1>3. /\ trees' = [trees EXCEPT ![i] = P]
      /\ occ' = Place(Ripped(i), {i}, trees')
      /\ batch' = BatchAfter(b, i)
      /\ pc' = StepAfter(b, i)
  BY <1>0 DEF Committed
<1> HIDE DEF after
<1>4. /\ trees' \in [Net -> SUBSET Edge] /\ trees'[i] = P
      /\ \A j \in Net \ {i} : trees'[j] = trees[j]
  BY <1>1, <1>3 DEF Typed
<1>5. /\ b.nets = batch.nets /\ b.again = batch.again /\ b.on = batch.on \ {i}
      /\ b.fresh = batch.fresh /\ b.old[i] = {}
      /\ \A j \in Net \ {i} : b.old[j] = batch.old[j]
  BY <1>1, <1>2 DEF BatchRecord
<1>6. /\ batch' \in BatchRecord
      /\ batch'.nets \cup batch'.again = (batch.nets \cup batch.again) \ {i}
      /\ batch'.on = batch.on \ {i}
      /\ batch'.on # {} => batch'.old = b.old
      /\ batch'.old \in {b.old, None}
      /\ batch'.fresh \in {batch.fresh, None}
      /\ batch'.nets \cap batch'.again = {}
  <2>1. batch' \in BatchRecord
    BY <1>2, <1>3, AfterFacts
  <2>2. CASE b.nets \ {i} # {}
    <3>1. /\ batch'.nets = b.nets \ {i} /\ batch'.again = b.again /\ batch'.on = b.on
          /\ batch'.old = b.old /\ batch'.fresh = b.fresh
      BY <1>2, <1>3, <2>2, AfterFacts
    <3> QED
      BY <1>1, <1>5, <2>1, <3>1
  <2>3. CASE b.nets \ {i} = {} /\ b.again # {}
    <3>1. /\ batch'.nets = b.again /\ batch'.again = {} /\ batch'.on = b.on
          /\ batch'.old = b.old /\ batch'.fresh = None
      <4>1. b.nets \ {i} = {} /\ b.again # {} =>
              /\ BatchAfter(b, i).nets = b.again /\ BatchAfter(b, i).again = {}
              /\ BatchAfter(b, i).on = b.on /\ BatchAfter(b, i).old = b.old
              /\ BatchAfter(b, i).fresh = None
        BY <1>2, AfterFacts
      <4> QED
        BY <1>3, <2>3, <4>1
    <3> QED
      BY <1>1, <1>5, <2>1, <2>3, <3>1
  <2>4. CASE b.nets \ {i} = {} /\ b.again = {}
    <3>1. batch' = NoBatch
      BY <1>2, <1>3, <2>4, AfterFacts
    <3> QED
      BY <1>1, <1>5, <2>1, <2>4, <3>1, NoBatchFacts DEF None
  <2> QED
    BY <2>2, <2>3, <2>4
<1>7. \/ pc' = "commit" /\ batch'.nets # {} /\ batch'.fresh = batch.fresh /\ batch'.nets \subseteq batch.nets
      \/ pc' = "round" /\ batch'.nets # {} /\ batch'.again = {}
      \/ pc' = "batches" /\ batch' = NoBatch
  <2>1. b.nets # {i} <=> b.nets \ {i} # {}
    BY <1>5
  <2>2. CASE b.nets \ {i} # {}
    <3>1. batch'.nets = b.nets \ {i} /\ batch'.fresh = b.fresh
      BY <1>2, <1>3, <2>2, AfterFacts
    <3>2. pc' = "commit"
      BY <1>3, <2>1, <2>2 DEF StepAfter
    <3> QED
      BY <1>5, <2>2, <3>1, <3>2
  <2>3. CASE b.nets \ {i} = {} /\ b.again # {}
    <3>1. batch'.nets = b.again /\ batch'.again = {}
      BY <1>2, <1>3, <2>3, AfterFacts
    <3>2. pc' = "round"
      BY <1>3, <2>1, <2>3 DEF StepAfter
    <3> QED
      BY <2>3, <3>1, <3>2
  <2>4. CASE b.nets \ {i} = {} /\ b.again = {}
    BY <1>2, <1>3, <2>1, <2>4, AfterFacts DEF StepAfter
  <2> QED
    BY <2>2, <2>3, <2>4
<1>8. Typed'
  BY <1>4, <1>6 DEF Typed
<1>9. BatchFits'
  <2>1. batch'.on \subseteq batch'.nets \cup batch'.again
    BY <1>1, <1>6
  <2>2. \A j \in batch'.nets \cup batch'.again : trees'[j] = {}
    BY <1>1, <1>4, <1>6 DEF BatchFits, BatchRecord
  <2>3. pc' = "commit" => \A j \in batch'.nets : batch'.fresh[j] # {}
    BY <1>7 DEF BatchFits
  <2> QED
    BY <1>6, <1>7, <2>1, <2>2, <2>3 DEF BatchFits
<1>10. Counted'
  <2> DEFINE k == [j \in Net |-> IF j = i THEN {} ELSE HeldBy[j]]
  <2>1. trees[i] = {}
    BY DEF BatchFits
  <2>2. Counts(Ripped(i), k)
    <3>1. CASE i \in batch.on
      <4>1. HeldBy[i] = Nodes(i, batch.old[i])
        BY <1>1, <2>1, <3>1, NodesEmpty DEF HeldBy, Held
      <4>2. /\ \A j \in {i} : Nodes(j, batch.old[j]) \subseteq HeldBy[j]
            /\ \A j \in {i} : k[j] = HeldBy[j] \ Nodes(j, batch.old[j])
            /\ \A j \in Net \ {i} : k[j] = HeldBy[j]
        BY <1>1, <4>1
      <4>3. {i} \in SUBSET Net /\ Counts(occ, HeldBy)
        BY <1>1 DEF Counted
      <4> HIDE DEF k
      <4>4. Counts(Lift(occ, {i}, batch.old), k)
        BY <4>2, <4>3, LiftCounts
      <4> QED
        BY <3>1, <4>4 DEF Ripped
    <3>2. CASE i \notin batch.on
      <4>1. HeldBy[i] = {}
        BY <1>1, <2>1, <3>2, NodesEmpty DEF HeldBy, Held
      <4>2. k = HeldBy
        BY <4>1 DEF HeldBy
      <4> QED
        BY <3>2, <4>2 DEF Ripped, Counted
    <3> QED
      BY <3>1, <3>2
  <2>3. HeldBy'[i] = Nodes(i, P)
    BY <1>1, <1>4, <1>6 DEF HeldBy, Held
  <2>4. \A j \in Net \ {i} : HeldBy'[j] = HeldBy[j]
    BY <1>4, <1>5, <1>6 DEF HeldBy, Held
  <2>5. /\ \A j \in {i} : k[j] = {}
        /\ \A j \in {i} : HeldBy'[j] = Nodes(j, trees'[j])
        /\ \A j \in Net \ {i} : HeldBy'[j] = k[j]
    BY <1>1, <1>4, <2>3, <2>4
  <2>6. {i} \in SUBSET Net
    BY <1>1
  <2> HIDE DEF k
  <2>7. Counts(Place(Ripped(i), {i}, trees'), HeldBy')
    BY <2>2, <2>5, <2>6, PlaceCounts
  <2> QED
    BY <1>3, <2>7 DEF Counted, Counts
<1>11. Rooted'
  <2>1. pc' # "failed" /\ iteration' = iteration /\ iteration # 0 /\ todo' = todo
    BY <1>7 DEF Rooted
  <2>2. \A j \in Net : trees'[j] = {} => \/ iteration = 1 /\ j \in todo
                                         \/ j \in batch'.nets \cup batch'.again
    BY <1>4, <1>6, <2>1 DEF Rooted
  <2> QED
    BY <1>7, <2>1, <2>2 DEF Rooted
<1>12. Legal'
  BY <1>7 DEF Legal
<1>13. Barred'
  <2>1. Outside(trees, banned)'
    BY <1>4 DEF Barred, Outside
  <2>2. Outside(Back, banned)'
    BY <1>7, <2>1 DEF Back, Outside
  <2>3. Outside(batch.old, banned)'
    BY <1>5, <1>6 DEF Barred, Outside, None
  <2>4. Outside(batch.fresh, banned)'
    BY <1>6 DEF Barred, Outside, None
  <2> QED
    BY <1>7, <2>1, <2>2, <2>3, <2>4 DEF Barred
<1> QED
  BY <1>8, <1>9, <1>10, <1>11, <1>12, <1>13

LEMMA CommitStep == ASSUME IInv, Commit PROVE IInv'
<1> DEFINE i == First(batch.nets)
<1>1. pc = "commit" /\ Committed(i, batch.fresh[i]) /\ UNCHANGED <<iteration, banned, todo, rep>>
  BY DEF Commit
<1>2. i \in batch.nets /\ i \in Net /\ batch.fresh \in [Net -> SUBSET Edge]
  <2>1. batch.nets \in SUBSET Net /\ batch.nets # {} /\ batch.fresh \in [Net -> SUBSET Edge]
    BY <1>1 DEF IInv, BatchFits, Typed, BatchRecord
  <2> QED
    BY <2>1, FirstIn
<1>3. /\ batch.fresh[i] \in SUBSET Edge /\ batch.fresh[i] # {}
      /\ \A e \in batch.fresh[i] : Group[e] \notin banned[i]
  BY <1>1, <1>2 DEF IInv, BatchFits, Barred, Outside
<1> HIDE DEF i
<1> QED
  BY <1>1, <1>2, <1>3, CommittedFacts

LEMMA CommitReroutedStep == ASSUME IInv, CommitRerouted PROVE IInv'
<1> DEFINE i == First(batch.nets)
           kept == Start(i, batch.old[i], occ, 0)
<1>1. pc = "commit" /\ UNCHANGED <<iteration, banned, todo, rep>>
  BY DEF CommitRerouted
<1>2. PICK P \in Routes(i, kept, banned[i]) : Committed(i, P)
  BY DEF CommitRerouted
<1>3. i \in batch.nets /\ i \in Net
  <2>1. batch.nets \in SUBSET Net /\ batch.nets # {}
    BY <1>1 DEF IInv, BatchFits, Typed, BatchRecord
  <2> QED
    BY <2>1, FirstIn
<1>4. \A e \in kept : Group[e] \notin banned[i]
  <2>1. kept \subseteq batch.old[i]
    BY StartFacts
  <2> QED
    BY <1>1, <1>3, <2>1 DEF IInv, Barred, Outside
<1> HIDE DEF i, kept
<1>5. P \in SUBSET Edge /\ P # {} /\ \A e \in P : Group[e] \notin banned[i]
  BY <1>3, <1>4, RoutesFacts
<1> QED
  BY <1>1, <1>2, <1>3, <1>5, CommittedFacts

\* A net that collided is put off; its old tree stays where it was.
LEMMA CommitAgainStep == ASSUME IInv, CommitAgain PROVE IInv'
<1> USE DEF IInv
<1> DEFINE i == First(batch.nets)
           b == [batch EXCEPT !.again = @ \cup {i}]
<1>1. /\ pc = "commit" /\ UNCHANGED <<iteration, trees, occ, banned, todo, rep>>
      /\ batch' = BatchAfter(b, i) /\ pc' = StepAfter(b, i)
  BY DEF CommitAgain
<1>2. i \in batch.nets /\ i \in Net /\ batch \in BatchRecord
  <2>1. batch.nets \in SUBSET Net /\ batch.nets # {} /\ batch \in BatchRecord
    BY <1>1 DEF BatchFits, Typed, BatchRecord
  <2> QED
    BY <2>1, FirstIn
<1>3. /\ b \in BatchRecord /\ b.nets = batch.nets /\ b.again = batch.again \cup {i}
      /\ b.on = batch.on /\ b.old = batch.old /\ b.fresh = batch.fresh
  BY <1>2 DEF BatchRecord
<1> HIDE DEF b, i
<1>4. /\ batch' \in BatchRecord
      /\ batch'.nets \cup batch'.again = batch.nets \cup batch.again
      /\ batch'.on = batch.on /\ batch'.old = batch.old
      /\ batch'.fresh \in {batch.fresh, None}
      /\ batch'.nets \cap batch'.again = {}
      /\ batch'.nets # {}
      /\ \/ pc' = "commit" /\ batch'.fresh = batch.fresh /\ batch'.nets \subseteq batch.nets
         \/ pc' = "round" /\ batch'.again = {}
  <2>1. batch.nets \cap batch.again = {} /\ b.again # {}
        /\ (b.nets # {i} <=> b.nets \ {i} # {})
    BY <1>2, <1>3 DEF BatchFits
  <2>2. CASE b.nets \ {i} # {}
    BY <1>1, <1>2, <1>3, <2>1, <2>2, AfterFacts DEF StepAfter
  <2>3. CASE b.nets \ {i} = {}
    BY <1>1, <1>2, <1>3, <2>1, <2>3, AfterFacts DEF StepAfter
  <2> QED
    BY <2>2, <2>3
<1>5. Typed'
  BY <1>1, <1>4 DEF Typed
<1>6. BatchFits'
  BY <1>1, <1>4 DEF BatchFits
<1>7. Counted'
  <2>1. HeldBy' = HeldBy
    BY <1>1, <1>4 DEF HeldBy, Held
  <2> QED
    BY <1>1, <2>1 DEF Counted, Counts
<1>8. Rooted'
  BY <1>1, <1>4 DEF Rooted
<1>9. Legal'
  BY <1>4 DEF Legal
<1>10. Barred'
  <2>1. Outside(trees, banned)' /\ Outside(batch.old, banned)' /\ Outside(batch.fresh, banned)'
    BY <1>1, <1>4 DEF Barred, Outside, None
  <2>2. Outside(Back, banned)'
    BY <1>4, <2>1 DEF Back, Outside
  <2> QED
    BY <1>1, <2>1, <2>2 DEF Barred
<1> QED
  BY <1>5, <1>6, <1>7, <1>8, <1>9, <1>10

\* Only nets that use exclusive pips are barred, and those are rerouted with
\* the bar in force.
LEMMA BarStep == ASSUME IInv, Bar PROVE IInv'
<1> USE DEF IInv
<1> DEFINE breaks == Breaks(Uses(trees))
           redo == {b[1] : b \in breaks}
           routes == [i \in redo |-> Routes(i, {}, banned'[i])]
<1>1. /\ pc = "analyse" /\ batch = NoBatch /\ UNCHANGED <<iteration, todo, batch, rep>>
      /\ banned' = [i \in Net |-> banned[i] \cup {b[2] : b \in {c \in breaks : c[1] = i}}]
  BY DEF Bar, BatchFits
<1>2. redo \in SUBSET Net
  <2>1. DOMAIN trees = Net
    BY DEF Typed
  <2>2. \A u \in Uses(trees) : u[1] \in Net
    BY <2>1, UsesFacts
  <2>3. \A b \in breaks : b[1] \in Net
    BY <2>2, BreaksFacts
  <2> HIDE DEF breaks
  <2> QED
    BY <2>3
<1>3. CASE \E fresh \in OneEach(routes) :
             /\ trees' = [i \in Net |-> IF i \in redo THEN fresh[i] ELSE trees[i]]
             /\ occ' = Place(Lift(occ, redo, trees), redo, trees')
             /\ pc' = "begin"
  <2>1. PICK fresh \in OneEach(routes) :
             /\ trees' = [i \in Net |-> IF i \in redo THEN fresh[i] ELSE trees[i]]
             /\ occ' = Place(Lift(occ, redo, trees), redo, trees')
             /\ pc' = "begin"
    BY <1>3
  <2>2. ASSUME NEW i \in redo
        PROVE  fresh[i] \in SUBSET Edge /\ fresh[i] # {}
               /\ \A e \in fresh[i] : Group[e] \notin banned'[i]
    <3>1. fresh[i] \in Routes(i, {}, banned'[i])
      BY OneEachFacts
    <3> HIDE DEF redo, routes, breaks
    <3>2. i \in Net
      BY <1>2
    <3> QED
      BY <3>1, <3>2, RoutesFacts
  <2>3. \A i \in Net \ redo : trees'[i] = trees[i] /\ banned'[i] = banned[i]
    <3>1. \A i \in Net \ redo : {b[2] : b \in {c \in breaks : c[1] = i}} = {}
      OBVIOUS
    <3> QED
      BY <1>1, <2>1, <3>1
  <2>4. \A i \in redo : trees'[i] = fresh[i]
    BY <1>2, <2>1
  <2> HIDE DEF redo, routes, breaks
  <2>5. trees' \in [Net -> SUBSET Edge]
    BY <1>2, <2>1, <2>2 DEF Typed
  <2>6. Typed'
    BY <1>1, <2>5 DEF Typed
  <2>7. BatchFits'
    BY <1>1, <2>1, NoBatchFacts DEF BatchFits
  <2>8. Counted'
    BY <1>1, <1>2, <2>1, <2>3, SwapCounted
  <2>9. Rooted'
    BY <1>1, <1>2, <2>1, <2>2, <2>3, <2>4, NoBatchFacts DEF Rooted
  <2>10. Legal'
    BY <2>1 DEF Legal
  <2>11. Barred'
    <3>1. Outside(trees, banned)'
      BY <1>1, <1>2, <2>2, <2>3, <2>4 DEF Barred, Outside
    <3>2. \A i \in Net : Back'[i] = trees'[i]
      BY <2>1 DEF Back
    <3>3. Outside(batch.old, banned)' /\ Outside(batch.fresh, banned)'
      BY <1>1, NoBatchFacts DEF Outside
    <3>4. banned' = [i \in Net |-> banned'[i]]
      BY <1>1
    <3> QED
      BY <3>1, <3>2, <3>3, <3>4 DEF Barred, Outside
  <2> QED
    BY <2>6, <2>7, <2>8, <2>9, <2>10, <2>11
<1>4. CASE pc' = "failed" /\ UNCHANGED <<trees, occ>>
  <2>1. Typed' /\ BatchFits' /\ Rooted' /\ Legal' /\ Barred'
    BY <1>1, <1>4, NoBatchFacts DEF Typed, BatchFits, Rooted, Legal, Barred
  <2>2. Counted'
    BY <1>1, <1>4, CountedSame
  <2> QED
    BY <2>1, <2>2
<1> QED
  BY <1>3, <1>4 DEF Bar, Fail

-----------------------------------------------------------------------------
(* A repair.                                                               *)

LEMMA RepairNetStep == ASSUME IInv, RepairNet PROVE IInv' /\ Back' = Back
<1> USE DEF IInv
<1>1. /\ pc = "nets" /\ batch = NoBatch
      /\ UNCHANGED <<iteration, banned, todo, batch, limit>>
  BY DEF RepairNet, BatchFits
<1>2. PICK c \in rep.todo :
        \/ \E P \in Routes(c.net, {}, banned[c.net]) :
             /\ trees' = [trees EXCEPT ![c.net] = P]
             /\ occ' = Place(Lift(occ, {c.net}, trees), {c.net}, trees')
             /\ rep' = [rep EXCEPT !.todo = @ \ {c}, !.net = c.net, !.tries = 0,
                                   !.saved = [j \in {c.net} |-> trees[j]]]
             /\ pc' = "displace"
        \/ /\ rep' = [rep EXCEPT !.todo = @ \ {c}]
           /\ UNCHANGED <<pc, trees, occ>>
  BY DEF RepairNet
<1>3. PICK i : i = c.net
  OBVIOUS
<1>4. i \in Net
  BY <1>3 DEF Typed
<1>5. CASE \E P \in Routes(i, {}, banned[i]) :
             /\ trees' = [trees EXCEPT ![i] = P]
             /\ occ' = Place(Lift(occ, {i}, trees), {i}, trees')
             /\ rep' = [rep EXCEPT !.todo = @ \ {c}, !.net = i, !.tries = 0,
                                   !.saved = [j \in {i} |-> trees[j]]]
             /\ pc' = "displace"
  <2>1. PICK P \in Routes(i, {}, banned[i]) :
             /\ trees' = [trees EXCEPT ![i] = P]
             /\ occ' = Place(Lift(occ, {i}, trees), {i}, trees')
             /\ rep' = [rep EXCEPT !.todo = @ \ {c}, !.net = i, !.tries = 0,
                                   !.saved = [j \in {i} |-> trees[j]]]
             /\ pc' = "displace"
    BY <1>5
  <2>2. P \in SUBSET Edge /\ P # {} /\ \A e \in P : Group[e] \notin banned[i]
    BY <1>4, RoutesFacts
  <2>3. trees' \in [Net -> SUBSET Edge] /\ trees'[i] = P
        /\ \A j \in Net \ {i} : trees'[j] = trees[j]
    BY <1>4, <2>1, <2>2 DEF Typed
  <2>4. PICK saved : saved = [j \in {i} |-> trees[j]]
    OBVIOUS
  <2>5. rep' = [round |-> rep.round, todo |-> rep.todo \ {c}, improved |-> rep.improved,
                users |-> rep.users, net |-> i, saved |-> saved,
                tries |-> 0, moving |-> rep.moving]
    BY <2>1, <2>4 DEF Typed
  <2>6. DOMAIN saved = {i} /\ saved[i] = trees[i]
    BY <2>4
  <2>7. Typed'
    BY <1>1, <1>4, <2>3, <2>5, <2>6 DEF Typed
  <2>8. BatchFits'
    BY <1>1, <2>1, NoBatchFacts DEF BatchFits
  <2>9. Counted'
    BY <1>1, <1>4, <2>1, <2>3, SwapCounted
  <2>10. Rooted'
    BY <1>1, <1>4, <2>1, <2>2, <2>3, NoBatchFacts DEF Rooted
  <2>11. Back' = Back
    <3>1. \A j \in Net : Back'[j] = Back[j]
      <4> SUFFICES ASSUME NEW j \in Net
                   PROVE  Back'[j] = trees[j]
        BY <1>1 DEF Back
      <4>1. rep'.saved = saved
        BY <2>5
      <4>2. CASE j = i
        BY <2>1, <2>6, <4>1, <4>2 DEF Back
      <4>3. CASE j # i
        BY <2>1, <2>3, <2>6, <4>1, <4>3 DEF Back
      <4> QED
        BY <4>2, <4>3
    <3> QED
      BY <3>1 DEF Back
  <2>12. Legal'
    BY <1>1, <2>1, <2>11 DEF Legal, Apart
  <2>13. Barred'
    <3>1. Outside(trees, banned)'
      BY <1>1, <1>4, <2>2, <2>3 DEF Barred, Outside
    <3> QED
      BY <1>1, <2>11, <3>1 DEF Barred, Outside
  <2> QED
    BY <2>7, <2>8, <2>9, <2>10, <2>11, <2>12, <2>13
<1>6. CASE /\ rep' = [rep EXCEPT !.todo = @ \ {c}]
           /\ UNCHANGED <<pc, trees, occ>>
  <2>1. rep' = [round |-> rep.round, todo |-> rep.todo \ {c}, improved |-> rep.improved,
                users |-> rep.users, net |-> rep.net, saved |-> rep.saved,
                tries |-> rep.tries, moving |-> rep.moving]
    BY <1>6 DEF Typed
  <2>2. Typed'
    BY <1>1, <1>6, <2>1 DEF Typed
  <2>3. BatchFits' /\ Rooted'
    BY <1>1, <1>6 DEF BatchFits, Rooted
  <2>4. Counted'
    BY <1>1, <1>6, CountedSame
  <2>5. Back' = Back
    BY <1>1, <1>6, BackSame
  <2>6. Legal'
    BY <1>1, <1>6, <2>5 DEF Legal, Apart
  <2>7. Barred'
    BY <1>1, <1>6, <2>5, BarredSame
  <2> QED
    BY <2>2, <2>3, <2>4, <2>5, <2>6, <2>7
<1> QED
  BY <1>2, <1>3, <1>5, <1>6

\* The first move of a net saves the tree it had: the way back stays as it is.
LEMMA MoveStep == ASSUME IInv, Move PROVE IInv' /\ Back' = Back
<1> USE DEF IInv
<1>1. /\ pc = "move" /\ pc' \in {"displace", "move"} /\ batch = NoBatch
      /\ UNCHANGED <<iteration, banned, todo, batch, limit>>
  BY DEF Move, BatchFits
<1>2. PICK j : j = First(rep.moving)
  OBVIOUS
<1>3. j \in Net
  <2>1. rep.moving \in SUBSET Net /\ rep.moving # {}
    BY <1>1 DEF Typed, Legal
  <2> QED
    BY <1>2, <2>1, FirstIn
<1> DEFINE kept == Kept(j, trees[j], Lift(occ, {j}, trees), 0, critical[j])
<1>4. PICK P \in Routes(j, kept, banned[j]) :
        /\ trees' = [trees EXCEPT ![j] = P]
        /\ occ' = Place(Lift(occ, {j}, trees), {j}, trees')
  BY <1>2 DEF Move
<1>5. /\ rep' = [rep EXCEPT !.moving = @ \ {j}, !.saved = Saving(@, j)]
      /\ pc' = IF rep.moving = {j} THEN "displace" ELSE "move"
  BY <1>2 DEF Move
<1>6. P \in SUBSET Edge /\ P # {} /\ \A e \in P : Group[e] \notin banned[j]
  <2>1. kept \subseteq trees[j]
    BY DEF Kept
  <2>2. \A e \in trees[j] : Group[e] \notin banned[j]
    BY <1>1, <1>3 DEF Barred, Outside
  <2> HIDE DEF kept
  <2>3. \A e \in kept : Group[e] \notin banned[j]
    BY <2>1, <2>2
  <2> QED
    BY <1>3, <1>4, <2>3, RoutesFacts
<1>7. trees' \in [Net -> SUBSET Edge] /\ trees'[j] = P
      /\ \A k \in Net \ {j} : trees'[k] = trees[k]
  BY <1>3, <1>4, <1>6 DEF Typed
<1>8. PICK saved : saved = Saving(rep.saved, j)
  OBVIOUS
<1>9. rep' = [round |-> rep.round, todo |-> rep.todo, improved |-> rep.improved,
              users |-> rep.users, net |-> rep.net, saved |-> saved,
              tries |-> rep.tries, moving |-> rep.moving \ {j}]
  BY <1>5, <1>8 DEF Typed
<1>10. /\ DOMAIN saved = DOMAIN rep.saved \cup {j}
       /\ \A k \in DOMAIN rep.saved : saved[k] = rep.saved[k]
       /\ j \notin DOMAIN rep.saved => saved[j] = trees[j]
  BY <1>8 DEF Saving
<1>11. Typed'
  <2>1. \A k \in DOMAIN saved : k \in Net /\ saved[k] \in SUBSET Edge
    BY <1>3, <1>10 DEF Typed
  <2> QED
    BY <1>1, <1>7, <1>9, <2>1 DEF Typed
<1>12. BatchFits'
  BY <1>1, NoBatchFacts DEF BatchFits
<1>13. Counted'
  BY <1>1, <1>3, <1>4, <1>7, SwapCounted
<1>14. Rooted'
  BY <1>1, <1>3, <1>6, <1>7, NoBatchFacts DEF Rooted
<1>15. Back' = Back
  <2>1. \A k \in Net : Back'[k] = Back[k]
    <3> SUFFICES ASSUME NEW k \in Net
                 PROVE  Back'[k] = Back[k]
      OBVIOUS
    <3>1. /\ Back[k] = IF k \in DOMAIN rep.saved THEN rep.saved[k] ELSE trees[k]
          /\ Back'[k] = IF k \in DOMAIN saved THEN saved[k] ELSE trees'[k]
      BY <1>1, <1>9 DEF Back
    <3>2. CASE k = j
      BY <1>10, <3>1, <3>2
    <3>3. CASE k # j
      BY <1>7, <1>10, <3>1, <3>3
    <3> QED
      BY <3>2, <3>3
  <2> QED
    BY <2>1 DEF Back
<1>16. Legal'
  <2>1. pc' = "move" => rep'.moving # {}
    BY <1>1, <1>5, <1>9 DEF Legal
  <2> QED
    BY <1>1, <1>15, <2>1 DEF Legal, Apart
<1>17. Barred'
  <2>1. Outside(trees, banned)'
    BY <1>1, <1>3, <1>6, <1>7 DEF Barred, Outside
  <2> QED
    BY <1>1, <1>15, <2>1 DEF Barred, Outside
<1> QED
  BY <1>11, <1>12, <1>13, <1>14, <1>15, <1>16, <1>17

\* Everything saved goes back.
LEMMA UndoStep == ASSUME IInv, Undo PROVE IInv' /\ Back' = Back
<1> USE DEF IInv
<1>1. /\ pc = "displace" /\ pc' = "nets" /\ batch = NoBatch
      /\ UNCHANGED <<iteration, banned, todo, batch, limit>>
  BY DEF Undo, BatchFits
<1>2. PICK moved : moved = DOMAIN rep.saved
  OBVIOUS
<1>3. /\ trees' = [i \in Net |-> IF i \in moved THEN rep.saved[i] ELSE trees[i]]
      /\ occ' = Place(Lift(occ, moved, trees), moved, trees')
      /\ rep' = [rep EXCEPT !.net = 0, !.saved = <<>>, !.tries = 0]
  BY <1>2 DEF Undo
<1>4. moved \in SUBSET Net /\ \A i \in moved : rep.saved[i] \in SUBSET Edge
  BY <1>2 DEF Typed
<1>5. trees' \in [Net -> SUBSET Edge] /\ \A i \in Net \ moved : trees'[i] = trees[i]
  BY <1>3, <1>4 DEF Typed
<1>6. trees' = Back
  BY <1>1, <1>2, <1>3 DEF Back
<1>7. Back' = Back
  <2>1. Back' = [i \in Net |-> trees'[i]]
    BY <1>1 DEF Back
  <2> QED
    BY <1>5, <1>6, <2>1
<1>8. Typed'
  <2>1. rep' = [round |-> rep.round, todo |-> rep.todo, improved |-> rep.improved,
                users |-> rep.users, net |-> 0, saved |-> <<>>,
                tries |-> 0, moving |-> rep.moving]
    BY <1>3 DEF Typed
  <2> QED
    BY <1>1, <1>5, <2>1 DEF Typed
<1>9. BatchFits'
  BY <1>1, NoBatchFacts DEF BatchFits
<1>10. Counted'
  BY <1>1, <1>3, <1>4, <1>5, SwapCounted
<1>11. Rooted'
  <2>1. \A i \in Net : trees'[i] # {}
    BY <1>1, <1>6 DEF Legal
  <2> QED
    BY <1>1, <2>1 DEF Rooted
<1>12. Legal'
  BY <1>1, <1>7 DEF Legal, Apart
<1>13. Barred'
  BY <1>1, <1>6, <1>7 DEF Barred, Outside
<1> QED
  BY <1>7, <1>8, <1>9, <1>10, <1>11, <1>12, <1>13

-----------------------------------------------------------------------------
(* The theorems.                                                           *)

LEMMA NextIInv == IInv /\ [Next]_vars => IInv'
<1> SUFFICES ASSUME IInv, [Next]_vars
             PROVE  IInv'
  OBVIOUS
<1>1. CASE UNCHANGED vars
  <2>1. UNCHANGED <<pc, iteration, trees, occ, banned, todo, batch, limit, rep>>
    BY <1>1 DEF vars
  <2>2. Typed' /\ BatchFits' /\ Rooted'
    BY <2>1 DEF IInv, Typed, BatchFits, Rooted
  <2>3. Counted'
    BY <2>1, CountedSame DEF IInv
  <2>4. Back' = Back
    BY <2>1 DEF Back
  <2>5. Legal' /\ Barred'
    BY <2>1, <2>4 DEF IInv, Legal, Barred, Apart, Outside
  <2> QED
    BY <2>2, <2>3, <2>5 DEF IInv
<1>2. CASE Next
  BY <1>2, BeginStep, GiveUpStep, KeepStep, RerouteStep, NextBatchStep, RoundStep, CommitStep,
     CommitAgainStep, CommitReroutedStep, AnalyseStep, BarStep, FinishStep, RepairRoundStep,
     RepairDoneStep, ImprovedStep, RepairNetStep, DisplaceStep, MoveStep, AcceptStep, UndoStep
     DEF Next
<1> QED
  BY <1>1, <1>2

\* The invariant holds of every behaviour of the router.
THEOREM Inductive == Spec => []IInv
<1>1. Init => IInv
  BY InitIInv
<1>2. IInv /\ [Next]_vars => IInv'
  BY NextIInv
<1> QED
  BY <1>1, <1>2, PTL DEF Spec

\* The occupancy counts the nets using each node at every step
\* (`Router::lift`, `Router::place_tree` and the batches' commits).
THEOREM Occupancy == Spec => []OccIsUse
<1>1. IInv => OccIsUse
  <2> SUFFICES ASSUME IInv, NEW n \in Node
               PROVE  occ[n] = Cardinality({i \in Net : n \in Held(i)})
    BY DEF OccIsUse
  <2>1. {i \in Net : n \in Held(i)} = {i \in Net : n \in HeldBy[i]}
    BY DEF HeldBy
  <2> QED
    BY <2>1 DEF IInv, Counted, Counts
<1> QED
  BY <1>1, Inductive, PTL

\* From the first legal routing on, between repairs and at the end, no node
\* is two nets' and every net has a tree (`Router::repair_critical`).
THEOREM Legality == Spec => []LegalBetweenRepairs
<1>1. IInv => LegalBetweenRepairs
  <2> SUFFICES ASSUME IInv, pc \in {"analyse", "repair", "nets", "done"}
               PROVE  Disjoint(Net) /\ \A i \in Net : trees[i] # {}
    BY DEF LegalBetweenRepairs
  <2>1. \A i \in Net : Back[i] = trees[i]
    BY DEF Back
  <2>2. Apart(Back) /\ \A i \in Net : Back[i] # {}
    BY DEF IInv, Legal
  <2> QED
    BY <2>1, <2>2 DEF Apart, Disjoint
<1> QED
  BY <1>1, Inductive, PTL

\* The critical path that is reported is that of the trees that are there
\* (`Router::repair_net`: the new analysis if the repair stays, and the trees
\* of the old one otherwise).
THEOREM Reported == Spec => []ReportedIsReal
<1>1. IInv => ReportedIsReal
  <2> SUFFICES ASSUME IInv, pc \in {"repair", "nets", "done"}
               PROVE  limit = Critical(trees)
    BY DEF ReportedIsReal
  <2>1. Back = trees
    BY DEF IInv, Typed, Back
  <2> QED
    BY <2>1 DEF IInv, Legal
<1> QED
  BY <1>1, Inductive, PTL

\* A net barred from a group is in no tree of it again (`Router::barred`),
\* kept branches and trees put back included.
THEOREM StayOut == Spec => []BarredStayOut
<1>1. IInv => BarredStayOut
  <2> SUFFICES ASSUME IInv, pc # "failed", NEW i \in Net
               PROVE  {Group[e] : e \in trees[i]} \cap banned[i] = {}
    BY DEF BarredStayOut
  <2>1. Outside(trees, banned)
    BY DEF IInv, Barred
  <2> QED
    BY <2>1 DEF Outside
<1> QED
  BY <1>1, Inductive, PTL

\* A repair that changes the critical path does not make it longer
\* (`Router::repair_net`, "if a.critical <= limit").
THEOREM NoSlower == Spec => NoRepairSlower
<1> DEFINE Faster == limit' # limit /\ pc \in {"displace", "nets"} => limit' <= limit
<1>1. ASSUME Next PROVE Faster
  <2>1. CASE Begin \/ GiveUp \/ Keep \/ Reroute \/ NextBatch \/ Round
    <3>1. pc = "begin" \/ pc = "single" \/ pc = "batches" \/ pc = "round"
      BY <2>1, Zenon DEF Begin, GiveUp, Keep, Reroute, NextBatch, Round
    <3> QED
      BY <3>1
  <2>2. CASE Commit \/ CommitAgain \/ CommitRerouted
    <3>1. pc = "commit"
      BY <2>2 DEF Commit, CommitAgain, CommitRerouted
    <3> QED
      BY <3>1
  <2>3. CASE Analyse
    BY <2>3 DEF Analyse, EndOfIteration
  <2>4. CASE Bar
    BY <2>4 DEF Bar
  <2>5. CASE Finish \/ RepairRound \/ RepairDone \/ Improved \/ Displace
    BY <2>5 DEF Finish, RepairRound, RepairDone, Improved, Displace
  <2>6. CASE RepairNet \/ Move \/ Undo
    <3>1. limit' = limit
      BY <2>6, Zenon DEF RepairNet, Move, Undo
    <3> QED
      BY <3>1
  <2>7. CASE Accept
    BY <2>7 DEF Accept, Acceptable
  <2> QED
    BY <1>1, <2>1, <2>2, <2>3, <2>4, <2>5, <2>6, <2>7 DEF Next
<1> HIDE DEF Faster
<1>2. [Next]_vars => [Faster]_vars
  BY <1>1
<1>3. Spec => [][Faster]_vars
  BY <1>2, PTL DEF Spec
<1> QED
  BY <1>3 DEF NoRepairSlower, Faster

-----------------------------------------------------------------------------
(***************************************************************************)
(* Nets that commit side by side.                                          *)
(***************************************************************************)

\* No net's tree can run through another's source: a source is an output that
\* nothing drives, and a net has one of its own.
SourcesApart ==
  /\ \A i \in Net, e \in Edge : To[e] # Source[i]
  /\ \A i, j \in Net : Source[i] = Source[j] => i = j

\* What a round has taken is the nodes of the nets that committed in it, none
\* of them shared.
RoundFits ==
  pc = "commit" /\ mode.bucketed =>
    \E C \in SUBSET Net :
      /\ C \cap (batch.nets \cup batch.again) = {}
      /\ \A i, j \in C : i # j => Nodes(i, trees[i]) \cap Nodes(j, trees[j]) = {}
      /\ batch.took = UNION {Nodes(i, trees[i]) : i \in C}

LEMMA RoundFitsStep == ASSUME IInv, RoundFits, [Next]_vars PROVE RoundFits'
<1> SUFFICES ASSUME pc' = "commit", mode'.bucketed
             PROVE  RoundFits'
  BY DEF RoundFits
<1>0. batch \in BatchRecord /\ trees \in [Net -> SUBSET Edge]
  BY DEF IInv, Typed
<1>1. CASE Round
  <2>1. PICK f : batch' = [batch EXCEPT !.on = @ \ ToLift, !.took = NewStamp(@), !.fresh = f]
    BY <1>1, Zenon DEF Round, Fail
  <2>3. batch'.took = {}
    BY <1>0, <2>1 DEF NewStamp, BatchRecord
  <2>2. batch'.took = UNION {Nodes(i, trees'[i]) : i \in {}}
    BY <2>3
  <2> QED
    BY <2>2 DEF RoundFits
<1> DEFINE i == First(batch.nets)
<1>2. ASSUME pc = "commit" PROVE i \in batch.nets /\ i \in Net
  BY <1>0, <1>2, FirstIn DEF IInv, BatchFits, BatchRecord
<1> HIDE DEF i
<1>3. ASSUME pc = "commit", mode.bucketed, NEW P, Committed(i, P),
             P = batch.fresh[i], ~Collides(i), mode' = mode
      PROVE  RoundFits'
  <2>1. PICK C \in SUBSET Net :
          /\ C \cap (batch.nets \cup batch.again) = {}
          /\ \A j, k \in C : j # k => Nodes(j, trees[j]) \cap Nodes(k, trees[k]) = {}
          /\ batch.took = UNION {Nodes(j, trees[j]) : j \in C}
    BY <1>3 DEF RoundFits
  <2>2. i \in batch.nets /\ i \in Net
    BY <1>2, <1>3
  <2> DEFINE b == [batch EXCEPT !.on = @ \ {i}, !.old = [@ EXCEPT ![i] = {}],
                                !.took = @ \cup Nodes(i, P)]
  <2>3. trees' = [trees EXCEPT ![i] = P] /\ batch' = BatchAfter(b, i) /\ pc' = StepAfter(b, i)
    BY <1>3 DEF Committed
  <2>4. b \in BatchRecord
    <3>1. P \in SUBSET Edge
      BY <1>0, <1>3, <2>2 DEF BatchRecord
    <3>2. Nodes(i, P) \subseteq Node
      BY <2>2, <3>1, NodesFacts
    <3> QED
      BY <1>0, <3>2 DEF BatchRecord
  <2>5. b.nets = batch.nets /\ b.again = batch.again /\ b.took = batch.took \cup Nodes(i, P)
    BY <1>0 DEF BatchRecord
  <2> HIDE DEF b
  <2>6. b.nets # {i}
    BY <2>3 DEF StepAfter
  <2>7. batch'.nets = batch.nets \ {i} /\ batch'.again = batch.again /\ batch'.took = b.took
    BY <2>2, <2>3, <2>4, <2>5, <2>6, AfterFacts
  <2>8. trees'[i] = P /\ \A j \in C : trees'[j] = trees[j]
    BY <1>0, <2>1, <2>2, <2>3
  <2>9. Nodes(i, P) \cap batch.took = {}
    BY <1>3 DEF Collides
  <2> DEFINE D == C \cup {i}
  <2>10. D \in SUBSET Net /\ D \cap (batch'.nets \cup batch'.again) = {}
    BY <2>1, <2>2, <2>7 DEF IInv, BatchFits
  <2>11. \A j, k \in D : j # k => Nodes(j, trees'[j]) \cap Nodes(k, trees'[k]) = {}
    <3>1. \A j \in C : Nodes(j, trees[j]) \cap Nodes(i, P) = {}
      BY <2>1, <2>9
    <3> QED
      BY <2>1, <2>8, <3>1
  <2>12. batch'.took = UNION {Nodes(j, trees'[j]) : j \in D}
    <3> DEFINE U == UNION {Nodes(j, trees'[j]) : j \in D}
    <3> DEFINE V == UNION {Nodes(j, trees[j]) : j \in C}
    <3>1. \A n : n \in U <=> \E j \in D : n \in Nodes(j, trees'[j])
      OBVIOUS
    <3>2. \A n : n \in V <=> \E j \in C : n \in Nodes(j, trees[j])
      OBVIOUS
    <3>3. batch'.took = V \cup Nodes(i, P)
      BY <2>1, <2>5, <2>7
    <3>4. /\ \A j \in C : Nodes(j, trees'[j]) = Nodes(j, trees[j])
          /\ Nodes(i, trees'[i]) = Nodes(i, P)
      BY <2>8
    <3> SUFFICES batch'.took = U
      OBVIOUS
    <3>5. \A j : j \in D <=> j \in C \/ j = i
      OBVIOUS
    <3> HIDE DEF U, V, D
    <3> QED
      BY <3>1, <3>2, <3>3, <3>4, <3>5
  <2> HIDE DEF D
  <2> QED
    BY <2>10, <2>11, <2>12 DEF RoundFits
<1>4. CASE Commit
  BY <1>3, <1>4 DEF Commit, i
<1>5. CASE CommitAgain
  <2>1. PICK C \in SUBSET Net :
          /\ C \cap (batch.nets \cup batch.again) = {}
          /\ \A j, k \in C : j # k => Nodes(j, trees[j]) \cap Nodes(k, trees[k]) = {}
          /\ batch.took = UNION {Nodes(j, trees[j]) : j \in C}
    BY <1>5 DEF RoundFits, CommitAgain
  <2>2. i \in batch.nets /\ i \in Net
    BY <1>2, <1>5 DEF CommitAgain
  <2> DEFINE b == [batch EXCEPT !.again = @ \cup {i}]
  <2>3. trees' = trees /\ batch' = BatchAfter(b, i) /\ pc' = StepAfter(b, i)
    BY <1>5 DEF CommitAgain, i
  <2>4. b \in BatchRecord
    BY <1>0, <2>2 DEF BatchRecord
  <2>5. b.nets = batch.nets /\ b.again = batch.again \cup {i} /\ b.took = batch.took
    BY <1>0 DEF BatchRecord
  <2> HIDE DEF b
  <2>6. b.nets # {i}
    BY <2>3 DEF StepAfter
  <2>7. batch'.nets = batch.nets \ {i} /\ batch'.again = batch.again \cup {i} /\ batch'.took = batch.took
    BY <2>2, <2>3, <2>4, <2>5, <2>6, AfterFacts
  <2>8. C \cap (batch'.nets \cup batch'.again) = {}
    BY <2>1, <2>2, <2>7
  <2>9. \A j, k \in C : j # k => Nodes(j, trees'[j]) \cap Nodes(k, trees'[k]) = {}
    BY <2>1, <2>3
  <2>10. batch'.took = UNION {Nodes(j, trees'[j]) : j \in C}
    BY <2>1, <2>3, <2>7
  <2> QED
    BY <2>8, <2>9, <2>10 DEF RoundFits
<1>6. CASE UNCHANGED vars
  BY <1>6 DEF vars, RoundFits
<1>7. CASE Begin \/ GiveUp \/ Keep
  BY <1>7 DEF Begin, GiveUp, Keep, Fail
<1>8. CASE Reroute
  BY <1>8 DEF Reroute, Fail
<1>9. CASE NextBatch
  BY <1>9 DEF NextBatch
<1>10. CASE CommitRerouted
  BY <1>10 DEF CommitRerouted
<1>11. CASE Analyse \/ Bar \/ Finish
  BY <1>11 DEF Analyse, Bar, Finish, Fail
<1>12. CASE RepairRound \/ RepairDone \/ Improved
  BY <1>12 DEF RepairRound, RepairDone, Improved
<1>13. CASE RepairNet \/ Displace \/ Move
  <2>1. pc' # "commit"
    BY <1>13, Zenon DEF RepairNet, Displace, Move
  <2> QED
    BY <2>1
<1>14. CASE Accept \/ Undo
  BY <1>14 DEF Accept, Undo
<1> QED
  BY <1>1, <1>4, <1>5, <1>6, <1>7, <1>8, <1>9, <1>10, <1>11, <1>12, <1>13, <1>14 DEF Next

\* Once every source is its net's alone, the nets that committed in the round
\* are those whose nodes it has taken.
LEMMA RoundApart == ASSUME SourcesApart, IInv, RoundFits PROVE RoundsAreDisjoint
<1> SUFFICES ASSUME pc = "commit", mode.bucketed
             PROVE  Disjoint({i \in Net : trees[i] # {} /\ Nodes(i, trees[i]) \subseteq batch.took})
  BY DEF RoundsAreDisjoint
<1>1. PICK C \in SUBSET Net :
        /\ \A i, j \in C : i # j => Nodes(i, trees[i]) \cap Nodes(j, trees[j]) = {}
        /\ batch.took = UNION {Nodes(i, trees[i]) : i \in C}
  BY DEF RoundFits
<1>2. ASSUME NEW i \in Net, trees[i] # {}, Nodes(i, trees[i]) \subseteq batch.took
      PROVE  i \in C
  <2>1. Source[i] \in batch.took
    BY <1>2 DEF Nodes
  <2>2. PICK j \in C : Source[i] \in Nodes(j, trees[j])
    BY <1>1, <2>1
  <2>3. trees[j] \subseteq Edge
    BY DEF IInv, Typed
  <2>4. Source[i] = Source[j]
    BY <2>2, <2>3 DEF Nodes, SourcesApart
  <2> QED
    BY <2>4 DEF SourcesApart
<1> QED
  BY <1>1, <1>2 DEF Disjoint

-----------------------------------------------------------------------------
(* What it takes for nobody to have to leave a group.                      *)

LEMMA Smallest ==
  ASSUME NEW S \in SUBSET Nat, S # {}
  PROVE  \E x \in S : \A y \in S : x <= y
<1> DEFINE R == {p \in Nat \X Nat : p[1] < p[2]}
<1>1. IsWellFoundedOn(R, Nat)
  BY NatLessThanWellFounded DEF OpToRel
<1>2. \A x, y \in Nat : y < x <=> <<y, x>> \in R
  OBVIOUS
<1> HIDE DEF R
<1>3. PICK x \in S : \A y \in S : ~ (<<y, x>> \in R)
  BY <1>1, WFMin
<1>4. \A y \in S : x \in Nat /\ y \in Nat /\ ~ (y < x)
  BY <1>2, <1>3
<1>5. \A y \in S : x <= y
  BY <1>4
<1> QED
  BY <1>5

\* Of some uses one is the first.
LEMMA FirstUse ==
  ASSUME NEW S \in SUBSET (Nat \X Nat), S # {}
  PROVE  \E m \in S : \A w \in S : ~Earlier(w, m)
<1> DEFINE X == {w[1] : w \in S}
<1>1. X \in SUBSET Nat /\ X # {}
  OBVIOUS
<1>2. PICK x \in X : \A y \in X : x <= y
  <2> HIDE DEF X
  <2> QED
    BY <1>1, Smallest
<1> DEFINE Y == {w[2] : w \in {v \in S : v[1] = x}}
<1>3. Y \in SUBSET Nat /\ Y # {}
  OBVIOUS
<1>4. PICK z \in Y : \A y \in Y : z <= y
  <2> HIDE DEF X, Y
  <2> QED
    BY <1>3, Smallest
<1>5. PICK m \in S : m[1] = x /\ m[2] = z
  OBVIOUS
<1>6. ASSUME NEW w \in S PROVE ~Earlier(w, m)
  <2>1. x <= w[1] /\ (w[1] = x => z <= w[2])
    BY <1>2, <1>4
  <2>2. w[1] \in Nat /\ w[2] \in Nat /\ x \in Nat /\ z \in Nat
    BY <1>1, <1>3
  <2> HIDE DEF X, Y
  <2> QED
    BY <1>5, <2>1, <2>2 DEF Earlier
<1> QED
  BY <1>6

LEMMA EarlierFacts ==
  ASSUME NEW u \in Nat \X Nat, NEW v \in Nat \X Nat
  PROVE  ~Earlier(u, u) /\ (u[1] = v[1] /\ u # v => Earlier(u, v) \/ Earlier(v, u))
<1>1. u = <<u[1], u[2]>> /\ v = <<v[1], v[2]>>
  OBVIOUS
<1>2. u[1] \in Nat /\ u[2] \in Nat /\ v[1] \in Nat /\ v[2] \in Nat
  OBVIOUS
<1>3. u[1] = v[1] /\ u # v => u[2] # v[2]
  BY <1>1
<1> QED
  BY <1>2, <1>3 DEF Earlier

\* With nobody to leave, each bank has one use.
LEMMA OnePerBank ==
  ASSUME NEW uses \in SUBSET (Nat \X Nat), Breaks(uses) = {},
         NEW u \in uses, NEW v \in uses, BankOf(u[2]) = BankOf(v[2])
  PROVE  u = v
<1> DEFINE B == {w \in uses : BankOf(w[2]) = BankOf(u[2])}
<1>1. B \in SUBSET (Nat \X Nat) /\ u \in B /\ v \in B
  OBVIOUS
<1>2. PICK m \in B : \A w \in B : ~Earlier(w, m)
  <2> HIDE DEF B
  <2> QED
    BY <1>1, FirstUse
<1>3. m \in Firsts(uses)
  BY <1>2 DEF Firsts
<1>4. ASSUME NEW w \in B, w # m PROVE FALSE
  <2>1. BankOf(m[2]) = BankOf(w[2]) /\ w \in uses
    OBVIOUS
  <2> DEFINE crowded == {p \in Firsts(uses) \X uses :
                           p[1] # p[2] /\ BankOf(p[1][2]) = BankOf(p[2][2])}
  <2> DEFINE p == <<m, w>>
  <2>2. p \in crowded /\ p[2] = w
    BY <1>3, <1>4, <2>1
  <2>3. w \in {q[2] : q \in crowded}
    BY <2>2
  <2>4. {q[2] : q \in crowded} \subseteq Breaks(uses)
    BY DEF Breaks
  <2> QED
    BY <2>3, <2>4
<1> QED
  BY <1>1, <1>4

\* ... and a tile past its capacity has each net once.
LEMMA OncePerTile ==
  ASSUME NEW uses \in SUBSET (Nat \X Nat), IsFiniteSet(uses), Breaks(uses) = {},
         NEW t \in DOMAIN Capacity,
         Cardinality({u \in uses : TileOf(u[2]) = t}) > Capacity[t],
         NEW u \in uses, NEW v \in uses, TileOf(u[2]) = t, TileOf(v[2]) = t, u[1] = v[1]
  PROVE  u = v
<1>1. Firsts(uses) = uses
  <2> SUFFICES ASSUME NEW w \in uses, NEW x \in uses, BankOf(x[2]) = BankOf(w[2])
               PROVE  ~Earlier(x, w)
    BY DEF Firsts
  <2>1. x = w
    BY OnePerBank
  <2> QED
    BY <2>1, EarlierFacts
<1> DEFINE InOf(s) == {w \in Firsts(uses) : TileOf(w[2]) = s}
<1> DEFINE MoreOf(s) == {w \in InOf(s) : \E x \in InOf(s) : x[1] = w[1] /\ Earlier(x, w)}
<1> DEFINE Over(s) == {w \in MoreOf(s) : Cardinality({x \in MoreOf(s) : Earlier(x, w)})
                                           < Cardinality(InOf(s)) - Capacity[s]}
<1> DEFINE In == InOf(t)
<1> DEFINE More == MoreOf(t)
<1>2. {w \in More : Cardinality({x \in More : Earlier(x, w)}) < Cardinality(In) - Capacity[t]} = {}
  <2>1. OverCapacity(uses) = {}
    BY DEF Breaks
  <2>2. OverCapacity(uses) = UNION {Over(s) : s \in DOMAIN Capacity}
    BY DEF OverCapacity
  <2> HIDE DEF Over
  <2>3. Over(t) = {}
    BY <2>1, <2>2
  <2> QED
    BY <2>3 DEF Over
<1>3. Cardinality(In) \in Nat /\ Capacity[t] \in Nat /\ Cardinality(In) > Capacity[t]
  <2>1. In = {w \in uses : TileOf(w[2]) = t} /\ In \in SUBSET uses
    BY <1>1
  <2> HIDE DEF In
  <2>2. Cardinality(In) \in Nat
    BY <2>1, FS_Subset, FS_CardinalityType
  <2>3. Cardinality(In) > Capacity[t]
    BY <2>1
  <2> QED
    BY <2>2, <2>3, GraphAssumption
<1>4. More \in SUBSET (Nat \X Nat) /\ More \subseteq In /\ u \in In /\ v \in In
  BY <1>1
<1>5. \A w \in In : (\E x \in In : x[1] = w[1] /\ Earlier(x, w)) => w \in More
  OBVIOUS
<1> HIDE DEF In, More
<1>6. More = {}
  <2> SUFFICES ASSUME More # {}
               PROVE  FALSE
    OBVIOUS
  <2>1. PICK m \in More : \A w \in More : ~Earlier(w, m)
    BY <1>4, FirstUse
  <2>2. {x \in More : Earlier(x, m)} = {}
    BY <2>1
  <2>3. Cardinality({x \in More : Earlier(x, m)}) < Cardinality(In) - Capacity[t]
    BY <1>3, <2>2, FS_EmptySet
  <2> QED
    BY <1>2, <2>3
<1>7. ~Earlier(u, v) /\ ~Earlier(v, u)
  BY <1>4, <1>5, <1>6
<1> QED
  BY <1>7, EarlierFacts

\* The uses of any trees are finitely many, each a net's of a group.
LEMMA UsesFinite ==
  ASSUME NEW ts \in [Net -> SUBSET Edge]
  PROVE  Uses(ts) \in SUBSET (Nat \X Nat) /\ IsFiniteSet(Uses(ts))
<1> DEFINE T == {Group[e] : e \in Edge}
<1>1. Group \in Surjection(Edge, T)
  BY GraphAssumption DEF Surjection
<1>2. IsFiniteSet(T)
  <2>1. IsFiniteSet(Edge)
    BY GraphAssumption
  <2> HIDE DEF T
  <2> QED
    BY <1>1, <2>1, FS_Surjection
<1>3. Uses(ts) \subseteq Net \X T
  BY DEF Uses, UsesOf
<1>4. Uses(ts) \subseteq Nat \X Nat
  <2>1. Net \subseteq Nat
    BY GraphAssumption DEF Net
  <2>2. \A e \in Edge : Group[e] # NoGroup => Group[e] \in Nat
    BY GraphAssumption
  <2>3. ASSUME NEW i \in Net, NEW u \in UsesOf(i, ts[i]) PROVE u \in Nat \X Nat
    <3>1. PICK e \in ts[i] : Group[e] # NoGroup /\ u = <<i, Group[e]>>
      BY DEF UsesOf
    <3> QED
      BY <2>1, <2>2, <3>1
  <2> QED
    BY <2>3 DEF Uses
<1> HIDE DEF T
<1>5. IsFiniteSet(Net)
  BY FiniteNets
<1> QED
  BY <1>2, <1>3, <1>4, <1>5, FS_Product, FS_Subset

-----------------------------------------------------------------------------
(***************************************************************************)
(* The groups a routing ends with.  `breaks` keeps the users of the groups *)
(* in a map that is empty at first and stays so until somebody uses one    *)
(* (lib.rs:1317), so what a repair is held against is all the uses there   *)
(* are only if there were some when the repair began, or never are any.    *)
(***************************************************************************)

\* Either no pip is exclusive, or there is a net that cannot do without one.
ExclusivesKnown ==
  \/ \A e \in Edge : Group[e] = NoGroup
  \/ \E i \in Net : \A P \in Trees[i] : \E e \in P : Group[e] # NoGroup

\* What is there is whole trees.
Grown ==
  \A i \in Net : /\ trees[i] \in Trees[i] \cup {{}}
                 /\ batch.fresh[i] \in Trees[i] \cup {{}}
                 /\ Back[i] \in Trees[i] \cup {{}}

\* While repairs go on nobody has a group to leave, in the routing an undo
\* would go back to.
UsersFit ==
  /\ pc \in {"repair", "nets", "displace", "move"} =>
       rep.users = Uses(Back) /\ Breaks(Uses(Back)) = {}
  /\ pc = "done" => Breaks(Uses(trees)) = {}

LEMMA BackIdle ==
  ASSUME trees' \in [Net -> SUBSET Edge], pc' \notin {"displace", "move"}
  PROVE  Back' = trees'
  BY DEF Back

\* The steps that take a tree from a search.
LEMMA GrownStep == ASSUME IInv, Grown, Next PROVE Grown'
<1>0. /\ trees \in [Net -> SUBSET Edge] /\ trees' \in [Net -> SUBSET Edge]
      /\ batch \in BatchRecord
      /\ \A i \in Net : \A kept, barred : Routes(i, kept, barred) \subseteq Trees[i]
  <2>1. IInv'
    BY NextIInv
  <2> QED
    BY <2>1 DEF IInv, Typed, Routes
<1>1. ASSUME batch'.fresh = batch.fresh \/ batch'.fresh = None,
             \A i \in Net : trees'[i] \in Trees[i] \cup {{}},
             Back' = Back \/ pc' \notin {"displace", "move"}
      PROVE  Grown'
  BY <1>0, <1>1, BackIdle DEF Grown, None
<1>2. CASE Begin \/ GiveUp \/ Keep \/ Analyse
  <2>1. trees' = trees /\ batch' = batch /\ pc' \notin {"displace", "move"}
    BY <1>2, Zenon DEF Begin, GiveUp, Keep, Analyse, EndOfIteration, Fail
  <2> QED
    BY <1>1, <2>1 DEF Grown
<1>3. CASE Finish \/ RepairRound \/ RepairDone \/ Improved \/ Accept
  <2>1. trees' = trees /\ batch' = batch /\ pc' \notin {"displace", "move"}
    BY <1>3 DEF Finish, RepairRound, RepairDone, Improved, Accept
  <2> QED
    BY <1>1, <2>1 DEF Grown
<1>4. CASE Displace
  <2>1. trees' = trees /\ batch' = batch /\ rep'.saved = rep.saved /\ pc = "displace" /\ pc' = "move"
    BY <1>4 DEF Displace, IInv, Typed
  <2>2. Back' = Back
    BY <2>1 DEF Back
  <2> QED
    BY <1>1, <2>1, <2>2 DEF Grown
<1>5. CASE Reroute
  <2> DEFINE i == First(todo)
  <2>1. batch' = batch /\ pc' \notin {"displace", "move"}
    BY <1>5 DEF Reroute, Fail
  <2>2. i \in Net
    BY <1>5, FirstIn DEF Reroute, IInv, Typed
  <2>3. trees' = trees \/ \E P \in Trees[i] : trees' = [trees EXCEPT ![i] = P]
    BY <1>0, <1>5, <2>2 DEF Reroute
  <2> HIDE DEF i
  <2>4. \A j \in Net : trees'[j] = trees[j] \/ trees'[j] \in Trees[j]
    BY <1>0, <2>2, <2>3
  <2> QED
    BY <1>1, <2>1, <2>4 DEF Grown
<1>6. CASE NextBatch
  <2>1. PICK old, nets : batch' = [NoBatch EXCEPT !.nets = nets, !.on = nets, !.old = old]
    BY <1>6, Zenon DEF NextBatch
  <2>2. batch'.fresh = None
    BY <2>1 DEF NoBatch
  <2>3. pc' \notin {"displace", "move"} /\ \A j \in Net : trees'[j] \in {trees[j], {}}
    BY <1>6 DEF NextBatch
  <2> QED
    BY <1>1, <2>2, <2>3 DEF Grown
<1>7. CASE Round
  <2>1. trees' = trees /\ pc' \notin {"displace", "move"}
    BY <1>7, Zenon DEF Round, Fail
  <2> DEFINE routes == [i \in batch.nets |->
                          Routes(i, Start(i, batch.old[i], occ', OwnCount), banned[i])]
  <2>2. CASE batch' = [batch EXCEPT !.on = @ \ ToLift]
    <3>1. batch'.fresh = batch.fresh
      BY <1>0, <2>2 DEF BatchRecord
    <3> QED
      BY <1>1, <2>1, <3>1 DEF Grown
  <2>3. ASSUME NEW fresh \in OneEach(routes),
               batch' = [batch EXCEPT !.on = @ \ ToLift, !.took = NewStamp(@),
                           !.fresh = [i \in Net |-> IF i \in batch.nets THEN fresh[i] ELSE {}]]
        PROVE  Grown'
    <3>1. \A i \in batch.nets : fresh[i] \in Trees[i]
      <4>1. \A i \in batch.nets : fresh[i] \in routes[i]
        <5>1. DOMAIN routes = batch.nets
          OBVIOUS
        <5> HIDE DEF routes
        <5> QED
          BY <2>3, <5>1, OneEachFacts
      <4>2. batch.nets \subseteq Net
        BY <1>0 DEF BatchRecord
      <4> QED
        BY <1>0, <4>1, <4>2
    <3>2. batch'.fresh = [i \in Net |-> IF i \in batch.nets THEN fresh[i] ELSE {}]
      BY <1>0, <2>3 DEF BatchRecord
    <3>3. Back' = trees'
      BY <1>0, <2>1, BackIdle
    <3> QED
      BY <2>1, <3>1, <3>2, <3>3 DEF Grown
  <2> HIDE DEF routes
  <2> QED
    BY <1>7, <2>2, <2>3, Zenon DEF Round, routes
<1>8. ASSUME NEW i \in batch.nets, NEW P \in Trees[i] \cup {{}}, Committed(i, P)
      PROVE  Grown'
  <2>1. i \in Net
    BY <1>0 DEF BatchRecord
  <2>2. P \in SUBSET Edge
    BY <2>1, TreeFacts
  <2> DEFINE b == [batch EXCEPT !.on = @ \ {i}, !.old = [@ EXCEPT ![i] = {}],
                                !.took = @ \cup Nodes(i, P)]
  <2>3. trees' = [trees EXCEPT ![i] = P] /\ batch' = BatchAfter(b, i) /\ pc' = StepAfter(b, i)
    BY <1>8 DEF Committed
  <2>4. b \in BatchRecord /\ b.fresh = batch.fresh
    <3>1. Nodes(i, P) \subseteq Node
      BY <2>1, <2>2, NodesFacts
    <3> QED
      BY <1>0, <3>1 DEF BatchRecord
  <2> HIDE DEF b
  <2>5. batch'.fresh = batch.fresh \/ batch'.fresh = None
    BY <2>3, <2>4, AfterFacts, NoBatchFacts DEF None
  <2>6. pc' \notin {"displace", "move"}
    BY <2>3 DEF StepAfter
  <2>7. \A j \in Net : trees'[j] \in {trees[j], P} /\ (trees'[j] # trees[j] => j = i)
    BY <1>0, <2>1, <2>3
  <2> QED
    BY <1>1, <2>5, <2>6, <2>7 DEF Grown
<1>9. ASSUME pc = "commit" PROVE First(batch.nets) \in batch.nets /\ First(batch.nets) \in Net
  BY <1>0, <1>9, FirstIn DEF IInv, BatchFits, BatchRecord
<1>10. CASE Commit
  BY <1>8, <1>9, <1>10 DEF Commit, Grown
<1>11. CASE CommitRerouted
  <2>1. PICK kept : \E P \in Routes(First(batch.nets), kept, banned[First(batch.nets)]) :
                      Committed(First(batch.nets), P)
    BY <1>11, Zenon DEF CommitRerouted
  <2>2. pc = "commit"
    BY <1>11 DEF CommitRerouted
  <2> QED
    BY <1>0, <1>8, <1>9, <2>1, <2>2
<1>12. CASE CommitAgain
  <2> DEFINE i == First(batch.nets)
  <2> DEFINE b == [batch EXCEPT !.again = @ \cup {i}]
  <2>1. trees' = trees /\ batch' = BatchAfter(b, i) /\ pc' = StepAfter(b, i)
    BY <1>12 DEF CommitAgain
  <2>2. b \in BatchRecord /\ b.fresh = batch.fresh
    BY <1>0, <1>9, <1>12 DEF BatchRecord, CommitAgain
  <2> HIDE DEF b
  <2>3. batch'.fresh = batch.fresh \/ batch'.fresh = None
    BY <2>1, <2>2, AfterFacts, NoBatchFacts DEF None
  <2>4. pc' \notin {"displace", "move"}
    BY <2>1 DEF StepAfter
  <2> QED
    BY <1>1, <2>1, <2>3, <2>4 DEF Grown
<1>13. CASE Bar
  <2> DEFINE redo == {b[1] : b \in Breaks(Uses(trees))}
  <2> DEFINE routes == [i \in redo |-> Routes(i, {}, banned'[i])]
  <2>1. batch' = batch /\ pc' \notin {"displace", "move"}
    BY <1>13 DEF Bar, Fail
  <2>2. CASE trees' = trees
    BY <1>1, <2>1, <2>2 DEF Grown
  <2>3. ASSUME NEW fresh \in OneEach(routes),
               trees' = [i \in Net |-> IF i \in redo THEN fresh[i] ELSE trees[i]]
        PROVE  Grown'
    <3>1. \A i \in redo : fresh[i] \in routes[i]
      <4>1. DOMAIN routes = redo
        OBVIOUS
      <4> HIDE DEF routes, redo
      <4> QED
        BY <2>3, <4>1, OneEachFacts
    <3>2. \A i \in Net : i \in redo => fresh[i] \in Trees[i]
      <4> HIDE DEF redo
      <4> QED
        BY <1>0, <3>1
    <3> HIDE DEF redo, routes
    <3>3. \A i \in Net : trees'[i] \in Trees[i] \cup {trees[i]}
      BY <2>3, <3>2
    <3> QED
      BY <1>1, <2>1, <3>3 DEF Grown
  <2>4. \/ \E fresh \in OneEach(routes) :
             /\ trees' = [i \in Net |-> IF i \in redo THEN fresh[i] ELSE trees[i]]
             /\ occ' = Place(Lift(occ, redo, trees), redo, trees')
             /\ pc' = "begin"
        \/ trees' = trees
    BY <1>13, Zenon DEF Bar
  <2> DEFINE After(fresh) == trees' = [i \in Net |-> IF i \in redo THEN fresh[i] ELSE trees[i]]
  <2>5. \A fresh \in OneEach(routes) : After(fresh) => Grown'
    BY <2>3
  <2>6. trees' = trees \/ \E fresh \in OneEach(routes) : After(fresh)
    BY <2>4
  <2> HIDE DEF routes, After
  <2> QED
    BY <2>2, <2>5, <2>6
<1>14. CASE RepairNet
  <2>1. Back' = Back /\ batch' = batch
    BY <1>14, RepairNetStep DEF RepairNet
  <2>2. PICK c \in rep.todo : \/ trees' = trees
                              \/ \E P \in Routes(c.net, {}, banned[c.net]) :
                                   trees' = [trees EXCEPT ![c.net] = P]
    BY <1>14, Zenon DEF RepairNet
  <2>3. c.net \in Net
    BY DEF IInv, Typed
  <2>4. \A j \in Net : trees'[j] = trees[j] \/ trees'[j] \in Trees[j]
    BY <1>0, <2>2, <2>3
  <2> QED
    BY <1>1, <2>1, <2>4 DEF Grown
<1>15. CASE Move
  <2> DEFINE j == First(rep.moving)
  <2>1. Back' = Back /\ batch' = batch
    BY <1>15, MoveStep DEF Move
  <2>2. PICK kept : \E P \in Routes(j, kept, banned[j]) : trees' = [trees EXCEPT ![j] = P]
    BY <1>15, Zenon DEF Move
  <2>3. j \in Net
    BY <1>15, FirstIn DEF IInv, Typed, Legal, Move
  <2> HIDE DEF j
  <2>4. \A k \in Net : trees'[k] = trees[k] \/ trees'[k] \in Trees[k]
    BY <1>0, <2>2, <2>3
  <2> QED
    BY <1>1, <2>1, <2>4 DEF Grown
<1>16. CASE Undo
  <2>1. Back' = Back /\ batch' = batch /\ pc' = "nets"
    BY <1>16, UndoStep DEF Undo
  <2>2. Back' = trees'
    BY <1>0, <2>1, BackIdle
  <2> QED
    BY <2>1, <2>2 DEF Grown
<1> QED
  BY <1>2, <1>3, <1>4, <1>5, <1>6, <1>7, <1>10, <1>11, <1>12, <1>13, <1>14, <1>15, <1>16 DEF Next

\* The uses a repair is held against are those of all trees.
LEMMA UsesNowFacts ==
  ASSUME IInv, pc = "displace", rep.users = Uses(Back)
  PROVE  UsesNow(rep.users, DOMAIN rep.saved) = Uses(trees)
<1> DEFINE D == DOMAIN rep.saved
<1>1. /\ DOMAIN trees = Net /\ DOMAIN Back = Net /\ D \subseteq Net
      /\ \A i \in Net \ D : Back[i] = trees[i]
  BY DEF IInv, Typed, Back
<1> HIDE DEF D
<1>2. \A u : u \in Uses(trees) <=> \E i \in Net : u \in UsesOf(i, trees[i])
  BY <1>1 DEF Uses
<1>3. \A u : u \in Uses(Back) <=> \E i \in Net : u \in UsesOf(i, Back[i])
  BY <1>1 DEF Uses
<1>4. \A i, P : \A u \in UsesOf(i, P) : u[1] = i
  BY DEF UsesOf
<1>5. \A u : u \in UsesNow(Uses(Back), D) <=>
               \/ u \in Uses(Back) /\ u[1] \notin D
               \/ \E j \in D : u \in UsesOf(j, trees[j])
  BY DEF UsesNow
<1>6. \A u : u \in UsesNow(Uses(Back), D) <=> u \in Uses(trees)
  BY <1>1, <1>2, <1>3, <1>4, <1>5
<1> QED
  BY <1>6 DEF D

\* No uses in one whole routing, no uses in any.
LEMMA NoUses ==
  ASSUME ExclusivesKnown, NEW ts \in [Net -> SUBSET Edge], \A i \in Net : ts[i] \in Trees[i],
         Uses(ts) = {}, NEW other \in [Net -> SUBSET Edge]
  PROVE  Uses(other) = {}
<1>1. ASSUME NEW i \in Net, \A P \in Trees[i] : \E e \in P : Group[e] # NoGroup
      PROVE  FALSE
  <2>1. PICK e \in ts[i] : Group[e] # NoGroup
    BY <1>1
  <2>2. <<i, Group[e]>> \in UsesOf(i, ts[i])
    BY <2>1 DEF UsesOf
  <2>3. <<i, Group[e]>> \in Uses(ts)
    BY <2>2 DEF Uses
  <2> QED
    BY <2>3
<1>2. \A e \in Edge : Group[e] = NoGroup
  BY <1>1 DEF ExclusivesKnown
<1>3. \A i \in Net : UsesOf(i, other[i]) = {}
  BY <1>2 DEF UsesOf
<1> QED
  BY <1>3 DEF Uses

LEMMA UsersFitStep == ASSUME ExclusivesKnown, IInv, Grown, UsersFit, Next PROVE UsersFit'
<1>0. /\ trees \in [Net -> SUBSET Edge] /\ trees' \in [Net -> SUBSET Edge]
      /\ rep = [round |-> rep.round, todo |-> rep.todo, improved |-> rep.improved,
                users |-> rep.users, net |-> rep.net, saved |-> rep.saved,
                tries |-> rep.tries, moving |-> rep.moving]
  <2>1. IInv'
    BY NextIInv
  <2> QED
    BY <2>1 DEF IInv, Typed
<1>1. pc \notin {"displace", "move"} => Back = trees
  BY <1>0 DEF Back
<1>2. CASE Begin \/ GiveUp \/ Keep \/ Reroute
  <2>1. pc' \in {"batches", "single", "failed"}
    BY <1>2, Zenon DEF Begin, GiveUp, Keep, Reroute, Fail
  <2> QED
    BY <2>1 DEF UsersFit
<1>3. CASE NextBatch \/ Round \/ Analyse \/ Bar
  <2>1. pc' \in {"batches", "round", "commit", "analyse", "begin", "failed"}
    BY <1>3, Zenon DEF NextBatch, Round, Analyse, Bar, Fail
  <2> QED
    BY <2>1 DEF UsersFit
<1>4. CASE Commit \/ CommitAgain \/ CommitRerouted
  <2>1. pc' \in {"batches", "round", "commit"}
    BY <1>4, Zenon DEF Commit, CommitAgain, CommitRerouted, Committed, StepAfter
  <2> QED
    BY <2>1 DEF UsersFit
<1>5. CASE Finish
  <2>1. trees' = trees /\ Breaks(Uses(trees)) = {} /\ pc' \in {"repair", "done"}
    BY <1>5 DEF Finish
  <2>2. pc' = "repair" => rep'.users = Uses(trees)
    BY <1>5 DEF Finish, NoRepair
  <2>3. Back' = trees
    BY <1>0, <2>1, BackIdle
  <2> QED
    BY <2>1, <2>2, <2>3 DEF UsersFit
<1>6. CASE RepairRound \/ Improved
  <2>1. trees' = trees /\ rep'.users = rep.users /\ pc \in {"repair", "nets"} /\ pc' \in {"repair", "nets"}
    BY <1>0, <1>6 DEF RepairRound, Improved
  <2>2. Back' = Back
    BY <1>0, <1>1, <2>1, BackIdle
  <2> QED
    BY <2>1, <2>2 DEF UsersFit
<1>7. CASE RepairDone
  <2>1. trees' = trees /\ pc \in {"repair", "nets"} /\ pc' = "done"
    BY <1>7 DEF RepairDone
  <2> QED
    BY <1>1, <2>1 DEF UsersFit
<1>8. CASE RepairNet
  <2>1. PICK c \in rep.todo :
          \/ rep' = [rep EXCEPT !.todo = @ \ {c}, !.net = c.net, !.tries = 0,
                                !.saved = [j \in {c.net} |-> trees[j]]]
          \/ rep' = [rep EXCEPT !.todo = @ \ {c}]
    BY <1>8, Zenon DEF RepairNet
  <2>2. rep'.users = rep.users
    <3>1. CASE rep' = [rep EXCEPT !.todo = @ \ {c}]
      BY <1>0, <3>1
    <3>2. ASSUME NEW saved,
                 rep' = [rep EXCEPT !.todo = @ \ {c}, !.net = c.net, !.tries = 0, !.saved = saved]
          PROVE  rep'.users = rep.users
      BY <1>0, <3>2
    <3> QED
      BY <2>1, <3>1, <3>2
  <2>3. pc = "nets" /\ pc' \in {"nets", "displace"}
    BY <1>8, Zenon DEF RepairNet
  <2>4. Back' = Back
    BY <1>8, RepairNetStep
  <2> QED
    BY <2>2, <2>3, <2>4 DEF UsersFit
<1>9. CASE Displace
  <2>1. /\ trees' = trees /\ rep'.users = rep.users /\ rep'.saved = rep.saved
        /\ pc = "displace" /\ pc' = "move"
    BY <1>0, <1>9 DEF Displace
  <2>2. Back' = Back
    BY <2>1 DEF Back
  <2> QED
    BY <2>1, <2>2 DEF UsersFit
<1>10. CASE Move
  <2>1. PICK j : rep' = [rep EXCEPT !.moving = @ \ {j}, !.saved = Saving(@, j)]
    BY <1>10 DEF Move
  <2>2. rep'.users = rep.users
    BY <1>0, <2>1
  <2>3. pc = "move" /\ pc' \in {"move", "displace"}
    BY <1>10, Zenon DEF Move
  <2>4. Back' = Back
    BY <1>10, MoveStep
  <2> QED
    BY <2>2, <2>3, <2>4 DEF UsersFit
<1>11. CASE Undo
  <2>1. rep'.users = rep.users
    BY <1>0, <1>11 DEF Undo
  <2>2. pc = "displace" /\ pc' = "nets"
    BY <1>11 DEF Undo
  <2>3. Back' = Back
    BY <1>11, UndoStep
  <2> QED
    BY <2>1, <2>2, <2>3 DEF UsersFit
<1>12. CASE Accept
  <2>1. /\ pc = "displace" /\ pc' = "nets" /\ trees' = trees
        /\ Breaks(UsesNow(rep.users, DOMAIN rep.saved)) = {}
    BY <1>12 DEF Accept, Acceptable
  <2>2. rep'.users = UsersAfter(rep.users)
    BY <1>0, <1>12 DEF Accept
  <2>3. rep.users = Uses(Back)
    BY <2>1 DEF UsersFit
  <2>4. Breaks(Uses(trees)) = {}
    BY <2>1, <2>3, UsesNowFacts
  <2>5. UsersAfter(rep.users) = Uses(trees)
    <3>1. CASE rep.users = {}
      <4>1. Back \in [Net -> SUBSET Edge]
        <5>1. \A i \in Net : Back[i] \in SUBSET Edge
          BY TreeFacts DEF Grown
        <5> QED
          BY <5>1 DEF Back
      <4>2. \A i \in Net : Back[i] \in Trees[i]
        BY <2>1 DEF Grown, IInv, Legal
      <4> QED
        BY <1>0, <2>3, <3>1, <4>1, <4>2, NoUses DEF UsersAfter
    <3> QED
      BY <3>1 DEF UsersAfter
  <2>6. Back' = trees
    BY <1>0, <2>1, BackIdle
  <2> QED
    BY <2>1, <2>2, <2>4, <2>5, <2>6 DEF UsersFit
<1> QED
  BY <1>2, <1>3, <1>4, <1>5, <1>6, <1>7, <1>8, <1>9, <1>10, <1>11, <1>12 DEF Next

LEMMA ExclusiveIfUsersFit == ASSUME IInv, UsersFit PROVE ExclusiveAtEnd
<1> SUFFICES ASSUME pc = "done"
             PROVE  LET uses == Uses(trees)
                        In(t) == {u \in uses : TileOf(u[2]) = t}
                    IN  /\ \A u, v \in uses : BankOf(u[2]) = BankOf(v[2]) => u = v
                        /\ \A t \in DOMAIN Capacity :
                             Cardinality(In(t)) > Capacity[t]
                               => \A u, v \in In(t) : u[1] = v[1] => u = v
  BY DEF ExclusiveAtEnd
<1>1. Uses(trees) \in SUBSET (Nat \X Nat) /\ IsFiniteSet(Uses(trees))
  BY UsesFinite DEF IInv, Typed
<1>2. Breaks(Uses(trees)) = {}
  BY DEF UsersFit
<1>3. \A u, v \in Uses(trees) : BankOf(u[2]) = BankOf(v[2]) => u = v
  BY <1>1, <1>2, OnePerBank
<1>4. \A t \in DOMAIN Capacity :
        Cardinality({u \in Uses(trees) : TileOf(u[2]) = t}) > Capacity[t] =>
          \A u, v \in Uses(trees) : TileOf(u[2]) = t /\ TileOf(v[2]) = t /\ u[1] = v[1] => u = v
  BY <1>1, <1>2, OncePerTile
<1> QED
  BY <1>3, <1>4

\* A routing that is returned keeps to the exclusive groups, through every
\* repair made and undone, and the nets that commit in one round of a batch
\* share no node (lib.rs, `breaks_exclusive` and the batches' commits).
THEOREM StayApart == ASSUME SourcesApart, ExclusivesKnown PROVE Spec => []TreesApart
<1> DEFINE Inv == IInv /\ RoundFits /\ Grown /\ UsersFit
<1>1. Init => Inv
  <2> SUFFICES ASSUME Init PROVE RoundFits /\ Grown /\ UsersFit
    BY InitIInv
  <2>1. pc = "begin" /\ trees = [i \in Net |-> {}] /\ batch.fresh = [i \in Net |-> {}]
    BY NoBatchFacts DEF Init, None
  <2>2. Back = [i \in Net |-> {}]
    BY <2>1 DEF Back
  <2> QED
    BY <2>1, <2>2 DEF RoundFits, Grown, UsersFit
<1>2. Inv /\ [Next]_vars => Inv'
  <2> SUFFICES ASSUME IInv, RoundFits, Grown, UsersFit, [Next]_vars
               PROVE  IInv' /\ RoundFits' /\ Grown' /\ UsersFit'
    OBVIOUS
  <2>1. IInv' /\ RoundFits'
    BY NextIInv, RoundFitsStep
  <2>2. CASE UNCHANGED vars
    <3>1. Grown' /\ UsersFit'
      BY <2>2 DEF vars, Grown, UsersFit, Back
    <3> QED
      BY <2>1, <3>1
  <2>3. CASE Next
    BY <2>1, <2>3, GrownStep, UsersFitStep
  <2> QED
    BY <2>2, <2>3
<1>3. Inv => TreesApart
  BY RoundApart, ExclusiveIfUsersFit DEF TreesApart
<1> HIDE DEF Inv
<1> QED
  BY <1>1, <1>2, <1>3, PTL DEF Spec

=============================================================================
