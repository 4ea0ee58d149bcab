------------------------------- MODULE Router -------------------------------
(***************************************************************************)
(* The routing graph of a device and the nets of a placed design, as the   *)
(* router of chipsmith-route sees them: what a net's tree may be, what of  *)
(* a tree survives a reroute, the timing of a routing, and the pips that   *)
(* only one net may use.  Everything here is a function of its arguments.  *)
(***************************************************************************)
EXTENDS Integers, FiniteSets, FiniteSetsExt

CONSTANTS N,         \* how many nets; net i is index i - 1 of `nets`
          Node, Edge, From, To,
          Delay,     \* per node, in picoseconds
          Source, Sinks,
          Paths,     \* the timed paths, each a set of connections <<net, sink>>
          Trees,     \* per net, the trees the graph has for it (TreesOf)
          Group,     \* per pip, its exclusive group, or NoGroup
          Capacity   \* per tile with a limit, how many exclusive uses it takes

Net == 1..N
NoGroup == -1

ASSUME GraphAssumption ==
  /\ N \in Nat
  /\ IsFiniteSet(Node) /\ IsFiniteSet(Edge)
  /\ From \in [Edge -> Node] /\ To \in [Edge -> Node]
  /\ Delay \in [Node -> Nat]
  /\ Source \in [Net -> Node]
  /\ Sinks \in [Net -> SUBSET Node]
  /\ \A i \in Net : Sinks[i] # {} /\ Source[i] \notin Sinks[i]
  /\ Group \in [Edge -> Nat \cup {NoGroup}]
  /\ \A t \in DOMAIN Capacity : Capacity[t] \in Nat

-----------------------------------------------------------------------------
(* Trees.  A net without a tree has no pips, and then no nodes either.     *)

Nodes(i, P) == IF P = {} THEN {} ELSE {Source[i]} \cup {To[e] : e \in P}

Into(P, n) == CHOOSE e \in P : To[e] = n

\* The pips that net i can reach.
Reached(i) ==
  LET near[k \in 0..Cardinality(Node)] ==
        IF k = 0 THEN {Source[i]}
        ELSE LET last == near[k - 1]
             IN  last \cup {To[e] : e \in {f \in Edge : From[f] \in last}}
  IN  {e \in Edge : From[e] \in near[Cardinality(Node)]}

\* One pip into every node but the source, each node reached from the
\* source, and every branch ends in a sink.
IsTree(i, P) ==
  LET driven == {To[e] : e \in P}
  IN  /\ Sinks[i] \subseteq driven
      /\ Source[i] \notin driven
      /\ \A e, f \in P : To[e] = To[f] => e = f
      /\ \A n \in driven : n \in Sinks[i] \/ \E e \in P : From[e] = n
      /\ \A D \in SUBSET driven \ {{}} :
           \E e \in P : To[e] \in D /\ From[e] \in Nodes(i, P) \ D

TreesOf(i) == {P \in SUBSET Reached(i) : IsTree(i, P)}

ASSUME TreesAssumption == Trees = [i \in Net |-> TreesOf(i)]

\* The pips from the source of net i's tree P to node n.
PathTo(i, P, n) ==
  LET path[m \in Nodes(i, P)] ==
        IF m = Source[i] THEN {} ELSE path[From[Into(P, m)]] \cup {Into(P, m)}
  IN  path[n]

\* What of the tree P survives a reroute: the branches on no node that more
\* than `own` nets use, to the sinks that are not hot.
Kept(i, P, uses, own, hot) ==
  {e \in P : \E s \in Sinks[i] \ hot :
               /\ e \in PathTo(i, P, s)
               /\ \A f \in PathTo(i, P, s) : uses[To[f]] <= own}

-----------------------------------------------------------------------------
(* Timing.                                                                 *)

SinkDelay(i, P, s) ==
  Delay[Source[i]] + MapThenSumSet(LAMBDA e : Delay[To[e]], PathTo(i, P, s))

Length(ts, path) == MapThenSumSet(LAMBDA a : SinkDelay(a[1], ts[a[1]], a[2]), path)

\* The hot path of the routing ts, and the longest path over a connection.
Critical(ts) == Max({0} \cup {Length(ts, path) : path \in Paths})
Through(ts, i, s) == Max({0} \cup {Length(ts, p) : p \in {q \in Paths : <<i, s>> \in q}})

\* Criticality is Through / Critical.  Sharpened (to the 4th power), above
\* REROUTE_CRITICALITY; and as it is, at least REPAIR_CRITICALITY.
RerouteSinks(ts, i) ==
  {s \in Sinks[i] : 10 * Through(ts, i, s)^4 > 8 * Critical(ts)^4}
RepairSinks(ts, i) ==
  {s \in Sinks[i] : /\ Critical(ts) > 0
                    /\ 10 * Through(ts, i, s) >= 9 * Critical(ts)}

\* The slowest of the connections of net i that a repair is for.
WorstDelay(i, P, repaired) == Max({0} \cup {SinkDelay(i, P, s) : s \in repaired})

-----------------------------------------------------------------------------
(* Exclusive pips.  A group is a tile and a class; a use is a net on the   *)
(* pips of a group.                                                        *)

TileOf(g) == g \div 128
BankOf(g) == g \div 2
Twin(g) == IF g % 2 = 0 THEN g + 1 ELSE g - 1

UsesOf(i, P) == {<<i, Group[e]>> : e \in {f \in P : Group[f] # NoGroup}}
Uses(ts) == UNION {UsesOf(i, ts[i]) : i \in DOMAIN ts}

Earlier(u, v) == u[1] < v[1] \/ (u[1] = v[1] /\ u[2] < v[2])

\* Each bank's first use.
Firsts(uses) ==
  {u \in uses : \A v \in uses : BankOf(v[2]) = BankOf(u[2]) => ~Earlier(v, u)}

\* Past a tile's capacity, a net with more than one use keeps its first.
OverCapacity(uses) ==
  LET firsts == Firsts(uses)
      In(t) == {u \in firsts : TileOf(u[2]) = t}
      More(t) == {u \in In(t) : \E v \in In(t) : v[1] = u[1] /\ Earlier(v, u)}
  IN  UNION {{u \in More(t) : Cardinality({v \in More(t) : Earlier(v, u)})
                                < Cardinality(In(t)) - Capacity[t]} : t \in DOMAIN Capacity}

\* Who has to leave which group.
Breaks(uses) ==
  LET crowded == {p \in Firsts(uses) \X uses :
                    p[1] # p[2] /\ BankOf(p[1][2]) = BankOf(p[2][2])}
  IN  {p[2] : p \in crowded}
      \cup {<<p[2][1], Twin(p[2][2])>> : p \in {q \in crowded : q[1][1] # q[2][1]}}
      \cup OverCapacity(uses)

-----------------------------------------------------------------------------
(***************************************************************************)
(* `Router::route` of chipsmith-route: PathFinder negotiation, its first   *)
(* iterations optionally in batches of nets routed side by side, then the  *)
(* exclusive groups, then the repair of the critical path.                 *)
(*                                                                         *)
(* A search's costs (congestion history, present congestion, the A*        *)
(* estimate) are left out: a search may find any tree its guards allow.    *)
(***************************************************************************)

CONSTANTS Modes,             \* the settings a router may have
          MaxIterations,     \* MAX_ITERATIONS
          BatchIterations,   \* how many iterations batch
          MaxBatch,          \* nets to a batch
          RepairRounds, RepairNets, DisplacedRounds,
          WideNet            \* nets with more sinks are not repaired

\* batched:     Batching is not Off
\* bucketed:    the integer search, which batches do not rip up first
\* incremental: a reroute keeps what survives of the old tree
\* repair:      the critical path is repaired
\* usable:      per net, the pips its searches may take (what `reserve` and
\*              `confine` and the LUT inputs that may not permute leave it)
Mode == [batched : BOOLEAN, bucketed : BOOLEAN, incremental : BOOLEAN, repair : BOOLEAN,
         usable : [Net -> SUBSET Edge]]

ASSUME RouterAssumption ==
  /\ Modes \subseteq Mode
  /\ {MaxIterations, BatchIterations, MaxBatch, RepairRounds, RepairNets,
      DisplacedRounds, WideNet} \subseteq Nat

VARIABLES pc, mode, iteration,
          trees,     \* per net, the pips of its tree
          occ,       \* per node, the nets using it
          critical,  \* per net, its sinks past REROUTE_CRITICALITY
          banned,    \* per net, the exclusive groups it may no longer use
          todo,      \* nets this iteration has yet to come to
          batch,     \* the batch being routed
          limit,     \* the critical path of the last analysis
          rep        \* the repair

vars == <<pc, mode, iteration, trees, occ, critical, banned, todo, batch, limit, rep>>

Steps == {"begin", "single", "batches", "round", "commit", "analyse",
          "repair", "nets", "displace", "move", "done", "failed"}

None == [i \in Net |-> {}]

\* nets still to commit in this round, those that go again in the next,
\* those whose previous tree is still in the occupancy; the nodes the round
\* has taken; per net its previous tree and the one just found.
NoBatch == [nets |-> {}, again |-> {}, on |-> {}, took |-> {}, old |-> None, fresh |-> None]

\* todo: what the round has yet to try, as [net, worst, sinks] records
NoRepair == [round |-> 0, todo |-> {}, improved |-> FALSE, users |-> {},
             net |-> 0, saved |-> <<>>, tries |-> 0, moving |-> {}]

Init ==
  /\ pc = "begin"
  /\ mode \in Modes
  /\ iteration = 0
  /\ trees = None
  /\ occ = [n \in Node |-> 0]
  /\ critical = None
  /\ banned = None
  /\ todo = {}
  /\ batch = NoBatch
  /\ limit = 0
  /\ rep = NoRepair

-----------------------------------------------------------------------------
First(S) == CHOOSE i \in S : \A j \in S : i <= j

\* Take the trees ts of the nets S off the occupancy, or put them on.
Lift(o, S, ts) == [n \in Node |-> o[n] - Cardinality({i \in S : n \in Nodes(i, ts[i])})]
Place(o, S, ts) == [n \in Node |-> o[n] + Cardinality({i \in S : n \in Nodes(i, ts[i])})]

Overused(o) == {n \in Node : o[n] > 1}
Congested(i) == Nodes(i, trees[i]) \cap Overused(occ) # {}

\* Wrong on purpose: a search does not look at what its net is barred from.
RoutesUnbarred(i, kept, barred) ==
  {P \in Trees[i] : kept \subseteq P /\ P \ kept \subseteq mode.usable[i]}

\* The trees a search for net i may end with, starting from the pips `kept`.
Routes(i, kept, barred) ==
  {P \in Trees[i] : /\ kept \subseteq P
                    /\ P \ kept \subseteq mode.usable[i]
                    /\ {Group[e] : e \in P \ kept} \cap barred = {}}

\* One tree for each net, of those it may have.
OneEach(routes) ==
  {f \in [DOMAIN routes -> UNION {routes[i] : i \in DOMAIN routes}] :
     \A i \in DOMAIN routes : f[i] \in routes[i]}

\* What a reroute in an iteration starts from.
Start(i, P, o, own) ==
  IF mode.incremental /\ iteration > 1 THEN Kept(i, P, o, own, critical[i]) ELSE {}

NeedsReroute(k, i) == k = 1 \/ Congested(i) \/ critical[i] # {}

Fail == pc' = "failed"

-----------------------------------------------------------------------------
(* An iteration.                                                           *)

\* Batches only at first, and never once a net is barred from a group.
Batches(k) == mode.batched /\ k <= BatchIterations /\ banned = None

Begin ==
  /\ pc = "begin"
  /\ iteration < MaxIterations
  /\ iteration' = iteration + 1
  /\ IF Batches(iteration + 1)
     THEN /\ pc' = "batches"
          /\ todo' = {i \in Net : NeedsReroute(iteration + 1, i)}
     ELSE pc' = "single" /\ todo' = Net
  /\ UNCHANGED <<mode, trees, occ, critical, banned, batch, limit, rep>>

\* Out of iterations.
GiveUp ==
  /\ pc = "begin" /\ iteration = MaxIterations
  /\ Fail
  /\ UNCHANGED <<mode, iteration, trees, occ, critical, banned, todo, batch, limit, rep>>

\* One net at a time: keep the tree, or rip it up and search.
Keep ==
  /\ pc = "single" /\ todo # {}
  /\ ~NeedsReroute(iteration, First(todo))
  /\ todo' = todo \ {First(todo)}
  /\ UNCHANGED <<pc, mode, iteration, trees, occ, critical, banned, batch, limit, rep>>

Reroute ==
  /\ pc = "single" /\ todo # {}
  /\ LET i      == First(todo)
         lifted == Lift(occ, {i}, trees)
         routes == Routes(i, Start(i, trees[i], lifted, 0), banned[i])
     IN  /\ NeedsReroute(iteration, i)
         /\ \/ \E P \in routes :
                 /\ trees' = [trees EXCEPT ![i] = P]
                 /\ occ' = Place(lifted, {i}, trees')
                 /\ todo' = todo \ {i}
                 /\ UNCHANGED pc
            \/ /\ routes = {}
               /\ Fail
               /\ UNCHANGED <<trees, occ, todo>>
  /\ UNCHANGED <<mode, iteration, critical, banned, batch, limit, rep>>

\* The next batch, whatever the schedule put in it; of its nets, those that
\* still need it now that earlier batches have moved.
NextBatch ==
  /\ pc = "batches"
  /\ \E B \in SUBSET todo \ {{}} :
       /\ Cardinality(B) <= MaxBatch
       /\ todo' = todo \ B
       /\ LET nets == {i \in B : NeedsReroute(iteration, i)}
          IN  /\ batch' = [NoBatch EXCEPT !.nets = nets, !.on = nets,
                                          !.old = [i \in Net |-> IF i \in nets THEN trees[i] ELSE {}]]
              /\ trees' = [i \in Net |-> IF i \in nets THEN {} ELSE trees[i]]
              /\ pc' = IF nets = {} THEN "batches" ELSE "round"
  /\ UNCHANGED <<mode, iteration, occ, critical, banned, limit, rep>>

\* Side by side with the integer search, each net sees the others where they
\* were and its own tree as gone.  Otherwise each is ripped up first.
Present == mode.bucketed /\ Cardinality(batch.nets) > 1
ToLift == IF Present THEN {} ELSE batch.on
OwnCount == IF Present THEN 1 ELSE 0

\* Wrong on purpose: what earlier rounds took counts on.
SameStamp(took) == took

\* The nodes taken, as a round begins (a new `batch_stamp`).
NewStamp(took) == {}

\* Every net of the batch searches against the same occupancy.
Round ==
  /\ pc = "round"
  /\ occ' = Lift(occ, ToLift, batch.old)
  /\ LET routes == [i \in batch.nets |-> Routes(i, Start(i, batch.old[i], occ', OwnCount), banned[i])]
     IN  \/ \E fresh \in OneEach(routes) :
              /\ batch' = [batch EXCEPT !.on = @ \ ToLift, !.took = NewStamp(@),
                             !.fresh = [i \in Net |-> IF i \in batch.nets THEN fresh[i] ELSE {}]]
              /\ pc' = "commit"
         \/ /\ \E i \in batch.nets : routes[i] = {}
            /\ Fail
            /\ batch' = [batch EXCEPT !.on = @ \ ToLift]
  /\ UNCHANGED <<mode, iteration, trees, critical, banned, todo, limit, rep>>

\* Wrong on purpose: it is asked of the previous tree.
CollidesOld(i) == Nodes(i, batch.old[i]) \cap batch.took # {}

Collides(i) == Nodes(i, batch.fresh[i]) \cap batch.took # {}

\* A batch after its net i is dealt with: once its nets are through, those
\* that collided go again together.
BatchAfter(b, i) ==
  LET left == [b EXCEPT !.nets = @ \ {i}]
  IN  IF left.nets # {} THEN left
      ELSE IF left.again = {} THEN NoBatch
      ELSE [left EXCEPT !.nets = left.again, !.again = {}, !.fresh = None]
StepAfter(b, i) ==
  IF b.nets # {i} THEN "commit" ELSE IF b.again = {} THEN "batches" ELSE "round"

\* Wrong on purpose: every previous tree is taken to be ripped up.
RippedAlready(i) == occ

\* The occupancy once net i's previous tree is off it.
Ripped(i) == IF i \in batch.on THEN Lift(occ, {i}, batch.old) ELSE occ

\* Put tree P of net i in the routing, its previous one off it.
Committed(i, P) ==
  LET b == [batch EXCEPT !.on = @ \ {i}, !.old = [@ EXCEPT ![i] = {}],
                         !.took = @ \cup Nodes(i, P)]
  IN  /\ trees' = [trees EXCEPT ![i] = P]
      /\ occ' = Place(Ripped(i), {i}, trees')
      /\ batch' = BatchAfter(b, i)
      /\ pc' = StepAfter(b, i)

\* In net order.
Commit ==
  /\ pc = "commit"
  /\ LET i == First(batch.nets)
     IN  ~Collides(i) /\ Committed(i, batch.fresh[i])
  /\ UNCHANGED <<mode, iteration, critical, banned, todo, limit, rep>>

\* A net that took a node an earlier one of its round just took: with the
\* integer search it goes again, otherwise it is routed again now.
CommitAgain ==
  /\ pc = "commit" /\ mode.bucketed
  /\ LET i == First(batch.nets)
         b == [batch EXCEPT !.again = @ \cup {i}]
     IN  /\ Collides(i)
         /\ batch' = BatchAfter(b, i)
         /\ pc' = StepAfter(b, i)
  /\ UNCHANGED <<mode, iteration, trees, occ, critical, banned, todo, limit, rep>>

CommitRerouted ==
  /\ pc = "commit" /\ ~mode.bucketed
  /\ LET i == First(batch.nets)
     IN  /\ Collides(i)
         /\ \E P \in Routes(i, Start(i, batch.old[i], occ, 0), banned[i]) : Committed(i, P)
  /\ UNCHANGED <<mode, iteration, critical, banned, todo, limit, rep>>

-----------------------------------------------------------------------------
(* The end of an iteration.                                                *)

EndOfIteration == pc \in {"single", "batches"} /\ todo = {}

Analyse ==
  /\ EndOfIteration
  /\ critical' = [i \in Net |-> RerouteSinks(trees, i)]
  /\ limit' = Critical(trees)
  /\ pc' = IF Overused(occ) = {} THEN "analyse" ELSE "begin"
  /\ UNCHANGED <<mode, iteration, trees, occ, banned, todo, batch, rep>>

\* Legal, but nets break the exclusive groups: bar them and reroute them
\* from scratch.
Bar ==
  /\ pc = "analyse"
  /\ LET breaks == Breaks(Uses(trees))
         redo   == {b[1] : b \in breaks}
     IN  /\ breaks # {}
         /\ banned' = [i \in Net |-> banned[i] \cup {b[2] : b \in {c \in breaks : c[1] = i}}]
         /\ LET routes == [i \in redo |-> Routes(i, {}, banned'[i])]
            IN  \/ \E fresh \in OneEach(routes) :
                     /\ trees' = [i \in Net |-> IF i \in redo THEN fresh[i] ELSE trees[i]]
                     /\ occ' = Place(Lift(occ, redo, trees), redo, trees')
                     /\ pc' = "begin"
                \/ /\ \E i \in redo : routes[i] = {}
                   /\ Fail
                   /\ UNCHANGED <<trees, occ>>
  /\ UNCHANGED <<mode, iteration, critical, todo, batch, limit, rep>>

Finish ==
  /\ pc = "analyse"
  /\ Breaks(Uses(trees)) = {}
  /\ IF mode.repair
     THEN pc' = "repair" /\ rep' = [NoRepair EXCEPT !.users = Uses(trees)]
     ELSE pc' = "done" /\ UNCHANGED rep
  /\ UNCHANGED <<mode, iteration, trees, occ, critical, banned, todo, batch, limit>>

-----------------------------------------------------------------------------
(* The repair of the critical path.                                        *)

\* Net by net, the connections at least REPAIR_CRITICALITY critical; the
\* most critical net first.
Candidates ==
  {[net |-> i, worst |-> Max({Through(trees, i, s) : s \in Sinks[i]}),
    sinks |-> RepairSinks(trees, i)] :
     i \in {j \in Net : RepairSinks(trees, j) # {} /\ Cardinality(Sinks[j]) <= WideNet}}
Before(a, b) == a.worst > b.worst \/ (a.worst = b.worst /\ a.net < b.net)
Foremost(c) == \A d \in rep.todo \ {c} : Before(c, d)

RepairRound ==
  /\ pc = "repair"
  /\ rep.round < RepairRounds
  /\ rep' = [rep EXCEPT !.round = @ + 1, !.improved = FALSE,
               !.todo = {c \in Candidates :
                           Cardinality({d \in Candidates : Before(d, c)}) < RepairNets}]
  /\ pc' = "nets"
  /\ UNCHANGED <<mode, iteration, trees, occ, critical, banned, todo, batch, limit>>

\* No round left, or the last one improved nothing.
RepairDone ==
  /\ \/ pc = "repair" /\ rep.round = RepairRounds
     \/ pc = "nets" /\ rep.todo = {} /\ ~rep.improved
  /\ pc' = "done"
  /\ rep' = NoRepair
  /\ UNCHANGED <<mode, iteration, trees, occ, critical, banned, todo, batch, limit>>

Improved ==
  /\ pc = "nets" /\ rep.todo = {} /\ rep.improved
  /\ pc' = "repair"
  /\ UNCHANGED <<mode, iteration, trees, occ, critical, banned, todo, batch, limit, rep>>

\* The most critical net left is rerouted for delay alone, over other nets'
\* nodes too; it goes back as it was unless that is faster by over 1 ps.
RepairNet ==
  /\ pc = "nets"
  /\ \E c \in rep.todo :
       LET i == c.net
           Worst(P) == WorstDelay(i, P, c.sinks)
       IN  /\ Foremost(c)
           /\ \/ \E P \in Routes(i, {}, banned[i]) :
                   /\ Worst(P) < Worst(trees[i]) - 1
                   /\ trees' = [trees EXCEPT ![i] = P]
                   /\ occ' = Place(Lift(occ, {i}, trees), {i}, trees')
                   /\ rep' = [rep EXCEPT !.todo = @ \ {c}, !.net = i, !.tries = 0,
                                         !.saved = [j \in {i} |-> trees[j]]]
                   /\ pc' = "displace"
              \/ /\ rep' = [rep EXCEPT !.todo = @ \ {c}]
                 /\ UNCHANGED <<pc, trees, occ>>
  /\ UNCHANGED <<mode, iteration, critical, banned, todo, batch, limit>>

Displaced == {j \in Net \ {rep.net} : Congested(j)}

\* Wrong on purpose: the last round of reroutes is taken to have settled it.
SettledLast == rep.tries = DisplacedRounds \/ Displaced = {}

\* No displaced net is left, in time.
Settled == rep.tries < DisplacedRounds /\ Displaced = {}

Displace ==
  /\ pc = "displace"
  /\ rep.tries < DisplacedRounds /\ Displaced # {}
  /\ rep' = [rep EXCEPT !.tries = @ + 1, !.moving = Displaced]
  /\ pc' = "move"
  /\ UNCHANGED <<mode, iteration, trees, occ, critical, banned, todo, batch, limit>>

\* Wrong on purpose: displaced nets are not put back.
SavingNone(saved, j) == saved

\* What to put back should the repair be undone: a net's tree from before
\* its first move.
Saving(saved, j) ==
  [k \in DOMAIN saved \cup {j} |-> IF k \in DOMAIN saved THEN saved[k] ELSE trees[k]]

\* A displaced net is rerouted around the repaired one, as in negotiation.
\* Its present tree is one its search may find, and what a search that fails
\* leaves it with.
Move ==
  /\ pc = "move"
  /\ LET j      == First(rep.moving)
         lifted == Lift(occ, {j}, trees)
     IN  /\ \E P \in Routes(j, Kept(j, trees[j], lifted, 0, critical[j]), banned[j]) :
              /\ trees' = [trees EXCEPT ![j] = P]
              /\ occ' = Place(lifted, {j}, trees')
         /\ rep' = [rep EXCEPT !.moving = @ \ {j}, !.saved = Saving(@, j)]
         /\ pc' = IF rep.moving = {j} THEN "displace" ELSE "move"
  /\ UNCHANGED <<mode, iteration, critical, banned, todo, batch, limit>>

\* The uses as they were, with those of the changed nets as they are.
UsesNow(users, changed) ==
  {u \in users : u[1] \notin changed} \cup UNION {UsesOf(j, trees[j]) : j \in changed}

\* The uses a repair is held against, once one was accepted.
UsersAfter(users) == IF users = {} THEN {} ELSE Uses(trees)

\* Wrong on purpose: without another timing analysis.
AcceptableUntimed == Settled /\ Breaks(UsesNow(rep.users, DOMAIN rep.saved)) = {}

Acceptable ==
  /\ Settled
  /\ Breaks(UsesNow(rep.users, DOMAIN rep.saved)) = {}
  /\ Critical(trees) <= limit

Accept ==
  /\ pc = "displace"
  /\ Acceptable
  /\ limit' = Critical(trees)
  /\ rep' = [rep EXCEPT !.improved = TRUE, !.users = UsersAfter(@),
                        !.net = 0, !.saved = <<>>, !.tries = 0]
  /\ pc' = "nets"
  /\ UNCHANGED <<mode, iteration, trees, occ, critical, banned, todo, batch>>

\* Everything goes back as it was.
Undo ==
  /\ pc = "displace"
  /\ Settled \/ rep.tries = DisplacedRounds
  /\ ~Acceptable
  /\ LET moved == DOMAIN rep.saved
     IN  /\ trees' = [i \in Net |-> IF i \in moved THEN rep.saved[i] ELSE trees[i]]
         /\ occ' = Place(Lift(occ, moved, trees), moved, trees')
  /\ rep' = [rep EXCEPT !.net = 0, !.saved = <<>>, !.tries = 0]
  /\ pc' = "nets"
  /\ UNCHANGED <<mode, iteration, critical, banned, todo, batch, limit>>

-----------------------------------------------------------------------------

Next == \/ Begin \/ GiveUp \/ Keep \/ Reroute
        \/ NextBatch \/ Round \/ Commit \/ CommitAgain \/ CommitRerouted
        \/ Analyse \/ Bar \/ Finish
        \/ RepairRound \/ RepairDone \/ Improved
        \/ RepairNet \/ Displace \/ Move \/ Accept \/ Undo

Spec == Init /\ [][Next]_vars
LiveSpec == Spec /\ WF_vars(Next)

-----------------------------------------------------------------------------
(* Properties.                                                             *)

\* Every variable keeps its type; the trees that are there are trees of
\* their nets, sinks and all.
TypeOK ==
  /\ pc \in Steps
  /\ mode \in Mode
  /\ iteration \in 0..MaxIterations
  /\ \A i \in Net : trees[i] = {} \/ trees[i] \in Trees[i]
  /\ occ \in [Node -> Nat]
  /\ \A i \in Net : critical[i] \subseteq Sinks[i]
  /\ banned \in [Net -> SUBSET {Group[e] : e \in Edge}]
  /\ todo \subseteq Net
  /\ batch \in [nets : SUBSET Net, again : SUBSET Net, on : SUBSET Net, took : SUBSET Node,
                old : [Net -> SUBSET Edge], fresh : [Net -> SUBSET Edge]]
  /\ limit \in Nat
  /\ rep.round \in 0..RepairRounds /\ rep.tries \in 0..DisplacedRounds
  /\ rep.net \in Net \cup {0} /\ rep.moving \subseteq Net /\ DOMAIN rep.saved \subseteq Net
  /\ rep.improved \in BOOLEAN /\ rep.users \subseteq Net \X Nat
  /\ \A c \in rep.todo : c.net \in Net /\ c.sinks \subseteq Sinks[c.net]

\* The nodes net i has in the occupancy: its tree's, and those of the tree
\* it had before the batch while that is not ripped up.
Held(i) == Nodes(i, trees[i]) \cup IF i \in batch.on THEN Nodes(i, batch.old[i]) ELSE {}

\* `occ` counts, at every step, the nets using each node (NodeInfo::occ):
\* what negotiation calls congested, and what ends it, is read from there,
\* while nets are ripped up, committed, displaced and put back.
OccIsUse == \A n \in Node : occ[n] = Cardinality({i \in Net : n \in Held(i)})

Disjoint(S) == \A i, j \in S : i # j => Nodes(i, trees[i]) \cap Nodes(j, trees[j]) = {}

\* From the first legal routing on, between one repair and the next, and
\* when the routing is returned, no node is two nets' and every net has a
\* tree: "the repair stays if every node ends up with one net", "otherwise
\* everything goes back as it was".
LegalBetweenRepairs ==
  pc \in {"analyse", "repair", "nets", "done"}
    => Disjoint(Net) /\ \A i \in Net : trees[i] # {}

\* A routing that is returned has one use per bank, and a tile past its
\* capacity only where each of its nets has a single use.
ExclusiveAtEnd ==
  LET uses == Uses(trees)
      In(t) == {u \in uses : TileOf(u[2]) = t}
  IN  pc = "done" =>
        /\ \A u, v \in uses : BankOf(u[2]) = BankOf(v[2]) => u = v
        /\ \A t \in DOMAIN Capacity : Cardinality(In(t)) > Capacity[t]
                                        => \A u, v \in In(t) : u[1] = v[1] => u = v

\* A net barred from a group stays out of it, in every reroute and in what
\* a repair puts back.
BarredStayOut ==
  pc # "failed" => \A i \in Net : {Group[e] : e \in trees[i]} \cap banned[i] = {}

\* The critical path that is reported is that of the trees that are
\* returned, through repairs made and undone.
ReportedIsReal == pc \in {"repair", "nets", "done"} => limit = Critical(trees)

\* A repair that changes the critical path does not make it longer.
NoRepairSlower ==
  [][limit' # limit /\ pc \in {"displace", "nets"} => limit' <= limit]_vars

\* Nets that commit in one round of a batch do not share a node: those that
\* found the same one could not see each other, and the later goes again
\* (with the integer search, which never reroutes within the round).
RoundsAreDisjoint ==
  pc = "commit" /\ mode.bucketed =>
    Disjoint({i \in Net : trees[i] # {} /\ Nodes(i, trees[i]) \subseteq batch.took})

\* A routing that is returned keeps to the exclusive groups, and nets that
\* commit in one round of a batch share no node (chipsmith-route lib.rs,
\* `breaks_exclusive` and the batches' commits).
TreesApart == ExclusiveAtEnd /\ RoundsAreDisjoint

\* Routing ends: with trees, or because it ran out of iterations or a sink
\* could not be reached.
Terminates == <>(pc \in {"done", "failed"})
=============================================================================
