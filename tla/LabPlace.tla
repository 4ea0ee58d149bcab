---- MODULE LabPlace ----
(* The Cyclone II placer (crates/chipsmith-cyclone2/src/place.rs, place/le.rs
   and place/detail.rs): logic elements are put into LABs, whole carry chains
   from the top of a LAB down, blocks on sites of their kind. A design is
   clustered (or taken LE by LE), legalised, and then moved about: one move at
   a time by the annealer, many independent ones per round by the detailed
   placer. Where a target lies, which candidate attracts most and what the
   timing analysis says are left open.

   A design: labs, sites, les (inputs, the register's controls, packed), the
   LE driving each net, chains, the kind of each block, and for wirelength the
   members of each net: LEs (twice when its LUT and its register are both on
   it), blocks, and the places of fixed cells. *)
EXTENDS Integers, Sequences, FiniteSets, FiniteSetsExt, SequencesExt

CONSTANTS None, Designs, LES_PER_LAB, MAX_LAB_INPUTS, MAX_PACKED_PER_LAB

VARIABLES d,        \* the design
          phase,    \* what the placer is doing
          work,     \* the clustering under way, or the objects to legalise
          s,        \* the placement: slots, pos, site, box, cost, weight
          round     \* the last round of detailed placement: cost before, gain

place == <<d, phase, work, s, round>>

Les == DOMAIN d.les
Labs == DOMAIN d.labs
Slots == 0 .. LES_PER_LAB - 1
Nets == DOMAIN d.nets
Blocks == DOMAIN d.blocks
InChain(le) == \E c \in DOMAIN d.chains : \E i \in DOMAIN d.chains[c] : d.chains[c][i] = le
ChainOf(le) == IF InChain(le)
               THEN CHOOSE c \in DOMAIN d.chains : \E i \in DOMAIN d.chains[c] : d.chains[c][i] = le
               ELSE None
CeilDiv(n, m) == (n + m - 1) \div m

--------------------------------------------------------------------------------
\* Boxes.

Axis(values) ==
  LET V == {values[i] : i \in DOMAIN values}
      Count(v) == Cardinality({i \in DOMAIN values : values[i] = v})
  IN  [lo |-> Min(V), hi |-> Max(V), nlo |-> Count(Min(V)), nhi |-> Count(Max(V))]
Shifted(a, o, n) ==
  IF o = n THEN a
  ELSE LET low == IF o = a.lo THEN a.nlo - 1 ELSE a.nlo
           high == IF o = a.hi THEN a.nhi - 1 ELSE a.nhi
       IN  [lo |-> IF n < a.lo THEN n ELSE a.lo,
            nlo |-> IF n < a.lo THEN 1 ELSE IF n = a.lo THEN low + 1 ELSE low,
            hi |-> IF n > a.hi THEN n ELSE a.hi,
            nhi |-> IF n > a.hi THEN 1 ELSE IF n = a.hi THEN high + 1 ELSE high]
\* moved: FALSE when an edge lost its last cell
Moved(b, old, new) == [x |-> Shifted(b.x, old[1], new[1]), y |-> Shifted(b.y, old[2], new[2])]
Full(a, o, n) == o = n \/ (a.nlo > 0 /\ a.nhi > 0)
StillExact(b, old, new) == Full(b.x, old[1], new[1]) /\ Full(b.y, old[2], new[2])
hpwl(b) == ((b.x.hi - b.x.lo) \div 2) + (b.y.hi - b.y.lo)
Edges(b) == <<b.x.lo, b.x.hi, b.y.lo, b.y.hi>>

LeXY(st, le) == d.labs[st.pos[le][1]]
BlockXY(st, r) == d.sites[st.site[r]].xy
Points(st, n) ==
  [i \in DOMAIN d.nets[n].les |-> LeXY(st, d.nets[n].les[i])]
  \o [i \in DOMAIN d.nets[n].blocks |-> BlockXY(st, d.nets[n].blocks[i])]
  \o d.nets[n].fixed
compute_bbox(st, n) ==
  LET p == Points(st, n)
  IN  [x |-> Axis([i \in DOMAIN p |-> p[i][1]]), y |-> Axis([i \in DOMAIN p |-> p[i][2]])]
Cost(st, n) == st.weight[n] * hpwl(st.box[n])
total(st) == FoldSet(LAMBDA n, sum : sum + st.cost[n], 0, Nets)
Costed(st) == [st EXCEPT !.cost = [n \in Nets |-> Cost(st, n)]]
recompute_costs(st) == Costed([st EXCEPT !.box = [n \in Nets |-> compute_bbox(st, n)]])

--------------------------------------------------------------------------------
\* What a LAB accepts: lab_check_of, for LEs `in` a LAB, `home` saying which
\* LEs are there.

Agree(F, control(_)) ==
  \A f, g \in F : control(f)[1] = None \/ control(g)[1] = None \/ control(f) = control(g)
Lines(in, home(_)) ==
  LET read == UNION {Range(d.les[le].inputs) : le \in in}
      Local(n) == d.driver[n] # None /\ home(d.driver[n])
      drivers == {d.driver[n] : n \in {m \in read : Local(m)}}
  IN  Cardinality(read) - Cardinality(drivers)   \* one net of each comes on its local line
lab_check_of(in, home(_)) ==
  LET F == {d.les[le].ff : le \in {l \in in : d.les[l].ff # None}}
  IN  /\ Cardinality({le \in in : d.les[le].packed}) <= MAX_PACKED_PER_LAB
      /\ Lines(in, home) <= MAX_LAB_INPUTS
      /\ \A f, g \in F : f.sync_kind = 0 \/ g.sync_kind = 0 \/ f.sync_kind = g.sync_kind
      /\ \A f, g \in F : f.clk = g.clk
      /\ Cardinality({<<f.clk, f.ena>> : f \in F}) <= 2
      /\ Agree(F, LAMBDA f : f.ena) /\ Agree(F, LAMBDA f : f.sclr)
      /\ Agree(F, LAMBDA f : f.sload) /\ Agree(F, LAMBDA f : f.aclr)

In(st, lab) == Range(st.slots[lab]) \ {None}
lab_ok(st, lab) ==
  lab_check_of(In(st, lab), LAMBDA le : st.pos[le] # None /\ st.pos[le][1] = lab)
\* The LEs of a cluster alone in a LAB.
Alone(members) == lab_check_of(Range(members), LAMBDA le : le \in Range(members))

--------------------------------------------------------------------------------
\* The placement.

put(st, le, lab, k) == [st EXCEPT !.slots[lab][k] = le, !.pos[le] = <<lab, k>>]
Lifted(st, le) == [st EXCEPT !.slots[st.pos[le][1]][st.pos[le][2]] = None]
put_block(st, r, site) == [st EXCEPT !.site[r] = site]
BlockAt(st, site) == IF \E r \in Blocks : st.site[r] = site
                     THEN CHOOSE r \in Blocks : st.site[r] = site ELSE None
Cleared == [slots |-> [l \in Labs |-> [k \in Slots |-> None]], pos |-> [le \in Les |-> None],
            site |-> [r \in Blocks |-> None], weight |-> [n \in Nets |-> 1],
            box |-> [n \in Nets |-> None], cost |-> [n \in Nets |-> 0]]

LabAt(xy) == IF \E l \in Labs : d.labs[l] = xy THEN CHOOSE l \in Labs : d.labs[l] = xy ELSE None
chain_labs(lab, len) ==
  LET labs == [i \in 1 .. CeilDiv(len, LES_PER_LAB) |-> LabAt(<<d.labs[lab][1], d.labs[lab][2] - i + 1>>)]
  IN  IF \E i \in DOMAIN labs : labs[i] = None THEN None ELSE labs
Target(labs, i) == <<labs[((i - 1) \div LES_PER_LAB) + 1], (i - 1) % LES_PER_LAB>>
PutChain(st, chain, labs) ==
  FoldLeftDomain(LAMBDA acc, i : put(acc, chain[i], Target(labs, i)[1], Target(labs, i)[2]), st, chain)

\* undo: what moved is lifted from where it is now if it is still there, then
\* put back where it was.
Undone(st, moved) ==
  LET lift(acc, m) == IF acc.slots[acc.pos[m.le][1]][acc.pos[m.le][2]] = m.le THEN Lifted(acc, m.le) ELSE acc
      back(acc, m) == put(acc, m.le, m.lab, m.k)
  IN  FoldLeft(back, FoldLeft(lift, st, moved), moved)
Was(st, le) == [le |-> le, lab |-> st.pos[le][1], k |-> st.pos[le][2]]

\* The three kinds of move: the placement after it and what moved, or None.
MoveChain(st, c, lab) ==
  LET chain == d.chains[c]
      labs == chain_labs(lab, Len(chain))
      Free(i) == LET o == st.slots[Target(labs, i)[1]][Target(labs, i)[2]]
                 IN  o = None \/ ChainOf(o) = c
      moved == [i \in DOMAIN chain |-> Was(st, chain[i])]
      st2 == PutChain(FoldLeft(Lifted, st, chain), chain, labs)
      touched == Range(labs) \cup {moved[i].lab : i \in DOMAIN moved}
  IN  IF labs = None THEN None
      ELSE IF ~ (\A i \in DOMAIN chain : Free(i)) THEN None
      ELSE IF \A l \in touched : lab_ok(st2, l) THEN [st |-> st2, moved |-> moved, blocks |-> <<>>]
      ELSE None
\* Wrong on purpose: the LAB an LE leaves is not looked at.
MoveLeInto(st, le, lab, k) ==
  LET other == st.slots[lab][k]
      from == st.pos[le][1]
      fk == st.pos[le][2]
      swapped == IF other = None THEN Lifted(st, le) ELSE put(st, other, from, fk)
      st2 == put(swapped, le, lab, k)
  IN  IF other = le \/ (other # None /\ InChain(other)) THEN None
      ELSE IF lab_ok(st2, lab)
      THEN [st |-> st2, blocks |-> <<>>,
            moved |-> <<Was(st, le)>> \o (IF other = None THEN <<>> ELSE <<Was(st, other)>>)]
      ELSE None
MoveLe(st, le, lab, k) ==
  LET other == st.slots[lab][k]
      from == st.pos[le][1]
      fk == st.pos[le][2]
      swapped == IF other = None THEN Lifted(st, le) ELSE put(st, other, from, fk)
      st2 == put(swapped, le, lab, k)
  IN  IF other = le \/ (other # None /\ InChain(other)) THEN None
      ELSE IF lab_ok(st2, lab) /\ (from = lab \/ lab_ok(st2, from))
      THEN [st |-> st2, blocks |-> <<>>,
            moved |-> <<Was(st, le)>> \o (IF other = None THEN <<>> ELSE <<Was(st, other)>>)]
      ELSE None
try_move_block(st, r, site) ==
  LET o == BlockAt(st, site)
      st2 == put_block(IF o = None THEN st ELSE put_block(st, o, st.site[r]), r, site)
  IN  IF site = st.site[r] THEN None
      ELSE [st |-> st2, moved |-> <<>>,
            blocks |-> <<[r |-> r, site |-> st.site[r]]>>
                       \o (IF o = None THEN <<>> ELSE <<[r |-> o, site |-> site]>>)]

\* apply_cost: the box of every net touched, cell by cell; one an edge of
\* which was emptied is left until every cell is in place.
Shift(acc, n, old, new) ==
  IF n \in acc.dirty THEN acc
  ELSE LET b == Moved(acc.box[n], old, new)
       IN  [box |-> [acc.box EXCEPT ![n] = b], touched |-> acc.touched \cup {n},
            dirty |-> IF StillExact(b, old, new) THEN acc.dirty ELSE acc.dirty \cup {n}]
\* A net's cells that move, from where to where.
Hops(before, m) ==
  FoldLeft(LAMBDA hops, x :
             hops \o FoldSet(LAMBDA n, more :
                       more \o [i \in 1 .. Cardinality({j \in DOMAIN d.nets[n].les : d.nets[n].les[j] = x.le})
                                |-> <<n, d.labs[x.lab], LeXY(m.st, x.le)>>], <<>>, Nets), <<>>, m.moved)
  \o FoldLeft(LAMBDA hops, x :
             hops \o FoldSet(LAMBDA n, more :
                       more \o [i \in 1 .. Cardinality({j \in DOMAIN d.nets[n].blocks : d.nets[n].blocks[j] = x.r})
                                |-> <<n, d.sites[x.site].xy, BlockXY(m.st, x.r)>>], <<>>, Nets), <<>>, m.blocks)
Applied(before, m) ==
  LET acc == FoldLeft(LAMBDA a, h : Shift(a, h[1], h[2], h[3]),
                      [box |-> before.box, touched |-> {}, dirty |-> {}], Hops(before, m))
  IN  [st |-> [m.st EXCEPT !.box = [n \in Nets |-> IF n \in acc.dirty THEN compute_bbox(m.st, n)
                                                   ELSE acc.box[n]]],
       saved |-> [n \in acc.touched |-> before.box[n]]]
commit_cost(st, saved) ==
  [st EXCEPT !.cost = [n \in Nets |-> IF n \in DOMAIN saved THEN Cost(st, n) ELSE st.cost[n]]]
revert_cost(st, saved) ==
  [st EXCEPT !.box = [n \in Nets |-> IF n \in DOMAIN saved THEN saved[n] ELSE st.box[n]]]
TakenBack(st, m) ==
  FoldLeft(LAMBDA acc, x : put_block(acc, x.r, x.site), Undone(st, m.moved), m.blocks)

--------------------------------------------------------------------------------
\* Clusters.

Budget == Cardinality(Labs)
          - FoldSet(LAMBDA c, sum : sum + CeilDiv(Len(d.chains[c]), LES_PER_LAB), 0, DOMAIN d.chains)
Seeds == {le \in Les : ~ InChain(le)}
Clustered(w) == UNION {Range(w.clusters[i]) : i \in DOMAIN w.clusters} \cup Range(w.open)
\* Registers first, in index order.
Before(a, b) == \/ d.les[a].ff # None /\ d.les[b].ff = None
                \/ (d.les[a].ff # None <=> d.les[b].ff # None) /\ a < b
Together(a, b) == \E n \in Nets : {a, b} \subseteq Range(d.nets[n].les)
Clustering(fill) == [clusters |-> <<>>, open |-> <<>>, refused |-> {}, fill |-> fill, order |-> <<>>]

Init ==
  /\ d \in Designs
  /\ s = Cleared
  /\ round = None
  /\ \/ phase = "cluster" /\ work = Clustering(FALSE)
     \/ phase = "le" /\ work = [c \in {"chains", "les", "blocks"} |->
                                 CASE c = "chains" -> DOMAIN d.chains
                                   [] c = "les" -> Seeds [] c = "blocks" -> Blocks]

Seed ==
  /\ phase = "cluster" /\ work.open = <<>>
  /\ \E le \in Seeds \ Clustered(work) :
       /\ \A other \in Seeds \ Clustered(work) : other = le \/ Before(le, other)
       /\ work' = [work EXCEPT !.open = <<le>>, !.refused = {}]
  /\ UNCHANGED <<d, phase, s, round>>

\* The candidates: those on a net of the cluster; then, to fill it up, the
\* first LUT that has no register.
Left(w) == (Seeds \ Clustered(w)) \ w.refused
Attracted(w) == {le \in Left(w) : \E m \in Range(w.open) : Together(le, m)}
Fillers(w) == IF ~ w.fill THEN {}
              ELSE {le \in Left(w) : d.les[le].ff = None /\ \A o \in Left(w) : d.les[o].ff = None => le <= o}
Candidates(w) == IF Attracted(w) # {} THEN Attracted(w) ELSE Fillers(w)
Grow ==
  /\ phase = "cluster" /\ work.open # <<>> /\ Len(work.open) < LES_PER_LAB
  /\ \E le \in Candidates(work) :
       work' = IF Alone(Append(work.open, le)) THEN [work EXCEPT !.open = Append(@, le)]
               ELSE [work EXCEPT !.refused = @ \cup {le}]
  /\ UNCHANGED <<d, phase, s, round>>
Close ==
  /\ phase = "cluster" /\ work.open # <<>>
  /\ Len(work.open) = LES_PER_LAB \/ Candidates(work) = {}
  /\ work' = [work EXCEPT !.clusters = Append(@, work.open), !.open = <<>>]
  /\ UNCHANGED <<d, phase, s, round>>

BySize(w) == SetToSortSeq(DOMAIN w.clusters,
               LAMBDA i, j : \/ Len(w.clusters[i]) < Len(w.clusters[j])
                             \/ Len(w.clusters[i]) = Len(w.clusters[j]) /\ i < j)
StartMerging ==
  /\ phase = "cluster" /\ work.open = <<>> /\ Seeds \subseteq Clustered(work)
  /\ phase' = "merge"
  /\ work' = [work EXCEPT !.order = BySize(work)]
  /\ UNCHANGED <<d, s, round>>

Joined(w, i, j) == [w EXCEPT !.clusters = [k \in DOMAIN w.clusters |->
                                            IF k = i THEN <<>>
                                            ELSE IF k = j THEN w.clusters[j] \o w.clusters[i]
                                            ELSE w.clusters[k]],
                             !.order = Tail(@)]
Joinable(w, i, j) ==
  /\ i # j /\ w.clusters[i] # <<>>
  /\ Len(w.clusters[i]) + Len(w.clusters[j]) <= LES_PER_LAB
  /\ Alone(w.clusters[j] \o w.clusters[i])
SharesANet(w, i, j) == \E a \in Range(w.clusters[i]), b \in Range(w.clusters[j]) : Together(a, b)
Next1(w) == [w EXCEPT !.order = Tail(@)]
Merge ==
  /\ phase = "merge" /\ work.order # <<>>
  /\ LET i == Head(work.order)
         C == {j \in DOMAIN work.clusters : Joinable(work, i, j) /\ SharesANet(work, i, j)}
     IN  work' \in (IF C = {} THEN {Next1(work)} ELSE {Joined(work, i, j) : j \in C})
  /\ UNCHANGED <<d, phase, s, round>>
Compact(w) == [w EXCEPT !.clusters = SelectSeq(w.clusters, LAMBDA c : c # <<>>)]
MergeDone ==
  /\ phase = "merge" /\ work.order = <<>>
  /\ LET w == Compact(work)
     IN  IF Len(w.clusters) > Budget
         THEN /\ phase' = "pack"
              /\ work' = [w EXCEPT !.order = SelectSeq(BySize(w), LAMBDA i : Len(w.clusters[i]) < LES_PER_LAB)]
         ELSE phase' = "clustered" /\ work' = w
  /\ UNCHANGED <<d, s, round>>
\* pack_clusters: any that fits, the fullest first, until there are few enough.
Live(w) == Cardinality({i \in DOMAIN w.clusters : w.clusters[i] # <<>>})
Pack ==
  /\ phase = "pack"
  /\ IF work.order # <<>> /\ Live(work) > Budget
     THEN /\ LET i == Head(work.order)
                 later == SelectSeq(Tail(work.order),
                            LAMBDA j : work.clusters[j] # <<>> /\ Joinable(work, i, j))
             IN  work' = IF later = <<>> THEN Next1(work) ELSE Joined(work, i, later[Len(later)])
          /\ phase' = phase
     ELSE work' = Compact(work) /\ phase' = "clustered"
  /\ UNCHANGED <<d, s, round>>
\* cluster: once more, filling up, when there are still too many.
Clusters ==
  /\ phase = "clustered"
  /\ IF Len(work.clusters) > Budget /\ ~ work.fill
     THEN work' = Clustering(TRUE) /\ phase' = "cluster"
     ELSE /\ work' = [chains |-> DOMAIN d.chains, clusters |-> Range(work.clusters), blocks |-> Blocks]
          /\ phase' = "legalise"
  /\ UNCHANGED <<d, s, round>>

--------------------------------------------------------------------------------
\* Legalising: chains first, longest first, then clusters, then blocks (or
\* blocks, chains, registers, LUTs), each anywhere it is accepted.

FreeSlots(st, lab) == SelectSeq([k \in 1 .. LES_PER_LAB |-> k - 1], LAMBDA k : st.slots[lab][k] = None)
PutAll(st, members, lab) ==
  FoldLeftDomain(LAMBDA acc, i : put(acc, members[i], lab, FreeSlots(st, lab)[i]), st, members)
ChainPlaces(c) ==
  {labs \in {chain_labs(l, Len(d.chains[c])) : l \in Labs} \ {None} :
     /\ \A i \in DOMAIN d.chains[c] : s.slots[Target(labs, i)[1]][Target(labs, i)[2]] = None
     /\ \A l \in Range(labs) : lab_ok(PutChain(s, d.chains[c], labs), l)}
ClusterPlaces(members) ==
  {lab \in Labs : /\ Len(FreeSlots(s, lab)) >= Len(members)
                  /\ lab_ok(PutAll(s, members, lab), lab)}
BlockPlaces(r) == {i \in DOMAIN d.sites : d.sites[i].kind = d.blocks[r] /\ BlockAt(s, i) = None}
Longest(C) == {c \in C : \A other \in C : Len(d.chains[other]) <= Len(d.chains[c])}
Biggest(C) == {c \in C : \A other \in C : Len(other) <= Len(c)}

\* In the cluster flow a failure is final, in the LE one clusters are tried.
Fails == IF phase = "le" THEN phase' = "cluster" /\ work' = Clustering(FALSE) /\ s' = Cleared
         ELSE phase' = "failed" /\ UNCHANGED <<work, s>>
Turn(part) ==
  LET order == IF phase = "le" THEN <<"blocks", "chains", "les">> ELSE <<"chains", "clusters", "blocks">>
      at == CHOOSE i \in DOMAIN order : order[i] = part
  IN  \A i \in 1 .. at - 1 : work[order[i]] = {}
PlaceChain ==
  /\ phase \in {"legalise", "le"} /\ work.chains # {} /\ Turn("chains")
  /\ \E c \in Longest(work.chains) :
       IF ChainPlaces(c) = {} THEN Fails
       ELSE /\ \E labs \in ChainPlaces(c) : s' = PutChain(s, d.chains[c], labs)
            /\ work' = [work EXCEPT !.chains = @ \ {c}] /\ phase' = phase
  /\ UNCHANGED <<d, round>>
PlaceCluster ==
  /\ phase = "legalise" /\ work.clusters # {} /\ Turn("clusters")
  /\ \E c \in Biggest(work.clusters) :
       IF ClusterPlaces(c) = {} THEN Fails
       ELSE /\ \E lab \in ClusterPlaces(c) : s' = PutAll(s, c, lab)
            /\ work' = [work EXCEPT !.clusters = @ \ {c}] /\ phase' = phase
  /\ UNCHANGED <<d, round>>
PlaceLe ==
  /\ phase = "le" /\ work.les # {} /\ Turn("les")
  /\ \E le \in work.les :
       /\ d.les[le].ff = None => \A o \in work.les : d.les[o].ff = None
       /\ IF ClusterPlaces(<<le>>) = {} THEN Fails
          ELSE /\ \E lab \in ClusterPlaces(<<le>>) : s' = PutAll(s, <<le>>, lab)
               /\ work' = [work EXCEPT !.les = @ \ {le}] /\ phase' = phase
  /\ UNCHANGED <<d, round>>
PlaceBlock ==
  /\ phase \in {"legalise", "le"} /\ work.blocks # {} /\ Turn("blocks")
  /\ \E r \in work.blocks :
       IF BlockPlaces(r) = {} THEN Fails
       ELSE /\ \E i \in BlockPlaces(r) : s' = put_block(s, r, i)
            /\ work' = [work EXCEPT !.blocks = @ \ {r}] /\ phase' = phase
  /\ UNCHANGED <<d, round>>
Placed ==
  /\ phase \in {"legalise", "le"} /\ \A part \in DOMAIN work : work[part] = {}
  /\ s' = recompute_costs(s)
  /\ phase' = "refine" /\ work' = None
  /\ UNCHANGED <<d, round>>

--------------------------------------------------------------------------------
\* The annealer: a move tried, measured, and kept or taken back.

Kept(m) == LET a == Applied(s, m) IN commit_cost(a.st, a.saved)
Rejected(m) == LET a == Applied(s, m) IN TakenBack(revert_cost(a.st, a.saved), m)
Attempt(m) ==
  /\ m # None
  /\ LET a == Applied(s, m)
     IN  \/ s' = Kept(m)
         \/ s' = Rejected(m)        \* a probe, or a dearer move refused
  /\ round' = None
  /\ UNCHANGED <<d, phase, work>>
AnnealLe == /\ phase = "refine"
            /\ \E le \in Seeds, lab \in Labs, k \in Slots : Attempt(MoveLe(s, le, lab, k))
AnnealChain == /\ phase = "refine"
               /\ \E c \in DOMAIN d.chains, lab \in Labs : Attempt(MoveChain(s, c, lab))
AnnealBlock == /\ phase = "refine"
               /\ \E r \in Blocks : \E i \in {j \in DOMAIN d.sites : d.sites[j].kind = d.blocks[r]} :
                    Attempt(try_move_block(s, r, i))
\* reweight: a net on the critical path counts for more.
Reweight ==
  /\ phase = "refine"
  /\ \E n \in Nets : s' = Costed([s EXCEPT !.weight = [m \in Nets |-> IF m = n THEN 3 ELSE 1]])
  /\ round' = None
  /\ UNCHANGED <<d, phase, work>>

--------------------------------------------------------------------------------
\* Detailed placement.

NetsOf(le) == {n \in Nets : le \in Range(d.nets[n].les)}
\* score: le to slot k of another LAB, swapping with what is there.
Proposal(le, lab, k) ==
  LET from == s.pos[le][1]
      fk == s.pos[le][2]
      other == s.slots[lab][k]
      Home(x) == IF x = le THEN lab ELSE IF x = other THEN from ELSE s.pos[x][1]
      at(l) == {x \in Les : Home(x) = l}
      nets == NetsOf(le) \cup (IF other = None THEN {} ELSE NetsOf(other))
      There(x) == IF x = le THEN d.labs[lab] ELSE IF x = other THEN d.labs[from] ELSE LeXY(s, x)
      Box(n) == LET p == [i \in DOMAIN d.nets[n].les |-> There(d.nets[n].les[i])]
                         \o [i \in DOMAIN d.nets[n].blocks |-> BlockXY(s, d.nets[n].blocks[i])]
                         \o d.nets[n].fixed
                IN  [x |-> Axis([i \in DOMAIN p |-> p[i][1]]), y |-> Axis([i \in DOMAIN p |-> p[i][2]])]
  IN  IF \/ lab = from \/ (other # None /\ InChain(other))
         \/ ~ lab_check_of(at(lab), LAMBDA x : Home(x) = lab)
         \/ ~ lab_check_of(at(from), LAMBDA x : Home(x) = from)
      THEN None
      ELSE [le |-> le, lab |-> lab, k |-> k, other |-> other, nets |-> nets,
            changed |-> {n \in nets : Edges(Box(n)) # Edges(s.box[n])},
            delta |-> FoldSet(LAMBDA n, sum : sum + (s.weight[n] * hpwl(Box(n))) - s.cost[n], 0, nets)]
Proposals == {p \in {Proposal(le, lab, k) : le \in Seeds, lab \in Labs, k \in Slots} :
                p # None /\ p.delta < 0}
apply(st, p) ==
  LET from == st.pos[p.le][1]
      fk == st.pos[p.le][2]
      out == Lifted(st, p.le)
      st2 == put(IF p.other = None THEN out ELSE put(out, p.other, from, fk), p.le, p.lab, p.k)
      st3 == [st2 EXCEPT !.box = [n \in Nets |-> IF n \in p.nets THEN compute_bbox(st2, n) ELSE st2.box[n]]]
  IN  [st3 EXCEPT !.cost = [n \in Nets |-> IF n \in p.nets THEN Cost(st3, n) ELSE st3.cost[n]]]
Clash(acc, p) == p.nets \cap acc.changed # {} \/ p.changed \cap acc.touched # {}
Take(acc, p) ==
  LET from == acc.st.pos[p.le][1]
  IN  IF {from, p.lab} \cap acc.labs # {} \/ Clash(acc, p) THEN acc
      ELSE [st |-> apply(acc.st, p), labs |-> acc.labs \cup {from, p.lab},
            touched |-> acc.touched \cup p.nets, changed |-> acc.changed \cup p.changed,
            gain |-> acc.gain - p.delta]
\* Every LE proposes at most one move, the best are taken first.
Detail ==
  /\ phase = "refine"
  /\ \E P \in {Q \in SUBSET Proposals : Q # {} /\ \A p, q \in Q : p.le = q.le => p = q} :
       LET props == SetToSortSeq(P, LAMBDA p, q : p.delta < q.delta \/ (p.delta = q.delta /\ p.le < q.le))
           acc == FoldLeft(Take, [st |-> s, labs |-> {}, touched |-> {}, changed |-> {}, gain |-> 0], props)
       IN  s' = acc.st /\ round' = [before |-> total(s), gain |-> acc.gain]
  /\ UNCHANGED <<d, phase, work>>

Next == \/ Seed \/ Grow \/ Close \/ StartMerging \/ Merge \/ MergeDone \/ Pack \/ Clusters
        \/ PlaceChain \/ PlaceCluster \/ PlaceLe \/ PlaceBlock \/ Placed
        \/ AnnealLe \/ AnnealChain \/ AnnealBlock \/ Reweight \/ Detail
Spec == Init /\ [][Next]_place

--------------------------------------------------------------------------------
\* Clusters hold every LE that is in no chain once, and each is one a LAB takes.
ClustersFit ==
  phase \in {"cluster", "merge", "pack", "clustered"} =>
    /\ \A i, j \in DOMAIN work.clusters :
         i # j => Range(work.clusters[i]) \cap Range(work.clusters[j]) = {}
    /\ phase # "cluster" => Clustered(work) = Seeds
    /\ \A i \in DOMAIN work.clusters :
         Len(work.clusters[i]) <= LES_PER_LAB /\ Alone(work.clusters[i])

\* Whatever was moved, swapped, refused or taken back, an LE is where its slot
\* says, a chain runs on from the top of a LAB, blocks are on sites of their
\* own, and no LAB holds what it would refuse.
LabsLegal ==
  /\ \A le \in Les : s.pos[le] # None => s.slots[s.pos[le][1]][s.pos[le][2]] = le
  /\ \A l \in Labs, k \in Slots : s.slots[l][k] # None => s.pos[s.slots[l][k]] = <<l, k>>
  /\ \A c \in DOMAIN d.chains : s.pos[d.chains[c][1]] # None =>
       \A i \in DOMAIN d.chains[c] :
         s.pos[d.chains[c][i]] = Target(chain_labs(s.pos[d.chains[c][1]][1], Len(d.chains[c])), i)
  /\ \A r, t \in Blocks : r # t /\ s.site[r] # None => s.site[r] # s.site[t]
  /\ \A r \in Blocks : s.site[r] # None => d.sites[s.site[r]].kind = d.blocks[r]
  /\ \A l \in Labs : lab_ok(s, l)

\* The boxes and costs kept up to date move by move are those the placement has.
CostsTrue == phase = "refine" => s = recompute_costs(s)

\* A round of moves scored one by one gains at least what the scores add up to.
RoundGains == round # None => total(s) <= round.before - round.gain
====
