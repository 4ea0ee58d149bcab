-------------------------------- MODULE LutMap --------------------------------
(***************************************************************************)
(* Gates mapped to LUTs of K inputs (crates/chipsmith-synth/src/lutmap.rs): *)
(* the gates become a hashed graph of ANDs, each AND keeps a few cuts with *)
(* their functions, passes choose one of them, and the chosen ones that    *)
(* are needed become LUTs.                                                 *)
(*                                                                         *)
(* A netlist is [gates, read]: gates[y] = [op, ins], a signal a bit or Low *)
(* or High; read: the gate outputs that are read outside, ascending.  A    *)
(* literal is twice a node, one more if it is inverted; node 0 is FALSE.   *)
(* Area flow, an estimate, is left open: it may put any cut first that     *)
(* depth allows.                                                           *)
(***************************************************************************)
EXTENDS FiniteSets, Integers, Sequences, SequencesExt

CONSTANTS None, Netlists, K, CUTS, AREA_PASSES, EXACT_PASSES

VARIABLES net, aig, at, map, cover, out

mapping == <<net, aig, at, map, cover, out>>

Low == -1
High == -2
FALSE_LIT == 0
TRUE_LIT == 1

Of(l) == l \div 2
Inverted(l) == l % 2 = 1
Inv(l) == IF Inverted(l) THEN l - 1 ELSE l + 1
Node(nodes, n) == nodes[n + 1]
IsAnd(nodes, n) == Node(nodes, n).is = "and"
\* Nodes in the order they were made.
InOrder(set) == SelectSeq([k \in 1 .. Len(aig.nodes) |-> k - 1], LAMBDA n : n \in set)

-----------------------------------------------------------------------------
(* The graph. Each of these gives [nodes, lit].                            *)

At(nodes, node) ==
  IF \E n \in DOMAIN nodes : nodes[n] = node
  THEN [nodes |-> nodes, lit |-> 2 * ((CHOOSE n \in DOMAIN nodes : nodes[n] = node) - 1)]
  ELSE [nodes |-> Append(nodes, node), lit |-> 2 * Len(nodes)]

And(nodes, p, q) ==
  LET a == IF p < q THEN p ELSE q
      b == IF p < q THEN q ELSE p
  IN  CASE a = FALSE_LIT \/ a = Inv(b) -> [nodes |-> nodes, lit |-> FALSE_LIT]
        [] a = TRUE_LIT \/ a = b -> [nodes |-> nodes, lit |-> b]
        [] OTHER -> At(nodes, [is |-> "and", a |-> a, b |-> b])
Negated(g) == [g EXCEPT !.lit = Inv(@)]
Or(nodes, a, b) == Negated(And(nodes, Inv(a), Inv(b)))
Either(nodes, a, b, c, d) ==   \* a /\ b, or c /\ d
  LET x == And(nodes, a, b)
      y == And(x.nodes, c, d)
  IN  Or(y.nodes, x.lit, y.lit)

Gate(nodes, op, x) ==
  CASE op = "and" -> And(nodes, x[1], x[2])
    [] op = "nand" -> Negated(And(nodes, x[1], x[2]))
    [] op = "or" -> Or(nodes, x[1], x[2])
    [] op = "nor" -> Negated(Or(nodes, x[1], x[2]))
    [] op = "xor" -> Either(nodes, x[1], Inv(x[2]), Inv(x[1]), x[2])
    [] op = "xnor" -> Negated(Either(nodes, x[1], Inv(x[2]), Inv(x[1]), x[2]))
    [] op = "andnot" -> And(nodes, x[1], Inv(x[2]))
    [] op = "ornot" -> Or(nodes, x[1], Inv(x[2]))
    [] op = "not" -> [nodes |-> nodes, lit |-> Inv(x[1])]
    [] op = "buf" -> [nodes |-> nodes, lit |-> x[1]]
    [] op = "mux" -> Either(nodes, x[3], x[2], Inv(x[3]), x[1])

\* The signals of a gate as literals, leaves made as they are met.
Inputs(nodes, lits, ins) ==
  FoldLeft(LAMBDA g, s :
             LET h == CASE s = Low -> [nodes |-> g.nodes, lit |-> FALSE_LIT]
                        [] s = High -> [nodes |-> g.nodes, lit |-> TRUE_LIT]
                        [] s \in DOMAIN lits -> [nodes |-> g.nodes, lit |-> lits[s]]
                        [] OTHER -> At(g.nodes, [is |-> "leaf", bit |-> s])
             IN  [nodes |-> h.nodes, x |-> Append(g.x, h.lit)],
           [nodes |-> nodes, x |-> <<>>], ins)

\* Depth first from every bit that is read, with a stack.
Build ==
  /\ at.phase = "build" /\ aig.stack # <<>>
  /\ LET b == Last(aig.stack)
         gate == net.gates[b]
         pending == SelectSeq(gate.ins, LAMBDA s : s \in DOMAIN net.gates /\ s \notin DOMAIN aig.lits)
         in == Inputs(aig.nodes, aig.lits, gate.ins)
         g == Gate(in.nodes, gate.op, in.x)
     IN  CASE b \in DOMAIN aig.lits -> aig' = [aig EXCEPT !.stack = Front(@)] /\ UNCHANGED at
           [] b \notin DOMAIN aig.lits /\ pending = <<>> ->
                /\ aig' = [aig EXCEPT !.nodes = g.nodes, !.stack = Front(@), !.open = @ \ {b},
                                      !.lits = [s \in DOMAIN @ \cup {b} |-> IF s = b THEN g.lit ELSE @[s]]]
                /\ UNCHANGED at
           [] b \notin DOMAIN aig.lits /\ pending # <<>> /\ b \notin aig.open ->
                aig' = [aig EXCEPT !.stack = @ \o pending, !.open = @ \cup {b}] /\ UNCHANGED at
           [] OTHER -> at' = [at EXCEPT !.phase = "loop"] /\ UNCHANGED aig
  /\ UNCHANGED <<net, map, cover, out>>

-----------------------------------------------------------------------------
(* Cuts: [leaves, tt], a function of K inputs as the set of the input      *)
(* values where it is TRUE; input i is leaf i, in order.                   *)

Values == 0 .. 2^K - 1
BitOf(m, i) == (m \div 2^i) % 2
Place(leaf, leaves) == Cardinality({l \in leaves : l < leaf})
LeafTable == {m \in Values : BitOf(m, 0) = 1}

\* A function over `from` as one over `to`, which holds them all.
Stretch(tt, from, to) ==
  LET index[set \in SUBSET from] ==
        [m \in Values |-> IF set = {} THEN 0
                          ELSE LET l == CHOOSE l \in set : TRUE
                               IN  index[set \ {l}][m] + BitOf(m, Place(l, to)) * 2^Place(l, from)]
  IN  {m \in Values : index[from][m] \in tt}

\* Leaf i is dropped if the function is the same for both of its values; the
\* table of what is left is repeated.
DropLeaf(cut, i) ==
  LET n == Cardinality(cut.leaves)
      leaf == CHOOSE l \in cut.leaves : Place(l, cut.leaves) = i
      wide(m) == (m % 2^i) + (m \div 2^i) * 2^(i + 1)
  IN  [leaves |-> cut.leaves \ {leaf}, tt |-> {m \in Values : wide(m % 2^(n - 1)) \in cut.tt}]
Independent(cut, i) == \A m \in Values : BitOf(m, i) = 0 => (m \in cut.tt) = (m + 2^i \in cut.tt)
Reduce(cut) ==
  FoldLeft(LAMBDA st, k : IF Independent(st.cut, st.i) THEN [st EXCEPT !.cut = DropLeaf(@, st.i)]
                          ELSE [st EXCEPT !.i = @ + 1],
           [cut |-> cut, i |-> 0], [k \in 1 .. Cardinality(cut.leaves) |-> k]).cut

\* Wrong on purpose: the polarity of the fanin is lost on its own cuts.
FaninCutsPlain(l) ==
  LET v == Of(l)
      pol(tt) == IF Inverted(l) THEN Values \ tt ELSE tt
  IN  <<[leaves |-> {v}, tt |-> pol(LeafTable)]>> \o (IF IsAnd(aig.nodes, v) THEN map[v].cuts ELSE <<>>)

\* What a fanin offers: itself as a leaf, and its own cuts.
FaninCuts(l) ==
  LET v == Of(l)
      pol(tt) == IF Inverted(l) THEN Values \ tt ELSE tt
  IN  <<[leaves |-> {v}, tt |-> pol(LeafTable)]>>
        \o (IF ~IsAnd(aig.nodes, v) THEN <<>>
            ELSE [k \in DOMAIN map[v].cuts |-> [map[v].cuts[k] EXCEPT !.tt = pol(@)]])

Both(x, y) ==
  LET leaves == x.leaves \cup y.leaves
  IN  Reduce([leaves |-> leaves, tt |-> Stretch(x.tt, x.leaves, leaves) \cap Stretch(y.tt, y.leaves, leaves)])

\* The cuts of an AND, the small ones first, none with all the leaves of
\* another that is kept.
Enumerate(v) ==
  LET cx == FaninCuts(Node(aig.nodes, v).a)
      cy == FaninCuts(Node(aig.nodes, v).b)
      fits(x, y) == Cardinality(x.leaves \cup y.leaves) <= K
      all == FlattenSeq([i \in DOMAIN cx |-> FlattenSeq([j \in DOMAIN cy |->
               IF fits(cx[i], cy[j]) THEN <<Both(cx[i], cy[j])>> ELSE <<>>])])
      sorted == FlattenSeq([n \in 1 .. K + 1 |-> SelectSeq(all, LAMBDA c : Cardinality(c.leaves) = n - 1)])
  IN  FoldLeft(LAMBDA kept, c : IF \E k \in DOMAIN kept : kept[k].leaves \subseteq c.leaves THEN kept
                                ELSE Append(kept, c),
               <<>>, sorted)

-----------------------------------------------------------------------------
(* The passes, over the ANDs in the order they were made.                  *)

Ands == {n \in 0 .. Len(aig.nodes) - 1 : IsAnd(aig.nodes, n)}
Lits == {aig.lits[net.read[k]] : k \in DOMAIN net.read}
Roots == {Of(l) : l \in Lits} \cap Ands
Highest(set) == IF set = {} THEN 0 ELSE CHOOSE n \in set : \A m \in set : m <= n
DepthOf(n) == IF n \in DOMAIN map THEN map[n].depth ELSE 0
CutDepth(cut) == Highest({DepthOf(l) : l \in cut.leaves}) + 1
Best(v) == map[v].cuts[map[v].best]
Deepest == Highest({map[v].depth : v \in Roots})

\* The ANDs the best cuts need, from the outputs.
RECURSIVE Needs(_)
Needs(set) ==
  LET more == set \cup (UNION {Best(v).leaves : v \in set} \cap Ands)
  IN  IF more = set THEN set ELSE Needs(more)

\* How deep each node may be; an output as deep as the deepest now.
Required ==
  LET max == Deepest
      atRoot == [n \in 0 .. Len(aig.nodes) - 1 |-> IF n \in Roots THEN max ELSE None]
      earlier(r, bound) == IF r = None \/ bound < r THEN bound ELSE r
      req == FoldLeft(LAMBDA r, v : IF r[v] = None THEN r
                                    ELSE [n \in DOMAIN r |-> IF n \in Best(v).leaves THEN earlier(r[n], r[v] - 1)
                                                             ELSE r[n]],
                      atRoot, Reverse(InOrder(cover)))
  IN  [n \in DOMAIN req |-> IF req[n] = None THEN max ELSE req[n]]

\* The lists the cuts of an AND may be left as, the best in front: by depth
\* in the first pass, those in time before those that are late in the others;
\* only CUTS of them are kept.
Late(cut, v) == IF at.req = None THEN CutDepth(cut) ELSE IF CutDepth(cut) > at.req[v] THEN 1 ELSE 0
Kept(cuts, v) ==
  LET late == [i \in DOMAIN cuts |-> Late(cuts[i], v)]
      before(s, t) == \A i \in s, j \in t : late[i] <= late[j]
      size == IF Len(cuts) < CUTS THEN Len(cuts) ELSE CUTS
      sets == {s \in SUBSET DOMAIN cuts : Cardinality(s) = size /\ before(s, DOMAIN cuts \ s)}
      rest(b, s) == SelectSeq([i \in DOMAIN cuts |-> i], LAMBDA i : i \in s \ {b})
      list(b, s) == <<cuts[b]>> \o [i \in DOMAIN rest(b, s) |-> cuts[rest(b, s)[i]]]
  IN  UNION {{list(b, s) : b \in {b \in s : before({b}, DOMAIN cuts)}} : s \in sets}
Candidates(v) ==
  LET cuts == Enumerate(v)
      kept == at.req # None /\ net.keep_best_cut /\ Best(v) \notin Range(cuts)
  IN  IF kept THEN Append(cuts, Best(v)) ELSE cuts

Built ==
  /\ at.phase = "build" /\ aig.stack = <<>>
  /\ map' = [v \in Ands |-> [cuts |-> <<>>, best |-> 1, depth |-> 0]]
  /\ at' = [at EXCEPT !.phase = "pass", !.todo = InOrder(Ands)]
  /\ UNCHANGED <<net, aig, cover, out>>

Choose ==
  /\ at.phase = "pass" /\ at.todo # <<>>
  /\ \E cuts \in Kept(Candidates(Head(at.todo)), Head(at.todo)) :
       map' = [map EXCEPT ![Head(at.todo)] = [cuts |-> cuts, best |-> 1, depth |-> CutDepth(cuts[1])]]
  /\ at' = [at EXCEPT !.todo = Tail(@)]
  /\ UNCHANGED <<net, aig, cover, out>>

\* The end of a pass: what is needed now, and what is next.
Cover ==
  /\ at.phase \in {"pass", "exact"} /\ at.todo = <<>>
  /\ cover' = Needs(Roots)
  /\ at' = [at EXCEPT !.phase = "turn"]
  /\ UNCHANGED <<net, aig, map, out>>

\* References from the cover: one for each leaf of a LUT, one for an output.
ExactRefs ==
  [n \in 0 .. Len(aig.nodes) - 1 |-> Cardinality({v \in cover : n \in Best(v).leaves}) + (IF n \in Roots THEN 1 ELSE 0)]

Cost(set) == FoldSet(LAMBDA v, sum : sum + net.cost[Cardinality(Best(v).leaves)], 0, set)

Turn ==
  /\ at.phase = "turn"
  /\ LET next == [at EXCEPT !.req = Required, !.todo = InOrder(Ands), !.first = IF @ = None THEN Deepest ELSE @]
     IN  \/ at.left > 0 /\ at' = [next EXCEPT !.phase = "pass", !.left = @ - 1]
         \/ /\ at.left = 0 /\ at.more > 0
            /\ at' = [next EXCEPT !.phase = "exact", !.more = @ - 1, !.refs = ExactRefs, !.area = Cost(cover)]
         \/ at.left = 0 /\ at.more = 0 /\ at' = [at EXCEPT !.phase = "emit"]
  /\ UNCHANGED <<net, aig, map, cover, out>>

-----------------------------------------------------------------------------
(* Exact area: what the cuts add to, and take from, the rest of the cover. *)

RECURSIVE Reference(_, _), Dereference(_, _)
Reference(r, leaves) ==
  FoldLeft(LAMBDA s, l : LET t == [s EXCEPT !.refs[l] = @ + 1]
                         IN  IF t.refs[l] = 1 /\ l \in Ands THEN Reference(t, Best(l).leaves) ELSE t,
           [r EXCEPT !.area = @ + net.cost[Cardinality(leaves)]], InOrder(leaves))
Dereference(r, leaves) ==
  FoldLeft(LAMBDA s, l : LET t == [s EXCEPT !.refs[l] = @ - 1]
                         IN  IF t.refs[l] = 0 /\ l \in Ands THEN Dereference(t, Best(l).leaves) ELSE t,
           [r EXCEPT !.area = @ + net.cost[Cardinality(leaves)]], InOrder(leaves))
Refs(refs) == [refs |-> refs, area |-> 0]

\* The cuts in time that add least; the one there is, if none is in time.
Smallest(v, refs) ==
  LET cuts == map[v].cuts
      timely == {i \in DOMAIN cuts : CutDepth(cuts[i]) <= at.req[v]}
      area == [i \in timely |-> Reference(Refs(refs), cuts[i].leaves).area]
  IN  IF timely = {} THEN {map[v].best} ELSE {i \in timely : \A j \in timely : area[i] <= area[j]}

Exact ==
  /\ at.phase = "exact" /\ at.todo # <<>>
  /\ LET v == Head(at.todo)
         without == Dereference(Refs(at.refs), Best(v).leaves).refs
     IN  \/ /\ at.refs[v] = 0
            /\ map' = [map EXCEPT ![v].depth = CutDepth(Best(v))]
            /\ at' = [at EXCEPT !.todo = Tail(@)]
         \/ /\ at.refs[v] > 0
            /\ \E i \in Smallest(v, without) :
                 /\ map' = [map EXCEPT ![v].best = i, ![v].depth = CutDepth(map[v].cuts[i])]
                 /\ at' = [at EXCEPT !.todo = Tail(@), !.refs = Reference(Refs(without), map[v].cuts[i].leaves).refs]
  /\ UNCHANGED <<net, aig, cover, out>>

-----------------------------------------------------------------------------
(* The LUTs: [y, ins, tt], an input a bit or Low.                          *)

\* The outputs that read node v, in one polarity, in order.
Reads(v, inverted) ==
  SelectSeq(net.read, LAMBDA b : Of(aig.lits[b]) = v /\ Inverted(aig.lits[b]) = inverted)
\* A LUT drives the first output that reads it, upright if one does; a bit
\* of its own if none does.
Flipped(v) == Reads(v, FALSE) = <<>> /\ Reads(v, TRUE) # <<>>
Fresh(v) == net.max_bit + 1 + Cardinality({w \in cover : w < v /\ Reads(w, FALSE) \o Reads(w, TRUE) = <<>>})
BitFor(v) ==
  CASE Reads(v, FALSE) # <<>> -> Reads(v, FALSE)[1]
    [] Flipped(v) -> Reads(v, TRUE)[1]
    [] OTHER -> Fresh(v)

LeafBit(n) ==
  CASE Node(aig.nodes, n).is = "leaf" -> Node(aig.nodes, n).bit
    [] IsAnd(aig.nodes, n) -> BitFor(n)
    [] OTHER -> Low

\* A table over the LUTs as they are made, some of them upside down.
Swapped(m, i) == IF BitOf(m, i) = 1 THEN m - 2^i ELSE m + 2^i
Table(cut) ==
  LET sorted == InOrder(cut.leaves)
  IN  FoldLeft(LAMBDA tt, i : IF IsAnd(aig.nodes, sorted[i]) /\ Flipped(sorted[i])
                              THEN {Swapped(m, i - 1) : m \in tt} ELSE tt,
               cut.tt, [i \in DOMAIN sorted |-> i])

LutOf(v, y, flipped) ==
  LET leaves == InOrder(Best(v).leaves)
  IN  [y |-> y, ins |-> [i \in DOMAIN leaves |-> LeafBit(leaves[i])],
       tt |-> IF flipped THEN Values \ Table(Best(v)) ELSE Table(Best(v))]

\* Another output of a node: the same bit, a LUT of its own for the other
\* polarity, or that one again; of a leaf, the leaf or its inverse.
More(b) ==
  LET v == Of(aig.lits[b])
      flip == Inverted(aig.lits[b])
      node == Node(aig.nodes, v)
      second == Reads(v, TRUE)[1]
      none == [luts |-> {}, aliases |-> {}]
      alias(t) == [none EXCEPT !.aliases = {<<b, t>>}]
  IN  CASE node.is = "and" /\ BitFor(v) = b -> none
        [] node.is = "and" /\ BitFor(v) # b /\ Flipped(v) = flip -> alias(BitFor(v))
        [] node.is = "and" /\ BitFor(v) # b /\ Flipped(v) # flip ->
             IF second = b THEN [none EXCEPT !.luts = {LutOf(v, b, flip)}] ELSE alias(second)
        [] node.is = "leaf" -> IF flip THEN [none EXCEPT !.luts = {[y |-> b, ins |-> <<node.bit>>, tt |-> Values \ LeafTable]}]
                               ELSE alias(node.bit)
        [] node.is = "const" -> alias(IF flip THEN High ELSE Low)

Emit ==
  /\ at.phase = "emit"
  /\ LET rest == {More(net.read[k]) : k \in DOMAIN net.read}
     IN  out' = [luts |-> {LutOf(v, BitFor(v), Flipped(v)) : v \in cover} \cup UNION {r.luts : r \in rest},
                 aliases |-> UNION {r.aliases : r \in rest}]
  /\ at' = [at EXCEPT !.phase = "done"]
  /\ UNCHANGED <<net, aig, map, cover>>

Init ==
  /\ net \in Netlists
  /\ aig = [nodes |-> <<[is |-> "const"]>>, lits |-> <<>>, stack |-> Reverse(net.read), open |-> {}]
  /\ at = [phase |-> "build", todo |-> <<>>, req |-> None, left |-> AREA_PASSES, more |-> EXACT_PASSES, refs |-> None,
          first |-> None, area |-> None]
  /\ map = <<>>
  /\ cover = {}
  /\ out = None

Next == Build \/ Built \/ Choose \/ Cover \/ Turn \/ Exact \/ Emit

Spec == Init /\ [][Next]_mapping

-----------------------------------------------------------------------------
Truth(op, v) ==
  CASE op = "and" -> v[1] /\ v[2] [] op = "nand" -> ~(v[1] /\ v[2]) [] op = "or" -> v[1] \/ v[2]
    [] op = "nor" -> ~(v[1] \/ v[2]) [] op = "xor" -> v[1] # v[2] [] op = "xnor" -> v[1] = v[2]
    [] op = "andnot" -> v[1] /\ ~v[2] [] op = "ornot" -> v[1] \/ ~v[2] [] op = "not" -> ~v[1] [] op = "buf" -> v[1]
    [] op = "mux" -> IF v[3] THEN v[2] ELSE v[1]
Sources == UNION {Range(net.gates[g].ins) : g \in DOMAIN net.gates} \ (DOMAIN net.gates \cup {Low, High})
RECURSIVE Given(_, _), ByLuts(_, _), OfNode(_, _)
\* What the gates, the LUTs and the graph make of a bit, or a node.
Given(b, val) ==
  IF b \in DOMAIN net.gates
  THEN Truth(net.gates[b].op, [i \in DOMAIN net.gates[b].ins |-> Given(net.gates[b].ins[i], val)])
  ELSE IF b \in {Low, High} THEN b = High ELSE val[b]
ByLuts(b, val) ==
  LET drives == {l \in out.luts : l.y = b}
      lut == CHOOSE l \in drives : TRUE
      in == [i \in DOMAIN lut.ins |-> ByLuts(lut.ins[i], val)]
      index[n \in 0 .. Len(lut.ins)] == IF n = 0 THEN 0 ELSE index[n - 1] + (IF in[n] THEN 2^(n - 1) ELSE 0)
  IN  CASE b \in {Low, High} -> b = High
        [] b \in {a[1] : a \in out.aliases} -> ByLuts((CHOOSE a \in out.aliases : a[1] = b)[2], val)
        [] drives # {} -> index[Len(lut.ins)] \in lut.tt
        [] OTHER -> val[b]
OfNode(n, val) ==
  LET node == Node(aig.nodes, n)
      lit(l) == OfNode(Of(l), val) # Inverted(l)
  IN  CASE node.is = "const" -> FALSE [] node.is = "leaf" -> val[node.bit] [] OTHER -> lit(node.a) /\ lit(node.b)

\* Every output that was read is driven once, by a LUT of at most K inputs
\* or as another signal, and has the value the gates gave it.
LutsSame ==
  at.phase = "done" =>
    /\ \A l, m \in out.luts : l.y = m.y => l = m
    /\ \A l \in out.luts : Len(l.ins) <= K /\ l.y \notin {a[1] : a \in out.aliases} \cup Sources
    /\ \A k \in DOMAIN net.read : \A val \in [Sources -> BOOLEAN] : ByLuts(net.read[k], val) = Given(net.read[k], val)

\* With the best cut kept, no later pass makes the mapping deeper than the
\* first left it.
NeverDeeper == net.keep_best_cut /\ at.phase = "turn" /\ at.first # None => Deepest <= at.first

\* Exact area never costs: what the cover costs is no more after a pass.
AreaRecovered ==
  net.keep_best_cut /\ at.phase = "exact" /\ at.todo = <<>> => Cost(Needs(Roots)) <= at.area
=============================================================================
