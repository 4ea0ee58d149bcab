----------------------------- MODULE SlicePlace -----------------------------
(***************************************************************************)
(* The 7-series' placer (xc7 place.rs): what does not move gets its site,  *)
(* then chains, RAMs, hard blocks and BLEs are put down greedily, near the *)
(* middle or near where a global placement wants them, and an anneal moves *)
(* and swaps them.  The tables of what is where are changed move by move,  *)
(* and changed back when a move is refused.                                *)
(*                                                                         *)
(* Any timing, any global placement and any proposal may come: the range   *)
(* and the temperature only say which.  A position is <<slice, letter>> or *)
(* <<tile, half>>, objects are <<"ble", 1>>, <<"carry", 1>> and so on.     *)
(***************************************************************************)
EXTENDS Integers, Sequences, FiniteSets, FiniteSetsExt, SequencesExt, TLC

CONSTANTS
  None,
  Designs,     \* [cells, nets, bles, carries, drams, bram, dsp]
  Db,          \* the device's sites, by name: [name, ty, half, tile, xy, up]
  SLOTS,       \* LUTs of a slice (4)
  WEIGHT       \* the weight of a net on the critical path

VARIABLES d, g, phase, todo, fixed, s

vars == <<d, g, phase, todo, fixed, s>>

-----------------------------------------------------------------------------
\* The sites (Grid).
OfType(T) == SelectSeq(Db, LAMBDA x : x.ty \in T)
SliceSites == OfType({"SLICEL", "SLICEM"})
\* The slice whose CIN a slice's COUT drives.
SlicesOf ==
  [i \in DOMAIN SliceSites |->
     LET x == SliceSites[i]
         xs == {SliceSites[j].xy[1] : j \in DOMAIN SliceSites}
         up == {j \in DOMAIN SliceSites : SliceSites[j].name = x.up}
     IN  [site |-> x.name, xy |-> x.xy, even |-> x.half = 0, slicem |-> x.ty = "SLICEM",
          next |-> IF up = {} THEN None ELSE CHOOSE j \in up : TRUE,
          col |-> Cardinality({c \in xs : c < x.xy[1]})]]
\* BRAM and DSP tiles that have all their sites.
Tiles(halves, full) ==
  LET At(t, ty, h) == {i \in DOMAIN Db : Db[i].tile = t /\ Db[i].ty \in ty /\ Db[i].half = h}
      name(S) == Db[CHOOSE i \in S : TRUE].name
      whole(x) == /\ x.ty \in halves /\ x.half = 0 /\ At(x.tile, halves, 1) # {}
                  /\ full # {} => At(x.tile, full, 0) # {}
      tile(x) == [xy |-> x.xy, half |-> <<x.name, name(At(x.tile, halves, 1))>>,
                  full |-> IF full = {} THEN None ELSE name(At(x.tile, full, 0))]
      before(a, b) == a.xy[1] < b.xy[1] \/ (a.xy[1] = b.xy[1] /\ a.xy[2] < b.xy[2])
      found == SelectSeq(Db, whole)
  IN  SortSeq([i \in DOMAIN found |-> tile(found[i])], before)
HardsOf == [bram |-> Tiles({"FIFO18E1", "RAMB18E1"}, {"RAMBFIFO36E1"}), dsp |-> Tiles({"DSP48E1"}, {})]

Slices == g.slices
Hards == g.hard
Xs == g.xs
Y_MAX == Max({Slices[i].xy[2] : i \in DOMAIN Slices})

Apart(a, b) == IF a < b THEN b - a ELSE a - b
Distance(a, b) == (Apart(a[1], b[1]) \div 2) + Apart(a[2], b[2])
\* Indices by distance from a place, the lower first of two as far.
Nearest(n, xy(_), from) ==
  SortSeq([i \in 1..n |-> i], LAMBDA i, j : \/ Distance(xy(i), from) < Distance(xy(j), from)
                                        \/ (Distance(xy(i), from) = Distance(xy(j), from) /\ i < j))
Near(from) == Nearest(Len(Slices), LAMBDA i : Slices[i].xy, from)
chain(root, len) ==
  LET up[i \in 1..len] == IF i = 1 THEN root ELSE IF up[i - 1] = None THEN None ELSE Slices[up[i - 1]].next
  IN  IF up[len] = None THEN None ELSE up

-----------------------------------------------------------------------------
\* What moves.
Objects ==
  {<<"ble", i>> : i \in DOMAIN d.bles} \cup {<<"carry", i>> : i \in DOMAIN d.carries} \cup {<<"dram", i>> : i \in DOMAIN d.drams}
  \cup {<<"bram", i>> : i \in DOMAIN d.bram} \cup {<<"dsp", i>> : i \in DOMAIN d.dsp}
IsHard(o) == o[1] \in {"bram", "dsp"}
HardOf(o) == d[o[1]][o[2]]
ble_cs(b) == d.bles[b].cs
hard_full(o) == HardOf(o).full \/ HardOf(o).upper # None
SliceCells(x) == {x.carry} \cup ((Range(x.lut6) \cup Range(x.lut5) \cup Range(x.ff)) \ {None})
cells_of(o) ==
  CASE o[1] = "ble" -> {d.bles[o[2]][k] : k \in {"lut", "ff", "lut5", "ff5"}} \ {None}
    [] o[1] = "carry" -> UNION {SliceCells(d.carries[o[2]][i]) : i \in DOMAIN d.carries[o[2]]}
    [] o[1] = "dram" -> Range(d.drams[o[2]].lut6) \cup Range(d.drams[o[2]].lut5)
    [] OTHER -> {HardOf(o).cell, HardOf(o).upper} \ {None}
\* index_nets: nets that count have a driver that is not a clock's or a
\* constant's, and two cells.
NetCells(n) ==
  IF d.nets[n].driver = None \/ d.cells[d.nets[n].driver] \in {"bufg", "cmt", "gnd", "vcc"} THEN {}
  ELSE LET c == {d.nets[n].driver} \cup d.nets[n].users IN IF Cardinality(c) < 2 THEN {} ELSE c
Nets == DOMAIN d.nets
NetsOf(C) == {n \in Nets : NetCells(n) \cap C # {}}

\* Half the perimeter, x at half its weight, doubled.
hpwl(st, n) ==
  LET xy == {st.xy[c] : c \in NetCells(n)}
      x == {p[1] : p \in xy}
      y == {p[2] : p \in xy}
  IN  IF xy = {} THEN 0 ELSE (Max(x) - Min(x)) + 2 * (Max(y) - Min(y))
cost(st, n) == st.weight[n] * hpwl(st, n)
CostOf(st, N) == FoldSet(LAMBDA n, sum : sum + st.cost[n], 0, N)
Costed(st, N) == [st EXCEPT !.cost = [n \in Nets |-> IF n \in N THEN cost(st, n) ELSE st.cost[n]]]

-----------------------------------------------------------------------------
\* Putting one down and lifting it.
Macro == <<"macro", 0>>
slices_of(o, p) == IF o[1] = "carry" THEN chain(p[1], Len(d.carries[o[2]])) ELSE <<p[1]>>
hard_slots(o, p) ==
  IF ~hard_full(o) THEN {p} ELSE IF p[2] = 1 THEN {p, <<p[1], 2>>} ELSE {}
SlotsOf(S) == S \X (1..SLOTS)

unplace(st, o) ==
  LET p == st.pos[o]
      gone == [st EXCEPT !.pos[o] = None]
  IN  CASE o[1] = "ble" ->
             [gone EXCEPT !.occ[p] = None,
                          !.cs[p[1]] = IF ble_cs(o[2]) = None THEN st.cs[p[1]]
                                       ELSE IF st.cs[p[1]].n > 1 THEN [cs |-> st.cs[p[1]].cs, n |-> st.cs[p[1]].n - 1] ELSE None]
        [] IsHard(o) -> [gone EXCEPT !.hard[o[1]] = [k \in DOMAIN st.hard[o[1]] |->
                                                      IF k \in hard_slots(o, p) THEN None ELSE st.hard[o[1]][k]]]
        [] OTHER -> LET S == Range(slices_of(o, p))
                    IN  [gone EXCEPT !.macro = [x \in DOMAIN st.macro |-> IF x \in S THEN None ELSE st.macro[x]],
                                     !.occ = [k \in DOMAIN st.occ |-> IF k[1] \in S THEN None ELSE st.occ[k]]]

Moved(st, o, p, cells, xy) ==
  [st EXCEPT !.pos[o] = p, !.xy = [c \in DOMAIN st.xy |-> IF c \in cells THEN xy ELSE st.xy[c]]]
placeBle(st, o, p) ==
  LET cs == ble_cs(o[2])
      have == st.cs[p[1]]
      now == IF cs = None THEN have ELSE IF have = None THEN [cs |-> cs, n |-> 1] ELSE [cs |-> cs, n |-> have.n + 1]
  IN  IF st.occ[p] # None \/ (cs # None /\ have # None /\ have.cs # cs) THEN None
      ELSE [Moved(st, o, p, cells_of(o), Slices[p[1]].xy) EXCEPT !.occ[p] = o, !.cs[p[1]] = now]
placeHard(st, o, p) ==
  LET slots == hard_slots(o, p)
      have == st.hard[o[1]]
  IN  IF p \notin DOMAIN have \/ slots = {} \/ \E k \in slots : have[k] # None THEN None
      ELSE [Moved(st, o, p, cells_of(o), Hards[o[1]][p[1]].xy)
              EXCEPT !.hard[o[1]] = [k \in DOMAIN have |-> IF k \in slots THEN o[2] ELSE have[k]]]
Fits(st, o, x) ==
  /\ Slices[x].even /\ (o[1] = "dram" => Slices[x].slicem)
  /\ st.macro[x] = None /\ \A k \in 1..SLOTS : st.occ[<<x, k>>] = None
placeMacro(st, o, p) ==
  LET S == slices_of(o, p)
      at(c) == IF o[1] = "dram" THEN 1 ELSE CHOOSE i \in DOMAIN S : c \in SliceCells(d.carries[o[2]][i])
  IN  IF S = None \/ (\E i \in DOMAIN S : ~Fits(st, o, S[i])) THEN None
      ELSE [st EXCEPT !.pos[o] = p,
                      !.macro = [x \in DOMAIN st.macro |-> IF x \in Range(S) THEN o ELSE st.macro[x]],
                      !.occ = [k \in DOMAIN st.occ |-> IF k[1] \in Range(S) THEN Macro ELSE st.occ[k]],
                      !.xy = [c \in DOMAIN st.xy |-> IF c \in cells_of(o) THEN Slices[S[at(c)]].xy ELSE st.xy[c]]]
place(st, o, p) ==
  CASE o[1] = "ble" -> placeBle(st, o, p) [] IsHard(o) -> placeHard(st, o, p) [] OTHER -> placeMacro(st, o, p)

\* Several at once; all back where they were, or None, if one is refused.
Lifted(st, moves) == FoldLeft(LAMBDA x, m : unplace(x, m[1]), st, moves)
Placed(st, moves) == FoldLeft(LAMBDA x, m : IF x = None THEN None ELSE place(x, m[1], m[2]), st, moves)
Old(st, moves) == [i \in DOMAIN moves |-> <<moves[i][1], st.pos[moves[i][1]]>>]
undo(st, old) == Placed(Lifted(st, old), old)
apply(st, moves) ==
  LET lifted == Lifted(st, moves)
      upTo(n) == Placed(lifted, SubSeq(moves, 1, n))
      n == Max({i \in 0..Len(moves) : upTo(i) # None})
  IN  IF n = Len(moves) THEN [ok |-> TRUE, st |-> upTo(n)]
      ELSE [ok |-> FALSE, st |-> Placed(Lifted(upTo(n), SubSeq(moves, 1, n)), Old(st, moves))]

\* A hard block swaps with one as large, placed just there.
HardMoves(st, o, p) ==
  LET others == {st.hard[o[1]][k] : k \in hard_slots(o, p)} \ {None, o[2]}
      x == <<o[1], CHOOSE y \in others : TRUE>>
  IN  IF hard_slots(o, p) = {} \/ p \notin DOMAIN st.hard[o[1]] THEN None
      ELSE IF others = {} THEN <<<<o, p>>>>
      ELSE IF Cardinality(others) = 1 /\ hard_full(x) = hard_full(o) /\ st.pos[x] = p THEN <<<<o, p>>, <<x, st.pos[o]>>>>
      ELSE None
\* A chain's or RAM's new slices hand their BLEs, or a RAM, to those it leaves.
HandedOver(st, x, to) ==
  IF st.macro[x] # None THEN <<<<st.macro[x], <<to, 1>>>>>>
  ELSE LET there == SelectSeq([k \in 1..SLOTS |-> k], LAMBDA k : st.occ[<<x, k>>] # None)
       IN  [i \in DOMAIN there |-> <<st.occ[<<x, there[i]>>], <<to, there[i]>>>>]
MacroMoves(st, o, p) ==
  LET old == slices_of(o, st.pos[o])
      new == slices_of(o, p)
      gained == SelectSeq(new, LAMBDA x : x \notin Range(old))
      freed == SelectSeq(old, LAMBDA x : x \notin Range(new))
      inTheWay(x) == st.macro[x] # None /\ ~(o[1] = "dram" /\ st.macro[x][1] = "dram")
  IN  IF new = None THEN None
      ELSE IF \E i \in DOMAIN gained : inTheWay(gained[i]) THEN None
      ELSE <<<<o, p>>>> \o FlattenSeq([i \in DOMAIN gained |-> HandedOver(st, gained[i], freed[i])])
moves_to(st, o, p) ==
  CASE st.pos[o] = p -> None
    [] IsHard(o) -> HardMoves(st, o, p)
    [] o[1] = "ble" -> IF st.occ[p] = None THEN <<<<o, p>>>>
                       ELSE IF st.occ[p] = Macro THEN None ELSE <<<<o, p>>, <<st.occ[p], st.pos[o]>>>>
    [] OTHER -> MacroMoves(st, o, p)

-----------------------------------------------------------------------------
\* What does not move: pins, BSCANs and the PS7; then clock blocks, each in
\* the free site nearest the cell that drives it; BUFGCTRLs last.
SiteXy(n) == Db[CHOOSE i \in DOMAIN Db : Db[i].name = n].xy
Cells(K) == {c \in DOMAIN d.cells : d.cells[c] \in K}
XyOfDriver(c, otherwise) ==
  LET n == d.clocked[c]
  IN  IF n # None /\ d.nets[n].driver \in DOMAIN fixed THEN SiteXy(fixed[d.nets[n].driver]) ELSE otherwise
FreeOf(T) == {i \in DOMAIN Db : Db[i].ty \in T /\ \A c \in DOMAIN fixed : fixed[c] # Db[i].name}
Given(c) == IF d.cells[c] = "ps7" THEN "PS7_X0Y0" ELSE d.sites[c]
FixPins ==
  /\ phase = "fixed" /\ todo = 1
  /\ IF \E c \in Cells({"pad", "bscan", "ps7"}) : \A i \in DOMAIN Db : Db[i].name # Given(c)
     THEN phase' = "failed" /\ UNCHANGED <<todo, fixed>>
     ELSE fixed' = [c \in Cells({"pad", "bscan", "ps7"}) |-> Given(c)] /\ todo' = 2 /\ UNCHANGED phase
  /\ UNCHANGED <<d, g, s>>
FixClock(kind, T, otherwise, next) ==
  LET left == Cells({kind}) \ DOMAIN fixed
      c == Min(left)
      from == XyOfDriver(c, otherwise)
      away(i) == <<Distance(Db[i].xy, from), i>>
      free == FreeOf(T)
      best == CHOOSE i \in free : \A j \in free : away(i)[1] < away(j)[1] \/ (away(i)[1] = away(j)[1] /\ i <= j)
  IN  IF left = {} THEN next
      ELSE IF free = {} THEN phase' = "failed" /\ UNCHANGED <<todo, fixed>>
      ELSE fixed' = (c :> Db[best].name) @@ fixed /\ UNCHANGED <<phase, todo>>
FixCmt ==
  /\ phase = "fixed" /\ todo = 2
  /\ FixClock("cmt", {"PLLE2_ADV"}, <<0, Y_MAX \div 2>>, todo' = 3 /\ UNCHANGED <<phase, fixed>>)
  /\ UNCHANGED <<d, g, s>>
FixBufg ==
  /\ phase = "fixed" /\ todo = 3
  /\ FixClock("bufg", {"BUFGCTRL"}, <<Max(Xs) \div 2, Y_MAX \div 2>>, phase' \in {"greedy", "global"} /\ todo' = 1 /\ UNCHANGED fixed)
  /\ UNCHANGED <<d, g, s>>

-----------------------------------------------------------------------------
\* The start: macros, hard blocks, BLEs; nearest the middle, registers one
\* control set at a time, or each near its target.
First(st, o, places) ==
  LET ok == {i \in DOMAIN places : place(st, o, places[i]) # None}
  IN  IF ok = {} THEN None ELSE places[Min(ok)]
Rank(o) == CASE o[1] = "carry" -> 0 [] o[1] = "dram" -> 1 [] o[1] = "bram" -> 2 [] o[1] = "dsp" -> 3 [] OTHER -> 4
Length(o) == IF o[1] = "carry" THEN Len(d.carries[o[2]]) ELSE 1
\* Longest chains first, in the global start among the RAMs; whole tiles
\* before halves; registers before lone LUTs.
Earlier(a, b) ==
  LET group(o) == IF phase = "global" /\ o[1] = "dram" THEN 0 ELSE Rank(o)
      key(o) == CASE o[1] \in {"carry", "dram"} -> 0 - Length(o)
                  [] IsHard(o) -> (IF hard_full(o) THEN 0 ELSE 1)
                  [] phase = "global" -> 0
                  [] OTHER -> (IF ble_cs(o[2]) = None THEN 1000 ELSE ble_cs(o[2]))
  IN  \/ group(a) < group(b)
      \/ group(a) = group(b) /\ (key(a) < key(b) \/ (key(a) = key(b) /\ (Rank(a) < Rank(b) \/ (Rank(a) = Rank(b) /\ a[2] < b[2]))))
Order ==
  LET of(kind, q) == [i \in DOMAIN q |-> <<kind, i>>]
  IN  SortSeq(of("ble", d.bles) \o of("carry", d.carries) \o of("dram", d.drams) \o of("bram", d.bram) \o of("dsp", d.dsp), Earlier)
Middle == <<(Min(Xs) + Max(Xs)) \div 2, Y_MAX \div 2>>
HardPlaces(o, from) ==
  LET near == Nearest(Len(Hards[o[1]]), LAMBDA i : Hards[o[1]][i].xy, from)
  IN  FlattenSeq([i \in DOMAIN near |-> <<<<near[i], 1>>, <<near[i], 2>>>>])
\* From the slices nearest, each letter in turn.
SlotPlaces(from) == FlattenSeq([i \in 1..Len(Slices) |-> [k \in 1..SLOTS |-> <<Near(from)[i], k>>]])
\* Rings of columns and rows outward from the target.
Rings(from) ==
  LET off(x) == CHOOSE i \in DOMAIN Slices : \A j \in DOMAIN Slices :
                  Apart(Slices[i].xy[1], x) < Apart(Slices[j].xy[1], x) \/ (Apart(Slices[i].xy[1], x) = Apart(Slices[j].xy[1], x) /\ i <= j)
      dc(i) == Slices[i].col - Slices[off(from[1])].col
      dy(i) == Slices[i].xy[2] - from[2]
      ring(i) == Max({Apart(dc(i), 0), Apart(dy(i), 0)})
      key(i) == <<ring(i), dc(i), dy(i), IF Slices[i].even THEN 0 ELSE 1>>
      before(i, j) == \E n \in 1..4 : key(i)[n] < key(j)[n] /\ \A m \in 1..(n - 1) : key(i)[m] = key(j)[m]
      order == SortSeq([i \in DOMAIN Slices |-> i], before)
  IN  FlattenSeq([i \in DOMAIN order |-> [k \in 1..SLOTS |-> <<order[i], k>>]])
Places(o, from) ==
  CASE IsHard(o) -> HardPlaces(o, from)
    [] o[1] = "ble" -> IF phase = "global" THEN Rings(from) ELSE SlotPlaces(from)
    [] OTHER -> [i \in DOMAIN Slices |-> <<Near(from)[i], 1>>]
Put ==
  /\ phase \in {"greedy", "global"} /\ todo <= Len(Order)
  /\ \E from \in IF phase = "greedy" THEN {Middle} ELSE {Slices[i].xy : i \in DOMAIN Slices} :
       LET p == First(s, Order[todo], Places(Order[todo], from))
       IN  IF p = None THEN phase' = "failed" /\ UNCHANGED <<todo, s>>
           ELSE s' = place(s, Order[todo], p) /\ todo' = todo + 1 /\ UNCHANGED phase
  /\ UNCHANGED <<d, g, fixed>>
Started ==
  /\ phase \in {"greedy", "global"} /\ todo > Len(Order)
  /\ LET at == [s EXCEPT !.xy = [c \in DOMAIN s.xy |-> IF c \in DOMAIN fixed THEN SiteXy(fixed[c]) ELSE s.xy[c]]]
     IN  s' = Costed(at, Nets)
  /\ phase' = "anneal" /\ todo' = 1
  /\ UNCHANGED <<d, g, fixed>>

-----------------------------------------------------------------------------
\* The anneal.  Timing weighs the nets anew.
Reweigh ==
  /\ phase = "anneal"
  /\ \E n \in Nets : s' = Costed([s EXCEPT !.weight = [m \in Nets |-> IF m = n THEN WEIGHT ELSE 1]], Nets)
  /\ UNCHANGED <<d, g, phase, todo, fixed>>
Proposals(o) ==
  CASE IsHard(o) -> DOMAIN s.hard[o[1]]
    [] o[1] = "ble" -> DOMAIN s.occ
    [] OTHER -> {<<i, 1>> : i \in {j \in DOMAIN Slices : Slices[j].even}}
\* A move that costs no more is kept, another while it is warm; else undone.
Attempt ==
  /\ phase \in {"anneal", "final"}
  /\ \E o \in Objects : \E p \in Proposals(o) : \E m \in {moves_to(s, o, p)} :
       /\ m # None
       /\ LET nets == NetsOf(UNION {cells_of(m[i][1]) : i \in DOMAIN m})
          IN  \E a \in {apply(s, m)} :
                IF ~a.ok THEN s' = a.st
                ELSE \E now \in {Costed(a.st, nets)} :
                       LET worse == CostOf(now, nets) > CostOf(s, nets)
                       IN  \/ (~worse \/ phase = "anneal") /\ s' = now
                           \/ worse /\ s' = undo(a.st, Old(s, m))
  /\ UNCHANGED <<d, g, phase, todo, fixed>>
Cool == phase = "anneal" /\ phase' = "final" /\ UNCHANGED <<d, g, todo, fixed, s>>

Init ==
  /\ d \in Designs /\ phase = "fixed" /\ todo = 1 /\ fixed = <<>>
  /\ g = [slices |-> SlicesOf, hard |-> HardsOf, xs |-> {SliceSites[i].xy[1] : i \in DOMAIN SliceSites}]
  /\ s = [pos |-> [o \in Objects |-> None],
          occ |-> [k \in SlotsOf(DOMAIN Slices) |-> None],
          macro |-> [x \in DOMAIN Slices |-> None],
          cs |-> [x \in DOMAIN Slices |-> None],
          hard |-> [h \in {"bram", "dsp"} |-> [k \in (DOMAIN Hards[h]) \X (1..2) |-> None]],
          xy |-> [c \in DOMAIN d.cells |-> <<0, 0>>],
          weight |-> [n \in Nets |-> 1], cost |-> [n \in Nets |-> 0]]

Next == FixPins \/ FixCmt \/ FixBufg \/ Put \/ Started \/ Reweigh \/ Attempt \/ Cool

Spec == Init /\ [][Next]_vars

-----------------------------------------------------------------------------
\* sites: each cell's site and bel.
BelsOf(o) ==
  LET p == s.pos[o]
      at(x, bel, c) == IF c = None THEN {} ELSE {<<c, Slices[x].site, bel>>}
  IN  CASE o[1] = "ble" -> LET b == d.bles[o[2]]
                           IN  at(p[1], <<"6LUT", p[2]>>, b.lut) \cup at(p[1], <<"FF", p[2]>>, b.ff)
                               \cup at(p[1], <<"5LUT", p[2]>>, b.lut5) \cup at(p[1], <<"5FF", p[2]>>, b.ff5)
        [] o[1] = "carry" -> UNION {LET x == d.carries[o[2]][i]
                                        on == slices_of(o, p)[i]
                                    IN  at(on, <<"CARRY4", 0>>, x.carry)
                                        \cup UNION {at(on, <<"6LUT", k>>, x.lut6[k]) \cup at(on, <<"5LUT", k>>, x.lut5[k])
                                                 \cup at(on, <<"FF", k>>, x.ff[k]) : k \in DOMAIN x.ff} :
                                      i \in DOMAIN d.carries[o[2]]}
        [] o[1] = "dram" -> UNION {at(p[1], <<"6LUT", k>>, d.drams[o[2]].lut6[k]) \cup at(p[1], <<"5LUT", k>>, d.drams[o[2]].lut5[k]) :
                                     k \in DOMAIN d.drams[o[2]].lut6}
        [] OTHER -> LET t == Hards[o[1]][p[1]]
                    IN  {<<HardOf(o).cell, IF HardOf(o).full THEN t.full ELSE t.half[p[2]], <<"SITE", 0>>>>}
                        \cup (IF HardOf(o).upper = None THEN {} ELSE {<<HardOf(o).upper, t.half[2], <<"SITE", 0>>>>})
Sites == UNION {BelsOf(o) : o \in {x \in Objects : s.pos[x] # None}} \cup {<<c, fixed[c], <<"SITE", 0>>>> : c \in DOMAIN fixed}

\* The tables of what is where, changed move by move, say what the positions
\* say, whatever was moved, swapped, refused or undone.
Flops(x) == {b \in DOMAIN d.bles : s.pos[<<"ble", b>>] # None /\ s.pos[<<"ble", b>>][1] = x /\ ble_cs(b) # None}
Owner(x) == {o \in Objects : o[1] \in {"carry", "dram"} /\ s.pos[o] # None /\ x \in Range(slices_of(o, s.pos[o]))}
Holds(o, k) == ~IsHard(o) /\ s.pos[o] # None /\ (IF o[1] = "ble" THEN s.pos[o] = k ELSE k[1] \in Range(slices_of(o, s.pos[o])))
TablesTrue ==
  /\ \A x \in DOMAIN Slices :
       /\ IF Owner(x) = {} THEN s.macro[x] = None ELSE Owner(x) = {s.macro[x]}
       /\ IF Flops(x) = {} THEN s.cs[x] = None
          ELSE s.cs[x] # None /\ s.cs[x].n = Cardinality(Flops(x)) /\ {s.cs[x].cs} = {ble_cs(b) : b \in Flops(x)}
  /\ \A k \in DOMAIN s.occ :
       LET here == {o \in Objects : Holds(o, k)}
       IN  IF here = {} THEN s.occ[k] = None
           ELSE Cardinality(here) = 1 /\ {s.occ[k]} = {IF o[1] = "ble" THEN o ELSE Macro : o \in here}
  /\ \A h \in {"bram", "dsp"} : \A k \in DOMAIN s.hard[h] :
       {b \in DOMAIN d[h] : s.pos[<<h, b>>] # None /\ k \in hard_slots(<<h, b>>, s.pos[<<h, b>>])} = {s.hard[h][k]} \ {None}
  /\ phase \in {"anneal", "final"} => \A n \in Nets : s.cost[n] = cost(s, n)
FlopSites == {<<ble_cs(b), Slices[s.pos[<<"ble", b>>][1]].site>> : b \in {x \in DOMAIN d.bles : ble_cs(x) # None}}
\* What the placement says is a device's: no two cells on one bel, a
\* RAMB36E1's tile its own, a slice's registers of one control set, chains
\* up the carry wires, RAMs in SLICEMs, cascaded DSPs one above the other.
PlacementLegal ==
  phase \in {"anneal", "final"} =>
    /\ \A a, b \in Sites : <<a[2], a[3]>> = <<b[2], b[3]>> => a = b
    /\ \A c \in DOMAIN d.cells : d.cells[c] \notin {"gnd", "vcc"} => Cardinality({x \in Sites : x[1] = c}) = 1
    /\ \A a, b \in FlopSites : a[2] = b[2] => a[1] = b[1]
    /\ \A i \in DOMAIN d.drams : \A x \in BelsOf(<<"dram", i>>) : \E j \in DOMAIN Db : Db[j].name = x[2] /\ Db[j].ty = "SLICEM"
    /\ \A i \in DOMAIN d.carries : \A j \in 1..(Len(d.carries[i]) - 1) :
         \E x \in DOMAIN Db : \E y, z \in Sites :
           y[1] = d.carries[i][j].carry /\ z[1] = d.carries[i][j + 1].carry /\ Db[x].name = y[2] /\ Db[x].up = z[2]
    /\ \A a, b \in DOMAIN d.bram : a # b /\ d.bram[a].full => s.pos[<<"bram", a>>][1] # s.pos[<<"bram", b>>][1]
    /\ \A a \in DOMAIN d.dsp : d.dsp[a].upper # None =>
         \E x, y \in Sites : x[1] = d.dsp[a].cell /\ y[1] = d.dsp[a].upper /\ x[2] # y[2]
                             /\ \E t \in DOMAIN Hards.dsp : Hards.dsp[t].half = <<x[2], y[2]>>
=============================================================================
