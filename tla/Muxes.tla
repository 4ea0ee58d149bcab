------------------------------- MODULE Muxes --------------------------------
(***************************************************************************)
(* Multiplexers: inputs nobody defined, inputs nothing can choose,         *)
(* constant and redundant inputs, and trees made one multiplexer.          *)
(***************************************************************************)
EXTENDS Integers, Sequences, FiniteSets, Words

-----------------------------------------------------------------------------
(***************************************************************************)
(* Resolving x (crates/chipsmith-synth/src/undef.rs): multiplexers of one  *)
(* bit whose inputs may be x (2), and whose selects may be on together     *)
(* until refine makes them exclusive.                                      *)
(***************************************************************************)

CONSTANTS
  Undefs,    \* [kind: "mux" or "pmux", a, b: data, s: selects]
            \* a select: [on: a signal, is: the constants it is compared with,
            \* as listed] or [net: a net]
  Signals   \* the values of signals and nets: a set of functions

VARIABLES original, now, exclusive, phase

undef == <<original, now, exclusive, phase>>

X == 2
Compares(s) == "on" \in DOMAIN s

UndefInit ==
  /\ original \in Undefs /\ now = original
  /\ exclusive = FALSE /\ phase = "selects"

-----------------------------------------------------------------------------
\* At most one can be on: one signal, and every constant named once.
Exclusive(sels) ==
  /\ \A i \in DOMAIN sels : Compares(sels[i])
  /\ \A i, j \in DOMAIN sels : sels[i].on = sels[j].on
  /\ \A i, j \in DOMAIN sels : \A m \in DOMAIN sels[i].is, n \in DOMAIN sels[j].is :
       sels[i].is[m] = sels[j].is[n] => <<i, m>> = <<j, n>>

\* The last select on wins: from here each is its own and not a later one.
ExclusiveSelects ==
  /\ phase = "selects"
  /\ exclusive' = (now.kind = "pmux" /\ Len(now.s) > 1 /\ ~Exclusive(now.s))
  /\ phase' = "inputs" /\ UNCHANGED <<original, now>>

\* An x default is the last case; an x case is the default.
TakeDefault ==
  LET a == IF now.a = X /\ Len(now.s) > 0 THEN now.b[Len(now.s)] ELSE now.a
  IN  [now EXCEPT !.a = a, !.b = [j \in DOMAIN now.b |-> IF now.b[j] = X THEN a ELSE now.b[j]]]

\* An x input is the other one.
TakeOther ==
  [now EXCEPT !.a = IF @ = X THEN now.b[1] ELSE @,
              !.b = <<IF now.a # X /\ now.b[1] = X THEN now.a ELSE now.b[1]>>]

TakeInputs ==
  /\ phase = "inputs"
  /\ now' = IF now.kind = "pmux" THEN TakeDefault ELSE TakeOther
  /\ phase' = "zero" /\ UNCHANGED <<original, exclusive>>

Zero(bit) == IF bit = X THEN 0 ELSE bit
SetZero ==
  /\ phase = "zero"
  /\ now' = [now EXCEPT !.a = Zero(@), !.b = [j \in DOMAIN now.b |-> Zero(now.b[j])]]
  /\ phase' = "done" /\ UNCHANGED <<original, exclusive>>

UndefNext == ExclusiveSelects \/ TakeInputs \/ SetZero

UndefSpec == UndefInit /\ [][UndefNext]_undef

-----------------------------------------------------------------------------
UndefOn(s, env) == IF Compares(s) THEN \E i \in DOMAIN s.is : s.is[i] = env[s.on] ELSE env[s.net] = 1
OnesOf(m, env, made) ==
  {j \in DOMAIN m.s : UndefOn(m.s[j], env) /\ (made => \A k \in j + 1 .. Len(m.s) : ~UndefOn(m.s[k], env))}

\* What a multiplexer may give: anything for an x, or for two selects at once.
UndefGives(m, env, made) ==
  LET ones == OnesOf(m, env, made)
      bit == IF ones = {} THEN m.a ELSE m.b[CHOOSE j \in ones : TRUE]
  IN  IF bit = X \/ Cardinality(ones) > 1 THEN {0, 1} ELSE {bit}

\* Refining only chooses: whatever the refined multiplexer gives, at every
\* step, the one written could give.
OnlyChooses == \A env \in Signals : UndefGives(now, env, exclusive) \subseteq UndefGives(original, env, FALSE)

\* In the end the netlist means one thing: no x, and one select at a time.
MeansOneThing == phase = "done" => \A env \in Signals : Cardinality(UndefGives(now, env, exclusive)) = 1

-----------------------------------------------------------------------------
(***************************************************************************)
(* Inputs of a multiplexer dead nothing can choose                         *)
(* (crates/chipsmith-synth/src/opt/muxtree.rs): what a path to a           *)
(* multiplexer decided about selects tells which of its inputs can still   *)
(* be chosen.                                                              *)
(***************************************************************************)

CONSTANTS
  Deads,   \* [cells: a function to [sels, words: what each input reads],
           \*  alone: the cells whose output one input reads, and nothing else]
           \* the first word is the default; a word is a cell or a leaf
  TreeSelects, \* the select nets
  Consts   \* [select: its value], for the constant ones

VARIABLES dead, live, visits

\* visits: visits to make, [cell, know: the selects decided on the way].
muxtree == <<dead, live, visits>>

Nothing == [s \in {} |-> TRUE]
DeadCells == DOMAIN dead.cells

IsChild(word) == word \in DeadCells /\ word \in dead.alone
Children == {w \in DeadCells : IsChild(w) /\ \E c \in DeadCells : \E p \in DOMAIN dead.cells[c].words : dead.cells[c].words[p] = w}

TreeInit ==
  /\ dead \in Deads
  /\ live = [c \in DeadCells |-> {}]
  /\ visits = {[cell |-> c, know |-> Nothing] : c \in DeadCells \ Children}

-----------------------------------------------------------------------------
Known(know, s, v) == (s \in DOMAIN Consts /\ Consts[s] = v) \/ (s \in DOMAIN know /\ know[s] = v)

\* The ports a visit can choose: the one select that is on, or every one not
\* known to be off, and the default unless its only select is on.
MayChoose(sels, know) ==
  LET on == {j \in DOMAIN sels : Known(know, sels[j], TRUE)}
  IN  IF on # {} THEN {CHOOSE j \in on : \A k \in on : j <= k}
      ELSE IF Len(sels) = 1 /\ Known(know, sels[1], FALSE) THEN {0}
      ELSE {0} \cup {j \in DOMAIN sels : ~Known(know, sels[j], FALSE)}

\* What the path knows past a port; what it knew stays.  Nothing is learnt
\* from a select already known to be on.
Learn(know, sels, port) ==
  LET new == {i \in DOMAIN sels : sels[i] \notin DOMAIN know /\ sels[i] \notin DOMAIN Consts}
  IN  IF \E j \in DOMAIN sels : Known(know, sels[j], TRUE) THEN know
      ELSE [s \in DOMAIN know \cup {sels[i] : i \in new} |->
              IF s \in DOMAIN know THEN know[s]
              ELSE LET at == {i \in new : sels[i] = s}
                   IN  IF port \in at THEN TRUE ELSE FALSE]

Visit(v) ==
  LET c == dead.cells[v.cell]
      ports == MayChoose(c.sels, v.know)
  IN  /\ live' = [live EXCEPT ![v.cell] = @ \cup ports]
      /\ visits' = (visits \ {v}) \cup
           {[cell |-> c.words[p + 1], know |-> Learn(v.know, c.sels, p)] : p \in {q \in ports : IsChild(c.words[q + 1])}}
      /\ UNCHANGED dead

TreeNext == \E v \in visits : Visit(v)

TreeSpec == TreeInit /\ [][TreeNext]_muxtree

-----------------------------------------------------------------------------
Value(env, s) == IF s \in DOMAIN Consts THEN Consts[s] ELSE env[s]
TreeOn(env, c) == {j \in DOMAIN dead.cells[c].sels : Value(env, dead.cells[c].sels[j])}
TreeChosen(env, c) == IF TreeOn(env, c) = {} THEN 0 ELSE CHOOSE j \in TreeOn(env, c) : TRUE

\* The multiplexers the chosen inputs lead to, from a root.
RECURSIVE Along(_, _)
Along(env, c) ==
  LET word == dead.cells[c].words[TreeChosen(env, c) + 1]
  IN  {c} \cup (IF IsChild(word) THEN Along(env, word) ELSE {})

\* The multiplexers something else than one input reads.
Observed ==
  {c \in DeadCells : c \notin dead.alone} \cup
  {c \in DeadCells : \A d \in DeadCells : \A p \in DOMAIN dead.cells[d].words : dead.cells[d].words[p] # c}

\* Once every path has been visited, an input marked dead is never the one
\* chosen on the way to anything read elsewhere, with one select at a time on.
DeadNeverChosen ==
  visits = {} =>
    \A env \in [TreeSelects -> BOOLEAN] :
      (\A c \in DeadCells : Cardinality(TreeOn(env, c)) <= 1) =>
        \A root \in Observed : \A c \in Along(env, root) : TreeChosen(env, c) \in live[c]

-----------------------------------------------------------------------------
(***************************************************************************)
(* Folding a $pmux, a $mux or a $bmux with constant or redundant inputs    *)
(* (crates/chipsmith-synth/src/opt/word.rs), one select at a time.  A bit  *)
(* is 0, 1, 2 (x) or a net, from 3; words are sequences of bits.           *)
(***************************************************************************)

CONSTANTS
  Muxes,   \* [kind, a: the default (for $bmux none), b: words, s: selects]
  Nets

VARIABLES mux, next, cases, result

\* cases: the ones kept so far, [when: selects, any of which, is: a word];
\* result: the word it is, once known, or <<>>.
muxfold == <<mux, next, cases, result>>

Undefined == 2
FoldInit == mux \in Muxes /\ next = 1 /\ cases = <<>> /\ result = <<>>
AllX(word) == \A i \in DOMAIN word : word[i] = Undefined

-----------------------------------------------------------------------------
(* $pmux (fold_pmux): one select at most is on.                            *)

FoldChosen ==
  /\ mux.kind = "pmux" /\ next <= Len(mux.s) /\ result = <<>> /\ mux.s[next] = 1
  /\ result' = mux.b[next]
  /\ UNCHANGED <<mux, next, cases>>

\* Never, or it changes nothing.
Idle(j) == mux.s[j] \in {0, Undefined} \/ mux.b[j] = mux.a \/ AllX(mux.b[j])

\* Wrong on purpose: the case it is like goes.
MergeFirst(with, j) == [cases EXCEPT ![with].when = {mux.s[j]}]

\* Cases with the same data are one, on any of their selects.
Merge(with, j) == [cases EXCEPT ![with].when = @ \cup {mux.s[j]}]

Case ==
  /\ mux.kind = "pmux" /\ next <= Len(mux.s) /\ result = <<>> /\ mux.s[next] # 1
  /\ LET like == {c \in DOMAIN cases : cases[c].is = mux.b[next]}
     IN  cases' = IF Idle(next) THEN cases
                  ELSE IF like # {} THEN Merge(CHOOSE c \in like : TRUE, next)
                  ELSE Append(cases, [when |-> {mux.s[next]}, is |-> mux.b[next]])
  /\ next' = next + 1 /\ UNCHANGED <<mux, result>>

\* An x default may as well be the last case.
FoldDefault ==
  /\ mux.kind = "pmux" /\ next = Len(mux.s) + 1 /\ result = <<>> /\ cases # <<>> /\ AllX(mux.a)
  /\ mux' = [mux EXCEPT !.a = cases[Len(cases)].is]
  /\ cases' = SubSeq(cases, 1, Len(cases) - 1)
  /\ UNCHANGED <<next, result>>

-----------------------------------------------------------------------------
(* $bmux (fold_bmux): a constant select bit keeps half the words.  The     *)
(* selects kept so far are in cases.                                       *)

Place == Len(cases)

Halve ==
  /\ mux.kind = "bmux" /\ next <= Len(mux.s)
  /\ LET s == mux.s[next]
         n == Len(mux.b)
         has(i) == (i \div 2^Place) % 2
         kept == SelectSeq([i \in 1 .. n |-> i - 1], LAMBDA i : has(i) = s)
     IN  IF s \in {0, 1}
           THEN /\ mux' = [mux EXCEPT !.b = [i \in DOMAIN kept |-> mux.b[kept[i] + 1]]]
                /\ UNCHANGED cases
           ELSE /\ cases' = Append(cases, [when |-> {s}, is |-> <<>>])
                /\ UNCHANGED mux
  /\ next' = next + 1 /\ UNCHANGED result

-----------------------------------------------------------------------------
(* $mux (fold_mux), a bit at a time: the bit it is; -1 is ~s and -2 still  *)
(* the multiplexer.                                                        *)

FoldedBit(a, b, s) ==
  CASE s = 0 -> a [] s = 1 -> b
    [] a = b \/ b = Undefined -> a
    [] a = Undefined -> b
    [] a = 0 /\ b = 1 -> s
    [] a = 1 /\ b = 0 -> -1
    [] OTHER -> -2

FoldMux ==
  /\ mux.kind = "mux" /\ result = <<>>
  /\ result' = [i \in DOMAIN mux.a |-> FoldedBit(mux.a[i], mux.b[1][i], mux.s[1])]
  /\ UNCHANGED <<mux, next, cases>>

FoldNext == FoldChosen \/ Case \/ FoldDefault \/ Halve \/ FoldMux

FoldSpec == FoldInit /\ [][FoldNext]_muxfold

-----------------------------------------------------------------------------
\* What a bit can be, x anything.
Bit(env, bit) == CASE bit \in {0, 1} -> {bit} [] bit = Undefined -> {0, 1} [] OTHER -> {env[bit]}
FoldOn(env, s) == Bit(env, s) = {1}

\* What the multiplexer gives as it stands, its nets at these values: the
\* cases kept, then those still to come.
PmuxNow(env, i) ==
  LET kept == {c \in DOMAIN cases : \E s \in cases[c].when : FoldOn(env, s)}
      left == {j \in next .. Len(mux.s) : FoldOn(env, mux.s[j])}
  IN  CASE result # <<>> -> Bit(env, result[i])
        [] kept # {} -> Bit(env, cases[CHOOSE c \in kept : TRUE].is[i])
        [] left # {} -> Bit(env, mux.b[CHOOSE j \in left : TRUE][i])
        [] OTHER -> Bit(env, mux.a[i])
BmuxNow(env, i) ==
  LET sel == [k \in DOMAIN cases |-> CHOOSE s \in cases[k].when : TRUE] \o SubSeq(mux.s, next, Len(mux.s))
  IN  Bit(env, mux.b[Number([k \in DOMAIN sel |-> IF FoldOn(env, sel[k]) THEN 1 ELSE 0]) + 1][i])
MuxNow(env, i) ==
  CASE result = <<>> \/ result[i] = -2 -> Bit(env, IF FoldOn(env, mux.s[1]) THEN mux.b[1][i] ELSE mux.a[i])
    [] result[i] = -1 -> {IF FoldOn(env, mux.s[1]) THEN 0 ELSE 1}
    [] OTHER -> Bit(env, result[i])
Now(env, i) ==
  CASE mux.kind = "pmux" -> PmuxNow(env, i) [] mux.kind = "bmux" -> BmuxNow(env, i)
    [] mux.kind = "mux" -> MuxNow(env, i)

FoldOneAtMost(env) ==
  mux.kind = "pmux" => Cardinality({j \in DOMAIN mux.s : FoldOn(env, mux.s[j])}) <= 1

Chooses ==
  \A env \in [Nets -> {0, 1}] : FoldOneAtMost(env) =>
    \A i \in DOMAIN mux.b[1] : Now(env, i)' \subseteq Now(env, i)

\* A fold only chooses what an x is: after it every bit is one it could have
\* been before, whatever the nets are, one select at most on.
FoldsChoose == [][Chooses]_muxfold

-----------------------------------------------------------------------------
(***************************************************************************)
(* A multiplexer tree as one $pmux of one-hot selects                      *)
(* (crates/chipsmith-synth/src/restructure.rs): a leaf's select is the     *)
(* condition of its path, leaves with the same data share one, and the     *)
(* default's leaf needs none.  A word is a name: equal words are one name. *)
(***************************************************************************)

CONSTANTS
  Trees,      \* [cells: a function to [kind, sels, words], root, alone: the
              \*  cells one input reads, and nothing else]
  Selects,
  MIN_MUXES

VARIABLES tree, todo, members, leaves, built

\* todo: the nodes still to open, [cell, path]; leaves: [word, path]; built:
\* the $pmux, its words by select: [default, words: a sequence of [word, on]].
restructure == <<tree, todo, members, leaves, built>>

Unbuilt == [default |-> "", words |-> <<>>]
Cells == DOMAIN tree.cells
Inner(word) == word \in Cells /\ word \in tree.alone

FlatInit ==
  /\ tree \in Trees
  /\ todo = <<[cell |-> tree.root, path |-> {}]>>
  /\ members = {tree.root} /\ leaves = <<>> /\ built = Unbuilt

-----------------------------------------------------------------------------
\* What chooses each word of a node: its select, or none of them.
Literals(c, p) == IF p = 0 THEN {<<c.sels[i], FALSE>> : i \in DOMAIN c.sels} ELSE {<<c.sels[p], TRUE>>}

\* The words in the order they are looked at: a $mux's A then B, a $pmux's
\* cases and then its default.
InOrder(c) ==
  IF c.kind = "mux" THEN <<0, 1>>
  ELSE [i \in 1 .. Len(c.sels) + 1 |-> IF i <= Len(c.sels) THEN i ELSE 0]

Open ==
  /\ todo # <<>>
  /\ LET v == todo[Len(todo)]
         c == tree.cells[v.cell]
         Path(p) == v.path \cup Literals(c, p)
         inner == SelectSeq(InOrder(c), LAMBDA p : Inner(c.words[p + 1]))
         outer == SelectSeq(InOrder(c), LAMBDA p : ~Inner(c.words[p + 1]))
     IN  /\ todo' = SubSeq(todo, 1, Len(todo) - 1)
                    \o [i \in DOMAIN inner |-> [cell |-> c.words[inner[i] + 1], path |-> Path(inner[i])]]
         /\ leaves' = leaves \o [i \in DOMAIN outer |-> [word |-> c.words[outer[i] + 1], path |-> Path(outer[i])]]
         /\ members' = members \cup {c.words[inner[i] + 1] : i \in DOMAIN inner}
  /\ UNCHANGED <<tree, built>>

-----------------------------------------------------------------------------
AllFalse(leaf) == \A l \in leaf.path : ~l[2]
Default == leaves[CHOOSE i \in DOMAIN leaves : AllFalse(leaves[i]) /\ \A j \in 1 .. i - 1 : ~AllFalse(leaves[j])].word
Distinct == {leaves[i].word : i \in DOMAIN leaves} \ {Default}

\* Worth it where the leaves repeat themselves.
Worth == Cardinality(members) >= MIN_MUXES /\ 2 * Cardinality(Distinct) <= Len(leaves)

\* A word is chosen on any of its leaves' paths.
Paths(word) == {leaves[i].path : i \in {j \in DOMAIN leaves : leaves[j].word = word}}

Ordered(S) == CHOOSE s \in [1 .. Cardinality(S) -> S] : \A i, j \in DOMAIN s : i # j => s[i] # s[j]

Build ==
  /\ todo = <<>> /\ built = Unbuilt /\ Worth
  /\ LET words == Ordered(Distinct)
     IN  built' = [default |-> Default,
                   words |-> [i \in DOMAIN words |-> [word |-> words[i], on |-> Paths(words[i])]]]
  /\ UNCHANGED <<tree, todo, members, leaves>>

FlatNext == Open \/ Build

FlatSpec == FlatInit /\ [][FlatNext]_restructure

-----------------------------------------------------------------------------
FlatOn(env, c) == {i \in DOMAIN tree.cells[c].sels : env[tree.cells[c].sels[i]]}
SelectsApart(env) == \A c \in members : Cardinality(FlatOn(env, c)) <= 1

RECURSIVE Gives(_, _)
Gives(env, c) ==
  LET p == IF FlatOn(env, c) = {} THEN 0 ELSE CHOOSE i \in FlatOn(env, c) : TRUE
      word == tree.cells[c].words[p + 1]
  IN  IF Inner(word) THEN Gives(env, word) ELSE word

Taken(env, path) == \A l \in path : env[l[1]] = l[2]
Picked(env) == {i \in DOMAIN built.words : \E path \in built.words[i].on : Taken(env, path)}

\* The one $pmux gives the word the tree did.
TreeSame ==
  built # Unbuilt =>
    \A env \in [Selects -> BOOLEAN] : SelectsApart(env) =>
      Gives(env, tree.root) =
        IF Picked(env) = {} THEN built.default ELSE built.words[CHOOSE i \in Picked(env) : TRUE].word

\* And its selects are exclusive, as the passes after this assume.
SelectsExclusive ==
  built # Unbuilt => \A env \in [Selects -> BOOLEAN] : SelectsApart(env) => Cardinality(Picked(env)) <= 1
=============================================================================
