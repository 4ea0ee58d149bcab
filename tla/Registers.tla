----------------------------- MODULE Registers ------------------------------
(***************************************************************************)
(* What synthesis learns of registers by looking at the values they can    *)
(* hold: registers that stay constant, a read that never follows a write,  *)
(* and the values of a state register; and how their controls take up the  *)
(* multiplexers in front of them.                                          *)
(***************************************************************************)
EXTENDS Naturals, Sequences, FiniteSets, SequencesExt

-----------------------------------------------------------------------------
(***************************************************************************)
(* Gate-level logic in three values: FALSE, TRUE and None, unknown (the    *)
(* gates of crates/chipsmith-netlist as synth/opt/seqconst.rs and          *)
(* synth/hazard.rs evaluate them).                                         *)
(*                                                                         *)
(* A signal is an expression [op, in]: of a constant "in" is its value, of *)
(* a leaf the name of a register or an input, of a gate its inputs.        *)
(***************************************************************************)
CONSTANT None

Merge(a, b) == IF a = b THEN a ELSE None

Gate(op, v) ==
  CASE op = "not" -> IF v[1] = None THEN None ELSE ~v[1]
    [] op = "and" -> IF FALSE \in {v[1], v[2]} THEN FALSE ELSE IF None \in {v[1], v[2]} THEN None ELSE TRUE
    [] op = "xor" -> IF None \in {v[1], v[2]} THEN None ELSE v[1] # v[2]
    [] op = "mux" -> IF v[3] = None THEN Merge(v[1], v[2]) ELSE IF v[3] THEN v[2] ELSE v[1]

RECURSIVE Value(_, _)
Value(e, val) ==
  CASE e.op = "const" -> e.in
    [] e.op = "leaf" -> val[e.in]
    [] OTHER -> Gate(e.op, [i \in DOMAIN e.in |-> Value(e.in[i], val)])

RECURSIVE Leaves(_)
Leaves(e) ==
  CASE e.op = "const" -> {}
    [] e.op = "leaf" -> {e.in}
    [] OTHER -> UNION {Leaves(e.in[i]) : i \in DOMAIN e.in}

-----------------------------------------------------------------------------
(* A register is [d, en, reset, kind, value, init, stuck]: kind is "plain", *)
(* "async" or which of enable and synchronous reset wins ("reset",         *)
(* "enable"); a stuck clock is a constant.                                 *)

Control(v, on, off) == IF v = None THEN Merge(on, off) ELSE IF v THEN on ELSE off

\* Next value, given its inputs' values.
NextValue(reg, val, held) ==
  LET in(e) == Value(e, val)
      reset(v) == IF reg.reset = None THEN v ELSE Control(in(reg.reset), reg.value, v)
      gated(v) == IF reg.en = None THEN v ELSE Control(in(reg.en), v, held)
  IN  IF reg.stuck THEN held
      ELSE IF reg.kind = "enable" THEN gated(reset(in(reg.d))) ELSE reset(gated(in(reg.d)))

-----------------------------------------------------------------------------
(***************************************************************************)
(* Registers that never leave their power-up value                         *)
(* (crates/chipsmith-synth/src/opt/seqconst.rs): every register is assumed *)
(* to hold its own, and those whose next value is then not certainly that  *)
(* one are dropped until none is.  Then the machine runs, and what the     *)
(* search found has to be so.                                              *)
(*                                                                         *)
(* Signals are the expressions above, over registers and inputs.           *)
(***************************************************************************)

CONSTANTS
  Machines,      \* functions from the registers to what each is
  Inputs,        \* of the machine
  EXACT_INPUTS   \* free signals an exact check enumerates at most

VARIABLES machine, alive, searching, q

seqconst == <<machine, alive, searching, q>>

Registers == DOMAIN machine

Candidate(r) == machine[r].init

Assumed == [s \in Registers \cup Inputs |-> IF s \in alive THEN Candidate(s) ELSE None]

\* The signals an exact check has to enumerate: a gate whose value is known
\* is not looked behind.
RECURSIVE Free(_)
Free(e) ==
  IF e.op = "const" \/ Value(e, Assumed) # None THEN {}
  ELSE IF e.op = "leaf" THEN {e.in}
  ELSE UNION {Free(e.in[i]) : i \in DOMAIN e.in}

\* Its D alone, without its controls.
Alone(reg) == [reg EXCEPT !.en = None, !.reset = None]

Exact(reg, value) ==
  LET free == UNION {Free(e) : e \in {reg.d, reg.en, reg.reset} \ {None}}
  IN  /\ Cardinality(free) <= EXACT_INPUTS
      /\ \A x \in [free -> BOOLEAN] :
           NextValue(reg, [s \in Registers \cup Inputs |-> IF s \in free THEN x[s] ELSE Assumed[s]], value) = value

ResetsAgree(reg) == reg.reset # None => reg.value = reg.init

Holds(r) ==
  LET next == NextValue(machine[r], Assumed, Assumed[r])
  IN  IF next # None THEN next = Candidate(r)
      ELSE \/ ResetsAgree(machine[r]) /\ Exact(Alone(machine[r]), Candidate(r))
           \/ Exact(machine[r], Candidate(r))

-----------------------------------------------------------------------------
ConstInit ==
  /\ machine \in Machines /\ searching = TRUE
  /\ alive = DOMAIN machine
  /\ q = [r \in DOMAIN machine |-> machine[r].init]

Found == \A r \in alive : Holds(r)

Drop ==
  /\ searching
  /\ alive' = {r \in alive : Holds(r)}
  /\ searching' = ~Found
  /\ UNCHANGED <<machine, q>>

\* A clock edge, or an asynchronous reset between two.
ConstEdge ==
  /\ ~searching
  /\ \E x \in [Inputs -> BOOLEAN] :
       LET now == [s \in Registers \cup Inputs |-> IF s \in Inputs THEN x[s] ELSE q[s]]
       IN  q' = [r \in Registers |-> NextValue(machine[r], now, q[r])]
  /\ UNCHANGED <<machine, alive, searching>>

AsyncReset ==
  /\ ~searching
  /\ \E x \in [Inputs -> BOOLEAN] :
       LET now == [s \in Registers \cup Inputs |-> IF s \in Inputs THEN x[s] ELSE q[s]]
       IN  q' = [r \in Registers |->
                   IF machine[r].kind = "async" /\ Value(machine[r].reset, now)
                   THEN machine[r].value ELSE q[r]]
  /\ UNCHANGED <<machine, alive, searching>>

ConstNext == Drop \/ ConstEdge \/ AsyncReset

ConstSpec == ConstInit /\ [][ConstNext]_seqconst

-----------------------------------------------------------------------------
\* What the search left never leaves its power-up value, whatever the inputs
\* do: registers that only stay constant together, and cones whose
\* conditions contradict (find, Exact).
StaysConstant == ~searching => \A r \in alive : q[r] = machine[r].init

-----------------------------------------------------------------------------
(***************************************************************************)
(* The proof that a memory is not read on the edge after a write           *)
(* (crates/chipsmith-synth/src/hazard.rs): two signals evaluated over      *)
(* every value of what they depend on, one a clock edge before the other,  *)
(* and the second at power-up too.  Then the pair runs.                    *)
(***************************************************************************)

CONSTANTS
  Pairs,   \* [regs, early, late]
  PairInputs,
  MAX_VARS    \* signals a proof enumerates at most

VARIABLES pair, held, ran

never == <<pair, held, ran>>

Regs == pair.regs
Signals == DOMAIN Regs \cup PairInputs

\* The registers whose next value is the one the clock gives them.
Followed(r) == r \in DOMAIN Regs /\ ~Regs[r].stuck /\ Regs[r].kind # "async"

-----------------------------------------------------------------------------
\* What a register's next value depends on.
Behind(r) ==
  UNION {Leaves(e) : e \in {Regs[r].d, Regs[r].en, Regs[r].reset} \ {None}}
    \cup (IF Regs[r].en = None THEN {} ELSE {r})

VarsBefore == Leaves(pair.early) \cup UNION {Behind(r) : r \in {s \in Leaves(pair.late) : Followed(s)}}
VarsAt == {s \in Leaves(pair.late) : ~Followed(s)}
VarsFirst == {s \in Leaves(pair.late) : s \in PairInputs \/ Regs[s].init = None}

Few == Cardinality(VarsBefore) + Cardinality(VarsAt) + Cardinality(VarsFirst) <= MAX_VARS

Given(vars, x) == [s \in Signals |-> IF s \in vars THEN x[s] ELSE None]

\* Frame "edge": each register the next value of the frame before.
AtEdge(before, at) ==
  [s \in Signals |-> IF Followed(s) /\ s \in Leaves(pair.late)
                     THEN NextValue(Regs[s], Given(VarsBefore, before), Given(VarsBefore, before)[s])
                     ELSE Given(VarsAt, at)[s]]

AtPowerUp(x) ==
  [s \in Signals |-> IF s \in VarsFirst THEN x[s] ELSE IF s \in PairInputs THEN None ELSE Regs[s].init]

StepZero ==
  \A before \in [VarsBefore -> BOOLEAN], at \in [VarsAt -> BOOLEAN] :
    ~(Value(pair.early, Given(VarsBefore, before)) /\ Value(pair.late, AtEdge(before, at)))

FirstZero == \A x \in [VarsFirst -> BOOLEAN] : ~Value(pair.late, AtPowerUp(x))

Proven == Few /\ StepZero /\ FirstZero

-----------------------------------------------------------------------------
(* The pair runs: "ran" is whether the edge before was one of early.    *)

NeverInit ==
  /\ pair \in Pairs
  /\ held \in {v \in [DOMAIN pair.regs -> BOOLEAN] :
              \A r \in DOMAIN v : pair.regs[r].init \in {None, v[r]}}
  /\ ran = [early |-> TRUE, late |-> FALSE]

Now(x) == [s \in Signals |-> IF s \in PairInputs THEN x[s] ELSE held[s]]

NeverEdge ==
  /\ \E x \in [PairInputs -> BOOLEAN] :
       /\ ran' = [early |-> Value(pair.early, Now(x)),
                  late |-> ran.early /\ Value(pair.late, Now(x))]
       /\ held' = [r \in DOMAIN Regs |-> NextValue(Regs[r], Now(x), held[r])]
  /\ UNCHANGED pair

\* A reset that does not wait for the clock.
NeverReset ==
  /\ \E r \in DOMAIN Regs : Regs[r].kind = "async" /\ held' = [held EXCEPT ![r] = Regs[r].value]
  /\ UNCHANGED <<pair, ran>>

NeverNext == NeverEdge \/ NeverReset

NeverSpec == NeverInit /\ [][NeverNext]_never

-----------------------------------------------------------------------------
\* What is proven never to follow never does, from any power-up value that
\* is not given and through resets no clock waits for (never_after).
NeverFollows == Proven => ~ran.late

-----------------------------------------------------------------------------
(***************************************************************************)
(* State registers (crates/chipsmith-synth/src/fsm.rs): the values a       *)
(* register can hold, when all of them are constants through the           *)
(* multiplexers in front of it, and comparisons with them by the bits that *)
(* tell a value from the others.  Then the machine runs.                   *)
(*                                                                         *)
(* A bit is [bit |-> v], [q |-> n], [cell |-> c, bit |-> n] or anything    *)
(* else; "mux" gives the words each multiplexer chooses between.           *)
(***************************************************************************)

CONSTANTS
  Fsms,    \* [d, mux, init, reset], reset a set of at most one word
  MAX_VALUES

VARIABLES fsm, values, todo, found, state

fsmVars == <<fsm, values, todo, found, state>>

Bit(b) == b \in [bit : BOOLEAN]
Own(b) == "q" \in DOMAIN b
Cell(b) == "cell" \in DOMAIN b

\* None of these: the search gives up.
Unknown == {}

Words(S, T) == {s \o t : s \in S, t \in T}

-----------------------------------------------------------------------------
\* How many bits from the i-th on come from one multiplexer, in order.
RunLength(word, i) ==
  LET n == {k \in 1 .. Len(word) + 1 - i : \A j \in 0 .. k - 1 :
              word[i + j] = [cell |-> word[i].cell, bit |-> word[i].bit + j]}
  IN  CHOOSE k \in n : \A j \in n : j <= k

ChoicesOf(c) == {fsm.mux[c][j] : j \in DOMAIN fsm.mux[c]}

\* The words a word can be when the register holds v, Unknown when a bit
\* comes from anything else or there are too many.
RECURSIVE Possible(_, _)
Possible(v, word) ==
  IF word = <<>> THEN {<<>>}
  ELSE LET b == word[1]
           n == IF Cell(b) THEN RunLength(word, 1) ELSE 1
           parts == IF Cell(b)
                    THEN {Possible(v, SubSeq(w, b.bit, b.bit + n - 1)) : w \in ChoicesOf(b.cell)}
                    ELSE {IF Bit(b) THEN {<<b.bit>>} ELSE IF Own(b) THEN {<<v[b.q]>>} ELSE Unknown}
           rest == Possible(v, SubSeq(word, n + 1, Len(word)))
           all == Words(UNION parts, rest)
       IN  IF Unknown \in parts \/ Cardinality(all) > MAX_VALUES THEN Unknown ELSE all

FsmInit ==
  /\ fsm \in Fsms
  /\ values = {fsm.init} \cup fsm.reset
  /\ todo = values /\ found = "searching" /\ state = fsm.init

Grow ==
  /\ found = "searching" /\ todo # {}
  /\ \E v \in todo :
       LET next == Possible(v, fsm.d)
       IN  /\ values' = values \cup next
           /\ todo' = (todo \ {v}) \cup (next \ values)
           /\ found' = IF next = Unknown \/ Cardinality(values') > MAX_VALUES THEN "no" ELSE found
  /\ UNCHANGED <<fsm, state>>

Grown ==
  /\ found = "searching" /\ todo = {}
  /\ found' = IF Cardinality(values) < 2 THEN "no" ELSE "yes"
  /\ UNCHANGED <<fsm, values, todo, state>>

-----------------------------------------------------------------------------
(* The machine: any selects, any other signals, enabled or not.            *)

RECURSIVE Read(_, _, _)
Read(word, picks, other) ==
  [n \in DOMAIN word |->
     LET b == word[n]
     IN  IF Bit(b) THEN b.bit
         ELSE IF Own(b) THEN state[b.q]
         ELSE IF Cell(b) THEN Read(<<fsm.mux[b.cell][picks[b.cell]][b.bit]>>, picks, other)[1]
         ELSE other]

Clock ==
  /\ found # "searching"
  /\ \E other \in BOOLEAN, picks \in [DOMAIN fsm.mux -> {1, 2}] : state' = Read(fsm.d, picks, other)
  /\ UNCHANGED <<fsm, values, todo, found>>

FsmReset ==
  /\ found # "searching"
  /\ state' \in fsm.reset
  /\ UNCHANGED <<fsm, values, todo, found>>

FsmNext == Grow \/ Grown \/ Clock \/ FsmReset

FsmSpec == FsmInit /\ [][FsmNext]_fsmVars

-----------------------------------------------------------------------------
\* The bits that tell v from every other value, greedily.
RECURSIVE Telling(_, _)
Telling(v, left) ==
  IF left = {} THEN {}
  ELSE LET tells(p) == {u \in left : u[p] # v[p]}
           best == CHOOSE p \in DOMAIN v :
                     \A o \in DOMAIN v : 
                       \/ Cardinality(tells(o)) < Cardinality(tells(p))
                       \/ Cardinality(tells(o)) = Cardinality(tells(p)) /\ o >= p
       IN  {best} \cup Telling(v, left \ tells(best))

\* `state == k` after compare_states.
Compared(k) == k \in values /\ \A p \in Telling(k, values \ {k}) : state[p] = k[p]

\* The register never holds another value: through multiplexers in front of
\* multiplexers, bits moved about and kept (possible, state_registers).
OnlyThese == found = "yes" => state \in values

\* A comparison of the bits that tell the value apart is the comparison of
\* them all (distinguishing, compare_states).
ComparesRight == found = "yes" => \A k \in [DOMAIN state -> BOOLEAN] : Compared(k) <=> state = k

-----------------------------------------------------------------------------
(***************************************************************************)
(* The pass that moves the multiplexers in front of a register into its    *)
(* controls (crates/chipsmith-synth/src/opt/dff.rs), for one bit: the code *)
(* does the bits of a word alike and groups those with equal controls.     *)
(*                                                                         *)
(* D is a tree: a leaf is the register's own Q, a constant, x (undefined)  *)
(* or an input; a node is a multiplexer [s, a, b, one], "one" when nothing *)
(* else reads it.  A condition is [sig, val].  The enable is a conjunction *)
(* of disjunctions of conditions, a reset acts on any of its conditions.   *)
(***************************************************************************)
CONSTANT Dffs   \* the registers to try

VARIABLES src, r, stage

dff == <<src, r, stage>>

Leaf(v) == [leaf |-> v]
IsLeaf(d) == "leaf" \in DOMAIN d
Bits == {"0", "1"}
IsConst(d) == d \in {Leaf(v) : v \in Bits}

-----------------------------------------------------------------------------
(* What a register does: the values Q may have next.                       *)

DffInputs == [{"s", "t", "i"} -> Bits]

On(c, in) == (IF c.sig \in Bits THEN c.sig ELSE in[c.sig]) = c.val
Fires(reset, in) == reset # None /\ \E c \in reset.any : On(c, in)
Enabled(reg, in) == \A clause \in reg.en : \E c \in clause : On(c, in)
CanBe(v) == IF v = "x" THEN Bits ELSE {v}

RECURSIVE D(_, _, _)
D(d, in, old) ==
  IF ~IsLeaf(d) THEN D(IF in[d.s] = "1" THEN d.b ELSE d.a, in, old)
  ELSE CASE d.leaf = "q" -> {old}
         [] d.leaf = "i" -> {in["i"]}
         [] OTHER -> CanBe(d.leaf)

NextQ(reg, in, old) ==
  IF Fires(reg.arst, in) THEN CanBe(reg.arst.value)
  ELSE IF reg.frozen THEN {old}
  ELSE IF Fires(reg.srst, in) /\ (reg.over => Enabled(reg, in)) THEN CanBe(reg.srst.value)
  ELSE IF Enabled(reg, in) THEN D(reg.d, in, old) ELSE {old}

-----------------------------------------------------------------------------
(* Controls that are constant.                                             *)

IsAlways(cs) == \E c \in cs : c.sig \in Bits /\ c.sig = c.val
IsNever(cs) == \A c \in cs : c.sig \in Bits /\ c.sig # c.val

Becomes(v) == r' = [as |-> v] /\ stage' = "done" /\ UNCHANGED src
Goes(reg, to) == r' = reg /\ stage' = to /\ UNCHANGED src

ConstReset ==
  /\ stage = "arst"
  /\ IF r.arst = None THEN Goes(r, "srst")
     ELSE IF IsAlways(r.arst.any) THEN Becomes(r.arst.value)
     ELSE Goes([r EXCEPT !.arst = IF IsNever(@.any) THEN None ELSE @], "srst")

ConstSyncReset ==
  /\ stage = "srst"
  /\ Goes(IF r.srst = None \/ ~(IsAlways(r.srst.any) \/ IsNever(r.srst.any)) THEN r
          ELSE IF IsNever(r.srst.any) THEN [r EXCEPT !.srst = None]
          ELSE [r EXCEPT !.srst = None, !.d = Leaf(r.srst.value),
                         !.en = IF r.over THEN @ ELSE {}], "en")

\* Wrong on purpose: the enable of a reset that acts on enabled edges only
\* is forgotten.
ResetEnablesAlone(reg) ==
  [reg EXCEPT !.srst = None, !.d = Leaf(reg.srst.value), !.en = {reg.srst.any}]

\* The reset is all that changes it: it becomes the enable.
ResetEnables(reg) ==
  [reg EXCEPT !.srst = None, !.d = Leaf(reg.srst.value),
              !.en = (IF reg.over THEN reg.en ELSE {}) \cup {reg.srst.any}]

ConstEnable ==
  /\ stage = "en"
  /\ LET off == \E clause \in r.en : IsNever(clause)
         on    == [r EXCEPT !.en = {clause \in r.en : ~IsAlways(clause)}]
     IN  IF off /\ r.srst # None /\ ~r.over THEN Goes(ResetEnables(r), "held")
         ELSE IF off THEN Goes([r EXCEPT !.frozen = TRUE], "held")
         ELSE Goes(on, "held")

\* D is Q.
Held ==
  /\ stage = "held"
  /\ LET feeds == r.d = Leaf("q") /\ r.arst = None
         now == IF feeds /\ r.srst # None THEN ResetEnables(r) ELSE r
         frozen == r.frozen \/ (feeds /\ r.srst = None)
     IN  IF frozen /\ r.arst = None THEN Becomes(r.init) ELSE Goes(now, "const")

\* All a bit's value can come from: when they agree, it is that constant.
Sources(reg) ==
  {reg.init} \cup {v.value : v \in {reg.arst, reg.srst} \ {None}}
    \cup {IF IsLeaf(reg.d) THEN reg.d.leaf ELSE "i"}

Constant ==
  /\ stage = "const"
  /\ IF Sources(r) \subseteq {"0", "x"} \/ Sources(r) \subseteq {"1", "x"}
     THEN Becomes(IF "0" \in Sources(r) THEN "0" ELSE IF "1" \in Sources(r) THEN "1" ELSE "x")
     ELSE Goes(r, "mergesrst")

-----------------------------------------------------------------------------
(* Multiplexers become a synchronous reset.                                *)

\* A node the register alone reads.
OwnMux(d) == ~IsLeaf(d) /\ d.one

RECURSIVE PeelResets(_, _, _)
PeelResets(d, conds, val) ==
  LET ok(k) == IsConst(k) /\ (val = "x" \/ k = Leaf(val))
      fed == Leaf("q")
  IN  IF ~OwnMux(d) \/ (IsConst(d.a) /\ IsConst(d.b)) THEN [d |-> d, any |-> conds, value |-> val]
      ELSE IF ok(d.b) /\ d.a # fed
      THEN PeelResets(d.a, conds \cup {[sig |-> d.s, val |-> "1"]}, d.b.leaf)
      ELSE IF ok(d.a) /\ d.b # fed
      THEN PeelResets(d.b, conds \cup {[sig |-> d.s, val |-> "0"]}, d.a.leaf)
      ELSE [d |-> d, any |-> conds, value |-> val]

CanMergeReset(reg) ==
  reg.arst = None /\ (reg.srst = None \/ reg.en = {} \/ reg.over)

WithResets(reg) ==
  LET p == PeelResets(reg.d, {}, IF reg.srst = None THEN "x" ELSE reg.srst.value)
  IN  IF p.any = {} THEN reg
      ELSE [reg EXCEPT !.d = p.d, !.over = @ \/ reg.en # {},
              !.srst = [any |-> p.any \cup (IF reg.srst = None THEN {} ELSE reg.srst.any),
                        value |-> p.value]]

MergeReset ==
  /\ stage = "mergesrst"
  /\ Goes(IF CanMergeReset(r) /\ r.d # Leaf("q") THEN WithResets(r) ELSE r, "mergece")

-----------------------------------------------------------------------------
(* Multiplexers that feed Q back become an enable.                         *)

RECURSIVE PeelEnables(_, _)
PeelEnables(d, conds) ==
  LET fed == Leaf("q")
  IN  IF ~OwnMux(d) THEN [d |-> d, en |-> conds]
      ELSE IF d.a = fed THEN PeelEnables(d.b, conds \cup {{[sig |-> d.s, val |-> "1"]}})
      ELSE IF d.b = fed THEN PeelEnables(d.a, conds \cup {{[sig |-> d.s, val |-> "0"]}})
      ELSE [d |-> d, en |-> conds]

\* The ways on from a node: a select already on the path decides.
Branches(d, path) ==
  {[cond |-> [sig |-> d.s, val |-> v], d |-> IF v = "1" THEN d.b ELSE d.a] :
     v \in {w \in Bits : \A c \in path : c.sig = d.s => c.val = w}}

\* The select values under which D is Q.
RECURSIVE Feedback(_, _)
Feedback(d, path) ==
  IF d = Leaf("q") THEN {path}
  ELSE IF ~OwnMux(d) THEN {}
  ELSE UNION {Feedback(w.d, path \cup {w.cond}) : w \in Branches(d, path)}

\* Those inputs become x: the enable does it now.
RECURSIVE Broken(_, _)
Broken(d, path) ==
  IF ~OwnMux(d) THEN d
  ELSE LET leg(v, l) ==
             LET way == {w \in Branches(d, path) : w.cond.val = v}
             IN  IF way = {} THEN l
                 ELSE IF l = Leaf("q") THEN Leaf("x")
                 ELSE Broken(l, path \cup {[sig |-> d.s, val |-> v]})
       IN  [d EXCEPT !.a = leg("0", @), !.b = leg("1", @)]

Negated(c) == [c EXCEPT !.val = IF @ = "1" THEN "0" ELSE "1"]

CanMergeEnable(reg) == reg.srst = None \/ reg.en = {} \/ ~reg.over

WithEnables(reg) ==
  LET p == PeelEnables(reg.d, {})
      paths == Feedback(p.d, {})
  IN  IF p.en = {} /\ paths = {} THEN reg
      ELSE [reg EXCEPT !.d = Broken(p.d, {}), !.over = FALSE,
              !.en = @ \cup p.en \cup {{Negated(c) : c \in path} : path \in paths}]

MergeEnable ==
  /\ stage = "mergece"
  /\ Goes(IF CanMergeEnable(r) /\ r.d # Leaf("q") THEN WithEnables(r) ELSE r, "done")

-----------------------------------------------------------------------------
DffInit == src \in Dffs /\ r = src /\ stage = "arst"

DffNext ==
  \/ ConstReset \/ ConstSyncReset \/ ConstEnable \/ Held \/ Constant
  \/ MergeReset \/ MergeEnable

DffSpec == DffInit /\ [][DffNext]_dff

-----------------------------------------------------------------------------
\* Whatever its inputs and its state, the register that is left goes where
\* the source's might have gone: controls, feedback and constant bits
\* (opt_dff, merge_srst, merge_ce).
StillSame ==
  "as" \notin DOMAIN r =>
    \A in \in DffInputs, old \in Bits : NextQ(r, in, old) \subseteq NextQ(src, in, old)

\* A register that became a constant could not have left that value.
ConstantIsHeld ==
  "as" \in DOMAIN r =>
    /\ src.init \in {"x", r.as} \/ Fires(src.arst, [s \in {"s", "t", "i"} |-> "0"])
    /\ r.as = "x" \/ \A in \in DffInputs : r.as \in NextQ(src, in, r.as)
=============================================================================
