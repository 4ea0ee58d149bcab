------------------------------ MODULE Drivers -------------------------------
(***************************************************************************)
(* The registers of an always block, and who drives every net.             *)
(***************************************************************************)
EXTENDS Integers, Sequences, FiniteSets, SequencesExt

-----------------------------------------------------------------------------
(***************************************************************************)
(* always @(posedge ... or negedge ...): which signal is the clock, which  *)
(* are asynchronous resets, and the registers that come of it              *)
(* (crates/chipsmith-verilog/src/elab/proc.rs).                            *)
(*                                                                         *)
(* A block is [events, tests, d]: its event list, the leading if/else-if   *)
(* chain with what each branch assigns to the bits kept, and what the last *)
(* else assigns.  A bit is assigned "0", "1", the signal "i", or left      *)
(* alone ("q").  A condition is a tree over the signals.  What the         *)
(* statements of a branch come to is Procedure.tla.                        *)
(***************************************************************************)

CONSTANTS None, Blocks

VARIABLES
  always,    \* the block
  edges,     \* the events not yet found to be resets
  resets,    \* the resets found, the first wins: [sig, level, values]
  taken,      \* the register of each bit
  signals,   \* the levels of the signals
  kept,         \* what the registers hold
  says       \* what Verilog says kept is

process == <<always, edges, resets, taken, signals, kept, says>>

\* Which signal a condition tests, and the level that makes it true
\* (reset_test).
RECURSIVE ResetTest(_)
ResetTest(e) ==
  CASE e.op = "id" -> [sig |-> e.s, level |-> TRUE]
    [] e.op = "not" -> LET t == ResetTest(e.a) IN [t EXCEPT !.level = ~@]
    [] e.op \in {"eq", "ne"} -> LET t == ResetTest(e.a)
                                IN  [t EXCEPT !.level = @ = (e.v = (e.op = "eq"))]
    [] OTHER -> [sig |-> None, level |-> FALSE]

\* The block is an error: it has no registers.
Error == <<>>
Tested == Len(resets)

\* One reset more (always): the next test names an edge of the list, at the
\* level the edge goes to.
AlwaysFound(t) == {k \in DOMAIN edges : edges[k].sig = t.sig}

MatchesEdge(k, level) == (edges[k].edge = "pos") = level

FindReset ==
  /\ taken = None /\ Len(edges) > 1
  /\ IF Tested = Len(always.tests) THEN taken' = Error /\ UNCHANGED <<edges, resets>>
     ELSE LET t == ResetTest(always.tests[Tested + 1].cond)
              k == CHOOSE k \in AlwaysFound(t) : \A j \in AlwaysFound(t) : k <= j
              ok == AlwaysFound(t) # {} /\ MatchesEdge(k, t.level)
          IN  /\ taken' = IF ok THEN None ELSE Error
              /\ edges' = IF ok THEN RemoveAt(edges, k) ELSE edges
              /\ resets' = IF ok THEN Append(resets, [sig |-> t.sig, level |-> t.level,
                                                      values |-> always.tests[Tested + 1].values])
                           ELSE resets
  /\ UNCHANGED <<always, signals, kept, says>>

\* What is left of the tests is clocked logic: the next value of bit b.
Rest == SubSeq(always.tests, Tested + 1, Len(always.tests))

\* Set where the first active reset forces a 1, clear where it forces a 0
\* (build_ff).
SetClr(b) ==
  [kind |-> "setclr",
   one |-> [k \in DOMAIN resets |-> resets[k].values[b] = "1"],
   zero |-> [k \in DOMAIN resets |-> resets[k].values[b] = "0"]]

\* No reset, one with a constant, one that loads a signal, or several.
RegOf(b) ==
  CASE resets = <<>> -> [kind |-> "plain"]
    [] Len(resets) = 1 /\ resets[1].values[b] \in {"0", "1"} -> [kind |-> "async", value |-> resets[1].values[b]]
    [] Len(resets) = 1 -> [kind |-> "load", from |-> resets[1].values[b]]
    [] OTHER -> SetClr(b)

\* With more than one reset their values are constants.
Build ==
  /\ taken = None /\ Len(edges) = 1
  /\ taken' = IF Len(resets) > 1 /\ \E k \in DOMAIN resets, b \in DOMAIN always.d : resets[k].values[b] = "i"
             THEN Error ELSE [b \in DOMAIN always.d |-> RegOf(b)]
  /\ kept' = IF taken' = Error THEN kept ELSE [b \in DOMAIN always.d |-> FALSE]
  /\ says' = kept'
  /\ UNCHANGED <<always, edges, resets, signals>>

-----------------------------------------------------------------------------
(* What the registers do.                                                  *)

Take(value, now, old) == CASE value = "q" -> old [] value = "i" -> now["i"] [] OTHER -> value = "1"

RECURSIVE Holds(_, _)
Holds(e, now) ==
  CASE e.op = "id" -> now[e.s]
    [] e.op = "not" -> ~Holds(e.a, now)
    [] e.op = "eq" -> Holds(e.a, now) = e.v
    [] e.op = "ne" -> Holds(e.a, now) # e.v
    [] e.op = "and" -> Holds(e.a, now) /\ Holds(e.b, now)

\* The branch a chain takes: the values of the first test that holds.
Branch(tests, d, now) ==
  LET on == {k \in DOMAIN tests : Holds(tests[k].cond, now)}
  IN  IF on = {} THEN d ELSE tests[CHOOSE k \in on : \A j \in on : k <= j].values

Active(k, now) == now[resets[k].sig] = resets[k].level
Ticks(event, now) == now[event.sig] # signals[event.sig] /\ now[event.sig] = (event.edge = "pos")

\* Bit b when the signals become `now`.
Clocked(b, now) == IF Ticks(edges[1], now) THEN Take(Branch(Rest, always.d, now)[b], now, kept[b]) ELSE kept[b]
FirstActive(reg, forces, now) == \E k \in DOMAIN resets : /\ Active(k, now) /\ forces[k]
                                                          /\ \A j \in 1 .. k - 1 : ~Active(j, now)
Flop(b, now) ==
  LET reg == taken[b]
  IN  CASE reg.kind = "plain" -> Clocked(b, now)
        [] reg.kind = "async" -> IF Active(1, now) THEN reg.value = "1" ELSE Clocked(b, now)
        [] reg.kind = "load" -> IF Active(1, now) THEN Take(reg.from, now, kept[b]) ELSE Clocked(b, now)
        [] reg.kind = "setclr" ->
             IF FirstActive(reg, reg.zero, now) THEN FALSE
             ELSE IF FirstActive(reg, reg.one, now) THEN TRUE ELSE Clocked(b, now)

\* An event of the list runs the whole chain.
Says(now) ==
  IF \E k \in DOMAIN always.events : Ticks(always.events[k], now)
    THEN [b \in DOMAIN says |-> Take(Branch(always.tests, always.d, now)[b], now, says[b])]
    ELSE says

\* What a simulation and hardware agree on at all: one reset at a time, and
\* what a reset loads is still while it does.
Orderly(now) ==
  /\ \A j, k \in DOMAIN resets : j # k => ~(Active(j, now) /\ Active(k, now))
  /\ now["i"] # signals["i"] => \A k \in DOMAIN resets : ~Active(k, now)

Toggle(s) ==
  /\ taken # None /\ taken # Error
  /\ signals' = [signals EXCEPT ![s] = ~@]
  /\ Orderly(signals')
  /\ kept' = [b \in DOMAIN kept |-> Flop(b, signals')]
  /\ says' = Says(signals')
  /\ UNCHANGED <<always, edges, resets, taken>>

AlwaysInit ==
  /\ always \in Blocks
  /\ edges = always.events /\ resets = <<>> /\ taken = None /\ kept = None /\ says = None
  \* no reset is active to begin with
  /\ signals = [s \in {"clk", "i"} \cup {always.events[k].sig : k \in DOMAIN always.events} |->
                  \E k \in DOMAIN always.events : always.events[k].sig = s /\ always.events[k].edge = "neg"]

AlwaysNext == FindReset \/ Build \/ \E s \in DOMAIN signals : Toggle(s)

AlwaysSpec == AlwaysInit /\ [][AlwaysNext]_process

-----------------------------------------------------------------------------
\* The registers hold what running the block at each of its events gives
\* (elab/proc.rs).
RegistersFollow == kept = says

-----------------------------------------------------------------------------
(***************************************************************************)
(* Nets that assignments join, and what drives each of them                *)
(* (crates/chipsmith-verilog/src/build.rs: join, find, finish;             *)
(* elab/proc.rs: finish_processes; elab/items.rs: check_drivers).          *)
(*                                                                         *)
(* A design is                                                             *)
(*   nets     numbers above 0; 0 and -1 are the constants, low and high    *)
(*   inputs   nets of input ports                                          *)
(*   assigns  the joins of continuous assignments, <<net, bit>>            *)
(*   outs     what the always blocks assign: [var, nets, values, temp,     *)
(*            reg], a temporary being read by its block alone              *)
(*   inits    the initial value of each net that has one                   *)
(*   vars     the variables of those nets, each the set of all its nets    *)
(*   cells    [out, tri]: the cells besides the registers                  *)
(***************************************************************************)

CONSTANT Designs

VARIABLES design, links, todo, regs, init, conflict, result

drivers == <<design, links, todo, regs, init, conflict, result>>

IsNet(b) == b > 0
Root == [is |-> "root"]
Parent(n) == [is |-> "parent", n |-> n]
Constant(v) == [is |-> "const", v |-> v]

-----------------------------------------------------------------------------
(* The union-find.                                                         *)

RECURSIVE Path(_)
Path(n) == IF links[n].is = "parent" THEN <<n>> \o Path(links[n].n) ELSE <<n>>
End(n) == Last(Path(n))
\* Every net on the way to a root then leads there itself (compress).
Found(ns) == [m \in DOMAIN links |->
                IF \E n \in ns : m \in Range(Front(Path(n))) THEN Parent(End(m)) ELSE links[m]]

\* What a bit leads to: a root, or a constant (find).
Leads(b) == IF ~IsNet(b) THEN Constant(b)
            ELSE IF links[End(b)].is = "const" THEN links[End(b)] ELSE Parent(End(b))

\* Wrong on purpose: the net itself is linked, not its root.
AttachDirect(a, b) ==
  IF Leads(a).is = "parent" THEN [Found({a, b} \cap design.nets) EXCEPT ![a] = Leads(b)]
  ELSE [Found({b}) EXCEPT ![Leads(b).n] = Leads(a)]

\* The root of one leads to where the other does.
Attach(a, b) ==
  IF Leads(a).is = "parent" THEN [Found({a, b} \cap design.nets) EXCEPT ![Leads(a).n] = Leads(b)]
  ELSE [Found({b}) EXCEPT ![Leads(b).n] = Leads(a)]

Join(a, b) ==
  CASE Leads(a) = Leads(b) -> links' = Found({a, b} \cap design.nets) /\ UNCHANGED conflict
    [] {Leads(a).is, Leads(b).is} = {"const"} -> links' = Found({a, b} \cap design.nets) /\ conflict' = TRUE
    [] OTHER -> links' = Attach(a, b) /\ UNCHANGED conflict

-----------------------------------------------------------------------------
(* The outputs of the always blocks.                                       *)

Of(var) == {k \in DOMAIN design.outs : design.outs[k].var = var}
\* A temporary yields to anything else.
Skipped(k) == design.outs[k].temp /\ Cardinality(Of(design.outs[k].var)) > 1
\* Different bits from different blocks are fine.
Clash == \E j, k \in DOMAIN design.outs :
           /\ j # k /\ ~Skipped(j) /\ ~Skipped(k) /\ design.outs[j].var = design.outs[k].var
           /\ Range(design.outs[j].nets) \cap Range(design.outs[k].nets) # {}

Kept == {k \in DOMAIN design.outs : ~Skipped(k)}
ByReg == UNION {Range(design.outs[k].nets) : k \in {k \in Kept : design.outs[k].reg}}
Driven == UNION {Range(design.outs[k].nets) : k \in Kept}
ByAssign == {design.assigns[k][1] : k \in DOMAIN design.assigns}

\* A variable that is continuously driven, be it one bit of it, or an input is
\* left as it is.
LeftAlone(v) == v \cap (ByAssign \cup {c.out : c \in design.cells} \cup design.inputs) # {}
AsTheyAre == UNION {v \in design.vars : LeftAlone(v)}

\* In the others a register keeps its initial value, logic drops it, and a net
\* nothing drives is the constant.
KeptInit == [n \in DOMAIN design.inits |-> IF n \in ByReg \cup AsTheyAre THEN design.inits[n] ELSE None]
Undriven == DOMAIN design.inits \ (Driven \cup AsTheyAre)

Joins(out) == [k \in DOMAIN out.nets |-> <<out.nets[k], out.values[k]>>]
BlockJoins == FlattenSeq([k \in DOMAIN design.outs |->
                IF Skipped(k) \/ design.outs[k].reg THEN <<>> ELSE Joins(design.outs[k])])

JoinNext ==
  /\ result = None /\ todo # <<>>
  /\ Join(Head(todo)[1], Head(todo)[2])
  /\ todo' = Tail(todo)
  /\ UNCHANGED <<design, regs, init, result>>

Processes ==
  /\ result = None /\ todo = <<>> /\ regs = None
  /\ regs' = ByReg /\ init' = KeptInit
  /\ todo' = [k \in 1 .. Cardinality(Undriven) |->
                LET n == SetToSeq(Undriven)[k] IN <<n, design.inits[n]>>] \o BlockJoins
  /\ result' = IF Clash THEN "clash" ELSE None
  /\ UNCHANGED <<design, links, conflict>>

-----------------------------------------------------------------------------
(* Every bit is rewritten to what it leads to, and the drivers are counted.*)

TooMany(n, outs, tri) == outs > 1 \/ (outs = 1 /\ tri > 0)

\* Every output of a cell: the net it is on.
Outputs == {[net |-> c.out, tri |-> c.tri, id |-> <<"cell", c.out, c.tri>>] : c \in design.cells}
             \cup {[net |-> n, tri |-> FALSE, id |-> <<"reg", n>>] : n \in regs}
On(n, tri) == {o \in Outputs : Leads(o.net) = Parent(n) /\ o.tri = tri}
Ports(n) == {i \in design.inputs : Leads(i) = Parent(n)}

Finish ==
  /\ result = None /\ todo = <<>> /\ regs # None
  /\ result' = CASE conflict -> "conflict"
                 [] \E o \in Outputs : Leads(o.net).is = "const" -> "driven constant"
                 [] \E n \in design.nets : TooMany(n, Cardinality(Ports(n)) + Cardinality(On(n, FALSE)),
                                                   Cardinality(On(n, TRUE))) -> "two drivers"
                 [] OTHER -> "accepted"
  /\ UNCHANGED <<design, links, todo, regs, init, conflict>>

Init ==
  /\ design \in Designs
  /\ links = [n \in design.nets |-> Root]
  /\ todo = design.assigns
  /\ regs = None /\ init = None /\ conflict = FALSE /\ result = None

Next == JoinNext \/ Processes \/ Finish

Spec == Init /\ [][Next]_drivers

-----------------------------------------------------------------------------
(* What joins what: the reference.                                         *)

Pairs == Range(design.assigns) \cup Range(BlockJoins) \cup {<<n, design.inits[n]>> : n \in Undriven}
RECURSIVE Reach(_)
Reach(set) ==
  LET more == set \cup {p[1] : p \in {q \in Pairs : q[2] \in set /\ IsNet(q[2])}}
                  \cup {p[2] : p \in {q \in Pairs : q[1] \in set /\ IsNet(q[2])}}
  IN  IF more = set THEN set ELSE Reach(more)
Values(n) == {p[2] : p \in {q \in Pairs : q[1] \in Reach({n}) /\ ~IsNet(q[2])}}
Drive(n) == {o \in Outputs : o.net \in Reach({n})}
PortsOf(n) == design.inputs \cap Reach({n})

\* A net has one driver: a cell or register, an input port or a constant;
\* tri-state buffers share one.  Ports joined to a constant are that constant,
\* and do not count (check_drivers, items.rs:1318-1325).
OneDriver(n) ==
  LET ports == IF Values(n) = {} THEN PortsOf(n) ELSE {}
      all == Cardinality(Drive(n)) + Cardinality(ports) + Cardinality(Values(n))
  IN  all <= 1 \/ (Values(n) = {} /\ ports = {} /\ \A o \in Drive(n) : o.tri)

\* A design is accepted exactly if every net has one driver, and nets are
\* one exactly if assignments join them (build.rs, elab/items.rs).
AcceptedIffOneDriver ==
  result # None =>
    /\ result = "accepted" <=> ~Clash /\ \A n \in design.nets : OneDriver(n)
    /\ result = "accepted" =>
         \A m, n \in design.nets :
           /\ m \in Reach({n}) => Leads(m) = Leads(n)
           /\ Leads(m) = Leads(n) /\ Leads(m).is = "parent" => m \in Reach({n})
           /\ Leads(n).is = "const" <=> Values(n) # {}

\* An initial value is kept where a register holds it; where nothing drives the
\* net it is the constant the net is; and it is nowhere else, unless its
\* variable is an input or continuously driven in one bit.  Then all its bits
\* keep theirs as they are, on logic and on nets nothing drives alike, and these
\* get no constant (proc.rs:483-489; items.rs:1242 makes attributes of them).
InitHasAPlace ==
  result = "accepted" => \A v \in design.vars : \A n \in v \cap DOMAIN design.inits :
    /\ n \in ByReg => init[n] = design.inits[n]
    /\ ~LeftAlone(v) =>
         /\ init[n] # None => n \in ByReg
         /\ n \notin Driven => Leads(n) = Constant(design.inits[n])
    /\ LeftAlone(v) =>
         /\ init[n] = design.inits[n]
         /\ Leads(n).is = "const" => \E p \in Range(design.assigns) \cup Range(BlockJoins) :
                                      ~IsNet(p[2]) /\ Leads(p[1]) = Leads(n)
=============================================================================
