----------------------------- MODULE Procedure ------------------------------
(***************************************************************************)
(* The bits the elaboration of Verilog works with                          *)
(* (crates/chipsmith-verilog/src/build.rs): constants, nets, and the cells *)
(* the builder makes where an operation does not fold.  A word is a        *)
(* sequence of bits, the lowest first; a bit is                            *)
(*   [op |-> "const", v], v one of "0", "1", "x", "z"                      *)
(*   [op |-> "net", at], at a place of the design                          *)
(* or what a cell puts out, a tree over its inputs.                        *)
(***************************************************************************)
EXTENDS Integers, Sequences, FiniteSets, SequencesExt, TLC

Bit(v) == [op |-> "const", v |-> v]
Zero == Bit("0")
One == Bit("1")
X == Bit("x")
NetAt(place) == [op |-> "net", at |-> place]

IsConst(b) == b.op = "const"
AllConst(word) == \A i \in DOMAIN word : IsConst(word[i])
Xs(width) == [i \in 1 .. width |-> X]
Zeros(width) == [i \in 1 .. width |-> Zero]

\* Extends, with the sign if it is signed, or truncates (extend).
Sized(word, width, signed) ==
  [i \in 1 .. width |->
     IF i <= Len(word) THEN word[i] ELSE IF signed /\ word # <<>> THEN word[Len(word)] ELSE Zero]

\* The number a constant word with defined bits stands for (as_i64).
Defined(word) == \A i \in DOMAIN word : word[i] \in {Zero, One}
Unsigned(word) ==
  LET sum[i \in 0 .. Len(word)] ==
        IF i = 0 THEN 0 ELSE sum[i - 1] + (IF word[i] = One THEN 2^(i - 1) ELSE 0)
  IN  sum[Len(word)]
IntOf(word, signed) ==
  IF signed /\ word # <<>> /\ word[Len(word)] = One THEN Unsigned(word) - 2^Len(word)
  ELSE Unsigned(word)
FromInt(n, width) == [i \in 1 .. width |-> IF (n \div 2^(i - 1)) % 2 = 1 THEN One ELSE Zero]

\* The bits of a number without sign, and a bit for the sign.
BitsOf(n) == LET m == IF n < 0 THEN -n ELSE n IN CHOOSE k \in 0 .. 31 : 2^k > m /\ (k = 0 \/ 2^(k - 1) <= m)

-----------------------------------------------------------------------------
(* Cells, folded where their inputs are constant.                          *)

Not(b) == IF ~IsConst(b) THEN [op |-> "not", a |-> b]
          ELSE IF b = Zero THEN One ELSE IF b = One THEN Zero ELSE X

\* Any bit set (reduce_bool, unary).
AnyBit(word) ==
  IF Len(word) = 1 THEN word[1]
  ELSE IF ~AllConst(word) THEN [op |-> "or", of |-> word]
  ELSE IF Contains(word, One) THEN One ELSE IF Defined(word) THEN Zero ELSE X

\* One signal or another (any, or1): a one wins, zeros are left out.
OrOf(bits) ==
  LET some == SelectSeq(bits, LAMBDA b : b # Zero)
  IN  IF Contains(bits, One) THEN One ELSE IF some = <<>> THEN Zero ELSE AnyBit(some)

And(a, b) ==
  CASE a = One -> b
    [] b = One -> a
    [] IsConst(a) /\ IsConst(b) -> IF Zero \in {a, b} THEN Zero ELSE X
    [] OTHER -> [op |-> "and", of |-> <<a, b>>]

\* `$eq`, one bit (binary).
Equal(a, b) ==
  IF ~(AllConst(a) /\ AllConst(b)) THEN [op |-> "eq", x |-> a, y |-> b]
  ELSE IF \E i \in DOMAIN a : {a[i], b[i]} = {Zero, One} THEN Zero
  ELSE IF Defined(a) /\ Defined(b) THEN One ELSE X

\* s ? b : a, a word at a time (mux).
Mux(s, a, b) ==
  CASE a = b \/ s = Zero -> a
    [] s = One -> b
    [] IsConst(s) /\ AllConst(a) /\ AllConst(b) ->
         [i \in DOMAIN a |-> IF a[i] = b[i] THEN a[i] ELSE X]
    [] OTHER -> [i \in DOMAIN a |-> [op |-> "mux", s |-> s, a |-> a[i], b |-> b[i]]]

\* a unless the select of one of the cases <<s, word>> is set (pmux).
Pmux(a, cases) ==
  LET some == SelectSeq(cases, LAMBDA c : c[1] # Zero)
  IN  IF some = <<>> THEN a
      ELSE IF Len(some) = 1 THEN Mux(some[1][1], a, some[1][2])
      ELSE [i \in DOMAIN a |->
              [op |-> "pmux", none |-> a[i], cases |-> [k \in DOMAIN some |-> <<some[k][1], some[k][2][i]>>]]]

-----------------------------------------------------------------------------
(* What a bit is when the nets are `in`: [places -> {"0", "1", ...}].      *)

RECURSIVE ValueOf(_, _)
ValueOf(b, in) ==
  LET of(k) == ValueOf(b.of[k], in)
      Pick(s, a, c) ==
        IF ValueOf(s, in) = "1" THEN ValueOf(c, in)
        ELSE IF ValueOf(s, in) = "0" \/ a = c THEN ValueOf(a, in) ELSE "x"
  IN  CASE b.op = "const" -> b.v
        [] b.op = "net" -> in[b.at]
        [] b.op = "not" -> IF ValueOf(b.a, in) = "0" THEN "1"
                           ELSE IF ValueOf(b.a, in) = "1" THEN "0" ELSE "x"
        [] b.op = "or" -> IF \E k \in DOMAIN b.of : of(k) = "1" THEN "1"
                          ELSE IF \A k \in DOMAIN b.of : of(k) = "0" THEN "0" ELSE "x"
        [] b.op = "and" -> IF \E k \in DOMAIN b.of : of(k) = "0" THEN "0"
                           ELSE IF \A k \in DOMAIN b.of : of(k) = "1" THEN "1" ELSE "x"
        [] b.op = "eq" ->
             LET a == [k \in DOMAIN b.x |-> ValueOf(b.x[k], in)]
                 c == [k \in DOMAIN b.y |-> ValueOf(b.y[k], in)]
             IN  IF \E k \in DOMAIN a : {a[k], c[k]} = {"0", "1"} THEN "0" ELSE IF a = c THEN "1" ELSE "x"
        [] b.op = "mux" -> Pick(b.s, b.a, b.b)
        \* Of several selects that are set the last wins.
        [] b.op = "pmux" ->
             LET on == {k \in DOMAIN b.cases : ValueOf(b.cases[k][1], in) = "1"}
             IN  IF on = {} THEN ValueOf(b.none, in)
                 ELSE ValueOf(b.cases[CHOOSE k \in on : \A j \in on : j <= k][2], in)
        [] b.op = "read" ->   \* bit i of the word of a memory at an address
             LET a == [k \in DOMAIN b.addr |-> ValueOf(b.addr[k], in)]
                 n == Unsigned([k \in DOMAIN a |-> Bit(a[k])])
             IN  IF <<b.mem, n, b.i>> \in DOMAIN in THEN in[<<b.mem, n, b.i>>] ELSE "x"

WordOf(word, in) == [i \in DOMAIN word |-> ValueOf(word[i], in)]

-----------------------------------------------------------------------------
(***************************************************************************)
(* Procedural code run symbolically (crates/chipsmith-verilog/src/elab/    *)
(* stmt.rs): an always or initial block becomes, for each variable it      *)
(* assigns, the bits of the value it has at the end.                       *)
(*                                                                         *)
(* A program is [mode, vars, inits, mems, body].  A variable has a range   *)
(* [msb, lsb]; a memory [lo, words, width, regs, vars] is a RAM or, with   *)
(* regs, one variable a word.  Statements and expressions are the records  *)
(* below.  `work` is what is left to run, which the code keeps on its own  *)
(* stack.  The environment env is                                          *)
(*   frames   a stack, one frame for each branch the code is in, from      *)
(*            slots to words                                               *)
(*   kind     how each variable is assigned, "=" or "<="                   *)
(*   written  the positions of each variable assigned anywhere             *)
(*   ports    the writes to RAMs, in hidden slots                          *)
(*   failed   the block is an error                                        *)
(***************************************************************************)

CONSTANTS None, Programs

VARIABLES program, work, env

procedure == <<program, work, env>>

Width(dim) == (IF dim.msb < dim.lsb THEN dim.lsb - dim.msb ELSE dim.msb - dim.lsb) + 1
Upto(dim) == dim.msb < dim.lsb
Pos(dim, index) == IF Upto(dim) THEN dim.lsb - index ELSE index - dim.lsb
OfWidth(w) == [msb |-> w - 1, lsb |-> 0]

Var(v) == <<"var", v>>
Local(l) == <<"local", l>>
Assigned(v) == <<"assigned", v>>
Hidden(what, k) == <<"hidden", what, k>>

Dim(slot) == IF slot[1] = "local" THEN OfWidth(program.locals[slot[2]]) ELSE program.vars[slot[2]]
Nets(v) == [i \in 1 .. Width(program.vars[v]) |-> NetAt(<<v, i - 1>>)]

-----------------------------------------------------------------------------
(* The environment (Env).                                                  *)

Holding(e, slot) == {k \in DOMAIN e.frames : slot \in DOMAIN e.frames[k]}
Set(e, slot, word) == [e EXCEPT !.frames[Len(e.frames)] = (slot :> word) @@ @]
Push(e) == [e EXCEPT !.frames = Append(@, <<>>)]
Pop(e) == [e EXCEPT !.frames = Front(@)]
\* Everything a popped frame assigned, as if it had run here.
Absorb(e, frame) == [e EXCEPT !.frames[Len(e.frames)] = frame @@ @]

\* The value of a slot as an assignment sees it (current).
Start(e, slot) ==
  CASE slot[1] = "var" -> IF program.mode = "initial" THEN program.inits[slot[2]] ELSE Nets(slot[2])
    [] slot[1] = "local" -> Xs(program.locals[slot[2]])
    [] slot[1] = "assigned" -> Zeros(Width(program.vars[slot[2]]))
    [] OTHER -> LET port == e.ports[slot[3]]
                IN  CASE slot[2] = "en" -> Zeros(program.mems[port.mem].width)
                      [] slot[2] = "data" -> Xs(program.mems[port.mem].width)
                      [] OTHER -> Xs(port.abits)
Current(e, slot) ==
  IF Holding(e, slot) = {} THEN Start(e, slot)
  ELSE e.frames[CHOOSE k \in Holding(e, slot) : \A j \in Holding(e, slot) : j <= k][slot]

\* A read sees what `=` assigned, and otherwise the value from before the
\* block (read_var, read_sym).
Read(slot) ==
  IF slot[1] = "var" /\ program.mode # "initial"
     /\ (slot[2] \notin DOMAIN env.kind \/ env.kind[slot[2]] # "=")
  THEN Nets(slot[2]) ELSE Current(env, slot)

-----------------------------------------------------------------------------
(* Expressions, as far as the statements here need them.                   *)

\* A word of a memory kept as registers is at an address.
WordHit(addr, index) ==
  LET w == IF Len(addr) > BitsOf(index) + 1 THEN Len(addr) ELSE BitsOf(index) + 1
  IN  Equal(Sized(addr, w, FALSE), FromInt(index, w))

RECURSIVE Lower(_)
Lower(e) ==
  CASE e.op = "const" -> e.bits
    [] e.op = "var" -> Read(Var(e.v))
    [] e.op = "local" -> Read(Local(e.l))
    [] e.op = "not" -> [i \in DOMAIN Lower(e.a) |-> Not(Lower(e.a)[i])]
    [] e.op = "and" -> <<And(Lower(e.a)[1], Lower(e.b)[1])>>
    [] e.op = "next" ->  \* only ever of a constant, in a loop
         IF Defined(Lower(e.a)) THEN FromInt(Unsigned(Lower(e.a)) + 1, Len(Lower(e.a)))
         ELSE Xs(Len(Lower(e.a)))
    [] e.op = "below" -> IF Defined(Lower(e.a)) /\ Unsigned(Lower(e.a)) < e.n THEN <<One>> ELSE <<Zero>>
    [] e.op = "read" ->
         LET m == program.mems[e.mem]
             a == Lower(e.a)
             outside == Defined(a) /\ Unsigned(a) \notin m.lo .. m.lo + m.words - 1
         IN  CASE ~m.regs -> [i \in 1 .. m.width |-> [op |-> "read", mem |-> e.mem, addr |-> a, i |-> i - 1]]
               [] m.regs /\ AllConst(a) ->
                    IF outside \/ ~Defined(a) THEN Xs(m.width) ELSE Read(Var(m.vars[Unsigned(a) - m.lo + 1]))
               [] OTHER -> Pmux(Xs(m.width), [k \in 1 .. m.words |->
                                                <<WordHit(a, m.lo + k - 1), Read(Var(m.vars[k]))>>])

\* A condition (lower_bool).
Condition(e) == AnyBit(Lower(e))

-----------------------------------------------------------------------------
(* The left-hand side (target): bits of a slot by position, None where the *)
(* position is out of range; a select that starts at a signal; a memory    *)
(* word; or a concatenation of these.                                      *)

Positions(dim, p, n) == [k \in 1 .. n |-> IF p + k - 1 \in 0 .. Width(dim) - 1 THEN p + k - 1 ELSE None]
Bits(slot, positions) == [to |-> "bits", slot |-> slot, positions |-> positions]

RECURSIVE Target(_)
Target(lhs) ==
  LET slot == IF lhs.of = "local" THEN Local(lhs.v) ELSE Var(lhs.v)
      dim == Dim(slot)
      index == Lower(lhs.at)
      n == lhs.width
      lo == IF lhs.up THEN 0 ELSE -(n - 1)
      delta == IF Upto(dim) THEN lo + n - 1 ELSE lo
      addr == Lower(lhs.at)
  IN  CASE lhs.of = "concat" -> [to |-> "concat", parts |-> [k \in DOMAIN lhs.parts |-> Target(lhs.parts[k])]]
        [] lhs.of = "mem" -> [to |-> "mem", mem |-> lhs.v, addr |-> addr, lo |-> lhs.low, n |-> n]
        \* v, v[l:m] and v[i +: n], v[i -: n]; v[i] has a width of 1
        [] lhs.of \in {"var", "local"} -> Bits(slot, Positions(dim, 0, Width(dim)))
        [] lhs.of = "slice" ->
             LET a == Pos(dim, lhs.l)
                 b == Pos(dim, lhs.m)
             IN  Bits(slot, IF a < b THEN Positions(dim, a, b - a + 1) ELSE Positions(dim, b, a - b + 1))
        [] AllConst(index) ->
             IF ~Defined(index) THEN Bits(slot, [k \in 1 .. n |-> None])
             ELSE Bits(slot, Positions(dim, Pos(dim, IntOf(index, lhs.signed) + delta), n))
        [] OTHER -> [to |-> "dynamic", slot |-> slot, index |-> index, signed |-> lhs.signed,
                     n |-> n, delta |-> delta]

RECURSIVE TargetWidth(_)
TargetWidth(t) ==
  CASE t.to = "bits" -> Len(t.positions)
    [] t.to = "concat" -> FoldLeft(LAMBDA sum, p : sum + TargetWidth(p), 0, t.parts)
    [] OTHER -> t.n

\* The position an index stands for, as a signal: [sig, signed] (position).
\* The sum is left to ValueOf as the constant it is equal to, see Starts.
PositionOf(dim, index, signed, delta) ==
  LET k == IF Upto(dim) THEN dim.lsb - delta ELSE delta - dim.lsb
      wide == (IF Len(index) > BitsOf(k) + 1 THEN Len(index) ELSE BitsOf(k) + 1) + 1
  IN  IF ~Upto(dim) /\ k = 0 THEN [width |-> Len(index), signed |-> signed, sum |-> FALSE, k |-> 0]
      ELSE [width |-> wide, signed |-> TRUE, sum |-> TRUE, k |-> k]

\* The select starts at position p0: one comparison of the position, of
\* the width the sum has, with p0.
Starts(dim, index, signed, delta, p0) ==
  LET pos == PositionOf(dim, index, signed, delta)
      pw == IF pos.width > BitsOf(p0) + 1 THEN pos.width ELSE BitsOf(p0) + 1
      \* the values of the index at which the comparison holds
      at == {i \in 0 .. 2^Len(index) - 1 :
               LET v == IF signed /\ i >= 2^(Len(index) - 1) THEN i - 2^Len(index) ELSE i
                   p == IF ~pos.sum THEN v ELSE IF Upto(dim) THEN pos.k - v ELSE v + pos.k
                   word == FromInt(p % 2^pos.width, pos.width)
               IN  Sized(word, pw, pos.signed) = FromInt(p0 % 2^pw, pw)}
  IN  OrOf([i \in 1 .. 2^Len(index) |->
              IF i - 1 \in at THEN Equal(index, FromInt(i - 1, Len(index))) ELSE Zero])

-----------------------------------------------------------------------------
(* Writing a target (write_target, check_assignable, mark_assigned).       *)

Fail(e) == [e EXCEPT !.failed = TRUE]

\* One variable is assigned one way.
Checked(e, slot, how) ==
  IF slot[1] # "var" \/ program.mode = "initial" THEN e
  ELSE IF slot[2] \in DOMAIN e.kind /\ e.kind[slot[2]] # how THEN Fail(e)
  ELSE [e EXCEPT !.kind = (slot[2] :> how) @@ @]

Marked(e, slot, positions) ==
  IF slot[1] # "var" THEN e
  ELSE LET v == slot[2]
           old == IF v \in DOMAIN e.written THEN e.written[v] ELSE {}
           to == [e EXCEPT !.written = (v :> (old \cup positions)) @@ @]
           mask == Current(e, Assigned(v))
       IN  IF program.mode # "comb" THEN to
           ELSE Set(to, Assigned(v), [i \in DOMAIN mask |-> IF i - 1 \in positions THEN One ELSE mask[i]])

WriteBits(e, slot, positions, word, how) ==
  LET ok == Checked(e, slot, how)
      old == Current(e, slot)
      for(i) == {k \in DOMAIN positions : positions[k] = i - 1}
      new == [i \in DOMAIN old |->
                IF for(i) = {} THEN old[i] ELSE word[CHOOSE k \in for(i) : \A j \in for(i) : j <= k]]
  IN  Marked(Set(ok, slot, new), slot, {positions[k] : k \in DOMAIN positions} \ {None})

\* One comparison for each position the select can start at: the bits
\* there take the value when the index matches.
WriteDynamic(e, t, word, how) ==
  LET dim == Dim(t.slot)
      n == Width(dim)
      signed == PositionOf(dim, t.index, t.signed, t.delta).signed
      first == IF signed THEN 1 - t.n ELSE 0
      AtStart(cur, p0) ==
        LET hit == Starts(dim, t.index, t.signed, t.delta, p0)
            covered == {i \in 1 .. n : i - 1 \in p0 .. p0 + t.n - 1}
        IN  [i \in 1 .. n |-> IF i \in covered THEN Mux(hit, <<cur[i]>>, <<word[i - p0]>>)[1] ELSE cur[i]]
      ok == Checked(e, t.slot, how)
      new == FoldLeft(AtStart, Current(e, t.slot), [k \in 1 .. n - first |-> first + k - 1])
  IN  Marked(Set(ok, t.slot, new), t.slot, 0 .. n - 1)

\* A memory kept as registers is written one register after another.
WriteWords(e, t, word, how) ==
  LET m == program.mems[t.mem]
      positions == [k \in 1 .. t.n |-> t.lo + k - 1]
      Hit(k) == IF ~AllConst(t.addr) THEN WordHit(t.addr, m.lo + k - 1)
                ELSE IF Defined(t.addr) /\ Unsigned(t.addr) = m.lo + k - 1 THEN One ELSE Zero
      WriteWord(to, k) ==
        LET slot == Var(m.vars[k])
            old == SubSeq(Current(to, slot), t.lo + 1, t.lo + t.n)
        IN  IF Hit(k) = Zero THEN to ELSE WriteBits(to, slot, positions, Mux(Hit(k), old, word), how)
  IN  FoldLeft(WriteWord, e, [k \in 1 .. m.words |-> k])

\* A RAM gets a write port whose enable, address and data are in slots.
WriteRam(e, t, word, how) ==
  LET m == program.mems[t.mem]
      k == Len(e.ports) + 1
      in(i) == i - 1 \in t.lo .. t.lo + t.n - 1
      with == [e EXCEPT !.ports = Append(@, [mem |-> t.mem, abits |-> Len(t.addr)])]
  IN  IF program.mode = "comb" \/ how = "=" THEN Fail(e)
      ELSE Set(Set(Set(with, Hidden("en", k), [i \in 1 .. m.width |-> IF in(i) THEN One ELSE Zero]),
                   Hidden("addr", k), t.addr),
               Hidden("data", k), [i \in 1 .. m.width |-> IF in(i) THEN word[i - t.lo] ELSE X])

RECURSIVE Write(_, _, _, _)
Write(e, t, word, how) ==
  CASE t.to = "bits" -> WriteBits(e, t.slot, t.positions, word, how)
    [] t.to = "dynamic" -> WriteDynamic(e, t, word, how)
    [] t.to = "mem" -> IF program.mems[t.mem].regs THEN WriteWords(e, t, word, how) ELSE WriteRam(e, t, word, how)
    \* The last part takes the low bits, and is written first.
    [] t.to = "concat" ->
         LET low(k) == FoldLeft(LAMBDA sum, p : sum + TargetWidth(p), 0, SubSeq(t.parts, k + 1, Len(t.parts)))
             WritePart(to, k) == Write(to, t.parts[k], SubSeq(word, low(k) + 1, low(k) + TargetWidth(t.parts[k])), how)
         IN  FoldLeft(WritePart, e, [k \in DOMAIN t.parts |-> Len(t.parts) + 1 - k])

-----------------------------------------------------------------------------
(* What the assignments of a block always write together: snippets.        *)

RECURSIVE Masks(_), LhsMasks(_)
LhsMasks(lhs) ==
  LET w == Width(program.vars[lhs.v])
      each == {<<lhs.v, {p}>> : p \in 0 .. w - 1}
      at == IF lhs.of = "index" /\ lhs.at.op = "const" THEN Pos(program.vars[lhs.v], IntOf(lhs.at.bits, lhs.signed))
            ELSE -1
      ends == {Pos(program.vars[lhs.v], lhs.l), Pos(program.vars[lhs.v], lhs.m)}
  IN  CASE lhs.of = "concat" -> UNION {LhsMasks(lhs.parts[k]) : k \in DOMAIN lhs.parts}
        [] lhs.of = "var" -> {<<lhs.v, 0 .. w - 1>>}
        [] lhs.of = "slice" -> {<<lhs.v, {p \in 0 .. w - 1 : \E a, b \in ends : a <= p /\ p <= b}>>}
        [] lhs.of = "index" -> IF lhs.width = 1 /\ at \in 0 .. w - 1 THEN {<<lhs.v, {at}>>} ELSE each
        [] OTHER -> {}
Masks(s) ==
  LET of(list) == UNION {Masks(list[k]) : k \in DOMAIN list}
  IN  CASE s.op = "set" -> LhsMasks(s.lhs)
        [] s.op = "block" -> of(s.stmts)
        [] s.op = "if" -> of(<<s.then>>) \cup (IF s.els = None THEN {} ELSE Masks(s.els))
        [] s.op = "case" -> of([k \in DOMAIN s.items |-> s.items[k].body])
                              \cup (IF s.default = None THEN {} ELSE Masks(s.default))
        [] s.op = "for" -> of(<<s.init, s.step, s.body>>)
        [] OTHER -> {}

\* The class of bit i of a slot: the assignments that write it.
Class(slot, i) ==
  IF slot[1] # "var" THEN {} ELSE {m \in Masks(program.body) : m[1] = slot[2] /\ i - 1 \in m[2]}

-----------------------------------------------------------------------------
(* Cases (pattern_match, covers_all, pgroups).  A pattern is a word with   *)
(* None where the bit is a don't-care.                                     *)

DontCare(kind) == CASE kind = "casez" -> {Bit("z")} [] kind = "casex" -> {Bit("z"), X} [] OTHER -> {}

PatternMatch(sel, pat) ==
  LET cares == SelectSeq([i \in DOMAIN sel |-> i], LAMBDA i : pat[i] # None)
      s == [k \in DOMAIN cares |-> sel[cares[k]]]
      p == [k \in DOMAIN cares |-> pat[cares[k]]]
  IN  CASE cares = <<>> -> One
        [] \E k \in DOMAIN p : p[k] \in {X, Bit("z")} -> Zero
        [] Len(s) = 1 /\ p[1] = One -> s[1]
        [] OTHER -> Equal(s, p)

\* Constant patterns match every value the signal can take.
CoversAll(sel, patterns) ==
  LET free == {i \in DOMAIN sel : ~IsConst(sel[i])}
      Possible(p) == \A i \in DOMAIN sel : p[i] # None => p[i] \in {Zero, One} /\ (i \in free \/ sel[i] = p[i])
      Matches(p, v) == \A i \in free : p[i] # None => p[i] = v[i]
  IN  /\ Cardinality(free) <= 12
      /\ \A v \in [free -> {Zero, One}] : \E p \in patterns : Possible(p) /\ Matches(p, v)

ConstPattern(p) == \A i \in DOMAIN p : p[i] = None \/ IsConst(p[i])
DefinedPattern(p) == \A i \in DOMAIN p : p[i] \in {Zero, One}
Overlap(p, q) == ~\E i \in DOMAIN p : {p[i], q[i]} = {Zero, One}

\* Which arms can share a `$pmux`: all, or consecutive ones while their
\* constant patterns match nothing an earlier one of the group does.
Groups(items, parallel) ==
  LET simple == /\ \A i \in DOMAIN items : \A k \in DOMAIN items[i] : DefinedPattern(items[i][k])
                /\ \A i, j \in DOMAIN items : \A k \in DOMAIN items[i], l \in DOMAIN items[j] :
                      items[i][k] = items[j][l] => <<i, k>> = <<j, l>>
      consts(i) == {items[i][k] : k \in {k \in DOMAIN items[i] : ConstPattern(items[i][k])}}
      signal(i) == \E k \in DOMAIN items[i] : ~ConstPattern(items[i][k])
      \* the arm at which the group of arm i starts
      start[i \in DOMAIN items] ==
        IF i = 1 THEN 1
        ELSE CHOOSE at \in {start[i - 1], i} :
               at = i <=> \/ signal(i - 1) \/ signal(i)
                          \/ \E j \in start[i - 1] .. i - 1 : \E p \in consts(j), q \in consts(i) : Overlap(p, q)
  IN  IF parallel \/ simple THEN [i \in DOMAIN items |-> 0] ELSE start

-----------------------------------------------------------------------------
(* The multiplexers of a slot (merge): arms [ctrl, group, word] from the   *)
(* last to the first.  A group is one `$pmux` over what the ones after it  *)
(* make.                                                                   *)

\* The arm is left out where it leaves the value as the `$pmux` starts.
CasesOf(arms, k, st) == IF arms[k].word # st.from THEN <<<<arms[k].ctrl, arms[k].word>>>> ELSE <<>>

MergeArm(arms, k, st) ==
  LET same == k < Len(arms) /\ arms[k].group = arms[k + 1].group
      closed == IF st.cases = <<>> THEN st.result ELSE Pmux(st.from, st.cases)
  IN  CASE st.cases # <<>> /\ same -> [st EXCEPT !.cases = @ \o CasesOf(arms, k, st)]
        [] arms[k].word = st.result -> st
        [] OTHER -> [result |-> closed, from |-> closed, cases |-> <<<<arms[k].ctrl, arms[k].word>>>>]

MergeWord(arms, default) ==
  LET end == FoldLeft(LAMBDA st, k : MergeArm(arms, k, st), [result |-> default, from |-> default, cases |-> <<>>],
                      [j \in DOMAIN arms |-> Len(arms) + 1 - j])
  IN  IF end.cases = <<>> THEN end.result ELSE Pmux(end.from, end.cases)

\* The bits that differ, one class at a time.
Merge(slot, arms, default) ==
  LET differs == {i \in DOMAIN default : \E k \in DOMAIN arms : arms[k].word[i] # default[i]}
      alike(i) == SelectSeq([j \in DOMAIN default |-> j], LAMBDA j : j \in differs /\ Class(slot, j) = Class(slot, i))
      only(word, is) == [k \in DOMAIN is |-> word[is[k]]]
      merged(is) == MergeWord([k \in DOMAIN arms |-> [arms[k] EXCEPT !.word = only(@, is)]], only(default, is))
  IN  [i \in DOMAIN default |->
         IF i \notin differs THEN default[i]
         ELSE merged(alike(i))[CHOOSE k \in DOMAIN alike(i) : alike(i)[k] = i]]

-----------------------------------------------------------------------------
(* Running (exec).                                                         *)

Top == work[1]
Then(items) == work' = items \o Tail(work)
Runs(op) == work # <<>> /\ ~env.failed /\ Top.op = op /\ UNCHANGED program

Block == Runs("block") /\ Then(Top.stmts) /\ UNCHANGED env

\* The right side is sized to the wider of the two, and the left side
\* takes the low bits (assign).
Assign ==
  /\ Runs("set")
  /\ LET t == Target(Top.lhs)
         word == Lower(Top.rhs)
     IN  env' = Write(env, t, Sized(word, TargetWidth(t), FALSE), Top.how)
  /\ Then(<<>>)

Switch(arms, default, fullx, complete) ==
  [op |-> "switch", arms |-> arms, taken |-> <<>>, default |-> default, fullx |-> fullx,
   complete |-> complete, group |-> None, running |-> FALSE]

If ==
  /\ Runs("if")
  /\ Then(<<Switch(<<[ctrl |-> Condition(Top.cond), group |-> 0, body |-> Top.then]>>, Top.els, <<>>, FALSE)>>)
  /\ UNCHANGED env

\* What a case without a default assigns with `=` (blocking_lvalues).
RECURSIVE LeftSides(_)
LeftSides(s) ==
  LET of(list) == FlattenSeq([k \in DOMAIN list |-> LeftSides(list[k])])
  IN  CASE s.op = "set" /\ s.how = "=" -> <<s.lhs>>
        [] s.op = "block" -> of(s.stmts)
        [] s.op = "if" -> LeftSides(s.then) \o (IF s.els = None THEN <<>> ELSE LeftSides(s.els))
        [] s.op = "case" -> of([k \in DOMAIN s.items |-> s.items[k].body])
                              \o (IF s.default = None THEN <<>> ELSE LeftSides(s.default))
        [] s.op = "for" -> LeftSides(s.body)
        [] OTHER -> <<>>

\* ... a variable select takes the whole variable (lvalue_bits).
RECURSIVE LvalueBits(_)
LvalueBits(lhs) ==
  LET slot == IF lhs.of = "local" THEN Local(lhs.v) ELSE Var(lhs.v)
      all == <<Bits(slot, Positions(Dim(slot), 0, Width(Dim(slot))))>>
  IN  CASE lhs.of = "concat" -> FlattenSeq([k \in DOMAIN lhs.parts |-> LvalueBits(lhs.parts[k])])
        [] lhs.of = "slice" -> <<Target(lhs)>>
        [] lhs.of = "index" -> IF lhs.width = 1 /\ lhs.at.op = "const" /\ Target(lhs).positions # <<None>>
                               THEN <<Target(lhs)>> ELSE all
        [] lhs.of = "mem" -> <<>>
        [] OTHER -> all

Case ==
  /\ Runs("case")
  /\ LET items == Top.items
         words == {Lower(Top.on)} \cup
                  UNION {{Lower(items[i].pats[k]) : k \in DOMAIN items[i].pats} : i \in DOMAIN items}
         w == CHOOSE n \in {Len(word) : word \in words} : \A word \in words : Len(word) <= n
         sel == Sized(Lower(Top.on), w, FALSE)
         Pattern(e) == [i \in 1 .. w |-> LET b == Sized(Lower(e), w, FALSE)[i]
                                         IN  IF b \in DontCare(Top.kind) THEN None ELSE b]
         patterns == [i \in DOMAIN items |-> [k \in DOMAIN items[i].pats |-> Pattern(items[i].pats[k])]]
         groups == Groups(patterns, Top.parallel)
         arms == [i \in DOMAIN items |->
                    [ctrl |-> OrOf([k \in DOMAIN patterns[i] |-> PatternMatch(sel, patterns[i][k])]),
                     group |-> groups[i], body |-> items[i].body]]
         fullx == IF Top.full /\ Top.default = None
                  THEN FlattenSeq([i \in DOMAIN items |->
                         FlattenSeq([k \in DOMAIN LeftSides(items[i].body) |-> LvalueBits(LeftSides(items[i].body)[k])])])
                  ELSE <<>>
         all == UNION {Range(patterns[i]) : i \in DOMAIN patterns}
     IN  Then(<<Switch(arms, Top.default, fullx, Top.default = None /\ CoversAll(sel, all))>>)
  /\ UNCHANGED env

\* The next arm: left out where it is never taken, the default where it is
\* always taken when reached, and otherwise run in a frame of its own.
NextArm ==
  /\ Runs("switch") /\ Top.arms # <<>> /\ ~Top.running
  /\ LET arm == Head(Top.arms)
         always == arm.ctrl = One /\ Top.group # arm.group
     IN  CASE arm.ctrl = Zero -> Then(<<[Top EXCEPT !.arms = Tail(@)]>>) /\ UNCHANGED env
           [] always -> Then(<<[Top EXCEPT !.arms = <<>>, !.default = arm.body]>>) /\ UNCHANGED env
           [] OTHER -> /\ Then(<<arm.body, [Top EXCEPT !.running = TRUE, !.group = arm.group]>>)
                       /\ env' = Push(env)

ArmDone ==
  /\ Runs("switch") /\ Top.arms # <<>> /\ Top.running
  /\ LET arm == Head(Top.arms)
     IN  Then(<<[Top EXCEPT !.arms = Tail(@), !.running = FALSE,
                            !.taken = Append(@, [ctrl |-> arm.ctrl, group |-> arm.group, frame |-> Last(env.frames)])]>>)
  /\ env' = Pop(env)

\* The default, or x where `full_case` says there is none.
Default ==
  /\ Runs("switch") /\ Top.arms = <<>> /\ ~Top.running
  /\ LET WriteX(to, t) == WriteBits(to, t.slot, t.positions, Xs(Len(t.positions)), "=")
         merge == [Top EXCEPT !.op = "merge"]
     IN  /\ Then(IF Top.default = None THEN <<merge>> ELSE <<Top.default, merge>>)
         /\ env' = IF Top.default = None THEN FoldLeft(WriteX, Push(env), Top.fullx) ELSE Push(env)

\* Without a default, what a slot is where no arm is taken.
Untaken(slot, base, complete) ==
  CASE complete /\ slot[1] = "assigned" -> [i \in DOMAIN base |-> One]
    [] complete /\ slot[1] = "var" /\ program.mode = "comb" -> Xs(Len(base))
    [] OTHER -> base

\* What the arms and the default assigned is merged (switch_full).
MergeArms ==
  /\ Runs("merge")
  /\ LET frame == Last(env.frames)
         out == Pop(env)
         slots == DOMAIN frame \cup UNION {DOMAIN Top.taken[k].frame : k \in DOMAIN Top.taken}
         In(f, slot, other) == IF slot \in DOMAIN f THEN f[slot] ELSE other
         complete == Top.complete /\ Top.default = None
         Merged(slot) ==
           LET base == Current(out, slot)
               default == In(frame, slot, Untaken(slot, base, complete))
           IN  Merge(slot, [k \in DOMAIN Top.taken |->
                              [ctrl |-> Top.taken[k].ctrl, group |-> Top.taken[k].group,
                               word |-> In(Top.taken[k].frame, slot, base)]], default)
     IN  env' = IF Top.taken = <<>> THEN Absorb(out, frame) ELSE Absorb(out, [slot \in slots |-> Merged(slot)])
  /\ Then(<<>>)

\* Loops unroll: their conditions are constants.
For == Runs("for") /\ Then(<<Top.init, [Top EXCEPT !.op = "loop"]>>) /\ UNCHANGED env

\* In the end the loop variable is no register of the block any more.
Loop ==
  /\ Runs("loop")
  /\ LET c == Condition(Top.cond)
         v == Top.init.lhs.v
         final == Holding(env, Var(v)) # {} /\ AllConst(Current(env, Var(v)))
     IN  CASE c = One -> Then(<<Top.body, Top.step, Top>>) /\ UNCHANGED env
           [] c = Zero -> /\ Then(<<>>)
                          /\ env' = IF final THEN [env EXCEPT !.written = [u \in DOMAIN @ \ {v} |-> @[u]]] ELSE env
           [] OTHER -> Then(<<>>) /\ env' = Fail(env)

\* A task runs on locals of its own in a frame (call_task) ...
Call ==
  /\ Runs("call")
  /\ LET SetIn(to, arg) == Set(to, Local(arg.l), Sized(Lower(arg.e), program.locals[arg.l], FALSE))
     IN  env' = FoldLeft(SetIn, Push(env), Top.ins)
  /\ Then(<<Top.body, [op |-> "return", outs |-> Top.outs]>>)

\* ... and what it puts out is assigned with `=` after it.
Return ==
  /\ Runs("return")
  /\ env' = Absorb(Pop(env), Last(env.frames))
  /\ Then([k \in DOMAIN Top.outs |->
            [op |-> "set", how |-> "=", lhs |-> Top.outs[k].lhs, rhs |-> [op |-> "local", l |-> Top.outs[k].l]]])

Init ==
  /\ program \in Programs
  /\ work = <<program.body>>
  /\ env = [frames |-> << <<>> >>, kind |-> <<>>, written |-> <<>>, ports |-> <<>>, failed |-> FALSE]

Next ==
  \/ Block \/ Assign \/ If \/ Case \/ NextArm \/ ArmDone \/ Default \/ MergeArms
  \/ For \/ Loop \/ Call \/ Return

Spec == Init /\ [][Next]_procedure

-----------------------------------------------------------------------------
(***************************************************************************)
(* What Verilog says a block does (IEEE 1364-2005, 9): the statements of   *)
(* Procedure.tla run on values, one input at a time.  `=` is seen by what  *)
(* follows, `<=` is not; what is not assigned keeps its value.             *)
(***************************************************************************)

VarPlaces == UNION {{<<v, p>> : p \in 0 .. Width(program.vars[v]) - 1} : v \in DOMAIN program.vars}
MemPlaces ==
  UNION {{<<m, a, i>> : a \in program.mems[m].lo .. program.mems[m].lo + program.mems[m].words - 1,
                        i \in 0 .. program.mems[m].width - 1} :
         m \in {n \in DOMAIN program.mems : ~program.mems[n].regs}}

\* What the nets may be before the block runs.
Inputs ==
  IF program.mode = "initial"
    THEN {[at \in VarPlaces |-> program.inits[at[1]][at[2] + 1].v]}
    ELSE {in \in [VarPlaces \cup MemPlaces -> {"0", "1"}] :
            \A at \in VarPlaces : at[1] \in program.loops => in[at] = "0"}

\* Where a word of a memory is kept.
WordPlace(m, a, i) ==
  LET mem == program.mems[m] IN IF mem.regs THEN <<mem.vars[a - mem.lo + 1], i>> ELSE <<m, a, i>>

Number(word, signed) == IntOf([i \in DOMAIN word |-> Bit(word[i])], signed)
Known(word) == \A i \in DOMAIN word : word[i] \in {"0", "1"}
Inside(m, a) == a \in program.mems[m].lo .. program.mems[m].lo + program.mems[m].words - 1

RECURSIVE Eval(_, _)
Eval(e, now) ==
  LET a == Eval(e.a, now) IN
  CASE e.op = "const" -> [i \in DOMAIN e.bits |-> e.bits[i].v]
    [] e.op = "var" -> [i \in 1 .. Width(program.vars[e.v]) |-> now[<<e.v, i - 1>>]]
    [] e.op = "local" -> [i \in 1 .. program.locals[e.l] |-> now[<<"local", e.l, i - 1>>]]
    [] e.op = "not" -> [i \in DOMAIN a |-> IF a[i] = "0" THEN "1" ELSE IF a[i] = "1" THEN "0" ELSE "x"]
    [] e.op = "and" -> LET b == Eval(e.b, now)
                       IN  <<IF "0" \in {a[1], b[1]} THEN "0" ELSE IF "x" \in {a[1], b[1]} THEN "x" ELSE "1">>
    [] e.op = "next" -> [i \in DOMAIN a |-> FromInt(Number(a, FALSE) + 1, Len(a))[i].v]
    [] e.op = "below" -> <<IF Number(a, FALSE) < e.n THEN "1" ELSE "0">>
    [] e.op = "read" -> [i \in 1 .. program.mems[e.mem].width |->
                           IF Known(a) /\ Inside(e.mem, Number(a, FALSE))
                           THEN now[WordPlace(e.mem, Number(a, FALSE), i - 1)] ELSE "x"]

Long(word, width) == [i \in 1 .. width |-> IF i <= Len(word) THEN word[i] ELSE "0"]

\* The places a left side names, the lowest first; None is nowhere.
RECURSIVE Places(_, _)
Places(lhs, now) ==
  LET dim == program.vars[lhs.v]
      at == Eval(lhs.at, now)
      i == Number(at, lhs.signed)
      place(p) == IF p \in 0 .. Width(dim) - 1 THEN <<lhs.v, p>> ELSE None
      \* positions from one index to another
      between(j, k) == LET p == Pos(dim, j)
                           q == Pos(dim, k)
                           low == IF p < q THEN p ELSE q
                       IN  [n \in 1 .. (IF p < q THEN q - p ELSE p - q) + 1 |-> place(low + n - 1)]
  IN  CASE lhs.of = "var" -> [n \in 1 .. Width(dim) |-> place(n - 1)]
        [] lhs.of = "local" -> [n \in 1 .. program.locals[lhs.v] |-> <<"local", lhs.v, n - 1>>]
        [] lhs.of = "slice" -> between(lhs.l, lhs.m)
        [] lhs.of = "index" -> IF ~Known(at) THEN [n \in 1 .. lhs.width |-> None]
                               ELSE IF lhs.up THEN between(i, i + lhs.width - 1) ELSE between(i, i - lhs.width + 1)
        [] lhs.of = "mem" ->
             [n \in 1 .. lhs.width |-> IF Known(at) /\ Inside(lhs.v, Number(at, FALSE))
                                       THEN WordPlace(lhs.v, Number(at, FALSE), lhs.low + n - 1) ELSE None]
        [] lhs.of = "concat" ->
             FlattenSeq([k \in DOMAIN lhs.parts |-> Places(lhs.parts[Len(lhs.parts) + 1 - k], now)])

Stored(map, places, word) ==
  [at \in DOMAIN map |-> IF at \notin Range(places) THEN map[at]
                         ELSE word[CHOOSE k \in DOMAIN places : places[k] = at]]
PutAt(st, places, word, how) ==
  [now |-> IF how = "=" THEN Stored(st.now, places, word) ELSE st.now, later |-> Stored(st.later, places, word)]
PutWord(st, places, word, how) == PutAt(st, places, Long(word, Len(places)), how)
Put(st, lhs, word, how) == PutWord(st, Places(lhs, st.now), word, how)

Fits(sel, pat, kind) ==
  LET w == IF Len(sel) > Len(pat) THEN Len(sel) ELSE Len(pat)
  IN  \A i \in 1 .. w : Bit(Long(pat, w)[i]) \in DontCare(kind) \/ Long(sel, w)[i] = Long(pat, w)[i]
RECURSIVE Exec(_, _)
Exec(s, st) ==
  LET Hits(item) == \E k \in DOMAIN item.pats : Fits(Eval(s.on, st.now), Eval(item.pats[k], st.now), s.kind)
  IN  CASE s.op = "set" -> Put(st, s.lhs, Eval(s.rhs, st.now), s.how)
        [] s.op = "block" -> FoldLeft(LAMBDA u, t : Exec(t, u), st, s.stmts)
        [] s.op = "if" -> IF "1" \in Range(Eval(s.cond, st.now)) THEN Exec(s.then, st)
                          ELSE IF s.els = None THEN st ELSE Exec(s.els, st)
        [] s.op = "case" ->
             LET hit == {k \in DOMAIN s.items : Hits(s.items[k])}
                 \* what `full_case` leaves open
                 open == UNION {LhsMasks(l) : l \in Range(LeftSides(s))}
                 at == SetToSeq(UNION {{<<m[1], p>> : p \in m[2]} : m \in open})
                 xs == [k \in DOMAIN at |-> "x"]
             IN  IF hit # {} THEN Exec(s.items[CHOOSE k \in hit : \A j \in hit : k <= j].body, st)
                 ELSE IF s.default # None THEN Exec(s.default, st)
                 ELSE IF ~s.full THEN st
                 ELSE [now |-> Stored(st.now, at, xs), later |-> Stored(st.later, at, xs)]
        [] s.op = "for" -> Exec([s EXCEPT !.op = "loop"], Exec(s.init, st))
        [] s.op = "loop" -> IF Eval(s.cond, st.now) # <<"1">> THEN st ELSE Exec(s, Exec(s.step, Exec(s.body, st)))
        [] s.op = "call" ->
             LET SetIn(u, arg) == Put(u, [of |-> "local", v |-> arg.l], Eval(arg.e, st.now), "=")
                 SetOut(u, out) == Put(u, out.lhs, Eval([op |-> "local", l |-> out.l], u.now), "=")
             IN  FoldLeft(SetOut, Exec(s.body, FoldLeft(SetIn, st, s.ins)), s.outs)

LocalPlaces == UNION {{<<"local", l, i>> : i \in 0 .. program.locals[l] - 1} : l \in DOMAIN program.locals}
After(in) ==
  LET all == [at \in DOMAIN in \cup LocalPlaces |-> IF at \in DOMAIN in THEN in[at] ELSE "x"]
      st == Exec(program.body, [now |-> all, later |-> all])
  IN  st.later

-----------------------------------------------------------------------------
(* What the elaboration makes of it (comb_block, always, initial).         *)

\* A bit that may be not assigned is a latch.
Elaborated(v, i, in) ==
  LET value == ValueOf(Current(env, Var(v))[i], in)
      on == ValueOf(Current(env, Assigned(v))[i], in)
  IN  IF v \notin DOMAIN env.written \/ i - 1 \notin env.written[v] THEN in[<<v, i - 1>>]
      ELSE IF program.mode # "comb" \/ on = "1" THEN value
      ELSE IF on = "0" THEN in[<<v, i - 1>>] ELSE "x"

\* Port k wins over port j (finish_mem_writes).
Over(k, j) == env.ports[j].mem = env.ports[k].mem /\ j < k

\* A bit of a word of a memory after the clock edge: what the port gives
\* that wins over all others that write it.
Written(m, a, i, in) ==
  LET Writes(k) == /\ env.ports[k].mem = m
                   /\ ValueOf(Current(env, Hidden("en", k))[i + 1], in) = "1"
                   /\ Number(WordOf(Current(env, Hidden("addr", k)), in), FALSE) = a
      on == {k \in DOMAIN env.ports : Writes(k)}
      winner == {k \in on : \A j \in on \ {k} : Over(k, j)}
  IN  IF on = {} THEN in[<<m, a, i>>]
      ELSE IF winner = {} THEN "x" ELSE ValueOf(Current(env, Hidden("data", CHOOSE k \in winner : TRUE))[i + 1], in)

Meets(is, says) == says = "x" \/ is = says
Done == work = <<>> /\ ~env.failed

Leaves(in, after) ==
  /\ \A at \in VarPlaces : at[1] \notin program.loops => Meets(Elaborated(at[1], at[2] + 1, in), after[at])
  /\ program.mode # "initial" =>
       \A at \in MemPlaces : Meets(Written(at[1], at[2], at[3], in), after[at])
\* For every value the nets may have, the elaborated block leaves in every
\* variable and memory what running it does (elab/stmt.rs).
BlockSame == Done => \A in \in Inputs : Leaves(in, After(in))
=============================================================================
