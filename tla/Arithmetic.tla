----------------------------- MODULE Arithmetic -----------------------------
(***************************************************************************)
(* Arithmetic made of adders: division, sums and comparisons merged into   *)
(* one adder, sums of many operands, and operands made narrower.           *)
(***************************************************************************)
EXTENDS Integers, FiniteSets, SequencesExt, Words

-----------------------------------------------------------------------------
(***************************************************************************)
(* Division and modulo lowered to compares and subtractions                *)
(* (crates/chipsmith-synth/src/divmod.rs): a stage for each bit of the     *)
(* quotient, on the magnitudes; the signs are put back at the end.  A word *)
(* is the number its bits make.                                            *)
(***************************************************************************)

CONSTANTS None, Divisions   \* [op, signed, aw, bw, yw, a, b, const]

VARIABLES division, digit, q, rem, y

divmod == <<division, digit, q, rem, y>>

BiggerOf(m, n) == IF m > n THEN m ELSE n
Width == BiggerOf(BiggerOf(division.aw, division.bw), division.yw)
Top(v, w) == v \div 2^(w - 1)
DivLow(v, n) == v % 2^n
Neg(v) == (2^Width - v) % 2^Width

Widened(v, w) == IF division.signed /\ Top(v, w) = 1 THEN v + 2^Width - 2^w ELSE v
A == Widened(division.a, division.aw)
B == Widened(division.b, division.bw)
Negative(v) == division.signed /\ Top(v, Width) = 1
NegIf(v, s) == IF s THEN Neg(v) ELSE v
Au == NegIf(A, Negative(A))
Bu == NegIf(B, Negative(B))

\* A constant power of two is wiring; negated, it is a cell's output.
Wired == division.const /\ ~division.signed /\ \E k \in 0 .. Width - 1 : Bu = 2^k

DivInit ==
  /\ division \in Divisions /\ y = None
  /\ digit = IF Wired THEN Width ELSE 0
  /\ q = IF Wired THEN Au \div Bu ELSE 0
  /\ rem = IF Wired THEN Au % Bu ELSE Au

-----------------------------------------------------------------------------
\* The divisor goes into the top digit + 1 bits of the remainder.
DivFits(top) == top >= DivLow(Bu, digit + 1) /\ Bu \div 2^(digit + 1) = 0

Stage ==
  /\ digit < Width
  /\ LET k == Width - 1 - digit
         top == rem \div 2^k
         next == IF DivFits(top) THEN top - DivLow(Bu, digit + 1) ELSE top
     IN  /\ rem' = next * 2^k + DivLow(rem, k)
         /\ q' = IF DivFits(top) THEN q + 2^k ELSE q
  /\ digit' = digit + 1 /\ UNCHANGED <<division, y>>

Differ == Negative(A) # Negative(B)

FloorQuotient ==
  IF Differ THEN (IF rem = 0 THEN Neg(q) ELSE 2^Width - 1 - q) ELSE q

Truncated == NegIf(rem, Negative(A))

FloorRemainder ==
  IF Truncated # 0 /\ Differ THEN DivLow(B + Truncated, Width) ELSE Truncated

Signs ==
  /\ digit = Width /\ y = None
  /\ y' = DivLow(CASE division.op = "div" -> NegIf(q, Differ)
                [] division.op = "mod" -> Truncated
                [] division.op = "divfloor" -> FloorQuotient
                [] division.op = "modfloor" -> FloorRemainder, division.yw)
  /\ UNCHANGED <<division, digit, q, rem>>

DivNext == Stage \/ Signs

DivSpec == DivInit /\ [][DivNext]_divmod

-----------------------------------------------------------------------------
\* What a word means.
Meant(v) == IF Negative(v) THEN v - 2^Width ELSE v
Magnitude(n) == IF n < 0 THEN -n ELSE n
Sgn(n) == IF n < 0 THEN -1 ELSE 1

\* Verilog's quotient and remainder: towards zero, and towards minus infinity.
Quotient(m, n) == Sgn(m) * Sgn(n) * (Magnitude(m) \div Magnitude(n))
Floored(m, n) == LET t == Quotient(m, n) IN IF t * n # m /\ Sgn(m) # Sgn(n) THEN t - 1 ELSE t

Exactly ==
  LET m == Meant(A)
      n == Meant(B)
  IN  CASE division.op = "div" -> Quotient(m, n)
        [] division.op = "mod" -> m - Quotient(m, n) * n
        [] division.op = "divfloor" -> Floored(m, n)
        [] division.op = "modfloor" -> m - Floored(m, n) * n

\* The lowered division is the division, signed or not, of operands of any
\* widths, and by zero what yosys makes of it (lower_one).
Divides ==
  y # None =>
    IF B # 0 THEN y = DivLow(Exactly, division.yw)
    ELSE division.op \in {"div", "mod"} =>
      y = DivLow(IF division.op = "mod" THEN A ELSE IF Negative(A) THEN 1 ELSE 2^Width - 1,
              division.yw)

\* After each stage the quotient so far and what is left make up the dividend,
\* and what is left is less than the divisor where the quotient has got to.
PartialQuotient ==
  /\ Bu # 0 => Au = q * Bu + rem
  /\ Bu # 0 => rem < Bu * 2^(Width - digit)

-----------------------------------------------------------------------------
(***************************************************************************)
(* Comparisons onto `$alu` cells (crates/chipsmith-synth/src/alumacc.rs):  *)
(* a comparison reads the flags of a subtraction of the same operands,     *)
(* either way round, or of an earlier comparison, or gets a cell of its    *)
(* own.  The operands have values throughout.                              *)
(***************************************************************************)

CONSTANTS
  Modules,   \* [value: the operands' words, cells: a sequence of cells]
             \* a cell: [op, a, b: operands, signed, w: its result's width]
  SMALL_COMPARE

VARIABLES module, nodes, upcoming, answer

alumacc == <<module, nodes, upcoming, answer>>

Arithmetic == {"add", "sub"}
Value(o) == module.value[o]
WidestOf(c) == Wider(Len(Value(c.a)), Len(Value(c.b)))

-----------------------------------------------------------------------------
(* One `$alu` an addition or subtraction, where the cell is.               *)

Node(c, subtract, w) == [a |-> c.a, b |-> c.b, w |-> w, subtract |-> subtract, signed |-> c.signed]

SumCells == SelectSeq(module.cells, LAMBDA c : c.op \in Arithmetic)
Compares == SelectSeq(module.cells, LAMBDA c : c.op \notin Arithmetic)

\* A comparison with a constant of a few bits stays logic
\* (small_constant_compare).
StaysLogic(c) ==
  /\ WidestOf(c) <= SMALL_COMPARE
  /\ c.a \in module.constants \/ c.b \in module.constants

MaccInit ==
  /\ module \in Modules
  /\ nodes = [i \in DOMAIN SumCells |-> Node(SumCells[i], SumCells[i].op = "sub", SumCells[i].w)]
  /\ upcoming = 1
  /\ answer = [i \in DOMAIN Compares |-> None]

\* Whether a comparison can read this node (fits).
Fits(node, c) ==
  /\ node.subtract
  /\ WidestOf(c) <= node.w
  /\ \/ c.signed = node.signed
     \/ Len(Value(c.a)) = Len(Value(c.b)) /\ WidestOf(c) = node.w

MaccOf(node, a, b) == node.a = a /\ node.b = b
Fitting(c, a, b) == {i \in DOMAIN nodes : MaccOf(nodes[i], a, b) /\ Fits(nodes[i], c)}
Earliest(S) == CHOOSE i \in S : \A j \in S : i <= j

Cell(node) ==
  LET sub == IF node.subtract THEN 1 ELSE 0
  IN  Alu([sig |-> Value(node.a), signed |-> node.signed],
          [sig |-> Value(node.b), signed |-> node.signed], node.w, sub, sub)

Lt(node, c) ==
  IF c.signed /\ node.signed /\ node.w > WidestOf(c)
    THEN Cell(node).y[node.w]   \* extended past the operands: the sign itself
    ELSE LessOf(Cell(node), node.w, c.signed, 1)
Eq(node) == AllOf(Cell(node).x)

Read(node, c, swapped) ==
  LET less == (c.op \in {"lt", "le"}) # swapped
      strict == IF less THEN Lt(node, c) ELSE Flip(Wider(Lt(node, c), Eq(node)))
  IN  IF c.op \in {"le", "ge"} THEN Wider(strict, Eq(node)) ELSE strict

-----------------------------------------------------------------------------
Answer(i, node, swapped) == answer' = [answer EXCEPT ![i] = Read(node, Compares[i], swapped)]

Leave ==
  /\ upcoming \in DOMAIN Compares /\ StaysLogic(Compares[upcoming])
  /\ upcoming' = upcoming + 1 /\ UNCHANGED <<module, nodes, answer>>

Share ==
  LET c == Compares[upcoming]
      same == Fitting(c, c.a, c.b)
      swapped == Fitting(c, c.b, c.a)
  IN  /\ upcoming \in DOMAIN Compares /\ ~StaysLogic(c)
      /\ same \cup swapped # {}
      /\ Answer(upcoming, nodes[Earliest(IF same # {} THEN same ELSE swapped)], same = {})
      /\ upcoming' = upcoming + 1 /\ UNCHANGED <<module, nodes>>

Fresh ==
  LET c == Compares[upcoming]
      node == Node(c, TRUE, WidestOf(c))
  IN  /\ upcoming \in DOMAIN Compares /\ ~StaysLogic(c)
      /\ Fitting(c, c.a, c.b) \cup Fitting(c, c.b, c.a) = {}
      /\ nodes' = Append(nodes, node)
      /\ Answer(upcoming, node, FALSE)
      /\ upcoming' = upcoming + 1 /\ UNCHANGED module

MaccNext == Leave \/ Share \/ Fresh

MaccSpec == MaccInit /\ [][MaccNext]_alumacc

-----------------------------------------------------------------------------
Holds(c) ==
  LET a == Meaning(Value(c.a), c.signed)
      b == Meaning(Value(c.b), c.signed)
  IN  CASE c.op = "lt" -> a < b [] c.op = "le" -> a <= b
        [] c.op = "gt" -> a > b [] c.op = "ge" -> a >= b

\* Every comparison read off a shared subtraction is that comparison, of the
\* signs and widths it was written with.
ComparesRight ==
  \A i \in DOMAIN Compares : answer[i] # None => (answer[i] = 1) = Holds(Compares[i])

-----------------------------------------------------------------------------
(***************************************************************************)
(* A sum of three terms or more as a balanced tree of two-operand adders   *)
(* (crates/chipsmith-synth/src/alumacc.rs), paired as written or by when    *)
(* they are ready.  The terms have values throughout.                      *)
(***************************************************************************)

CONSTANTS
  Trees,     \* cells by number, the root first: [op, signed, w, a, b]
             \* an operand: [sig, cell: the sum it reads (0: none), alone,
             \* ready: its depth]
  Orders,    \* SumOrder: "AsWritten", "Arrival"
  SUM_LEVELS

VARIABLES tree, order, terms, done

sumtree == <<tree, order, terms, done>>

-----------------------------------------------------------------------------
(* What each operand reads.                                                *)

\* The inner sum goes into this one: all the operand's bits are its low bits,
\* as wide as this sum, and read nowhere else (inner).
Absorbed(cells, i, o) ==
  o.cell # 0 /\ o.alone /\ o.bits >= cells[i].w /\ cells[o.cell].w >= cells[i].w

Result(cells) ==
  LET value[i \in DOMAIN cells] ==
        LET c == cells[i]
            In(o) == IF o.cell = 0 THEN o.sig ELSE SubSeq(value[o.cell], 1, Less(o.bits, cells[o.cell].w))
            a == Number(Extend(In(c.a), c.w, c.signed))
            b == Number(Extend(In(c.b), c.w, c.signed))
        IN  Word(IF c.op = "sub" THEN a - b ELSE a + b, c.w)
  IN  value

Term(cells, i, o, negative) ==
  LET In == IF o.cell = 0 THEN o.sig ELSE SubSeq(Result(cells)[o.cell], 1, Less(o.bits, cells[o.cell].w))
  IN  [n |-> Number(Extend(In, cells[1].w, cells[i].signed)), negative |-> negative, ready |-> o.ready]

\* Wrong on purpose: what is taken away inside a subtraction stays taken away.
SignUnpropagated(neg, op) == op = "sub"

\* A term is negative under an odd number of subtractions.
SignOf(neg, op) == neg # (op = "sub")

\* The leaves of the root's tree: a sum's own terms, then its second
\* operand's, then its first's.
RECURSIVE Leaves(_, _, _)
Leaves(cells, i, neg) ==
  LET c == cells[i]
      signB == SignOf(neg, c.op)
      Own(o, sign) == IF Absorbed(cells, i, o) THEN <<>> ELSE <<Term(cells, i, o, sign)>>
      Inner(o, sign) == IF Absorbed(cells, i, o) THEN Leaves(cells, o.cell, sign) ELSE <<>>
  IN  Own(c.a, neg) \o Own(c.b, signB) \o Inner(c.b, signB) \o Inner(c.a, neg)

Mod == 2^tree[1].w

SumInit ==
  /\ tree \in Trees /\ order \in Orders
  /\ terms = Leaves(tree, 1, FALSE)
  /\ done = FALSE

-----------------------------------------------------------------------------
\* Two terms into one adder: a negative pair is added, and stays negative.
Joined(a, b) ==
  [n |-> (CASE a.negative = b.negative -> a.n + b.n
            [] b.negative -> a.n - b.n
            [] OTHER -> b.n - a.n) % Mod,
   negative |-> a.negative /\ b.negative,
   ready |-> Wider(a.ready, b.ready) + SUM_LEVELS]

Soonest(s) ==
  CHOOSE i \in DOMAIN s : \A j \in DOMAIN s : s[i].ready < s[j].ready \/ (s[i].ready = s[j].ready /\ i <= j)

\* By arrival, one adder at a time: the two ready first.
JoinSoonest ==
  /\ order = "Arrival" /\ Len(terms) >= 2 /\ ~done
  /\ LET first == Soonest(terms)
         rest == RemoveAt(terms, first)
         second == Soonest(rest)
     IN  terms' = Append(RemoveAt(rest, second), Joined(terms[first], rest[second]))
  /\ UNCHANGED <<tree, order, done>>

\* As written, a level at a time: pairs, and the odd one out.
JoinLevel ==
  /\ order = "AsWritten" /\ Len(terms) >= 2 /\ ~done
  /\ terms' = [i \in 1 .. (Len(terms) + 1) \div 2 |->
                 IF 2 * i <= Len(terms) THEN Joined(terms[2 * i - 1], terms[2 * i]) ELSE terms[2 * i - 1]]
  /\ UNCHANGED <<tree, order, done>>

\* A sum of nothing but subtracted terms is negated at the end.
Final == IF terms[1].negative THEN (-terms[1].n) % Mod ELSE terms[1].n

Finish ==
  /\ Len(terms) = 1 /\ ~done
  /\ done' = TRUE /\ terms' = <<[terms[1] EXCEPT !.n = Final, !.negative = FALSE]>>
  /\ UNCHANGED <<tree, order>>

SumNext == JoinSoonest \/ JoinLevel \/ Finish

SumSpec == SumInit /\ [][SumNext]_sumtree

-----------------------------------------------------------------------------
Whole ==
  LET sum[i \in 0 .. Len(terms)] ==
        IF i = 0 THEN 0 ELSE sum[i - 1] + (IF terms[i].negative THEN -1 ELSE 1) * terms[i].n
  IN  sum[Len(terms)] % Mod

\* At every step what is left adds up to the sum as written, at its width.
StillTheSum == Whole = Number(Result(tree)[1])

-----------------------------------------------------------------------------
(***************************************************************************)
(* Arithmetic no wider than it needs (crates/chipsmith-synth/src/          *)
(* wreduce.rs): results lose bits nobody reads, operands the bits their    *)
(* extension gives back, and a sum the bits that are an operand's, or zero. *)
(* A bit is 0, 1 or a net's number, 2 and up.                              *)
(***************************************************************************)

CONSTANTS Arith,   \* [op, opA, b: [sig, signed], w, read: the bits anybody reads]
          Nets

VARIABLES cell, left, opA, opB, wired, pc

\* left: the result's bits still computed; wired: what the others are now.
wreduce == <<cell, left, opA, opB, wired, pc>>

Sums == {"add", "sub"}

NarrowInit ==
  /\ cell \in Arith /\ pc = "unread"
  /\ left = [i \in 1 .. cell.w |-> i]
  /\ opA = cell.a /\ opB = cell.b
  /\ wired = [i \in {} |-> 0]

-----------------------------------------------------------------------------
\* Nobody reads the top of the result.
DropTop ==
  /\ pc = "unread" /\ cell.op # "lt" /\ Len(left) > 1 /\ left[Len(left)] \notin cell.read
  /\ left' = SubSeq(left, 1, Len(left) - 1)
  /\ UNCHANGED <<cell, opA, opB, wired, pc>>

\* Unless both operands are signed neither is.
Sided(o) == IF cell.op = "neg" THEN o ELSE [o EXCEPT !.signed = opA.signed /\ opB.signed]

\* The top bits the extension gives back (trim).
Trimmed(o) ==
  LET Gone(n) == IF o.signed THEN n >= Less(1, Len(o.sig)) /\ \A i \in n + 1 .. Len(o.sig) : o.sig[i] = o.sig[n]
                 ELSE \A i \in n + 1 .. Len(o.sig) : o.sig[i] = 0
      keep == CHOOSE n \in 0 .. Len(o.sig) : Gone(n) /\ \A m \in 0 .. n - 1 : ~Gone(m)
  IN  [o EXCEPT !.sig = SubSeq(@, 1, keep)]
\* A comparison keeps opA bit of each.
Kept(o) == IF cell.op = "lt" /\ o.sig = <<>> THEN [o EXCEPT !.sig = <<0>>] ELSE o

Trim ==
  /\ pc = "unread"
  /\ cell.op = "lt" \/ Len(left) <= 1 \/ left[Len(left)] \in cell.read
  /\ opA' = Kept(Trimmed(Sided(opA)))
  /\ opB' = Kept(Trimmed(Sided(opB)))
  /\ pc' = IF cell.op \in Sums THEN "low" ELSE "done"
  /\ UNCHANGED <<cell, left, wired>>

-----------------------------------------------------------------------------
(* The low bits where one operand is 0 make no carry: the other's bits.    *)

Low(o) == IF o.sig # <<>> THEN o.sig[1] ELSE IF o.signed THEN -1 ELSE 0

\* Less opA zero, or plus one; -1 when neither is.
Through ==
  IF Low(opB) = 0 THEN Low(opA) ELSE IF Low(opA) = 0 /\ cell.op = "add" THEN Low(opB) ELSE -1

Passes ==
  /\ left # <<>> /\ Through # -1
  /\ ~(opA.sig = <<>> /\ opA.signed) /\ ~(opB.sig = <<>> /\ opB.signed)
Above(o) == IF o.sig = <<>> THEN o ELSE [o EXCEPT !.sig = Tail(@)]

Wire(positions, bits) ==
  wired' = [i \in DOMAIN wired \cup positions |-> IF i \in positions THEN bits[i] ELSE wired[i]]

PassLow ==
  /\ pc = "low" /\ Passes
  /\ Wire({left[1]}, [i \in {left[1]} |-> Through])
  /\ left' = Tail(left)
  /\ opA' = Above(opA) /\ opB' = Above(opB)
  /\ UNCHANGED <<cell, pc>>

Zero(o) == \A i \in DOMAIN o.sig : o.sig[i] = 0

\* Plus nothing: the other operand.
PlusNothing ==
  /\ pc = "low" /\ ~Passes
  /\ Zero(opB) \/ (cell.op = "add" /\ Zero(opA))
  /\ LET other == IF Zero(opB) THEN opA ELSE opB
         bits == Extend(other.sig, Len(left), other.signed)
         positions == {left[i] : i \in DOMAIN left}
     IN  Wire(positions, [p \in positions |-> bits[CHOOSE i \in DOMAIN left : left[i] = p]])
  /\ left' = <<>> /\ pc' = "done"
  /\ UNCHANGED <<cell, opA, opB>>

\* Above the carry an unsigned sum of narrower operands is zero.
CarryTop == Wider(Len(opA.sig), Len(opB.sig)) + 1

Carry ==
  /\ pc = "low" /\ ~Passes
  /\ ~Zero(opB) /\ ~(cell.op = "add" /\ Zero(opA))
  /\ LET n == IF cell.op = "add" /\ ~opA.signed THEN Less(CarryTop, Len(left)) ELSE Len(left)
         above == {left[i] : i \in n + 1 .. Len(left)}
     IN  /\ Wire(above, [p \in above |-> 0])
         /\ left' = SubSeq(left, 1, n)
  /\ pc' = "done"
  /\ UNCHANGED <<cell, opA, opB>>

NarrowNext == DropTop \/ Trim \/ PassLow \/ PlusNothing \/ Carry

NarrowSpec == NarrowInit /\ [][NarrowNext]_wreduce

-----------------------------------------------------------------------------
Bit(env, bit) == IF bit \in {0, 1} THEN bit ELSE env[bit]
Of(env, o, signed) == Meaning([i \in DOMAIN o.sig |-> Bit(env, o.sig[i])], signed)

Computed(env, x, z, w) ==
  LET both == x.signed /\ z.signed
  IN  CASE cell.op = "add" -> Word(Of(env, x, both) + Of(env, z, both), w)
        [] cell.op = "sub" -> Word(Of(env, x, both) - Of(env, z, both), w)
        [] cell.op = "mul" -> Word(Of(env, x, both) * Of(env, z, both), w)
        [] cell.op = "neg" -> Word(-Of(env, x, x.signed), w)
        [] cell.op = "lt" -> Word(IF Of(env, x, both) < Of(env, z, both) THEN 1 ELSE 0, w)

\* An operand that has lost all its bits: above them the code has a zero, which
\* is its extension unless it was signed and the last of them was its sign
\* (wreduce.rs:95-110, :113-123).
AsRead(before, now) ==
  IF now.sig = <<>> THEN [before EXCEPT !.sig = Append(Trimmed(Sided(before)).sig, 0)] ELSE before

\* Every bit anybody reads is what it was, whatever the nets are, at every step,
\* with one exception: the low bits of a signed sum may take an operand's sign
\* with them, when the other has zeros beside all of it.  From there on the sum
\* is exactly that of the operand with a zero for its sign.
SameResult ==
  \A env \in [Nets -> {0, 1}] :
    LET was == Computed(env, AsRead(cell.a, opA), AsRead(cell.b, opB), cell.w)
        now == Computed(env, opA, opB, Len(left))
    IN  /\ \A i \in DOMAIN left : left[i] \in cell.read => now[i] = was[left[i]]
        /\ \A p \in DOMAIN wired : Bit(env, wired[p]) = was[p]
=============================================================================
