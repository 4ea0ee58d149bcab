----------------------------- MODULE Expression -----------------------------
(***************************************************************************)
(* The cells of RTLIL on constants (crates/chipsmith-verilog/src/fold.rs). *)
(* A word is a sequence of "0", "1" and "x", the low bit first; limbs of   *)
(* 64 bits are numbers here.                                               *)
(***************************************************************************)
EXTENDS Integers, Sequences, FiniteSets, SequencesExt, TLC

Defined(a) == "x" \notin Range(a)
All(v, width) == [i \in 1 .. width |-> v]

\* Extends, with the sign if it is signed, or truncates (extend).
Extend(a, width, signed) ==
  [i \in 1 .. width |->
     IF i <= Len(a) THEN a[i] ELSE IF signed /\ a # <<>> THEN a[Len(a)] ELSE "0"]

\* A word as a number, and a number modulo 2^width as a word (Word).
Number(a, signed) ==
  LET sum[i \in 0 .. Len(a)] == IF i = 0 THEN 0 ELSE sum[i - 1] + (IF a[i] = "1" THEN 2^(i - 1) ELSE 0)
  IN  sum[Len(a)] - (IF signed /\ a # <<>> /\ a[Len(a)] = "1" THEN 2^Len(a) ELSE 0)
Bits(n, width) == [i \in 1 .. width |-> IF (n \div 2^(i - 1)) % 2 = 1 THEN "1" ELSE "0"]

-----------------------------------------------------------------------------
(* One bit.                                                                *)

Not(p) == IF p = "0" THEN "1" ELSE IF p = "1" THEN "0" ELSE "x"
And(p, q) == IF "0" \in {p, q} THEN "0" ELSE IF "x" \in {p, q} THEN "x" ELSE "1"
Or(p, q) == Not(And(Not(p), Not(q)))

\* Wrong on purpose: an unknown bit is told from another.
XorBlind(p, q) == IF p = q THEN "0" ELSE "1"

Xor(p, q) == IF "x" \in {p, q} THEN "x" ELSE IF p = q THEN "0" ELSE "1"

\* Whether any bit is one.
Truth(a) == IF "1" \in Range(a) THEN "1" ELSE IF Defined(a) THEN "0" ELSE "x"

-----------------------------------------------------------------------------
(* Operators.                                                              *)

Reduced(op, a) ==
  CASE op = "reduce_and" -> FoldLeft(And, "1", a)
    [] op = "reduce_bool" -> Truth(a)
    [] op = "reduce_xor" -> FoldLeft(Xor, "0", a)
    [] op = "reduce_xnor" -> Not(FoldLeft(Xor, "0", a))
    [] op = "logic_not" -> Not(Truth(a))

Unary(op, a, signed, width) ==
  CASE op = "not" -> [i \in 1 .. width |-> Not(Extend(a, width, signed)[i])]
    [] op = "neg" -> IF Defined(a) THEN Bits(-Number(a, signed), width) ELSE All("x", width)
    [] OTHER -> Extend(<<Reduced(op, a)>>, width, FALSE)

BitPair(op, p, q) ==
  CASE op = "and" -> And(p, q) [] op = "or" -> Or(p, q)
    [] op = "xor" -> Xor(p, q) [] op = "xnor" -> Not(Xor(p, q))

Longer(a, b) == IF Len(a) > Len(b) THEN Len(a) ELSE Len(b)

\* One bit that differs decides, whatever is undefined beside it.
Same(op, a, b) ==
  CASE op \in {"eqx", "nex"} -> IF a = b THEN "1" ELSE "0"
    [] \E i \in DOMAIN a : {a[i], b[i]} = {"0", "1"} -> "0"
    [] OTHER -> IF Defined(a) /\ Defined(b) THEN "1" ELSE "x"
Equality(op, a, b, signed) ==
  LET w == Longer(a, b)
      same == Same(op, Extend(a, w, signed), Extend(b, w, signed))
  IN  IF op \in {"ne", "nex"} THEN Not(same) ELSE same

Order(op, a, b, signed) ==
  LET x == Number(a, signed)  y == Number(b, signed)
      holds == CASE op = "lt" -> x < y [] op = "le" -> x <= y [] op = "gt" -> x > y [] op = "ge" -> x >= y
  IN  IF ~(Defined(a) /\ Defined(b)) THEN "x" ELSE IF holds THEN "1" ELSE "0"

Arith(op, x, y) == CASE op = "add" -> x + y [] op = "sub" -> x - y [] op = "mul" -> x * y

Mag(n) == IF n < 0 THEN -n ELSE n
\* Towards zero; the remainder has the sign of the dividend.
Divide(op, x, y) ==
  LET q == Mag(x) \div Mag(y)  r == Mag(x) % Mag(y)
  IN  CASE op = "div" -> IF (x < 0) # (y < 0) THEN -q ELSE q
        [] op = "mod" -> IF x < 0 THEN -r ELSE r

\* By squaring modulo 2^width; a negative exponent leaves only 1 and -1.
Power(a, aSigned, b, bSigned, width) ==
  LET x == Number(a, aSigned)
      power[n \in 0 .. Number(b, FALSE)] == IF n = 0 THEN 1 ELSE (power[n - 1] * x) % 2^width
  IN  CASE ~(Defined(a) /\ Defined(b)) -> All("x", width)
        [] bSigned /\ Last(b) = "1" ->
             CASE x = 0 -> All("x", width)
               [] x = 1 -> Bits(1, width)
               [] x = -1 -> Bits(IF b[1] = "0" THEN 1 ELSE -1, width)
               [] OTHER -> Bits(0, width)
        [] OTHER -> Bits(power[Number(b, FALSE)], width)

Shifted(op, a, signed, n, width) ==
  LET arith == signed /\ op = "sshr"
      src == IF arith THEN a ELSE Extend(a, IF op = "shl" \/ Len(a) < width THEN width ELSE Len(a), signed)
      at(i) == IF op = "shl" THEN i - n ELSE i + n
  IN  [i \in 1 .. width |-> IF at(i) < 1 THEN "0"
                            ELSE IF at(i) <= Len(src) THEN src[at(i)]
                            ELSE IF arith THEN Last(src) ELSE "0"]

\* `$shiftx`: outside the word is undefined.
Picked(a, n, width) == [i \in 1 .. width |-> IF i + n \in DOMAIN a THEN a[i + n] ELSE "x"]

Binary(op, a, aSigned, b, bSigned, width) ==
  LET bit(v) == Extend(<<v>>, width, FALSE)
      both == aSigned /\ bSigned
  IN  CASE op \in {"and", "or", "xor", "xnor"} ->
             [i \in 1 .. width |-> BitPair(op, Extend(a, width, aSigned)[i], Extend(b, width, bSigned)[i])]
        [] op = "logic_and" -> bit(And(Truth(a), Truth(b)))
        [] op = "logic_or" -> bit(Or(Truth(a), Truth(b)))
        [] op \in {"eq", "ne", "eqx", "nex"} -> bit(Equality(op, a, b, both))
        [] op \in {"lt", "le", "gt", "ge"} -> bit(Order(op, a, b, both))
        [] op = "pow" -> Power(a, aSigned, b, bSigned, width)
        [] op \in {"shl", "shr", "sshr"} ->
             IF Defined(b) THEN Shifted(op, a, aSigned, Number(b, FALSE), width) ELSE All("x", width)
        [] op = "shiftx" -> IF Defined(b) THEN Picked(a, Number(b, bSigned), width) ELSE All("x", width)
        [] ~(Defined(a) /\ Defined(b)) -> All("x", width)
        [] op \in {"add", "sub", "mul"} -> Bits(Arith(op, Number(a, aSigned), Number(b, bSigned)), width)
        [] Number(b, bSigned) = 0 -> All("x", width)
        [] OTHER -> Bits(Divide(op, Number(a, aSigned), Number(b, bSigned)), width)

-----------------------------------------------------------------------------
(***************************************************************************)
(* Expressions of Verilog lowered to cells                                 *)
(* (crates/chipsmith-verilog/src/elab/expr.rs): the type an expression has *)
(* by itself, and its lowering in the context of a type.                   *)
(*                                                                         *)
(* A name is [msb, lsb, signed]; a function [ret, params, body], its body  *)
(* assigning the result from the parameters.  A lowered word is a sequence *)
(* of [v, fixed]: the value of a bit where the nets are as `nets` says,    *)
(* and whether it is a constant, which a cell of constants puts out again. *)
(* INTEGER_BITS is the width of an integer, 32 in the code.                *)
(***************************************************************************)

CONSTANTS Names, Funs, Expressions, INTEGER_BITS

VARIABLES expression, nets, made

lowering == <<expression, nets, made>>

Ty(width, signed) == [width |-> width, signed |-> signed]
Wider(p, q) == Ty(IF p.width > q.width THEN p.width ELSE q.width, p.signed /\ q.signed)
Bound(n) == IF n.msb > n.lsb THEN n.msb - n.lsb + 1 ELSE n.lsb - n.msb + 1
Upto(dim) == dim.msb < dim.lsb
Dim(width) == [msb |-> width - 1, lsb |-> 0]
PosUnchecked(dim, i) == IF Upto(dim) THEN dim.lsb - i ELSE i - dim.lsb

SameType == {"add", "sub", "mul", "div", "mod", "and", "or", "xor", "xnor"}
LeftType == {"pow", "shl", "shr", "ashr"}

-----------------------------------------------------------------------------
(* The type of an expression by itself.                                    *)

RECURSIVE SelfTy(_, _)
SelfTy(e, scope) ==
  LET widths == FoldLeft(LAMBDA sum, p : sum + SelfTy(p, scope).width, 0, e.parts)
  IN  CASE e.op = "num" -> Ty(Len(e.bits), e.signed)
        [] e.op = "name" -> Ty(Bound(scope[e.n]), scope[e.n].signed)
        [] e.op = "slice" -> Ty(IF e.m > e.l THEN e.m - e.l + 1 ELSE e.l - e.m + 1, FALSE)
        [] e.op = "part" -> Ty(e.width, FALSE)
        [] e.op = "un" /\ e.f \in {"pos", "neg", "not"} -> SelfTy(e.a, scope)
        [] e.op = "bin" /\ e.f \in SameType -> Wider(SelfTy(e.a, scope), SelfTy(e.b, scope))
        [] e.op = "bin" /\ e.f \in LeftType -> SelfTy(e.a, scope)
        [] e.op = "cond" -> Wider(SelfTy(e.a, scope), SelfTy(e.b, scope))
        [] e.op = "concat" -> Ty(widths, FALSE)
        [] e.op = "repeat" -> Ty(e.n * widths, FALSE)
        [] e.op = "sign" -> Ty(SelfTy(e.a, scope).width, e.signed)
        [] e.op \in {"clog2", "bits"} -> Ty(INTEGER_BITS, TRUE)
        [] e.op = "call" -> Funs[e.f].ret
        [] OTHER -> Ty(1, FALSE)   \* fill, index, reductions, comparisons, logic

-----------------------------------------------------------------------------
(* Words of nets and constants.                                            *)

Fixed(a) == [i \in DOMAIN a |-> [v |-> a[i], fixed |-> TRUE]]
IsFixed(w) == \A i \in DOMAIN w : w[i].fixed
Value(w) == [i \in DOMAIN w |-> w[i].v]
X == [v |-> "x", fixed |-> TRUE]

\* What a cell puts out: a constant if all it reads are (unary, binary).
Cell(a, words) == [i \in DOMAIN a |-> [v |-> a[i], fixed |-> \A k \in DOMAIN words : IsFixed(words[k])]]
UnaryCell(op, a, signed, width) == Cell(Unary(op, Value(a), signed, width), <<a>>)
BinaryCell(op, a, aSigned, b, bSigned, width) ==
  Cell(Binary(op, Value(a), aSigned, Value(b), bSigned, width), <<a, b>>)

\* A value in a context, which says whether its sign is extended.
Into(w, ctx) ==
  [i \in 1 .. ctx.width |->
     IF i <= Len(w) THEN w[i] ELSE IF ctx.signed THEN w[Len(w)] ELSE [v |-> "0", fixed |-> TRUE]]

\* s ? b : a with both sides fixed or not (mux).
MuxCell(s, a, b) ==
  CASE a = b -> a
    [] s.v = "1" -> IF s.fixed THEN b ELSE [i \in DOMAIN b |-> [v |-> b[i].v, fixed |-> FALSE]]
    [] s.v = "0" -> IF s.fixed THEN a ELSE [i \in DOMAIN a |-> [v |-> a[i].v, fixed |-> FALSE]]
    [] OTHER -> [i \in DOMAIN a |-> [v |-> IF a[i].v = b[i].v THEN a[i].v ELSE "x",
                                      fixed |-> s.fixed /\ IsFixed(a) /\ IsFixed(b)]]

BitLen(n) == CHOOSE k \in 0 .. 30 : 2^k > Mag(n) /\ (k = 0 \/ 2^(k - 1) <= Mag(n))

\* The position of index idx + delta, as a word and its sign (position).
Position(idx, t, dim, delta) ==
  LET k == IF Upto(dim) THEN dim.lsb - delta ELSE delta - dim.lsb
      w == (IF t.width > BitLen(k) + 1 THEN t.width ELSE BitLen(k) + 1) + 1
      a == Into(idx, Ty(w, t.signed))
      kc == Fixed(Bits(k, w))
  IN  CASE ~Upto(dim) /\ k = 0 -> [at |-> idx, signed |-> t.signed]
        [] Upto(dim) -> [at |-> BinaryCell("sub", kc, TRUE, a, TRUE, w), signed |-> TRUE]
        [] OTHER -> [at |-> BinaryCell("add", a, TRUE, kc, TRUE, w), signed |-> TRUE]

Bit(bits, p) == IF p + 1 \in DOMAIN bits THEN bits[p + 1] ELSE X

\* v[i], the index fixed or not (bit_select).
BitSelect(bits, dim, idx, t) ==
  LET p == Position(idx, t, dim, 0)
  IN  IF IsFixed(idx)
      THEN <<IF Defined(Value(idx)) THEN Bit(bits, PosUnchecked(dim, Number(Value(idx), t.signed))) ELSE X>>
      ELSE BinaryCell("shiftx", bits, FALSE, p.at, p.signed, 1)

\* How far the index of the low bit is from the index that is written.
LowDelta(dim, width, up) ==
  (IF up THEN 0 ELSE 1 - width) + (IF Upto(dim) THEN width - 1 ELSE 0)

\* v[i +: width] and v[i -: width] (indexed_select).
IndexedSelect(bits, dim, idx, t, width, up) ==
  LET delta == LowDelta(dim, width, up)
      p == Position(idx, t, dim, delta)
      from == PosUnchecked(dim, Number(Value(idx), t.signed) + delta)
  IN  CASE ~IsFixed(idx) -> BinaryCell("shiftx", bits, FALSE, p.at, p.signed, width)
        [] ~Defined(Value(idx)) -> [i \in 1 .. width |-> X]
        [] OTHER -> [i \in 1 .. width |-> Bit(bits, from + i - 1)]

\* v[m:l] (const_part).
ConstPart(bits, dim, m, l) ==
  LET p == PosUnchecked(dim, l)  q == PosUnchecked(dim, m)
      low == IF p < q THEN p ELSE q
  IN  [i \in 1 .. Mag(p - q) + 1 |-> Bit(bits, low + i - 1)]

Reductions == [rand |-> "reduce_and", rnand |-> "reduce_and", ror |-> "reduce_bool", rnor |-> "reduce_bool",
               rxor |-> "reduce_xor", rxnor |-> "reduce_xnor", lnot |-> "logic_not"]

\* Bits of v - 1: the ceiling of the logarithm.
Clog2(a) ==
  LET top == CHOOSE n \in 1 .. Len(a) : a[n] = "1" /\ \A k \in n + 1 .. Len(a) : a[k] = "0"
  IN  IF "1" \notin Range(a) THEN 0
      ELSE IF \A k \in 1 .. top - 1 : a[k] = "0" THEN top - 1 ELSE top

-----------------------------------------------------------------------------
(* An expression in a context: exactly the width of the context.           *)

RECURSIVE Lower(_, _, _)
LowerSelf(e, scope) == Lower(e, SelfTy(e, scope), scope)
LowerBool(e, scope) == LET a == LowerSelf(e, scope) IN IF Len(a) = 1 THEN a[1] ELSE UnaryCell("reduce_bool", a, FALSE, 1)[1]

\* Operands of a comparison are sized to each other, signed only if both are.
Comparison(e, scope) ==
  LET t == Wider(SelfTy(e.a, scope), SelfTy(e.b, scope))
  IN  BinaryCell(e.f, Lower(e.a, t, scope), t.signed, Lower(e.b, t, scope), t.signed, 1)

\* A fixed left side may decide, and the right is not even looked at.
Logic(e, scope) ==
  LET a == LowerSelf(e.a, scope)
      decides == IsFixed(a) /\ Truth(Value(a)) = IF e.f = "logic_and" THEN "0" ELSE "1"
  IN  IF decides THEN Fixed(<<Truth(Value(a))>>)
      ELSE BinaryCell(e.f, a, SelfTy(e.a, scope).signed, LowerSelf(e.b, scope), SelfTy(e.b, scope).signed, 1)

\* The amount of a shift stands by itself and is unsigned.
Shift(e, ctx, scope) ==
  BinaryCell(CASE e.f = "shl" -> "shl" [] e.f = "ashr" /\ ctx.signed -> "sshr" [] OTHER -> "shr",
             Lower(e.a, ctx, scope), ctx.signed, LowerSelf(e.b, scope), FALSE, ctx.width)

LowerBinary(e, ctx, scope) ==
  CASE e.f \in SameType ->
         BinaryCell(e.f, Lower(e.a, ctx, scope), ctx.signed, Lower(e.b, ctx, scope), ctx.signed, ctx.width)
    [] e.f = "pow" ->
         BinaryCell("pow", Lower(e.a, ctx, scope), ctx.signed,
                    LowerSelf(e.b, scope), SelfTy(e.b, scope).signed, ctx.width)
    [] e.f \in LeftType \ {"pow"} -> Shift(e, ctx, scope)
    [] e.f \in {"logic_and", "logic_or"} -> Into(Logic(e, scope), ctx)
    [] OTHER -> Into(Comparison(e, scope), ctx)

\* A value assigned to a type: evaluated in the wider of the two, by its own
\* sign, and cut.
Assigned(e, t, scope) ==
  LET own == SelfTy(e, scope)
      ctx == Ty(IF t.width > own.width THEN t.width ELSE own.width, own.signed)
  IN  SubSeq(Lower(e, ctx, scope), 1, t.width)

\* A function: its parameters, evaluated where it is called, are its scope.
Called(f, args, scope) ==
  LET param(k) == f.params[k] @@ [word |-> Assigned(args[k], Ty(Bound(f.params[k]), FALSE), scope)]
  IN  Assigned(f.body, f.ret, [p \in {f.params[k].n : k \in DOMAIN args} |->
                                 param(CHOOSE k \in DOMAIN args : f.params[k].n = p)])

Lower(e, ctx, scope) ==
  CASE e.op = "num" ->
         IF ~e.sized /\ Last(e.bits) = "x" THEN Fixed(Extend(e.bits, ctx.width, TRUE)) ELSE Into(Fixed(e.bits), ctx)
    [] e.op = "fill" -> Fixed(All(e.v, ctx.width))
    [] e.op = "name" -> Into(scope[e.n].word, ctx)
    [] e.op = "index" -> Into(BitSelect(scope[e.n].word, scope[e.n], LowerSelf(e.at, scope), SelfTy(e.at, scope)), ctx)
    [] e.op = "slice" -> Into(ConstPart(scope[e.n].word, scope[e.n], e.m, e.l), ctx)
    [] e.op = "part" ->
         Into(IndexedSelect(scope[e.n].word, scope[e.n], LowerSelf(e.at, scope), SelfTy(e.at, scope), e.width, e.up),
              ctx)
    [] e.op = "un" /\ e.f = "pos" -> Lower(e.a, ctx, scope)
    [] e.op = "un" /\ e.f \in {"neg", "not"} -> UnaryCell(e.f, Lower(e.a, ctx, scope), ctx.signed, ctx.width)
    [] e.op = "un" ->
         LET r == UnaryCell(Reductions[e.f], LowerSelf(e.a, scope), SelfTy(e.a, scope).signed, 1)
         IN  Into(IF e.f \in {"rnand", "rnor"} THEN UnaryCell("not", r, FALSE, 1) ELSE r, ctx)
    [] e.op = "bin" -> LowerBinary(e, ctx, scope)
    [] e.op = "cond" ->
         LET c == LowerBool(e.c, scope)
         IN  CASE c = [v |-> "1", fixed |-> TRUE] -> Lower(e.a, ctx, scope)
               [] c = [v |-> "0", fixed |-> TRUE] -> Lower(e.b, ctx, scope)
               [] OTHER -> MuxCell(c, Lower(e.b, ctx, scope), Lower(e.a, ctx, scope))
    [] e.op \in {"concat", "repeat"} ->
         LET one == FlattenSeq([k \in DOMAIN e.parts |-> LowerSelf(e.parts[Len(e.parts) + 1 - k], scope)])
         IN  Into(IF e.op = "concat" THEN one ELSE FlattenSeq([k \in 1 .. e.n |-> one]), ctx)
    [] e.op = "sign" -> Into(LowerSelf(e.a, scope), ctx)
    [] e.op = "clog2" -> Into(Fixed(Bits(Clog2(Value(LowerSelf(e.a, scope))), INTEGER_BITS)), ctx)
    [] e.op = "bits" -> Into(Fixed(Bits(SelfTy(e.a, scope).width, INTEGER_BITS)), ctx)
    [] e.op = "call" -> Into(Called(Funs[e.f], e.args, scope), ctx)

-----------------------------------------------------------------------------
(* The nets take values one bit at a time; a right side is evaluated for a *)
(* left side that is as wide as `to`.                                      *)

Scope(in) == [n \in DOMAIN Names |->
                [msb |-> Names[n].msb, lsb |-> Names[n].lsb, signed |-> Names[n].signed,
                 word |-> [i \in 1 .. Bound(Names[n]) |-> [v |-> in[n][i], fixed |-> FALSE]]]]
Result(in) == Value(Assigned(expression.e, Ty(expression.to, FALSE), Scope(in)))

Unknown == [n \in DOMAIN Names |-> All("x", Bound(Names[n]))]

Init ==
  /\ expression \in Expressions
  /\ nets = Unknown
  /\ made = Result(Unknown)

\* The first net that is not known yet.
Net == CHOOSE p \in {<<n, i>> \in (DOMAIN Names) \X (1 .. 9) : i <= Bound(Names[n]) /\ nets[n][i] = "x"} : TRUE

Learn ==
  /\ \E n \in DOMAIN Names : ~Defined(nets[n])
  /\ \E v \in {"0", "1"} :
       nets' = [nets EXCEPT ![Net[1]][Net[2]] = v]
  /\ made' = Result(nets')
  /\ UNCHANGED expression

Next == Learn

Spec == Init /\ [][Next]_lowering

-----------------------------------------------------------------------------
(* The standard on numbers: a width and a sign for the operands of a       *)
(* context, and the number an expression is modulo 2^width.  -1 stands for *)
(* no number: a division by zero, a select that leaves its vector.         *)

NoNumber == -1
Signs(n, width) == IF n >= 2^(width - 1) THEN n - 2^width ELSE n

RECURSIVE WidthOf(_, _), SignedExpr(_, _)
WidthOf(e, in) ==
  CASE e.op = "num" -> Len(e.bits)
    [] e.op = "name" -> Bound(in[e.n])
    [] e.op = "slice" -> Mag(e.m - e.l) + 1
    [] e.op = "part" -> e.width
    [] e.op = "un" -> IF e.f \in {"pos", "neg", "not"} THEN WidthOf(e.a, in) ELSE 1
    [] e.op = "bin" /\ e.f \in LeftType -> WidthOf(e.a, in)
    [] e.op = "cond" \/ (e.op = "bin" /\ e.f \in SameType) ->
         IF WidthOf(e.a, in) > WidthOf(e.b, in) THEN WidthOf(e.a, in) ELSE WidthOf(e.b, in)
    [] e.op \in {"concat", "repeat"} ->
         (IF e.op = "repeat" THEN e.n ELSE 1) * FoldLeft(LAMBDA sum, p : sum + WidthOf(p, in), 0, e.parts)
    [] e.op = "sign" -> WidthOf(e.a, in)
    [] e.op \in {"clog2", "bits"} -> INTEGER_BITS
    [] e.op = "call" -> Funs[e.f].ret.width
    [] OTHER -> 1
SignedExpr(e, in) ==
  CASE e.op \in {"num", "sign"} -> e.signed
    [] e.op = "name" -> in[e.n].signed
    [] (e.op = "un" /\ e.f \in {"pos", "neg", "not"}) \/ (e.op = "bin" /\ e.f \in LeftType) -> SignedExpr(e.a, in)
    [] e.op = "cond" \/ (e.op = "bin" /\ e.f \in SameType) -> SignedExpr(e.a, in) /\ SignedExpr(e.b, in)
    [] e.op \in {"clog2", "bits"} -> TRUE
    [] e.op = "call" -> Funs[e.f].ret.signed
    [] OTHER -> FALSE

Holds(p) == IF p THEN 1 ELSE 0

\* Where index i of a vector is, counted from its low end.
Place(n, i, in) == IF in[n].msb >= in[n].lsb THEN i - in[n].lsb ELSE in[n].lsb - i
Raw(n, in) == Number(in[n].bits, FALSE)
BitAt(n, i, in) == IF Place(n, i, in) \in 0 .. Bound(in[n]) - 1 THEN (Raw(n, in) \div 2^Place(n, i, in)) % 2 ELSE NoNumber
\* The indices of a select, the low bit of the result first.
Indices(n, set, in) == SetToSortSeq(set, LAMBDA i, j : Place(n, i, in) < Place(n, j, in))
BitsAt(n, set, in) ==
  LET bit == [k \in 1 .. Cardinality(set) |-> BitAt(n, Indices(n, set, in)[k], in)]
      sum[k \in 0 .. Cardinality(set)] == IF k = 0 THEN 0 ELSE sum[k - 1] + bit[k] * 2^(k - 1)
  IN  IF NoNumber \in Range(bit) THEN NoNumber ELSE sum[Cardinality(set)]

RECURSIVE Means(_, _, _, _)
Own(e, in) == Means(e, WidthOf(e, in), SignedExpr(e, in), in)
Signed(e, in) == IF SignedExpr(e, in) THEN Signs(Own(e, in), WidthOf(e, in)) ELSE Own(e, in)
\* A value of a width of its own in a context.
Put(n, width, W, S) == (IF S THEN Signs(n, width) ELSE n) % 2^W

Digitwise(f, p, q, W) ==
  Number([i \in 1 .. W |-> BitPair(f, Bits(p, W)[i], Bits(q, W)[i])], FALSE)

\* Of two operands of the context, as numbers of its sign.
OfTwo(f, p, q, W, S) ==
  LET l == IF S THEN Signs(p, W) ELSE p
      r == IF S THEN Signs(q, W) ELSE q
  IN  CASE NoNumber \in {p, q} -> NoNumber
        [] f = "add" -> (l + r) % 2^W [] f = "sub" -> (l - r) % 2^W [] f = "mul" -> (l * r) % 2^W
        [] f \in {"div", "mod"} -> IF r = 0 THEN NoNumber ELSE Divide(f, l, r) % 2^W
        [] OTHER -> Digitwise(f, p, q, W)
Compares(f, l, r) ==
  CASE f = "lt" -> l < r [] f = "le" -> l <= r [] f = "gt" -> l > r [] f = "ge" -> l >= r
    [] f \in {"eq", "eqx"} -> l = r [] f \in {"ne", "nex"} -> l # r
Bool(e, in) == Own(e, in) # 0

Means(e, W, S, in) ==
  LET of(a) == Means(a, W, S, in)
      put(n) == IF n = NoNumber THEN NoNumber ELSE Put(n, WidthOf(e, in), W, S)
      w == IF WidthOf(e.a, in) > WidthOf(e.b, in) THEN WidthOf(e.a, in) ELSE WidthOf(e.b, in)
      s == SignedExpr(e.a, in) /\ SignedExpr(e.b, in)
      side(a) == IF s THEN Signs(Means(a, w, s, in), w) ELSE Means(a, w, s, in)
      ones == Cardinality({i \in 1 .. WidthOf(e.a, in) : (Own(e.a, in) \div 2^(i - 1)) % 2 = 1})
      part == LET i == Signed(e.at, in) IN BitsAt(e.n, IF e.up THEN i .. i + e.width - 1 ELSE i - e.width + 1 .. i, in)
      glue[k \in 0 .. Len(e.parts)] ==
        IF k = 0 THEN 0 ELSE glue[k - 1] * 2^WidthOf(e.parts[k], in) + Own(e.parts[k], in)
  IN  CASE e.op = "num" -> IF Defined(e.bits) THEN put(Number(e.bits, FALSE)) ELSE NoNumber
        [] e.op = "fill" -> IF e.v = "0" THEN 0 ELSE IF e.v = "1" THEN 2^W - 1 ELSE NoNumber
        [] e.op = "name" -> put(Raw(e.n, in))
        [] e.op = "index" -> put(BitAt(e.n, Signed(e.at, in), in))
        [] e.op = "slice" -> put(BitsAt(e.n, (e.m .. e.l) \cup (e.l .. e.m), in))
        [] e.op = "part" -> put(part)
        [] e.op = "un" /\ e.f = "pos" -> of(e.a)
        [] e.op = "un" /\ e.f = "neg" -> (-of(e.a)) % 2^W
        [] e.op = "un" /\ e.f = "not" -> 2^W - 1 - of(e.a)
        [] e.op = "un" ->
             Holds(CASE e.f = "rand" -> ones = WidthOf(e.a, in) [] e.f = "rnand" -> ones # WidthOf(e.a, in)
                     [] e.f = "ror" -> ones > 0 [] e.f \in {"rnor", "lnot"} -> ones = 0
                     [] e.f = "rxor" -> ones % 2 = 1 [] e.f = "rxnor" -> ones % 2 = 0)
        [] e.op = "bin" /\ e.f \in SameType -> OfTwo(e.f, of(e.a), of(e.b), W, S)
        [] e.op = "bin" /\ e.f = "pow" ->
             LET x == IF S THEN Signs(of(e.a), W) ELSE of(e.a)
                 n == Signed(e.b, in)
             IN  IF n = 0 THEN 1 % 2^W ELSE IF n > 0 THEN (x^n) % 2^W
                 ELSE CASE x = 0 -> NoNumber [] x = 1 -> 1
                        [] x = -1 -> (IF n % 2 = 0 THEN 1 ELSE -1) % 2^W [] OTHER -> 0
        [] e.op = "bin" /\ e.f = "shl" -> (of(e.a) * 2^Own(e.b, in)) % 2^W
        [] e.op = "bin" /\ e.f \in LeftType ->
             ((IF e.f = "ashr" /\ S THEN Signs(of(e.a), W) ELSE of(e.a)) \div 2^Own(e.b, in)) % 2^W
        [] e.op = "bin" /\ e.f = "logic_and" -> Holds(Bool(e.a, in) /\ Bool(e.b, in))
        [] e.op = "bin" /\ e.f = "logic_or" -> Holds(Bool(e.a, in) \/ Bool(e.b, in))
        [] e.op = "bin" -> Holds(Compares(e.f, side(e.a), side(e.b)))
        [] e.op = "cond" -> IF Bool(e.c, in) THEN of(e.a) ELSE of(e.b)
        [] e.op = "concat" -> put(glue[Len(e.parts)])
        [] e.op = "repeat" ->
             put(LET n == FoldLeft(LAMBDA sum, p : sum + WidthOf(p, in), 0, e.parts)
                     times[k \in 0 .. e.n] == IF k = 0 THEN 0 ELSE times[k - 1] * 2^n + glue[Len(e.parts)]
                 IN  times[e.n])
        [] e.op = "sign" -> put(Own(e.a, in))
        [] e.op = "clog2" -> CHOOSE k \in 0 .. 9 : 2^k >= Own(e.a, in) /\ (k = 0 \/ 2^(k - 1) < Own(e.a, in))
        [] e.op = "bits" -> WidthOf(e.a, in)
        [] e.op = "call" -> put(LET f == Funs[e.f]
                     arg(k) == LET W2 == IF Bound(f.params[k]) > WidthOf(e.args[k], in) THEN Bound(f.params[k])
                                         ELSE WidthOf(e.args[k], in)
                               IN  Means(e.args[k], W2, SignedExpr(e.args[k], in), in)
                     inner == [p \in {f.params[k].n : k \in DOMAIN e.args} |->
                                 LET k == CHOOSE k \in DOMAIN e.args : f.params[k].n = p
                                 IN  f.params[k] @@ [bits |-> Bits(arg(k), Bound(f.params[k]))]]
                     W3 == IF f.ret.width > WidthOf(f.body, inner) THEN f.ret.width ELSE WidthOf(f.body, inner)
                 IN  Means(f.body, W3, SignedExpr(f.body, inner), inner) % 2^f.ret.width)

\* What is assigned to a left side of `to` bits.
Standard(in) ==
  LET e == expression.e
      scope == [n \in DOMAIN Names |-> Names[n] @@ [bits |-> in[n]]]
      W == IF expression.to > WidthOf(e, scope) THEN expression.to ELSE WidthOf(e, scope)
      n == Means(e, W, SignedExpr(e, scope), scope)
  IN  IF n = NoNumber THEN NoNumber ELSE n % 2^expression.to

\* Where every net is known an expression has the value the standard gives
\* it (IEEE 1364-2005, 5.4 and 5.5, which elab/expr.rs names as its rule):
\* widths and signs of operands come from the whole expression.
ByTheStandard ==
  (\A n \in DOMAIN Names : Defined(nets[n])) =>
    LET n == Standard(nets) IN n # NoNumber => made = Bits(n, expression.to)

\* A bit that is known stays what it is as more of the nets are: an
\* undefined operand never makes a guess (the x rules of fold.rs).  `===`
\* compares x itself.
KnownStays ==
  ~expression.exact => \A i \in DOMAIN made : made[i] # "x" => made'[i] = made[i]
KnownStaysKnown == [][KnownStays]_lowering
=============================================================================
