------------------------------- MODULE Words -------------------------------
(***************************************************************************)
(* Words of bits, least significant first, as the netlist's passes build   *)
(* them (crates/chipsmith-synth/src/techmap.rs).  A bit is 0 or 1; a pass  *)
(* that only moves bits about may give it anything.                        *)
(***************************************************************************)
EXTENDS Integers, Sequences

Wider(m, n) == IF m > n THEN m ELSE n
Less(m, n) == IF m < n THEN m ELSE n

\* `sig` extended or truncated to a width (extend).
Extend(sig, width, signed) ==
  [i \in 1 .. width |->
     IF i <= Len(sig) THEN sig[i]
     ELSE IF signed /\ sig # <<>> THEN sig[Len(sig)] ELSE 0]

\* The number a word makes, and the signed one.
Number(word) ==
  LET sum[i \in 0 .. Len(word)] == IF i = 0 THEN 0 ELSE sum[i - 1] + word[i] * 2^(i - 1)
  IN  sum[Len(word)]
Meaning(word, signed) ==
  IF signed /\ word # <<>> /\ word[Len(word)] = 1 THEN Number(word) - 2^Len(word) ELSE Number(word)
Word(n, width) == [i \in 1 .. width |-> (n \div 2^(i - 1)) % 2]

Flip(bit) == 1 - bit
Parity(a, b) == (a + b) % 2
AnyOf(word) == IF \E i \in DOMAIN word : word[i] = 1 THEN 1 ELSE 0
AllOf(word) == IF \A i \in DOMAIN word : word[i] = 1 THEN 1 ELSE 0

\* A ripple-carry adder: half sums, sums and carries out (ripple).
Ripple(a, b, ci) ==
  LET carry[i \in 0 .. Len(a)] ==
        IF i = 0 THEN ci ELSE IF a[i] + b[i] + carry[i - 1] >= 2 THEN 1 ELSE 0
  IN  [x |-> [i \in DOMAIN a |-> Parity(a[i], b[i])],
       y |-> [i \in DOMAIN a |-> Parity(Parity(a[i], b[i]), carry[i - 1])],
       co |-> [i \in DOMAIN a |-> carry[i]]]

\* `$alu`: A + (BI ? ~B : B) + CI (alu; netlist `Alu`).
Alu(a, b, w, ci, bi) ==
  LET wide == Extend(b.sig, w, b.signed)
  IN  Ripple(Extend(a.sig, w, a.signed), [i \in 1 .. w |-> Parity(wide[i], bi)], ci)

\* Less than, read off A - B: no carry out, or overflow against the sign.
LessOf(alu, w, signed, ci) ==
  IF signed
    THEN Parity(Parity(alu.co[w], IF w >= 2 THEN alu.co[w - 1] ELSE ci), alu.y[w])
    ELSE Flip(alu.co[w])
=============================================================================
