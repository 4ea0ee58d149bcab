-------------------------- MODULE SvfPlayerProofs ---------------------------
(***************************************************************************)
(* Where the SVF player has the TAP, for every SVF, and what the SVF that  *)
(* configures an EP2C35 leaves behind.                                     *)
(***************************************************************************)
EXTENDS SvfPlayer, TLAPS, WellFoundedInduction, SequenceTheorems, FiniteSetTheorems

LEMMA UpTo ==
  ASSUME NEW n \in Nat, NEW G, 0 \in G, \A m \in Nat : m < n /\ m \in G => m + 1 \in G
  PROVE  \A m \in 0 .. n : m \in G
<1> DEFINE R == {x \in Nat \X Nat : x[1] < x[2]}
           B == {m \in 0 .. n : m \notin G}
<1>1. IsWellFoundedOn(R, Nat)
  BY NatLessThanWellFounded DEF OpToRel
<1>2. \A x, y \in Nat : y < x <=> <<y, x>> \in R
  OBVIOUS
<1>3. B \subseteq Nat
  OBVIOUS
<1> SUFFICES B = {}
  OBVIOUS
<1> SUFFICES ASSUME B # {} PROVE FALSE
  OBVIOUS
<1>4. PICK m \in B : \A k \in B : ~ (<<k, m>> \in R)
  <2> HIDE DEF R, B
  <2> QED
    BY <1>1, <1>3, WFMin
<1>5. m # 0
  OBVIOUS
<1>6. m - 1 \in Nat /\ m - 1 < m /\ m - 1 < n /\ m - 1 + 1 = m
  BY <1>5
<1>7. m - 1 \notin B
  BY <1>2, <1>3, <1>4, <1>6
<1>8. m - 1 \in G
  BY <1>6, <1>7
<1> QED
  BY <1>6, <1>8
-----------------------------------------------------------------------------
(* The states of a TAP and the shortest ways between them.                 *)

\* One clock takes a TAP from a state to a state.
LEMMA Clocked ==
  ASSUME NEW s \in TapState, NEW b \in BOOLEAN
  PROVE  After(s, b) \in TapState
BY DEF TapState, After

\* Where TMS high and TMS low lead from each state.
Up(s) == After(s, TRUE)
Down(s) == After(s, FALSE)

LEMMA UpOrDown ==
  ASSUME NEW s, NEW b \in BOOLEAN
  PROVE  (b /\ After(s, b) = Up(s)) \/ (~b /\ After(s, b) = Down(s))
<1>1. CASE b = TRUE
  BY <1>1 DEF Up
<1>2. CASE b = FALSE
  BY <1>2 DEF Down
<1>3. QED BY <1>1, <1>2

LEMMA TapMoves ==
  /\ Down("Reset") = "Idle"         /\ Up("Reset") = "Reset"
  /\ Down("Idle") = "Idle"          /\ Up("Idle") = "DrSelect"
  /\ Down("DrSelect") = "DrCapture" /\ Up("DrSelect") = "IrSelect"
  /\ Down("DrCapture") = "DrShift"  /\ Up("DrCapture") = "DrExit1"
  /\ Down("DrShift") = "DrShift"    /\ Up("DrShift") = "DrExit1"
  /\ Down("DrExit1") = "DrPause"    /\ Up("DrExit1") = "DrUpdate"
  /\ Down("DrPause") = "DrPause"    /\ Up("DrPause") = "DrExit2"
  /\ Down("DrExit2") = "DrShift"    /\ Up("DrExit2") = "DrUpdate"
  /\ Down("DrUpdate") = "Idle"      /\ Up("DrUpdate") = "DrSelect"
  /\ Down("IrSelect") = "IrCapture" /\ Up("IrSelect") = "Reset"
  /\ Down("IrCapture") = "IrShift"  /\ Up("IrCapture") = "IrExit1"
  /\ Down("IrShift") = "IrShift"    /\ Up("IrShift") = "IrExit1"
  /\ Down("IrExit1") = "IrPause"    /\ Up("IrExit1") = "IrUpdate"
  /\ Down("IrPause") = "IrPause"    /\ Up("IrPause") = "IrExit2"
  /\ Down("IrExit2") = "IrShift"    /\ Up("IrExit2") = "IrUpdate"
  /\ Down("IrUpdate") = "Idle"      /\ Up("IrUpdate") = "DrSelect"
BY DEF Up, Down, After

\* Every state can be reached from every other.
LEMMA Reaches ==
  ASSUME NEW S, S \subseteq TapState, S # {},
         \A s \in S, b \in BOOLEAN : After(s, b) \in S
  PROVE  S = TapState
<1>1. PICK s \in S : TRUE
  OBVIOUS
<1>2. ASSUME NEW t \in S PROVE /\ Up(t) \in S /\ Down(t) \in S
  BY DEF Up, Down
<1>3. "IrUpdate" \in S \/ "DrUpdate" \in S \/ "Idle" \in S => "DrSelect" \in S
  BY <1>2, TapMoves
<1>4. "IrExit1" \in S \/ "IrExit2" \in S => "IrUpdate" \in S
  BY <1>2, TapMoves
<1>5. "DrExit1" \in S \/ "DrExit2" \in S => "DrUpdate" \in S
  BY <1>2, TapMoves
<1>6. "DrCapture" \in S \/ "DrShift" \in S => "DrExit1" \in S
  BY <1>2, TapMoves
<1>7. "IrCapture" \in S \/ "IrShift" \in S => "IrExit1" \in S
  BY <1>2, TapMoves
<1>8. ("DrPause" \in S => "DrExit2" \in S) /\ ("IrPause" \in S => "IrExit2" \in S)
  BY <1>2, TapMoves
<1>9. ("DrSelect" \in S => "IrSelect" \in S) /\ ("IrSelect" \in S => "Reset" \in S)
       /\ ("Reset" \in S => "Idle" \in S)
  BY <1>2, TapMoves
<1>10. "DrSelect" \in S
  <2>1. s \in TapState
    BY <1>1
  <2>2. QED BY <1>1, <2>1, <1>3, <1>4, <1>5, <1>6, <1>7, <1>8, <1>9 DEF TapState
<1>11. {"DrSelect", "IrSelect", "Reset", "Idle"} \subseteq S
  BY <1>9, <1>10
<1>12. {"DrCapture", "IrCapture"} \subseteq S
  BY <1>2, <1>11, TapMoves
<1>13. {"DrShift", "IrShift", "DrExit1", "IrExit1"} \subseteq S
  BY <1>2, <1>12, TapMoves
<1>14. {"DrPause", "IrPause", "DrUpdate", "IrUpdate"} \subseteq S
  BY <1>2, <1>13, TapMoves
<1>15. {"DrExit2", "IrExit2"} \subseteq S
  BY <1>2, <1>14, TapMoves
<1>16. TapState \subseteq S
  BY <1>11, <1>12, <1>13, <1>14, <1>15 DEF TapState
<1>17. QED BY <1>16

\* There are sixteen of them.
LEMMA Sixteen == IsFiniteSet(TapState) /\ Cardinality(TapState) = 16
<1> DEFINE f == [i \in 1 .. 16 |->
      CASE i = 1 -> "Reset" [] i = 2 -> "Idle" [] i = 3 -> "DrSelect" [] i = 4 -> "DrCapture"
        [] i = 5 -> "DrShift" [] i = 6 -> "DrExit1" [] i = 7 -> "DrPause" [] i = 8 -> "DrExit2"
        [] i = 9 -> "DrUpdate" [] i = 10 -> "IrSelect" [] i = 11 -> "IrCapture" [] i = 12 -> "IrShift"
        [] i = 13 -> "IrExit1" [] i = 14 -> "IrPause" [] i = 15 -> "IrExit2" [] i = 16 -> "IrUpdate"]
<1>1. /\ f[1] = "Reset" /\ f[2] = "Idle" /\ f[3] = "DrSelect" /\ f[4] = "DrCapture"
      /\ f[5] = "DrShift" /\ f[6] = "DrExit1" /\ f[7] = "DrPause" /\ f[8] = "DrExit2"
      /\ f[9] = "DrUpdate" /\ f[10] = "IrSelect" /\ f[11] = "IrCapture" /\ f[12] = "IrShift"
      /\ f[13] = "IrExit1" /\ f[14] = "IrPause" /\ f[15] = "IrExit2" /\ f[16] = "IrUpdate"
  OBVIOUS
<1>2. ASSUME NEW i \in 1 .. 16
      PROVE  i \in {1, 2, 3, 4, 5, 6, 7, 8, 9, 10, 11, 12, 13, 14, 15, 16}
  OBVIOUS
<1>3. f = [i \in 1 .. 16 |-> f[i]]
  OBVIOUS
<1> HIDE DEF f
<1>4. \A i \in 1 .. 16 : f[i] \in TapState
  BY <1>1, <1>2 DEF TapState
<1>5. \A i, j \in 1 .. 16 : f[i] = f[j] => i = j
  BY <1>1, <1>2
<1>6. \A s \in TapState : \E i \in 1 .. 16 : f[i] = s
  BY <1>1 DEF TapState
<1>7. f \in Bijection(1 .. 16, TapState)
  BY <1>3, <1>4, <1>5, <1>6 DEF Bijection, Injection, Surjection, IsInjective
<1>8. ExistsBijection(1 .. 16, TapState)
  BY <1>7 DEF ExistsBijection
<1>9. Cardinality(TapState) = 16
  BY <1>8, FS_CountingElements
<1>10. IsFiniteSet(TapState)
  BY <1>8, FS_NatBijection
<1>11. QED BY <1>9, <1>10

\* p takes a TAP from s to t.
Leads(p, s, t) ==
  \E w \in [0 .. Len(p) -> TapState] :
    /\ w[0] = s /\ w[Len(p)] = t
    /\ \A i \in 1 .. Len(p) : w[i] = After(w[i - 1], p[i])

LEMMA LeadsNowhere == \A s \in TapState : Leads(<<>>, s, s)
<1> SUFFICES ASSUME NEW s \in TapState PROVE Leads(<<>>, s, s)
  OBVIOUS
<1> DEFINE w == [i \in 0 .. 0 |-> s]
<1>1. w \in [0 .. 0 -> TapState] /\ w[0] = s
  OBVIOUS
<1>2. Len(<<>>) = 0
  OBVIOUS
<1>3. \A i \in 1 .. 0 : w[i] = After(w[i - 1], <<>>[i])
  OBVIOUS
<1> HIDE DEF w
<1>4. QED BY <1>1, <1>2, <1>3 DEF Leads

LEMMA LeadsFurther ==
  ASSUME NEW p \in Seq(BOOLEAN), NEW s \in TapState, NEW t \in TapState, Leads(p, s, t), NEW b \in BOOLEAN
  PROVE  Leads(Append(p, b), s, After(t, b))
<1>1. PICK w \in [0 .. Len(p) -> TapState] :
        /\ w[0] = s /\ w[Len(p)] = t
        /\ \A i \in 1 .. Len(p) : w[i] = After(w[i - 1], p[i])
  BY DEF Leads
<1> DEFINE n == Len(p)
           r == Append(p, b)
           v == [i \in 0 .. n + 1 |-> IF i = n + 1 THEN After(t, b) ELSE w[i]]
<1>2. n \in Nat /\ Len(r) = n + 1 /\ r[n + 1] = b /\ \A i \in 1 .. n : r[i] = p[i]
  OBVIOUS
<1>3. After(t, b) \in TapState
  BY Clocked
<1>4. v \in [0 .. n + 1 -> TapState] /\ v[0] = s /\ v[n + 1] = After(t, b)
  BY <1>1, <1>2, <1>3
<1>5. ASSUME NEW i \in 1 .. n + 1 PROVE v[i] = After(v[i - 1], r[i])
  <2>1. CASE i = n + 1
    BY <1>1, <1>2, <2>1
  <2>2. CASE i # n + 1
    <3>1. i \in 1 .. n /\ i - 1 \in 0 .. n /\ i \in 0 .. n
      BY <1>2, <2>2
    <3>2. v[i] = w[i] /\ v[i - 1] = w[i - 1] /\ r[i] = p[i]
      BY <1>2, <2>2, <3>1
    <3>3. QED BY <1>1, <3>1, <3>2
  <2>3. QED BY <2>1, <2>2
<1> HIDE DEF v, r
<1>6. QED BY <1>2, <1>4, <1>5 DEF Leads, r

LEMMA LeadsOn ==
  ASSUME NEW p \in Seq(BOOLEAN), NEW s, NEW t, Leads(p, s, t), p # <<>>
  PROVE  /\ s \in TapState /\ Head(p) \in BOOLEAN
         /\ Leads(Tail(p), After(s, Head(p)), t)
<1>1. PICK w \in [0 .. Len(p) -> TapState] :
        /\ w[0] = s /\ w[Len(p)] = t
        /\ \A i \in 1 .. Len(p) : w[i] = After(w[i - 1], p[i])
  BY DEF Leads
<1> DEFINE n == Len(p) - 1
           v == [i \in 0 .. n |-> w[i + 1]]
<1>2. n \in Nat /\ Len(Tail(p)) = n /\ Head(p) = p[1] /\ \A i \in 1 .. n : Tail(p)[i] = p[i + 1]
  OBVIOUS
<1>3. v \in [0 .. n -> TapState] /\ v[0] = w[1] /\ v[n] = t
  BY <1>1, <1>2
<1>4. ASSUME NEW i \in 1 .. n PROVE v[i] = After(v[i - 1], Tail(p)[i])
  <2>1. i + 1 \in 1 .. Len(p) /\ i + 1 - 1 = i /\ v[i] = w[i + 1] /\ v[i - 1] = w[i]
    BY <1>2
  <2>2. QED BY <1>1, <1>2, <2>1
<1>5. w[1] = After(s, Head(p)) /\ s \in TapState /\ Head(p) \in BOOLEAN
  BY <1>1, <1>2
<1> HIDE DEF v, n
<1>6. QED BY <1>2, <1>3, <1>4, <1>5 DEF Leads

-----------------------------------------------------------------------------
(* The breadth-first search.                                               *)

\* The paths found, the m-th one being followed: each leads to its state, no
\* state is there twice, shorter ones come first, and none is longer than the
\* m-th by more than a clock.
Listed(from, q, m) ==
  /\ q \in Seq([state: TapState, path: Seq(BOOLEAN)])
  /\ 1 \in DOMAIN q /\ q[1] = [state |-> from, path |-> <<>>]
  /\ \A i \in DOMAIN q : Leads(q[i].path, from, q[i].state)
  /\ \A i, j \in DOMAIN q : q[i].state = q[j].state => i = j
  /\ \A i, j \in DOMAIN q : i <= j => Len(q[i].path) <= Len(q[j].path)
  /\ m \in DOMAIN q => \A j \in DOMAIN q : Len(q[j].path) <= Len(q[m].path) + 1

LEMMA Entries ==
  ASSUME NEW from, NEW q, NEW m, Listed(from, q, m)
  PROVE  /\ Len(q) \in Nat /\ 1 <= Len(q) /\ DOMAIN q = 1 .. Len(q)
         /\ \A i \in 1 .. Len(q) : /\ q[i].state \in TapState
                                   /\ q[i].path \in Seq(BOOLEAN) /\ Len(q[i].path) \in Nat
<1>1. q \in Seq([state: TapState, path: Seq(BOOLEAN)]) /\ 1 \in DOMAIN q
  BY DEF Listed
<1>2. Len(q) \in Nat /\ DOMAIN q = 1 .. Len(q)
  BY <1>1
<1>3. ASSUME NEW i \in 1 .. Len(q)
      PROVE  q[i].state \in TapState /\ q[i].path \in Seq(BOOLEAN) /\ Len(q[i].path) \in Nat
  <2>1. q[i] \in [state: TapState, path: Seq(BOOLEAN)]
    <3> DEFINE S == [state: TapState, path: Seq(BOOLEAN)]
    <3>1. q \in Seq(S)
      BY <1>1
    <3> HIDE DEF S
    <3>2. q[i] \in S
      BY <1>2, <3>1
    <3>3. QED BY <3>2 DEF S
  <2>2. q[i].state \in TapState /\ q[i].path \in Seq(BOOLEAN)
    BY <2>1
  <2>3. QED BY <2>2
<1>4. 1 <= Len(q)
  BY <1>1, <1>2
<1>5. QED BY <1>2, <1>3, <1>4

\* What one clock more leads to is found, and no later than by that clock.
Followed(q, i, b) ==
  \E j \in DOMAIN q : q[j].state = After(q[i].state, b) /\ Len(q[j].path) <= Len(q[i].path) + 1

LEMMA Following ==
  ASSUME NEW from \in TapState, NEW q, NEW m \in Nat, Listed(from, q, m), m \in DOMAIN q, NEW b \in BOOLEAN
  PROVE  LET r == Follow(q, m, b)
         IN  /\ Listed(from, r, m) /\ Followed(r, m, b)
             /\ Len(q) <= Len(r) /\ \A i \in DOMAIN q : i \in DOMAIN r /\ r[i] = q[i]
<1> DEFINE s == After(q[m].state, b)
           new == [state |-> s, path |-> Append(q[m].path, b)]
           r == Follow(q, m, b)
           n == Len(q)
<1>0. q \in Seq([state: TapState, path: Seq(BOOLEAN)])
  BY DEF Listed
<1>1. n \in Nat /\ DOMAIN q = 1 .. n
      /\ \A i \in 1 .. n : /\ q[i].state \in TapState
                          /\ q[i].path \in Seq(BOOLEAN) /\ Len(q[i].path) \in Nat
  BY Entries
<1>2. q[m].state \in TapState /\ q[m].path \in Seq(BOOLEAN) /\ Leads(q[m].path, from, q[m].state)
      /\ Len(q[m].path) \in Nat
  BY <1>1 DEF Listed
<1>3. s \in TapState
  BY <1>2, Clocked
<1>4. CASE \E i \in DOMAIN q : q[i].state = s
  <2>1. r = q
    BY <1>4 DEF Follow
  <2>2. Followed(q, m, b)
    BY <1>4 DEF Followed, Listed
  <2> HIDE DEF r
  <2>3. QED BY <1>0, <1>1, <2>1, <2>2 DEF r
<1>5. CASE ~ \E i \in DOMAIN q : q[i].state = s
  <2>1. r = Append(q, new)
    BY <1>5 DEF Follow
  <2>2. new \in [state: TapState, path: Seq(BOOLEAN)] /\ new.state = s /\ new.path = Append(q[m].path, b)
    BY <1>2, <1>3
  <2>3. Len(new.path) = Len(q[m].path) + 1 /\ Leads(new.path, from, new.state)
    BY <1>2, <2>2, LeadsFurther
  <2> HIDE DEF new, r, s
  <2>4. r \in Seq([state: TapState, path: Seq(BOOLEAN)]) /\ Len(r) = n + 1 /\ DOMAIN r = 1 .. n + 1
        /\ r[n + 1] = new /\ \A i \in 1 .. n : r[i] = q[i]
    BY <1>0, <1>1, <2>1, <2>2
  <2>5. \A i \in 1 .. n + 1 : i = n + 1 \/ i \in 1 .. n
    BY <1>1
  <2>6. \A i \in 1 .. n : q[i].path \in Seq(BOOLEAN) /\ Len(q[i].path) \in Nat
                          /\ Len(q[i].path) <= Len(q[m].path) + 1
    BY <1>1 DEF Listed
  <2>7. 1 \in DOMAIN r /\ r[1] = [state |-> from, path |-> <<>>]
    BY <1>1, <2>4 DEF Listed
  <2>8. \A i \in DOMAIN r : Leads(r[i].path, from, r[i].state)
    BY <1>1, <2>3, <2>4, <2>5 DEF Listed
  <2>9. \A i, j \in DOMAIN r : r[i].state = r[j].state => i = j
    <3>1. ASSUME NEW i \in 1 .. n, NEW j \in 1 .. n, r[i].state = r[j].state PROVE i = j
      BY <1>1, <2>4, <3>1 DEF Listed
    <3>2. ASSUME NEW i \in 1 .. n PROVE r[i].state # r[n + 1].state
      BY <1>1, <1>5, <2>2, <2>4
    <3>3. ASSUME NEW i \in 1 .. n + 1, NEW j \in 1 .. n + 1, r[i].state = r[j].state PROVE i = j
      <4>1. CASE i = n + 1
        BY <2>5, <3>2, <3>3, <4>1
      <4>2. CASE i \in 1 .. n
        BY <2>5, <3>1, <3>2, <3>3, <4>2
      <4>3. QED BY <2>5, <4>1, <4>2
    <3>4. QED BY <2>4, <3>3
  <2>10. \A i, j \in DOMAIN r : i <= j => Len(r[i].path) <= Len(r[j].path)
    <3>1. ASSUME NEW i \in 1 .. n + 1, NEW j \in 1 .. n + 1, i <= j
          PROVE  Len(r[i].path) <= Len(r[j].path)
      <4>1. CASE j \in 1 .. n
        <5>1. i \in 1 .. n
          BY <1>1, <3>1, <4>1
        <5>2. QED BY <1>1, <2>4, <3>1, <4>1, <5>1 DEF Listed
      <4>2. CASE j = n + 1
        <5>1. Len(r[j].path) = Len(q[m].path) + 1
          BY <2>3, <2>4, <4>2
        <5>2. CASE i = n + 1
          BY <1>2, <4>2, <5>1, <5>2
        <5>3. CASE i \in 1 .. n
          BY <1>2, <2>4, <2>6, <5>1, <5>3
        <5>4. QED BY <2>5, <5>2, <5>3
      <4>3. QED BY <2>5, <4>1, <4>2
    <3>2. QED BY <2>4, <3>1
  <2>11. \A j \in DOMAIN r : Len(r[j].path) <= Len(r[m].path) + 1
    <3>1. m \in 1 .. n /\ r[m] = q[m]
      BY <1>1, <2>4
    <3>2. \A j \in 1 .. n : Len(r[j].path) <= Len(r[m].path) + 1
      BY <2>4, <2>6, <3>1
    <3>3. Len(r[n + 1].path) <= Len(r[m].path) + 1
      BY <1>2, <2>3, <2>4, <3>1
    <3>4. QED BY <2>4, <2>5, <3>2, <3>3
  <2>12. Listed(from, r, m)
    BY <2>4, <2>7, <2>8, <2>9, <2>10, <2>11 DEF Listed
  <2>13. Followed(r, m, b)
    <3>1. n + 1 \in DOMAIN r /\ r[m] = q[m] /\ Len(r[m].path) \in Nat
      BY <1>1, <1>2, <2>4
    <3>2. r[n + 1].state = After(r[m].state, b) /\ Len(r[n + 1].path) <= Len(r[m].path) + 1
      BY <2>2, <2>3, <2>4, <3>1 DEF s
    <3>3. QED BY <3>1, <3>2 DEF Followed
  <2>14. QED BY <1>1, <2>4, <2>12, <2>13 DEF r
<1>6. QED BY <1>4, <1>5

\* After n rounds of the search the first n paths have been followed.
Searched(from, q, n) ==
  /\ Listed(from, q, n + 1)
  /\ n <= Len(q)
  /\ \A i \in 1 .. n, b \in BOOLEAN : Followed(q, i, b)

LEMMA Rounds ==
  ASSUME NEW from \in TapState, NEW n \in 0 .. 15, NEW q, Searched(from, q, n)
  PROVE  Searched(from, Follow(Follow(q, n + 1, FALSE), n + 1, TRUE), n + 1)
<1>1. /\ Len(q) \in Nat /\ 1 <= Len(q) /\ DOMAIN q = 1 .. Len(q)
      /\ \A i \in 1 .. Len(q) : /\ q[i].state \in TapState
                                /\ q[i].path \in Seq(BOOLEAN) /\ Len(q[i].path) \in Nat
  BY Entries DEF Searched
<1>2. n + 1 \in DOMAIN q
  <2>0. n \in Nat /\ n <= Len(q)
    BY DEF Searched
  <2> SUFFICES ASSUME n = Len(q) PROVE FALSE
    <3>1. Len(q) \in Nat /\ DOMAIN q = 1 .. Len(q)
      BY <1>1
    <3> DEFINE len == Len(q)
    <3>2. len \in Nat /\ n <= len
      BY <2>0, <3>1
    <3> HIDE DEF len
    <3>3. n # len => n + 1 \in 1 .. len
      BY <2>0, <3>2
    <3>4. QED BY <3>1, <3>3 DEF len
  <2> DEFINE S == {q[i].state : i \in 1 .. n}
             g == [i \in 1 .. n |-> q[i].state]
  <2>1. S \subseteq TapState
    BY <1>1
  <2>2. S # {}
    <3>1. 1 \in 1 .. n
      BY <1>1
    <3>2. q[1].state \in S
      BY <3>1
    <3>3. QED BY <3>2
  <2>3. \A s \in S, b \in BOOLEAN : After(s, b) \in S
    <3> SUFFICES ASSUME NEW i \in 1 .. n, NEW b \in BOOLEAN PROVE After(q[i].state, b) \in S
      OBVIOUS
    <3>1. Followed(q, i, b)
      BY DEF Searched
    <3>2. PICK j \in DOMAIN q : q[j].state = After(q[i].state, b)
      BY <3>1 DEF Followed
    <3>3. j \in 1 .. n
      BY <1>1, <3>2
    <3>4. QED BY <3>2, <3>3
  <2> HIDE DEF S
  <2>4. S = TapState
    BY <2>1, <2>2, <2>3, Reaches
  <2>5. g \in Surjection(1 .. n, TapState)
    <3>1. g \in [1 .. n -> TapState]
      BY <1>1
    <3>2. \A s \in TapState : \E i \in 1 .. n : g[i] = s
      BY <2>4 DEF S
    <3> HIDE DEF g
    <3>3. QED BY <3>1, <3>2 DEF Surjection
  <2>6. ExistsSurjection(1 .. n, TapState)
    BY <2>5 DEF ExistsSurjection
  <2>7. Cardinality(TapState) <= n
    BY <2>6, FS_SurjCardinalityBound
  <2>8. QED BY <2>7, Sixteen
<1> DEFINE r == Follow(q, n + 1, FALSE)
           z == Follow(r, n + 1, TRUE)
<1>3. Listed(from, q, n + 1) /\ n + 1 \in Nat
  BY DEF Searched
<1>4. /\ Listed(from, r, n + 1) /\ Followed(r, n + 1, FALSE)
      /\ Len(q) <= Len(r) /\ \A i \in DOMAIN q : i \in DOMAIN r /\ r[i] = q[i]
  <2>1. FALSE \in BOOLEAN
    OBVIOUS
  <2>2. QED BY <1>2, <1>3, <2>1, Following
<1> HIDE DEF r
<1>5. /\ Listed(from, z, n + 1) /\ Followed(z, n + 1, TRUE)
      /\ Len(r) <= Len(z) /\ \A i \in DOMAIN r : i \in DOMAIN z /\ z[i] = r[i]
  <2>1. n + 1 \in DOMAIN r /\ TRUE \in BOOLEAN
    BY <1>2, <1>4
  <2>2. QED BY <1>3, <1>4, <2>1, Following
<1> HIDE DEF z
<1>6. ASSUME NEW i \in DOMAIN r, NEW b, Followed(r, i, b)
      PROVE  Followed(z, i, b)
  BY <1>5, <1>6 DEF Followed
<1>7. ASSUME NEW i \in DOMAIN q, NEW b, Followed(q, i, b)
      PROVE  Followed(z, i, b)
  <2>1. Followed(r, i, b) /\ i \in DOMAIN r
    BY <1>4, <1>7 DEF Followed
  <2>2. QED BY <1>6, <2>1
<1>8. ASSUME NEW i \in 1 .. n + 1, NEW b \in BOOLEAN
      PROVE  Followed(z, i, b)
  <2>1. CASE i = n + 1
    <3>1. CASE b = TRUE
      BY <1>5, <2>1, <3>1
    <3>2. CASE b = FALSE
      BY <1>2, <1>4, <1>6, <2>1, <3>2
    <3>3. QED BY <3>1, <3>2
  <2>2. CASE i # n + 1
    <3>1. i \in 1 .. n /\ i \in DOMAIN q
      BY <1>1, <1>2, <2>2
    <3>2. Followed(q, i, b)
      BY <3>1 DEF Searched
    <3>3. QED BY <1>7, <3>1, <3>2
  <2>3. QED BY <2>1, <2>2
<1>9. /\ Len(z) \in Nat /\ DOMAIN z = 1 .. Len(z)
      /\ \A i \in 1 .. Len(z) : Len(z[i].path) \in Nat
  BY <1>5, Entries
<1>10. n + 1 \in DOMAIN z /\ n + 1 <= Len(z)
  BY <1>2, <1>4, <1>5, <1>9
<1>11. Listed(from, z, n + 2)
  <2>1. ASSUME n + 2 \in DOMAIN z, NEW j \in DOMAIN z
        PROVE  Len(z[j].path) <= Len(z[n + 2].path) + 1
    <3>1. Len(z[j].path) <= Len(z[n + 1].path) + 1
      BY <1>5, <1>10 DEF Listed
    <3>2. Len(z[n + 1].path) <= Len(z[n + 2].path)
      BY <1>5, <1>10, <2>1 DEF Listed
    <3>3. {Len(z[j].path), Len(z[n + 1].path), Len(z[n + 2].path)} \subseteq Nat
      BY <1>9, <1>10, <2>1
    <3>4. QED BY <3>1, <3>2, <3>3
  <2>2. QED BY <1>5, <2>1 DEF Listed
<1>12. n + 1 + 1 = n + 2
  OBVIOUS
<1>13. Searched(from, z, n + 1)
  BY <1>8, <1>10, <1>11, <1>12 DEF Searched
<1>14. QED BY <1>13 DEF z, r

LEMMA Search == ASSUME NEW from \in TapState PROVE Searched(from, Found(from), 16)
<1> DEFINE one == << [state |-> from, path |-> <<>>] >>
           Do(q, n) == Follow(Follow(q, n, FALSE), n, TRUE)
           List(g, m) == g = [n \in 0 .. m |-> IF n = 0 THEN one ELSE Do(g[n - 1], n)]
           G == {m \in Nat : m <= 16 => \E g : List(g, m) /\ Searched(from, g[m], m)}
<1>1. Found(from) = (CHOOSE g : g = [n \in 0 .. 16 |-> IF n = 0 THEN one ELSE Do(g[n - 1], n)])[16]
  BY DEF Found
<1>2. Searched(from, one, 0)
  <2>1. one \in Seq([state: TapState, path: Seq(BOOLEAN)]) /\ Len(one) = 1 /\ DOMAIN one = 1 .. 1
        /\ one[1] = [state |-> from, path |-> <<>>]
    OBVIOUS
  <2>2. Leads(one[1].path, from, one[1].state)
    BY <2>1, LeadsNowhere
  <2> HIDE DEF one
  <2>3. \A i \in DOMAIN one : i = 1
    BY <2>1
  <2>4. Len(one[1].path) = 0
    BY <2>1
  <2>5. Listed(from, one, 1)
    BY <2>1, <2>2, <2>3, <2>4 DEF Listed
  <2>6. QED BY <2>1, <2>5 DEF Searched
<1>3. ASSUME NEW n \in 0 .. 15, NEW q, Searched(from, q, n)
      PROVE  Searched(from, Do(q, n + 1), n + 1)
  BY <1>3, Rounds
<1> HIDE DEF one, Do
<1>4. 0 \in G
  <2> DEFINE g == [n \in 0 .. 0 |-> one]
  <2>1. List(g, 0) /\ g[0] = one
    OBVIOUS
  <2> HIDE DEF g, List
  <2>2. QED BY <1>2, <2>1
<1>5. \A m \in Nat : m < 16 /\ m \in G => m + 1 \in G
  <2> SUFFICES ASSUME NEW m \in Nat, m < 16, NEW g, List(g, m), Searched(from, g[m], m)
               PROVE  \E h : List(h, m + 1) /\ Searched(from, h[m + 1], m + 1)
    <3> HIDE DEF List
    <3> QED OBVIOUS
  <2> DEFINE h == [n \in 0 .. m + 1 |-> IF n = m + 1 THEN Do(g[m], m + 1) ELSE g[n]]
  <2>1. ASSUME NEW n \in 0 .. m + 1
        PROVE  h[n] = IF n = 0 THEN one ELSE Do(h[n - 1], n)
    <3>1. CASE n = m + 1
      <4>1. n - 1 = m /\ h[m] = g[m]
        BY <3>1
      <4>2. QED BY <3>1, <4>1
    <3>2. CASE n # m + 1
      <4>1. n \in 0 .. m /\ h[n] = g[n]
        BY <3>2
      <4>2. n # 0 => n - 1 \in 0 .. m /\ h[n - 1] = g[n - 1]
        BY <4>1
      <4>3. QED BY <4>1, <4>2
    <3>3. QED BY <3>1, <3>2
  <2>2. h = [n \in 0 .. m + 1 |-> h[n]] /\ h[m + 1] = Do(g[m], m + 1)
    OBVIOUS
  <2> HIDE DEF h
  <2>3. List(h, m + 1)
    BY <2>1, <2>2
  <2>4. m \in 0 .. 15
    OBVIOUS
  <2>5. Searched(from, h[m + 1], m + 1)
    BY <1>3, <2>2, <2>4
  <2> HIDE DEF List
  <2>6. QED BY <2>3, <2>5
<1>6. 16 \in G
  <2> HIDE DEF G
  <2>1. \A m \in 0 .. 16 : m \in G
    BY <1>4, <1>5, UpTo
  <2>2. QED BY <2>1
<1>7. PICK g : List(g, 16) /\ Searched(from, g[16], 16)
  <2> HIDE DEF List
  <2> QED BY <1>6
<1> DEFINE list == CHOOSE g1 : List(g1, 16)
<1>8. List(list, 16)
  <2> HIDE DEF List
  <2> QED BY <1>7
<1>9. Found(from) = list[16]
  BY <1>1
<1> HIDE DEF list
<1>10. list = g
  <2> DEFINE H == {m \in Nat : m <= 16 => list[m] = g[m]}
  <2>1. 0 \in H
    BY <1>7, <1>8
  <2>2. \A m \in Nat : m < 16 /\ m \in H => m + 1 \in H
    <3> SUFFICES ASSUME NEW m \in Nat, m < 16, list[m] = g[m] PROVE list[m + 1] = g[m + 1]
      OBVIOUS
    <3>1. m + 1 \in 0 .. 16 /\ m + 1 # 0 /\ m + 1 - 1 = m
      OBVIOUS
    <3>2. QED BY <1>7, <1>8, <3>1
  <2>3. \A m \in 0 .. 16 : m \in H
    <3> HIDE DEF H
    <3> QED BY <2>1, <2>2, UpTo
  <2>4. \A m \in 0 .. 16 : list[m] = g[m]
    BY <2>3
  <2>5. list = [n \in 0 .. 16 |-> list[n]] /\ g = [n \in 0 .. 16 |-> g[n]]
    BY <1>7, <1>8
  <2> HIDE DEF List
  <2>6. QED BY <2>4, <2>5
<1>11. QED BY <1>7, <1>9, <1>10

\* Clocks from a state to each of those the player goes to.
Targets == {"Idle", "DrPause", "IrPause", "DrShift", "IrShift"}
Far(s, t) ==
  CASE t = "Idle" ->
         (CASE s = "Idle" -> 0
            [] s \in {"Reset", "DrUpdate", "IrUpdate"} -> 1
            [] s \in {"DrExit1", "DrExit2", "IrSelect", "IrExit1", "IrExit2"} -> 2
            [] OTHER -> 3)
    [] t = "DrPause" ->
         (CASE s = "DrPause" -> 0
            [] s = "DrExit1" -> 1
            [] s \in {"DrCapture", "DrShift"} -> 2
            [] s \in {"DrSelect", "DrExit2"} -> 3
            [] s \in {"Idle", "DrUpdate", "IrUpdate"} -> 4
            [] s \in {"Reset", "IrExit1", "IrExit2"} -> 5
            [] OTHER -> 6)
    [] t = "IrPause" ->
         (CASE s = "IrPause" -> 0
            [] s = "IrExit1" -> 1
            [] s \in {"IrCapture", "IrShift"} -> 2
            [] s \in {"IrSelect", "IrExit2"} -> 3
            [] s = "DrSelect" -> 4
            [] s \in {"Idle", "DrUpdate", "IrUpdate"} -> 5
            [] s \in {"Reset", "DrExit1", "DrExit2"} -> 6
            [] OTHER -> 7)
    [] t = "DrShift" ->
         (CASE s = "DrShift" -> 0
            [] s \in {"DrCapture", "DrExit2"} -> 1
            [] s \in {"DrSelect", "DrPause"} -> 2
            [] s \in {"Idle", "DrExit1", "DrUpdate", "IrUpdate"} -> 3
            [] s \in {"Reset", "IrExit1", "IrExit2"} -> 4
            [] OTHER -> 5)
    [] t = "IrShift" ->
         (CASE s = "IrShift" -> 0
            [] s \in {"IrCapture", "IrExit2"} -> 1
            [] s \in {"IrSelect", "IrPause"} -> 2
            [] s \in {"DrSelect", "IrExit1"} -> 3
            [] s \in {"Idle", "DrUpdate", "IrUpdate"} -> 4
            [] s \in {"Reset", "DrExit1", "DrExit2"} -> 5
            [] OTHER -> 6)

\* The distances one by one.
LEMMA FarFrom ==
  /\ Far("Reset", "Idle") = 1 /\ Far("Idle", "Idle") = 0 /\ Far("DrSelect", "Idle") = 3 /\ Far("DrCapture", "Idle") = 3
  /\ Far("DrShift", "Idle") = 3 /\ Far("DrExit1", "Idle") = 2 /\ Far("DrPause", "Idle") = 3 /\ Far("DrExit2", "Idle") = 2
  /\ Far("DrUpdate", "Idle") = 1 /\ Far("IrSelect", "Idle") = 2 /\ Far("IrCapture", "Idle") = 3 /\ Far("IrShift", "Idle") = 3
  /\ Far("IrExit1", "Idle") = 2 /\ Far("IrPause", "Idle") = 3 /\ Far("IrExit2", "Idle") = 2 /\ Far("IrUpdate", "Idle") = 1
  /\ Far("Reset", "DrPause") = 5 /\ Far("Idle", "DrPause") = 4 /\ Far("DrSelect", "DrPause") = 3 /\ Far("DrCapture", "DrPause") = 2
  /\ Far("DrShift", "DrPause") = 2 /\ Far("DrExit1", "DrPause") = 1 /\ Far("DrPause", "DrPause") = 0 /\ Far("DrExit2", "DrPause") = 3
  /\ Far("DrUpdate", "DrPause") = 4 /\ Far("IrSelect", "DrPause") = 6 /\ Far("IrCapture", "DrPause") = 6 /\ Far("IrShift", "DrPause") = 6
  /\ Far("IrExit1", "DrPause") = 5 /\ Far("IrPause", "DrPause") = 6 /\ Far("IrExit2", "DrPause") = 5 /\ Far("IrUpdate", "DrPause") = 4
  /\ Far("Reset", "IrPause") = 6 /\ Far("Idle", "IrPause") = 5 /\ Far("DrSelect", "IrPause") = 4 /\ Far("DrCapture", "IrPause") = 7
  /\ Far("DrShift", "IrPause") = 7 /\ Far("DrExit1", "IrPause") = 6 /\ Far("DrPause", "IrPause") = 7 /\ Far("DrExit2", "IrPause") = 6
  /\ Far("DrUpdate", "IrPause") = 5 /\ Far("IrSelect", "IrPause") = 3 /\ Far("IrCapture", "IrPause") = 2 /\ Far("IrShift", "IrPause") = 2
  /\ Far("IrExit1", "IrPause") = 1 /\ Far("IrPause", "IrPause") = 0 /\ Far("IrExit2", "IrPause") = 3 /\ Far("IrUpdate", "IrPause") = 5
  /\ Far("Reset", "DrShift") = 4 /\ Far("Idle", "DrShift") = 3 /\ Far("DrSelect", "DrShift") = 2 /\ Far("DrCapture", "DrShift") = 1
  /\ Far("DrShift", "DrShift") = 0 /\ Far("DrExit1", "DrShift") = 3 /\ Far("DrPause", "DrShift") = 2 /\ Far("DrExit2", "DrShift") = 1
  /\ Far("DrUpdate", "DrShift") = 3 /\ Far("IrSelect", "DrShift") = 5 /\ Far("IrCapture", "DrShift") = 5 /\ Far("IrShift", "DrShift") = 5
  /\ Far("IrExit1", "DrShift") = 4 /\ Far("IrPause", "DrShift") = 5 /\ Far("IrExit2", "DrShift") = 4 /\ Far("IrUpdate", "DrShift") = 3
  /\ Far("Reset", "IrShift") = 5 /\ Far("Idle", "IrShift") = 4 /\ Far("DrSelect", "IrShift") = 3 /\ Far("DrCapture", "IrShift") = 6
  /\ Far("DrShift", "IrShift") = 6 /\ Far("DrExit1", "IrShift") = 5 /\ Far("DrPause", "IrShift") = 6 /\ Far("DrExit2", "IrShift") = 5
  /\ Far("DrUpdate", "IrShift") = 4 /\ Far("IrSelect", "IrShift") = 2 /\ Far("IrCapture", "IrShift") = 1 /\ Far("IrShift", "IrShift") = 0
  /\ Far("IrExit1", "IrShift") = 3 /\ Far("IrPause", "IrShift") = 2 /\ Far("IrExit2", "IrShift") = 1 /\ Far("IrUpdate", "IrShift") = 4
BY DEF Far

\* No clock gains more than one, one of the two gains one, and only the end is
\* at no distance.
LEMMA Distances ==
  ASSUME NEW s \in TapState, NEW t \in Targets
  PROVE  /\ Far(s, t) \in 0 .. 7 /\ (Far(s, t) = 0 <=> s = t)
         /\ \A z \in {Up(s), Down(s)} : Far(s, t) <= Far(z, t) + 1
         /\ s # t => \E z \in {Up(s), Down(s)} : Far(z, t) = Far(s, t) - 1
<1>1. CASE t = "Idle"
  BY <1>1, TapMoves, FarFrom DEF TapState
<1>2. CASE t = "DrPause"
  BY <1>2, TapMoves, FarFrom DEF TapState
<1>3. CASE t = "IrPause"
  BY <1>3, TapMoves, FarFrom DEF TapState
<1>4. CASE t = "DrShift"
  BY <1>4, TapMoves, FarFrom DEF TapState
<1>5. CASE t = "IrShift"
  BY <1>5, TapMoves, FarFrom DEF TapState
<1>6. QED BY <1>1, <1>2, <1>3, <1>4, <1>5 DEF Targets

DrHeld == {"DrShift", "DrExit1", "DrPause", "DrExit2"}
IrHeld == {"IrShift", "IrExit1", "IrPause", "IrExit2"}

\* Where a way to t does not come by, or does not go on from.
Avoids(s, t) ==
  /\ s = "DrSelect" => t # "Idle"
  /\ s = "IrSelect" => t \in {"IrPause", "IrShift"}
  /\ s = "DrShift" => t = "DrShift"
  /\ s = "IrShift" => t = "IrShift"
  /\ s = "DrExit2" => t # "DrPause"
  /\ s = "IrExit2" => t # "IrPause"

LEMMA Hops ==
  ASSUME NEW s \in TapState, NEW t \in Targets, NEW z \in {Up(s), Down(s)},
         Far(z, t) = Far(s, t) - 1, Avoids(s, t)
  PROVE  /\ Avoids(z, t) /\ z # "Reset" /\ s \notin {"DrShift", "IrShift"}
         /\ z = "DrCapture" => t \in {"DrPause", "DrShift"}
         /\ z = "IrCapture" => t \in {"IrPause", "IrShift"}
         /\ s \in DrHeld /\ t \in {"DrPause", "DrShift"} => z \in DrHeld
         /\ s \in IrHeld /\ t \in {"IrPause", "IrShift"} => z \in IrHeld
<1>1. CASE t = "Idle"
  BY <1>1, TapMoves, FarFrom DEF TapState, Avoids, DrHeld, IrHeld
<1>2. CASE t = "DrPause"
  BY <1>2, TapMoves, FarFrom DEF TapState, Avoids, DrHeld, IrHeld
<1>3. CASE t = "IrPause"
  BY <1>3, TapMoves, FarFrom DEF TapState, Avoids, DrHeld, IrHeld
<1>4. CASE t = "DrShift"
  BY <1>4, TapMoves, FarFrom DEF TapState, Avoids, DrHeld, IrHeld
<1>5. CASE t = "IrShift"
  BY <1>5, TapMoves, FarFrom DEF TapState, Avoids, DrHeld, IrHeld
<1>6. QED BY <1>1, <1>2, <1>3, <1>4, <1>5 DEF Targets

\* A way is no shorter than the distance.
LEMMA NoShorter ==
  ASSUME NEW p \in Seq(BOOLEAN), NEW s \in TapState, NEW t \in Targets, Leads(p, s, t)
  PROVE  Far(s, t) <= Len(p)
<1>1. PICK w \in [0 .. Len(p) -> TapState] :
        /\ w[0] = s /\ w[Len(p)] = t
        /\ \A i \in 1 .. Len(p) : w[i] = After(w[i - 1], p[i])
  BY DEF Leads
<1> DEFINE n == Len(p)
           G == {k \in Nat : k <= n => Far(w[n - k], t) <= k}
<1>2. n \in Nat /\ \A i \in 1 .. n : p[i] \in BOOLEAN
  OBVIOUS
<1> HIDE DEF n
<1>3. 0 \in G
  <2>1. n - 0 = n /\ w[n] = t /\ t \in TapState
    BY <1>1, <1>2 DEF n
  <2>2. Far(t, t) = 0
    BY <2>1, Distances
  <2>3. QED BY <2>1, <2>2
<1>4. \A k \in Nat : k < n /\ k \in G => k + 1 \in G
  <2> SUFFICES ASSUME NEW k \in Nat, k < n, Far(w[n - k], t) <= k
               PROVE  Far(w[n - (k + 1)], t) <= k + 1
    OBVIOUS
  <2> DEFINE x == w[n - (k + 1)]
             z == w[n - k]
  <2>1. n - k \in 1 .. n /\ n - (k + 1) = n - k - 1 /\ n - (k + 1) \in 0 .. n /\ n - k \in 0 .. n
    BY <1>2
  <2>2. z = After(x, p[n - k]) /\ x \in TapState /\ z \in TapState
    BY <1>1, <2>1 DEF n
  <2>3. z \in {Up(x), Down(x)}
    BY <1>2, <2>1, <2>2, UpOrDown
  <2>4. Far(z, t) <= k
    OBVIOUS
  <2> HIDE DEF x, z
  <2>5. Far(x, t) <= Far(z, t) + 1 /\ Far(x, t) \in 0 .. 7
    BY <2>2, <2>3, Distances
  <2>6. Far(z, t) \in 0 .. 7
    BY <2>2, Distances
  <2> DEFINE a == Far(x, t)
             c == Far(z, t)
  <2> HIDE DEF a, c
  <2>7. a \in Nat /\ c \in Nat /\ a <= c + 1 /\ c <= k
    BY <2>4, <2>5, <2>6 DEF a, c
  <2>8. a <= k + 1
    BY <2>7
  <2>9. QED BY <2>8 DEF a, x
<1>5. \A k \in 0 .. n : k \in G
  <2> HIDE DEF G
  <2>1. QED BY <1>2, <1>3, <1>4, UpTo
<1>6. Far(w[n - n], t) <= n
  BY <1>2, <1>5
<1>7. n - n = 0
  BY <1>2
<1>8. QED BY <1>1, <1>6, <1>7 DEF n

\* On a shortest way from s to t.
OnTheWay(p, s, t) == p \in Seq(BOOLEAN) /\ Leads(p, s, t) /\ Len(p) = Far(s, t)

\* What is left of a shortest way is one.
LEMMA NextHop ==
  ASSUME NEW p, NEW s, NEW t \in Targets, OnTheWay(p, s, t), p # <<>>
  PROVE  /\ s \in TapState /\ s # t /\ Head(p) \in BOOLEAN
         /\ After(s, Head(p)) \in {Up(s), Down(s)}
         /\ OnTheWay(Tail(p), After(s, Head(p)), t)
         /\ Far(After(s, Head(p)), t) = Far(s, t) - 1
<1> DEFINE z == After(s, Head(p))
           a == Far(s, t)
           c == Far(z, t)
           n == Len(p)
<1>1. p \in Seq(BOOLEAN) /\ Leads(p, s, t) /\ n = a
  BY DEF OnTheWay
<1>2. s \in TapState /\ Head(p) \in BOOLEAN /\ Leads(Tail(p), z, t)
  BY <1>1, LeadsOn
<1>3. z \in {Up(s), Down(s)} /\ z \in TapState
  BY <1>2, UpOrDown, Clocked
<1>4. Tail(p) \in Seq(BOOLEAN) /\ n \in Nat /\ Len(Tail(p)) = n - 1 /\ n > 0
  BY <1>1
<1>5. c <= Len(Tail(p))
  BY <1>2, <1>3, <1>4, NoShorter
<1> HIDE DEF z
<1>6. a \in 0 .. 7 /\ (a = 0 <=> s = t) /\ a <= c + 1
  BY <1>2, <1>3, Distances
<1>7. c \in 0 .. 7
  BY <1>3, Distances
<1> HIDE DEF a, c, n
<1>8. c = a - 1 /\ c = n - 1 /\ s # t
  BY <1>1, <1>4, <1>5, <1>6, <1>7
<1>9. QED BY <1>2, <1>3, <1>4, <1>8 DEF OnTheWay, z, a, c, n

LEMMA Arrived == ASSUME NEW s, NEW t, OnTheWay(<<>>, s, t) PROVE s = t
<1>1. PICK w \in [0 .. Len(<<>>) -> TapState] : w[0] = s /\ w[Len(<<>>)] = t
  BY DEF OnTheWay, Leads
<1>2. Len(<<>>) = 0
  OBVIOUS
<1>3. QED BY <1>1, <1>2

\* The search finds a shortest way from any state to where the player goes.
LEMMA Ways ==
  ASSUME NEW from \in TapState, NEW to \in Targets
  PROVE  OnTheWay(PathTo[from][to], from, to)
<1> DEFINE q == Found(from)
           far == Far(from, to)
           G == {k \in Nat : k <= far => \E i \in 1 .. 16 : /\ Far(q[i].state, to) = far - k
                                                           /\ Len(q[i].path) <= k}
<1>1. Searched(from, q, 16)
  BY Search
<1> HIDE DEF q
<1>2. Listed(from, q, 17) /\ 16 <= Len(q) /\ \A i \in 1 .. 16, b \in BOOLEAN : Followed(q, i, b)
  BY <1>1 DEF Searched
<1>3. /\ Len(q) \in Nat /\ DOMAIN q = 1 .. Len(q)
      /\ \A i \in 1 .. Len(q) : /\ q[i].state \in TapState
                                /\ q[i].path \in Seq(BOOLEAN) /\ Len(q[i].path) \in Nat
  BY <1>2, Entries
<1>4. \A i \in 1 .. 16 : i \in 1 .. Len(q)
  BY <1>2, <1>3
<1>5. \A s \in TapState : \E i \in 1 .. 16 : q[i].state = s
  <2> DEFINE g == [i \in 1 .. 16 |-> q[i].state]
  <2>1. g \in [1 .. 16 -> TapState]
    BY <1>3, <1>4
  <2>2. \A i, j \in 1 .. 16 : g[i] = g[j] => i = j
    BY <1>2, <1>3, <1>4 DEF Listed
  <2>3. \A i \in 1 .. 16 : g[i] = q[i].state
    OBVIOUS
  <2> HIDE DEF g
  <2>4. g \in Injection(1 .. 16, TapState)
    BY <2>1, <2>2 DEF Injection, IsInjective
  <2>5. IsFiniteSet(1 .. 16) /\ Cardinality(1 .. 16) = 16
    <3>1. 1 \in Int /\ 16 \in Int /\ ~(1 > 16) /\ 16 - 1 + 1 = 16
      OBVIOUS
    <3>2. QED BY <3>1, FS_Interval
  <2>6. g \in Surjection(1 .. 16, TapState)
    BY <2>4, <2>5, Sixteen, FS_Injection
  <2>7. QED BY <2>3, <2>6 DEF Surjection
<1>6. \A i \in 1 .. Len(q) : i \in 1 .. 16
  <2> SUFFICES ASSUME NEW i \in 1 .. Len(q) PROVE i \in 1 .. 16
    OBVIOUS
  <2>1. PICK j \in 1 .. 16 : q[j].state = q[i].state
    BY <1>3, <1>5
  <2>2. i = j
    BY <1>2, <1>3, <1>4, <2>1 DEF Listed
  <2>3. QED BY <2>2
<1>7. far \in 0 .. 7
  BY Distances
<1> HIDE DEF far
<1>8. 0 \in G
  <2>1. q[1].state = from /\ Len(q[1].path) = 0
    <3>1. q[1] = [state |-> from, path |-> <<>>]
      BY <1>2 DEF Listed
    <3>2. QED BY <3>1
  <2>2. 1 \in 1 .. 16 /\ far - 0 = far
    BY <1>7
  <2>3. Far(q[1].state, to) = far
    BY <2>1 DEF far
  <2>4. Far(q[1].state, to) = far - 0 /\ Len(q[1].path) <= 0
    BY <2>1, <2>2, <2>3
  <2>5. QED BY <2>2, <2>4
<1>9. \A k \in Nat : k < far /\ k \in G => k + 1 \in G
  <2> SUFFICES ASSUME NEW k \in Nat, k < far, k \in G PROVE k + 1 \in G
    OBVIOUS
  <2>0. k <= far /\ far - k # 0
    BY <1>7
  <2>a. PICK i \in 1 .. 16 : Far(q[i].state, to) = far - k /\ Len(q[i].path) <= k
    BY <2>0
  <2> SUFFICES \E j \in 1 .. 16 : /\ Far(q[j].state, to) = far - (k + 1)
                                  /\ Len(q[j].path) <= k + 1
    <3>1. k + 1 \in Nat
      OBVIOUS
    <3>2. QED BY <3>1
  <2> DEFINE s == q[i].state
  <2>1. s \in TapState /\ Far(s, to) = far - k /\ Far(s, to) # 0
    BY <1>3, <1>4, <2>0, <2>a
  <2>2. s # to
    BY <2>1, Distances
  <2>3. PICK z \in {Up(s), Down(s)} : Far(z, to) = Far(s, to) - 1
    BY <2>1, <2>2, Distances
  <2>4. PICK b \in BOOLEAN : z = After(s, b)
    BY <2>3 DEF Up, Down
  <2>5. PICK j \in DOMAIN q : q[j].state = z /\ Len(q[j].path) <= Len(q[i].path) + 1
    BY <1>2, <2>4 DEF Followed
  <2>6. j \in 1 .. 16 /\ Len(q[j].path) \in Nat /\ Len(q[i].path) \in Nat
    BY <1>3, <1>4, <1>6
  <2>7. Far(q[j].state, to) = far - k - 1
    BY <2>1, <2>3, <2>5
  <2>8. Len(q[j].path) <= k + 1
    BY <2>5, <2>6, <2>a
  <2>9. far - k - 1 = far - (k + 1)
    BY <1>7
  <2>10. QED BY <2>6, <2>7, <2>8, <2>9
<1>10. far \in G
  <2> HIDE DEF G
  <2>1. \A k \in 0 .. far : k \in G
    BY <1>7, <1>8, <1>9, UpTo
  <2>2. QED BY <1>7, <2>1
<1>11. PICK i \in 1 .. 16 : Far(q[i].state, to) = far - far /\ Len(q[i].path) <= far
  BY <1>7, <1>10
<1>12. q[i].state = to
  <2> DEFINE s == q[i].state
  <2>1. s \in TapState /\ Far(s, to) = far - far
    BY <1>3, <1>4, <1>11
  <2>2. far - far = 0
    BY <1>7
  <2> HIDE DEF s
  <2>3. s = to
    BY <2>1, <2>2, Distances
  <2>4. QED BY <2>3 DEF s
<1> DEFINE c == CHOOSE j \in DOMAIN q : q[j].state = to
<1>13. c \in DOMAIN q /\ q[c].state = to
  BY <1>3, <1>4, <1>12
<1>14. c = i
  BY <1>2, <1>3, <1>4, <1>12, <1>13 DEF Listed
<1>15. PathTo[from][to] = q[c].path
  <2>1. to \in TapState /\ to # "Reset"
    BY DEF Targets, TapState
  <2>2. QED BY <2>1 DEF PathTo, q
<1> HIDE DEF c
<1>16. q[i].path \in Seq(BOOLEAN) /\ Leads(q[i].path, from, to) /\ Len(q[i].path) \in Nat
  BY <1>2, <1>3, <1>4, <1>12 DEF Listed
<1>17. far <= Len(q[i].path)
  BY <1>16, NoShorter DEF far
<1>18. Len(q[i].path) = far
  BY <1>7, <1>11, <1>16, <1>17
<1>19. QED BY <1>14, <1>15, <1>16, <1>18 DEF OnTheWay, far

-----------------------------------------------------------------------------
(* Where the player, the wire and the TAP stand.                           *)

Levels(clocks) == [i \in DOMAIN clocks |-> clocks[i].tms]
Highs(k) == [i \in 1 .. k |-> TRUE]

\* High clocks that take a TAP to Reset.
ToReset(s) ==
  CASE s = "Reset" -> 0
    [] s = "IrSelect" -> 1
    [] s = "DrSelect" -> 2
    [] s \in {"Idle", "DrUpdate", "IrUpdate"} -> 3
    [] s \in {"DrExit1", "DrExit2", "IrExit1", "IrExit2"} -> 4
    [] OTHER -> 5

EndsWith(v, n, bits) == \A i \in 1 .. Len(bits) : bits[i] = v[n - Len(bits) + i]

Nothing == {Unknown, <<>>}

\* The bits said to the data register end what it holds, in the scan or after.
DrKept(d) ==
  said.dr # Unknown =>
    /\ said.dr \in Seq(Bit) /\ Len(said.dr) <= DrBits
    /\ d.state = "DrCapture" => said.dr = <<>>
    /\ EndsWith(IF d.state \in DrHeld THEN d.drShift ELSE d.dr, DrBits, said.dr)

IrKept(d) ==
  said.ir # Unknown =>
    IF said.ir = Idcode THEN d.state \notin IrScan /\ d.ir = Idcode
    ELSE /\ said.ir \in Seq(Bit) /\ Len(said.ir) <= IrBits
         /\ d.state = "IrCapture" => said.ir = <<>>
         /\ d.state \in IrHeld => EndsWith(d.irShift, IrBits, said.ir)
         /\ d.state \notin IrHeld /\ said.ir # <<>> => d.ir \in Bits(IrBits) /\ EndsWith(d.ir, IrBits, said.ir)

\* Nothing has been said of a register on the way to its capture.
Fresh(s, t) ==
  /\ t \in {"DrPause", "DrShift"} /\ s \notin DrHeld => said.dr \in Nothing
  /\ t \in {"IrPause", "IrShift"} /\ s \notin IrHeld => said.ir \in Nothing

Unmoved ==
  player.state = Unknown /\ wire = <<>> /\ said.ir = Unknown /\ said.dr = Unknown /\ ~said.first

\* On the way to Reset, and from there to where the move ends.
Resetting ==
  \E k \in 1 .. 5, rest \in Seq(BOOLEAN) :
    /\ Levels(wire) = Highs(k) \o rest
    /\ ToReset(tap.state) <= k
    /\ player.state = "Reset" => rest = <<>> /\ said.ir = Idcode
    /\ player.state # "Reset" => /\ player.state \in Targets /\ said.first
                                 /\ OnTheWay(rest, "Reset", player.state)
    /\ said.ir \in Nothing \cup {Idcode}
    /\ player.state \in {"IrPause", "IrShift"} => said.ir \in Nothing
    /\ said.first \/ tap.state = "DrShift" => said.dr \in Nothing
    /\ DrKept(tap)

Heading ==
  /\ wire # <<>> /\ player.state \in Targets
  /\ OnTheWay(Levels(wire), tap.state, player.state)
  /\ Avoids(tap.state, player.state) /\ Fresh(tap.state, player.state)
  /\ DrKept(tap) /\ IrKept(tap)

\* A register with the clocks to come behind it.
Coming(v, n, clocks) == [i \in 1 .. n + Len(clocks) |-> IF i <= n THEN v[i] ELSE clocks[i - n].tdi]

LastHigh == \A i \in 1 .. Len(wire) : wire[i].tms <=> i = Len(wire)

ScanningIr ==
  /\ wire # <<>> /\ player.state = "IrExit1" /\ tap.state = "IrShift" /\ LastHigh
  /\ said.ir \in Seq(Bit) /\ said.ir # <<>> /\ Len(said.ir) <= IrBits
  /\ EndsWith(Coming(tap.irShift, IrBits, wire), IrBits + Len(wire), said.ir)
  /\ DrKept(tap)

ScanningDr ==
  /\ wire # <<>> /\ player.state = "DrExit1" /\ tap.state = "DrShift" /\ LastHigh
  /\ said.dr \in Seq(Bit) /\ Len(said.dr) <= DrBits
  /\ EndsWith(Coming(tap.drShift, DrBits, wire), DrBits + Len(wire), said.dr)
  /\ IrKept(tap)

Resting ==
  /\ player.state = tap.state
  /\ player.state \in Stable \cup {"DrShift", "DrExit1", "IrShift", "IrExit1"}
  /\ wire # <<>> => /\ player.state \in Stable
                    /\ \A i \in DOMAIN wire : wire[i].tms <=> player.state = "Reset"
  /\ player.state = "Reset" => said.ir = Idcode
  /\ DrKept(tap) /\ IrKept(tap)

\* A register about to be shifted has been begun on, and the other has not.
ToShift ==
  /\ said.ir = <<>> => player.state = "IrShift"
  /\ player.state = "IrShift" => said.ir \notin {Unknown, Idcode}
  /\ player.state = "DrShift" => said.dr # Unknown

\* The calls a command has left.
Gotos == [call: {"goto"}, to: Stable]
Shifts == [call: {"shift"}, ir: BOOLEAN, tdi: Seq(Bit) \ {<<>>}, want: Seq(Bit) \cup {None}, mask: Seq(Bit)]
Waits == [call: {"ones", "idle"}, n: Nat]
Shifting(k) == IF k.ir THEN "IrShift" ELSE "DrShift"
Idling(k) == IF k.call = "ones" THEN {"Reset"} ELSE Stable \ {"Reset"}

Ahead ==
  \/ /\ calls \in Seq(Gotos)
     /\ player.state \notin {"DrShift", "IrShift"}
     /\ player.state \in {"DrExit1", "IrExit1"} => calls # <<>>
  \/ /\ Len(calls) = 3 /\ calls[3] \in Gotos
     /\ player.state \in Stable \cup {Unknown}
     /\ \/ calls[2] \in Shifts /\ calls[1] = Goto(Shifting(calls[2]))
        \/ calls[2] \in Waits /\ calls[1] \in {Goto(s) : s \in Idling(calls[2])}
  \/ /\ Len(calls) = 2 /\ calls[2] \in Gotos
     /\ \/ calls[1] \in Shifts /\ player.state = Shifting(calls[1])
        \/ calls[1] \in Waits /\ player.state \in Idling(calls[1])

Lasts == [len: Nat, tdi: Seq(Bit), mask: Seq(Bit)] \cup {None}
LastOK(l) == l # None => l.tdi \in Bits(l.len) /\ l.mask \in Bits(l.len)

PlayerInv ==
  /\ TypeOK
  /\ player \in [state: TapState \cup {Unknown}, endIr: Stable, endDr: Stable,
                 runState: Stable, endState: Stable, lastIr: Lasts, lastDr: Lasts]
  /\ LastOK(player.lastIr) /\ LastOK(player.lastDr)
  /\ said.first \in BOOLEAN
  /\ ToShift /\ Ahead
  /\ Unmoved \/ Resetting \/ Heading \/ ScanningIr \/ ScanningDr \/ Resting

Standing == Unmoved \/ Resetting \/ Heading \/ ScanningIr \/ ScanningDr \/ Resting

\* When the wire is empty a player that has moved rests.
LEMMA AtRest ==
  ASSUME Standing, wire = <<>>
  PROVE  Unmoved \/ Resting
<1> SUFFICES ASSUME Resetting PROVE FALSE
  BY DEF Standing, Heading, ScanningIr, ScanningDr
<1>1. PICK k \in 1 .. 5, rest \in Seq(BOOLEAN) : Levels(wire) = Highs(k) \o rest
  BY DEF Resetting
<1>2. Len(Levels(wire)) = 0
  BY DEF Levels
<1>3. Highs(k) \in Seq(BOOLEAN) /\ Len(Highs(k)) = k
  BY DEF Highs
<1>4. Len(Highs(k) \o rest) = k + Len(rest) /\ Len(rest) \in Nat
  BY <1>3
<1>5. QED BY <1>1, <1>2, <1>4

\* Where things stand depends on these only.
LEMMA StandsStill ==
  ASSUME Standing, UNCHANGED <<wire, tap, said>>, player'.state = player.state
  PROVE  Standing'
<1>1. (DrKept(tap))' <=> DrKept(tap)
  BY DEF DrKept, EndsWith
<1>2. (IrKept(tap))' <=> IrKept(tap)
  BY DEF IrKept, EndsWith
<1>3. (Fresh(tap.state, player.state))' <=> Fresh(tap.state, player.state)
  BY DEF Fresh
<1>5. LastHigh' <=> LastHigh
  BY DEF LastHigh
<1>6. Unmoved => Unmoved'
  BY DEF Unmoved
<1>7. Resetting => Resetting'
  BY <1>1 DEF Resetting
<1>8. Heading => Heading'
  BY <1>1, <1>2, <1>3 DEF Heading
<1>9. ScanningIr => ScanningIr'
  <2>1. Coming(tap.irShift, IrBits, wire)' = Coming(tap.irShift, IrBits, wire)
    BY DEF Coming
  <2>2. QED BY <1>1, <1>5, <2>1 DEF ScanningIr, EndsWith
<1>10. ScanningDr => ScanningDr'
  <2>1. Coming(tap.drShift, DrBits, wire)' = Coming(tap.drShift, DrBits, wire)
    BY DEF Coming
  <2>2. QED BY <1>2, <1>5, <2>1 DEF ScanningDr, EndsWith
<1>11. Resting => Resting'
  BY <1>1, <1>2 DEF Resting
<1>12. QED BY <1>6, <1>7, <1>8, <1>9, <1>10, <1>11 DEF Standing

CallSet == [call: {"goto"}, to: TapState]
           \cup [call: {"shift"}, ir: BOOLEAN, tdi: Seq(Bit), want: Seq(Bit) \cup {None}, mask: Seq(Bit)]
           \cup [call: {"ones", "idle"}, n: Nat]

LEMMA CallsTyped ==
  /\ TypeOK => calls \in Seq(CallSet)
  /\ Gotos \subseteq CallSet /\ Shifts \subseteq CallSet /\ Waits \subseteq CallSet
  /\ \A s \in Stable : Goto(s) \in Gotos
  /\ \A s \in TapState : Goto(s) \in CallSet
<1>1. TypeOK => calls \in Seq(CallSet)
  BY DEF TypeOK, CallSet
<1>2. Stable \subseteq TapState
  BY DEF Stable, TapState
<1>3. Gotos \subseteq CallSet
  BY <1>2 DEF Gotos, CallSet
<1>4. Shifts \subseteq CallSet
  BY DEF Shifts, CallSet
<1>5. Waits \subseteq CallSet
  BY DEF Waits, CallSet
<1>6. \A s \in Stable : Goto(s) \in Gotos
  BY DEF Gotos, Goto
<1>7. \A s \in TapState : Goto(s) \in CallSet
  BY DEF CallSet, Goto
<1>8. QED BY <1>1, <1>3, <1>4, <1>5, <1>6, <1>7

PlayerType == [state: TapState \cup {Unknown}, endIr: Stable, endDr: Stable,
               runState: Stable, endState: Stable, lastIr: Lasts, lastDr: Lasts]

\* What a command leaves to the calls it is made of.
LEMMA Begun ==
  ASSUME PlayerInv, Ready,
         player' \in PlayerType, player'.state = player.state,
         LastOK(player'.lastIr), LastOK(player'.lastDr),
         calls' \in Seq(CallSet), verdict' \in {"playing", "mismatch", "error"},
         UNCHANGED <<wire, tap, said>>,
         \/ calls' \in Seq(Gotos)
         \/ /\ Len(calls') = 3 /\ calls'[3] \in Gotos
            /\ \/ calls'[2] \in Shifts /\ calls'[1] = Goto(Shifting(calls'[2]))
               \/ calls'[2] \in Waits /\ calls'[1] \in {Goto(s) : s \in Idling(calls'[2])}
  PROVE  PlayerInv'
<1>1. wire = <<>> /\ calls = <<>> /\ Standing
  BY DEF Ready, PlayerInv, Standing
<1>2. player.state \notin {"DrShift", "IrShift", "DrExit1", "IrExit1"}
  <2>1. Len(calls) = 0
    BY <1>1
  <2>2. QED BY <1>1, <2>1 DEF PlayerInv, Ahead
<1>3. player.state \in Stable \cup {Unknown}
  BY <1>1, <1>2, AtRest DEF Unmoved, Resting
<1>4. Standing'
  BY <1>1, StandsStill
<1>5. Ahead'
  BY <1>2, <1>3 DEF Ahead
<1>6. TypeOK'
  BY DEF PlayerInv, TypeOK, PlayerType, CallSet
<1>7. (said.first \in BOOLEAN)' /\ ToShift'
  BY DEF PlayerInv, ToShift
<1>8. QED BY <1>4, <1>5, <1>6, <1>7 DEF PlayerInv, Standing, PlayerType

LEMMA BeginKeeps ==
  ASSUME PlayerInv, NEW c, Parsed(c), Begin(c)
  PROVE  PlayerInv'
<1>1. /\ Ready /\ player \in PlayerType /\ LastOK(player.lastIr) /\ LastOK(player.lastDr)
      /\ calls = <<>> /\ verdict = "playing"
      /\ UNCHANGED <<wire, tap, said>>
  BY DEF PlayerInv, PlayerType, Begin, Ready
<1>2. <<>> \in Seq(CallSet) /\ <<>> \in Seq(Gotos)
  OBVIOUS
<1>3. ASSUME EndIr(c) PROVE PlayerInv'
  <2>1. c.state \in Stable
    BY <1>3 DEF EndIr, Parsed
  <2>2. player' \in PlayerType /\ player'.state = player.state
        /\ player'.lastIr = player.lastIr /\ player'.lastDr = player.lastDr
    BY <1>1, <1>3, <2>1 DEF EndIr, PlayerType
  <2>3. calls' = calls /\ verdict' = verdict
    BY <1>3 DEF EndIr
  <2>4. QED BY <1>1, <1>2, <2>2, <2>3, Begun
<1>4. ASSUME EndDr(c) PROVE PlayerInv'
  <2>1. c.state \in Stable
    BY <1>4 DEF EndDr, Parsed
  <2>2. player' \in PlayerType /\ player'.state = player.state
        /\ player'.lastIr = player.lastIr /\ player'.lastDr = player.lastDr
    BY <1>1, <1>4, <2>1 DEF EndDr, PlayerType
  <2>3. calls' = calls /\ verdict' = verdict
    BY <1>4 DEF EndDr
  <2>4. QED BY <1>1, <1>2, <2>2, <2>3, Begun
<1>5. ASSUME State(c) PROVE PlayerInv'
  <2>1. c.path \in Seq(Stable)
    BY <1>5 DEF State, Parsed
  <2> DEFINE k == [i \in DOMAIN c.path |-> Goto(c.path[i])]
  <2>2. calls' = k /\ player' = player /\ verdict' = verdict
    BY <1>5 DEF State
  <2>3. \A i \in 1 .. Len(c.path) : c.path[i] \in Stable
    BY <2>1
  <2>4. k \in [1 .. Len(c.path) -> Gotos]
    BY <2>1, <2>3, CallsTyped
  <2> HIDE DEF k
  <2>5. Len(c.path) \in Nat
    BY <2>1
  <2>6. k \in Seq(Gotos)
    BY <2>4, <2>5
  <2>7. k \in Seq(CallSet)
    <3>1. k \in [1 .. Len(c.path) -> CallSet]
      BY <2>4, CallsTyped
    <3>2. QED BY <2>5, <3>1
  <2>8. QED BY <1>1, <2>2, <2>6, <2>7, Begun
<1>6. ASSUME RunTest(c) PROVE PlayerInv'
  <2> DEFINE run == IF c.run # None THEN c.run ELSE player.runState
             end == IF c.end # None THEN c.end
                    ELSE IF c.run # None THEN c.run ELSE player.endState
             w == [call |-> IF run = "Reset" THEN "ones" ELSE "idle", n |-> c.n]
  <2>1. c.n \in Nat /\ run \in Stable /\ end \in Stable
    BY <1>1, <1>6 DEF RunTest, Parsed, PlayerType
  <2>2. /\ player' = [player EXCEPT !.runState = run, !.endState = end]
        /\ calls' = <<Goto(run), w, Goto(end)>> /\ verdict' = verdict
    BY <1>6 DEF RunTest
  <2>3. w \in Waits /\ run \in Idling(w)
    BY <2>1 DEF Waits, Idling
  <2> HIDE DEF run, end, w
  <2>4. player' \in PlayerType /\ player'.state = player.state
        /\ player'.lastIr = player.lastIr /\ player'.lastDr = player.lastDr
    BY <1>1, <2>1, <2>2 DEF PlayerType
  <2>5. Goto(run) \in CallSet /\ w \in CallSet /\ Goto(end) \in CallSet /\ Goto(end) \in Gotos
    BY <2>1, <2>3, CallsTyped
  <2>6. calls' \in Seq(CallSet) /\ Len(calls') = 3 /\ calls'[1] = Goto(run) /\ calls'[2] = w /\ calls'[3] = Goto(end)
    BY <2>2, <2>5
  <2>7. QED BY <1>1, <2>2, <2>3, <2>4, <2>5, <2>6, Begun
<1>7. ASSUME Shift(c) PROVE PlayerInv'
  <2> DEFINE isIr == c.cmd = "SIR"
             last == IF isIr THEN player.lastIr ELSE player.lastDr
             carries == last # None /\ last.len = c.len
             tdi == IF c.tdi # None THEN c.tdi ELSE IF carries THEN last.tdi ELSE None
             mask == IF c.mask # None THEN c.mask
                     ELSE IF carries THEN last.mask ELSE [i \in 1 .. c.len |-> 1]
             now == [len |-> c.len, tdi |-> tdi, mask |-> mask]
             k == [call |-> "shift", ir |-> isIr, tdi |-> tdi, want |-> c.tdo, mask |-> mask]
             end == IF isIr THEN player.endIr ELSE player.endDr
  <2>1. c.len \in Nat /\ {c.tdi, c.tdo, c.mask} \subseteq Bits(c.len) \cup {None}
    BY <1>7 DEF Shift, Parsed
  <2>2. CASE Refused(tdi)
    <3>1. verdict' = "error" /\ UNCHANGED <<player, calls>>
      BY <1>7, <2>2 DEF Shift
    <3>2. QED BY <1>1, <1>2, <3>1, Begun
  <2>3. CASE ~Refused(tdi)
    <3>1. /\ player' = IF isIr THEN [player EXCEPT !.lastIr = now] ELSE [player EXCEPT !.lastDr = now]
          /\ calls' = IF c.len > 0 THEN <<Goto(IF isIr THEN "IrShift" ELSE "DrShift"), k>> \o <<Goto(end)>>
                      ELSE <<Goto(end)>>
          /\ verdict' = verdict
      BY <1>7, <2>3 DEF Shift
    <3>2. last \in Lasts /\ LastOK(last)
      BY <1>1 DEF PlayerType
    <3>3. carries => last.tdi \in Bits(c.len) /\ last.mask \in Bits(c.len)
      BY <3>2 DEF LastOK
    <3>4. tdi \in Bits(c.len)
      BY <2>1, <2>3, <3>3 DEF Refused
    <3>5. mask \in Bits(c.len)
      <4>1. [i \in 1 .. c.len |-> 1] \in Bits(c.len)
        BY <2>1 DEF Bits, Bit
      <4>2. QED BY <2>1, <3>3, <4>1
    <3>6. \A b \in Bits(c.len) : b \in Seq(Bit) /\ Len(b) = c.len
      BY <2>1 DEF Bits
    <3>7. now \in Lasts /\ LastOK(now)
      BY <2>1, <3>4, <3>5, <3>6 DEF Lasts, LastOK
    <3>8. end \in Stable
      BY <1>1 DEF PlayerType
    <3>9. c.len > 0 => k \in Shifts
      <4>1. c.len > 0 => tdi # <<>>
        BY <2>1, <3>4, <3>6
      <4>2. c.tdo \in Seq(Bit) \cup {None}
        BY <2>1, <3>6
      <4>3. isIr \in BOOLEAN
        OBVIOUS
      <4> HIDE DEF isIr, tdi, mask
      <4>4. QED BY <3>4, <3>5, <3>6, <4>1, <4>2, <4>3 DEF Shifts
    <3>10. Goto(IF isIr THEN "IrShift" ELSE "DrShift") = Goto(Shifting(k))
      <4> HIDE DEF isIr, tdi, mask
      <4>1. QED BY DEF Shifting
    <3> HIDE DEF now
    <3>11. /\ player' \in PlayerType /\ player'.state = player.state
           /\ LastOK(player'.lastIr) /\ LastOK(player'.lastDr)
      <4>1. CASE isIr
        BY <1>1, <3>1, <3>7, <4>1 DEF PlayerType
      <4>2. CASE ~isIr
        BY <1>1, <3>1, <3>7, <4>2 DEF PlayerType
      <4>3. QED BY <4>1, <4>2
    <3> HIDE DEF isIr, tdi, mask, k, end
    <3>12. CASE c.len > 0
      <4> DEFINE g == Goto(Shifting(k))
                 e == Goto(end)
      <4>1. k \in Shifts /\ k \in CallSet
        BY <3>9, <3>12, CallsTyped
      <4>2. g \in CallSet /\ e \in CallSet /\ e \in Gotos
        <5>1. Shifting(k) \in TapState
          BY DEF Shifting, TapState
        <5>2. QED BY <3>8, <5>1, CallsTyped
      <4>3. calls' = <<g, k>> \o <<e>>
        BY <3>1, <3>10, <3>12
      <4> HIDE DEF g, e
      <4>4. calls' \in Seq(CallSet) /\ Len(calls') = 3 /\ calls'[1] = g /\ calls'[2] = k /\ calls'[3] = e
        BY <4>1, <4>2, <4>3
      <4>5. calls'[1] = Goto(Shifting(calls'[2]))
        BY <4>4 DEF g
      <4>6. QED BY <1>1, <3>1, <3>11, <4>1, <4>2, <4>4, <4>5, Begun
    <3>13. CASE ~(c.len > 0)
      <4>1. calls' = <<Goto(end)>>
        BY <3>1, <3>13
      <4>2. Goto(end) \in CallSet /\ Goto(end) \in Gotos
        BY <3>8, CallsTyped
      <4>3. calls' \in Seq(CallSet) /\ calls' \in Seq(Gotos)
        BY <4>1, <4>2
      <4>4. QED BY <1>1, <3>1, <3>11, <4>3, Begun
    <3>14. QED BY <3>12, <3>13
  <2>4. QED BY <2>2, <2>3
<1>8. QED BY <1>3, <1>4, <1>5, <1>6, <1>7 DEF Begin

LEMMA PlayerStarts == Init => PlayerInv
<1> SUFFICES ASSUME Init PROVE PlayerInv
  OBVIOUS
<1>1. PICK s \in TapState, r \in Bits(IrBits) \cup {Idcode} :
       tap = [state |-> s, irShift |-> [i \in 1 .. IrBits |-> 0], ir |-> r,
              drShift |-> [i \in 1 .. DrBits |-> 0], dr |-> [i \in 1 .. DrBits |-> 0]]
  BY DEF Init
<1>2. [i \in 1 .. IrBits |-> 0] \in Bits(IrBits) /\ [i \in 1 .. DrBits |-> 0] \in Bits(DrBits)
  BY DEF Bits, Bit
<1>3. TypeOK
  BY <1>1, <1>2 DEF Init, TypeOK, Stable
<1>4. /\ player \in PlayerType /\ LastOK(player.lastIr) /\ LastOK(player.lastDr)
      /\ said.first \in BOOLEAN /\ player.state = Unknown
  BY DEF Init, PlayerType, Lasts, LastOK, Stable
<1>5. Unmoved /\ ToShift
  <2>1. <<>> \in Seq(Bit)
    OBVIOUS
  <2>2. Unknown \notin {"DrShift", "IrShift"}
    BY RegistersAssumption DEF TapState
  <2>3. QED BY <2>1, <2>2, RegistersAssumption DEF Init, Unmoved, ToShift
<1>6. Ahead
  <2>1. Unknown \notin {"DrShift", "IrShift", "DrExit1", "IrExit1"}
    BY RegistersAssumption DEF TapState
  <2>2. QED BY <1>4, <2>1 DEF Init, Ahead
<1>7. QED BY <1>3, <1>4, <1>5, <1>6 DEF PlayerInv, PlayerType

LEMMA NothingEnds == \A v, n : EndsWith(v, n, <<>>)
<1>1. Len(<<>>) = 0
  OBVIOUS
<1>2. QED BY <1>1 DEF EndsWith

\* A way on the wire.
LEMMA OnWire ==
  ASSUME NEW path \in Seq(BOOLEAN)
  PROVE  /\ Tms(path) \in Seq([tms: BOOLEAN, tdi: Bit])
         /\ Levels(Tms(path)) = path
         /\ Tms(path) = <<>> <=> path = <<>>
<1> DEFINE w == Tms(path)
           n == Len(path)
<1>1. n \in Nat /\ DOMAIN path = 1 .. n /\ \A i \in 1 .. n : path[i] \in BOOLEAN
  OBVIOUS
<1>2. w = [i \in 1 .. n |-> [tms |-> path[i], tdi |-> 0]]
  BY <1>1 DEF Tms
<1>3. \A i \in 1 .. n : w[i] = [tms |-> path[i], tdi |-> 0]
  BY <1>2
<1>4. \A i \in 1 .. n : [tms |-> path[i], tdi |-> 0] \in [tms: BOOLEAN, tdi: Bit]
  BY <1>1 DEF Bit
<1> DEFINE R == [tms: BOOLEAN, tdi: Bit]
<1>5. w \in [1 .. n -> R]
  BY <1>2, <1>4
<1> HIDE DEF w, R
<1>6. w \in Seq(R) /\ Len(w) = n /\ DOMAIN w = 1 .. n
  <2> HIDE DEF n
  <2>1. w \in Seq(R) /\ DOMAIN w = 1 .. n
    BY <1>1, <1>5
  <2>2. QED BY <1>1, <2>1
<1>7. Levels(w) = [i \in 1 .. n |-> path[i]]
  BY <1>3, <1>6 DEF Levels
<1>8. Levels(w) = path
  BY <1>1, <1>7
<1>9. w = <<>> <=> path = <<>>
  BY <1>6
<1>10. QED BY <1>6, <1>8, <1>9 DEF w, R

\* The calls made are those a command is made of, one after the other.
LEMMA Called ==
  ASSUME PlayerInv, Call
  PROVE  LET k == Head(calls) IN
         /\ calls' = Tail(calls) /\ calls' \in Seq(CallSet) /\ wire = <<>> /\ check = None
         /\ verdict = "playing" /\ UNCHANGED <<tap, verdict>>
         /\ \/ /\ Move(k) /\ k.to \in Targets \cup {"Reset"}
               /\ player.state \notin {"DrShift", "IrShift"}
               /\ player'.state = k.to => Ahead'
            \/ /\ Scan(k) /\ k \in Shifts /\ player.state = Shifting(k)
               /\ player'.state \in {"DrExit1", "IrExit1"} => Ahead'
            \/ /\ Wait(k) /\ k \in Waits /\ player.state \in Idling(k)
               /\ player'.state = player.state => Ahead'
<1> DEFINE k == Head(calls)
<1>1. /\ calls' = Tail(calls) /\ wire = <<>> /\ check = None /\ calls # <<>>
      /\ verdict = "playing" /\ UNCHANGED <<tap, verdict>>
      /\ Move(k) \/ Scan(k) \/ Wait(k)
  BY DEF Call
<1>2. calls \in Seq(CallSet)
  BY CallsTyped DEF PlayerInv
<1>3. /\ calls' \in Seq(CallSet) /\ Len(calls) \in Nat /\ Len(calls) > 0 /\ k = calls[1]
      /\ Len(calls') = Len(calls) - 1
      /\ \A i \in 1 .. Len(calls) - 1 : calls'[i] = calls[i + 1]
  BY <1>1, <1>2
<1>4. \A x \in Gotos : x.call = "goto" /\ x.to \in Stable
  BY DEF Gotos
<1>5. \A x \in Shifts : x.call = "shift" /\ x.ir \in BOOLEAN
  BY DEF Shifts
<1>6. \A x \in Waits : x.call \in {"ones", "idle"}
  BY DEF Waits
<1>7. \A s : Goto(s).call = "goto" /\ Goto(s).to = s
  BY DEF Goto
<1>8. \A x : Shifting(x) \in {"DrShift", "IrShift"} /\ Idling(x) \subseteq Stable
  BY DEF Shifting, Idling, Stable
<1>9. /\ Stable \subseteq Targets \cup {"Reset"} /\ {"DrShift", "IrShift"} \subseteq Targets
      /\ Stable \cap {"DrShift", "IrShift", "DrExit1", "IrExit1"} = {}
      /\ Unknown \notin {"DrShift", "IrShift"}
  BY RegistersAssumption DEF Stable, Targets, TapState
<1>10. Move(k) => k.call = "goto"
  BY DEF Move
<1>11. Scan(k) => k.call = "shift"
  BY DEF Scan
<1>12. Wait(k) => k.call \in {"ones", "idle"}
  BY DEF Wait
<1> SUFFICES \/ /\ Move(k) /\ k.to \in Targets \cup {"Reset"}
                /\ player.state \notin {"DrShift", "IrShift"}
                /\ player'.state = k.to => Ahead'
             \/ /\ Scan(k) /\ k \in Shifts /\ player.state = Shifting(k)
                /\ player'.state \in {"DrExit1", "IrExit1"} => Ahead'
             \/ /\ Wait(k) /\ k \in Waits /\ player.state \in Idling(k)
                /\ player'.state = player.state => Ahead'
  BY <1>1, <1>3
<1> HIDE DEF k
<1>13. CASE calls \in Seq(Gotos) /\ player.state \notin {"DrShift", "IrShift"}
  <2>1. k \in Gotos /\ calls' \in Seq(Gotos)
    BY <1>1, <1>3, <1>13
  <2>2. Move(k)
    BY <1>1, <1>4, <1>11, <1>12, <2>1
  <2>3. player'.state = k.to => Ahead'
    BY <1>4, <1>9, <2>1 DEF Ahead
  <2>4. QED BY <1>4, <1>9, <1>13, <2>1, <2>2, <2>3
<1>14. CASE /\ Len(calls) = 3 /\ calls[3] \in Gotos
            /\ player.state \in Stable \cup {Unknown}
            /\ \/ calls[2] \in Shifts /\ calls[1] = Goto(Shifting(calls[2]))
               \/ calls[2] \in Waits /\ calls[1] \in {Goto(s) : s \in Idling(calls[2])}
  <2>1. k.call = "goto" /\ k.to \in Targets \cup {"Reset"} /\ player.state \notin {"DrShift", "IrShift"}
    BY <1>3, <1>7, <1>8, <1>9, <1>14
  <2>2. Move(k)
    BY <1>1, <1>11, <1>12, <2>1
  <2>3. Len(calls') = 2 /\ calls'[1] = calls[2] /\ calls'[2] = calls[3]
    BY <1>3, <1>14
  <2>4. \/ calls[2] \in Shifts /\ k.to = Shifting(calls[2])
        \/ calls[2] \in Waits /\ k.to \in Idling(calls[2])
    BY <1>3, <1>7, <1>14
  <2>5. player'.state = k.to => Ahead'
    <3> SUFFICES ASSUME player'.state = k.to PROVE Ahead'
      OBVIOUS
    <3>1. \/ calls'[1] \in Shifts /\ player'.state = Shifting(calls'[1])
          \/ calls'[1] \in Waits /\ player'.state \in Idling(calls'[1])
      BY <2>3, <2>4
    <3>2. QED BY <1>14, <2>3, <3>1 DEF Ahead
  <2>6. QED BY <2>1, <2>2, <2>5
<1>15. CASE /\ Len(calls) = 2 /\ calls[2] \in Gotos
            /\ \/ calls[1] \in Shifts /\ player.state = Shifting(calls[1])
               \/ calls[1] \in Waits /\ player.state \in Idling(calls[1])
  <2>1. Len(calls') = 1 /\ calls'[1] \in Gotos
    BY <1>3, <1>15
  <2>2. calls' \in Seq(Gotos) /\ calls' # <<>>
    <3>1. calls' = [i \in 1 .. 1 |-> calls'[i]]
      BY <1>3, <2>1
    <3> DEFINE x == calls'[1]
    <3>2. x \in Gotos /\ calls' = <<x>>
      BY <2>1, <3>1
    <3> HIDE DEF x
    <3>3. QED BY <3>2
  <2>3. player'.state \in {"DrExit1", "IrExit1"} \cup Stable => Ahead'
    BY <1>9, <2>2 DEF Ahead
  <2>4. CASE k \in Shifts /\ player.state = Shifting(k)
    <3>1. Scan(k)
      BY <1>1, <1>5, <1>10, <1>12, <2>4
    <3>2. QED BY <2>3, <2>4, <3>1
  <2>5. CASE k \in Waits /\ player.state \in Idling(k)
    <3>1. Wait(k)
      BY <1>1, <1>6, <1>10, <1>11, <2>5
    <3>2. QED BY <1>8, <2>3, <2>5, <3>1
  <2>6. QED BY <1>3, <1>15, <2>4, <2>5
<1>16. QED BY <1>13, <1>14, <1>15 DEF PlayerInv, Ahead

-----------------------------------------------------------------------------
(* A move.                                                                 *)

\* Where the player is when it is to move.
LEMMA MovesFrom ==
  ASSUME PlayerInv, Call, player.state \notin {"DrShift", "IrShift"}
  PROVE  \/ Unmoved
         \/ Resting /\ player.state \in Stable \cup {"DrExit1", "IrExit1"} /\ player.state \in TapState
<1>1. Unmoved \/ Resting
  BY AtRest DEF PlayerInv, Call, Standing
<1>2. Resting => player.state \in Stable \cup {"DrExit1", "IrExit1"}
  BY DEF Resting
<1>3. Stable \cup {"DrExit1", "IrExit1"} \subseteq TapState
  BY DEF Stable, TapState
<1>4. QED BY <1>1, <1>2, <1>3

\* What is kept of what was said.
LEMMA SaidWhenMoving ==
  ASSUME NEW from, NEW to \in Targets \cup {"Reset"}
  PROVE  LET s == Said(from, to) IN
         /\ s.first <=> from = Unknown
         /\ s.first \in BOOLEAN
         /\ from \in TapState /\ to = "Reset" => s.ir = Idcode /\ s.dr = said.dr
         /\ s.dr \in Nothing \/ s.dr = said.dr
         /\ from \in TapState /\ to # "Reset" => s.ir \in Nothing \/ s.ir = said.ir
         /\ from = Unknown => s.ir \in Nothing \cup {Idcode}
         /\ from = Unknown /\ to \in {"IrPause", "IrShift"} => s.ir \in Nothing
         /\ from = Unknown /\ to = "Reset" => s.ir = Idcode
         /\ to \in {"DrPause", "DrShift"} /\ from \notin DrScan => s.dr \in Nothing
         /\ to \in {"IrPause", "IrShift"} /\ from \notin IrScan => s.ir \in Nothing
         /\ to # "IrShift" => s.ir # <<>> \/ s.ir = said.ir
         /\ to = "DrShift" => s.dr # Unknown
         /\ to = "IrShift" => s.ir = <<>> \/ (s.ir = said.ir /\ said.ir # Unknown /\ from \in IrScan)
<1>1. /\ Unknown \notin TapState /\ Unknown # Idcode /\ <<>> # Unknown /\ <<>> # Idcode
      /\ Unknown \notin IrScan /\ Unknown \notin DrScan
  <2>1. <<>> \in Seq(Bit)
    OBVIOUS
  <2>2. IrScan \subseteq TapState /\ DrScan \subseteq TapState
    BY DEF IrScan, DrScan, TapState
  <2>3. QED BY <2>1, <2>2, RegistersAssumption
<1> DEFINE i == Kept(IF from = Unknown \/ to = "Reset" THEN Idcode ELSE said.ir,
                     IrScan, "IrShift", "IrPause", from, to)
           d == Kept(said.dr, DrScan, "DrShift", "DrPause", from, to)
<1>2. Said(from, to) = [ir |-> i, dr |-> d, first |-> from = Unknown]
  BY DEF Said
<1>3. /\ to = "DrShift" /\ (from \notin DrScan \/ said.dr = Unknown) => d = <<>>
      /\ to = "DrPause" /\ from \notin DrScan => d = Unknown
      /\ ~(to = "DrShift" /\ (from \notin DrScan \/ said.dr = Unknown))
         /\ ~(to = "DrPause" /\ from \notin DrScan) => d = said.dr
  BY DEF Kept
<1>4. ASSUME NEW b, b = IF from = Unknown \/ to = "Reset" THEN Idcode ELSE said.ir
      PROVE  /\ to = "IrShift" /\ (from \notin IrScan \/ b = Unknown) => i = <<>>
             /\ to = "IrPause" /\ from \notin IrScan => i = Unknown
             /\ ~(to = "IrShift" /\ (from \notin IrScan \/ b = Unknown))
                /\ ~(to = "IrPause" /\ from \notin IrScan) => i = b
  BY <1>4 DEF Kept
<1> HIDE DEF i, d
<1>5. PICK b : b = IF from = Unknown \/ to = "Reset" THEN Idcode ELSE said.ir
  OBVIOUS
<1>6. /\ to = "IrShift" /\ (from \notin IrScan \/ b = Unknown) => i = <<>>
      /\ to = "IrPause" /\ from \notin IrScan => i = Unknown
      /\ ~(to = "IrShift" /\ (from \notin IrScan \/ b = Unknown))
         /\ ~(to = "IrPause" /\ from \notin IrScan) => i = b
  BY <1>4, <1>5
<1> DEFINE s == Said(from, to)
<1>7. s.ir = i /\ s.dr = d /\ s.first = (from = Unknown)
  BY <1>2
<1> HIDE DEF s
<1>8. /\ s.dr \in Nothing \/ s.dr = said.dr
      /\ to = "Reset" => s.dr = said.dr
      /\ to \in {"DrPause", "DrShift"} /\ from \notin DrScan => s.dr \in Nothing
      /\ to = "DrShift" => s.dr # Unknown
  BY <1>1, <1>3, <1>7 DEF Nothing
<1>9. /\ from \in TapState /\ to = "Reset" => s.ir = Idcode
      /\ from \in TapState /\ to # "Reset" => s.ir \in Nothing \/ s.ir = said.ir
      /\ to \in {"IrPause", "IrShift"} /\ from \notin IrScan => s.ir \in Nothing
      /\ to = "IrShift" => s.ir = <<>> \/ (s.ir = said.ir /\ said.ir # Unknown /\ from \in IrScan)
  BY <1>1, <1>5, <1>6, <1>7 DEF Nothing
<1>10. /\ from = Unknown => s.ir \in Nothing \cup {Idcode}
       /\ from = Unknown /\ to \in {"IrPause", "IrShift"} => s.ir \in Nothing
       /\ from = Unknown /\ to = "Reset" => s.ir = Idcode
       /\ to # "IrShift" => s.ir # <<>> \/ s.ir = said.ir
  BY <1>1, <1>5, <1>6, <1>7 DEF Nothing
<1>11. s.first \in BOOLEAN /\ (s.first <=> from = Unknown)
  BY <1>7
<1>12. QED BY <1>8, <1>9, <1>10, <1>11 DEF s

LEMMA FiveHighs == FiveOnes = Highs(5) /\ FiveOnes \in Seq(BOOLEAN)
<1> DEFINE t == TRUE
           f == <<t, t, t, t, t>>
<1>1. t \in BOOLEAN
  OBVIOUS
<1>2. FiveOnes = f
  BY DEF FiveOnes
<1>3. Highs(5) = [i \in 1 .. 5 |-> t]
  BY DEF Highs
<1> HIDE DEF t
<1>4. f \in Seq(BOOLEAN) /\ f = [i \in 1 .. 5 |-> t]
  BY <1>1
<1>5. QED BY <1>2, <1>3, <1>4

LEMMA MoveStands ==
  ASSUME PlayerInv, Call, NEW k, Move(k), k.to \in Targets \cup {"Reset"},
         player.state \notin {"DrShift", "IrShift"}, UNCHANGED tap, wire = <<>>
  PROVE  /\ Standing' /\ wire' \in Seq([tms: BOOLEAN, tdi: Bit])
         /\ ToShift'
<1> DEFINE from == player.state
           to == k.to
<1>1. /\ wire' = Tms(Way(from, to)) /\ player' = [player EXCEPT !.state = to]
      /\ said' = Said(from, to)
  BY DEF Move
<1>2. player'.state = to /\ to \in TapState
  BY <1>1 DEF PlayerInv, Targets, TapState
<1>3. \/ Unmoved
      \/ Resting /\ from \in Stable \cup {"DrExit1", "IrExit1"} /\ from \in TapState
  BY MovesFrom
<1>4. Unmoved => from = Unknown
  BY DEF Unmoved
<1>5. Unknown \notin TapState
  BY RegistersAssumption
<1>6. FiveOnes = Highs(5) /\ FiveOnes \in Seq(BOOLEAN)
  BY FiveHighs
<1>7. tap.state \in TapState /\ ToReset(tap.state) <= 5
  BY DEF PlayerInv, TypeOK, ToReset, TapState
<1>8. 5 \in 1 .. 5 /\ <<>> \in Seq(BOOLEAN)
  OBVIOUS
<1>9. FiveOnes = Highs(5) \o <<>>
  BY <1>6
<1>10. "Reset" \in TapState
  BY DEF TapState
<1>11. ToShift'
  <2>1. said.ir = <<>> => player.state = "IrShift"
    BY DEF PlayerInv, ToShift
  <2>2. (said.ir = <<>> => player.state = "IrShift")'
    BY <1>1, <1>2, <2>1, SaidWhenMoving
  <2>3. to = "DrShift" => said'.dr # Unknown
    BY <1>1, SaidWhenMoving
  <2>4. to = "IrShift" => said'.ir \notin {Unknown, Idcode}
    <3> SUFFICES ASSUME to = "IrShift" PROVE said'.ir \notin {Unknown, Idcode}
      OBVIOUS
    <3>1. said'.ir = <<>> \/ (said'.ir = said.ir /\ said.ir # Unknown /\ from \in IrScan)
      BY <1>1, SaidWhenMoving
    <3>2. CASE said'.ir = <<>>
      <4>1. <<>> \in Seq(Bit)
        OBVIOUS
      <4>2. QED BY <3>2, <4>1, RegistersAssumption
    <3>3. CASE said'.ir = said.ir /\ said.ir # Unknown /\ from \in IrScan
      <4>1. IrScan \subseteq TapState
        BY DEF IrScan, TapState
      <4>2. Resting
        BY <1>3, <1>4, <1>5, <3>3, <4>1
      <4>3. IrKept(tap) /\ tap.state = from
        BY <4>2 DEF Resting
      <4>4. QED BY <3>3, <4>3 DEF IrKept
    <3>4. QED BY <3>1, <3>2, <3>3
  <2>5. QED BY <1>2, <2>2, <2>3, <2>4 DEF ToShift
<1>12. ASSUME (DrKept(tap) \/ said.dr \in Nothing), said'.dr \in Nothing \/ said'.dr = said.dr PROVE DrKept(tap)'
  <2>1. CASE said'.dr = <<>>
    BY <2>1, NothingEnds, RegistersAssumption DEF DrKept
  <2>2. CASE said'.dr = Unknown
    BY <2>2 DEF DrKept
  <2>3. CASE said'.dr = said.dr
    <3>1. CASE said.dr \in Nothing
      BY <2>1, <2>2, <2>3, <3>1 DEF Nothing
    <3>2. CASE DrKept(tap)
      BY <2>3, <3>2 DEF DrKept, EndsWith
    <3>3. QED BY <1>12, <3>1, <3>2
  <2>4. QED BY <1>12, <2>1, <2>2, <2>3 DEF Nothing
<1>13. CASE from = Unknown
  <2>1. Unmoved
    BY <1>3, <1>5, <1>13
  <2>2. said.dr = Unknown /\ said.ir = Unknown
    BY <2>1 DEF Unmoved
  <2>3. /\ said'.first /\ said'.ir \in Nothing \cup {Idcode}
        /\ to \in {"IrPause", "IrShift"} => said'.ir \in Nothing
        /\ said'.dr \in Nothing
        /\ to = "Reset" => said'.ir = Idcode
    BY <1>1, <1>13, <2>2, SaidWhenMoving DEF Nothing
  <2>4. DrKept(tap)'
    BY <1>12, <2>2, <2>3 DEF Nothing
  <2>5. CASE to = "Reset"
    <3>1. wire' = Tms(FiveOnes)
      BY <1>1, <2>5 DEF Way
    <3>2. Levels(wire') = Highs(5) \o <<>> /\ wire' \in Seq([tms: BOOLEAN, tdi: Bit])
      BY <1>6, <1>9, <3>1, OnWire
    <3>3. Resetting'
      BY <1>2, <1>7, <1>8, <2>3, <2>4, <2>5, <3>2 DEF Resetting, Levels
    <3>4. QED BY <1>11, <3>2, <3>3 DEF Standing
  <2>6. CASE to # "Reset"
    <3> DEFINE p == PathTo["Reset"][to]
    <3>1. to \in Targets
      BY <2>6
    <3>2. OnTheWay(p, "Reset", to)
      BY <1>10, <3>1, Ways
    <3>3. wire' = Tms(FiveOnes \o p)
      BY <1>1, <1>13, <2>6 DEF Way
    <3> HIDE DEF p
    <3>4. p \in Seq(BOOLEAN)
      BY <3>2 DEF OnTheWay
    <3>5. FiveOnes \o p \in Seq(BOOLEAN)
      BY <1>6, <3>4
    <3>6. Levels(wire') = Highs(5) \o p /\ wire' \in Seq([tms: BOOLEAN, tdi: Bit])
      BY <1>6, <3>3, <3>5, OnWire
    <3>7. Resetting'
      BY <1>2, <1>7, <1>8, <2>3, <2>4, <2>6, <3>1, <3>2, <3>4, <3>6 DEF Resetting, Levels
    <3>8. QED BY <1>11, <3>6, <3>7 DEF Standing
  <2>7. QED BY <2>5, <2>6
<1>14. CASE from # Unknown
  <2>1. Resting /\ from \in Stable \cup {"DrExit1", "IrExit1"} /\ from \in TapState
    BY <1>3, <1>4, <1>14
  <2>2. from = tap.state /\ DrKept(tap) /\ IrKept(tap)
    BY <2>1 DEF Resting
  <2>3. ~said'.first /\ said'.first \in BOOLEAN /\ (said'.dr \in Nothing \/ said'.dr = said.dr)
    BY <1>1, <1>14, SaidWhenMoving
  <2>4. DrKept(tap)'
    BY <1>12, <2>2, <2>3
  <2>5. CASE to = "Reset"
    <3>1. wire' = Tms(FiveOnes)
      BY <1>1, <2>5 DEF Way
    <3>2. Levels(wire') = Highs(5) \o <<>> /\ wire' \in Seq([tms: BOOLEAN, tdi: Bit])
      BY <1>6, <1>9, <3>1, OnWire
    <3>3. said'.ir = Idcode
      BY <1>1, <2>1, <2>5, SaidWhenMoving
    <3>4. tap'.state # "DrShift"
      BY <2>2
    <3>5. Resetting'
      BY <1>2, <1>7, <1>8, <2>3, <2>4, <2>5, <3>2, <3>3, <3>4 DEF Resetting, Levels
    <3>6. QED BY <1>11, <3>2, <3>5 DEF Standing
  <2>6. CASE to # "Reset"
    <3> DEFINE p == PathTo[from][to]
    <3>1. to \in Targets
      BY <2>6
    <3>2. OnTheWay(p, from, to)
      BY <2>1, <3>1, Ways
    <3>3. wire' = Tms(p)
      BY <1>1, <1>14, <2>6 DEF Way
    <3> HIDE DEF p
    <3>4. p \in Seq(BOOLEAN)
      BY <3>2 DEF OnTheWay
    <3>5. Levels(wire') = p /\ wire' \in Seq([tms: BOOLEAN, tdi: Bit]) /\ (wire' = <<>> <=> p = <<>>)
      BY <3>3, <3>4, OnWire
    <3>6. said'.ir \in Nothing \/ said'.ir = said.ir
      BY <1>1, <2>1, <2>6, SaidWhenMoving
    <3>7. IrKept(tap)'
      <4>1. CASE said'.ir = <<>>
        <5>1. <<>> # Idcode
          <6>1. <<>> \in Seq(Bit)
            OBVIOUS
          <6>2. QED BY <6>1, RegistersAssumption
        <5>2. QED BY <4>1, <5>1, NothingEnds, RegistersAssumption DEF IrKept
      <4>2. CASE said'.ir = Unknown
        BY <4>2 DEF IrKept
      <4>3. CASE said'.ir = said.ir
        BY <2>2, <4>3 DEF IrKept, EndsWith
      <4>4. QED BY <3>6, <4>1, <4>2, <4>3 DEF Nothing
    <3>8. CASE p = <<>>
      <4>1. from = to
        BY <3>2, <3>8, Arrived
      <4>2. to \in Stable
        BY <2>1, <3>1, <4>1 DEF Stable, Targets
      <4>3. to # "Reset"
        BY <2>6
      <4>4. Resting'
        BY <1>2, <2>2, <2>4, <3>5, <3>7, <3>8, <4>1, <4>2, <4>3 DEF Resting
      <4>5. QED BY <1>11, <3>5, <4>4 DEF Standing
    <3>9. CASE p # <<>>
      <4>1. Avoids(from, to)
        BY <2>1 DEF Avoids, Stable
      <4>2. from \in DrScan => from \in DrHeld
        BY <2>1 DEF DrScan, DrHeld, Stable
      <4>3. from \in IrScan => from \in IrHeld
        BY <2>1 DEF IrScan, IrHeld, Stable
      <4>4. /\ to \in {"DrPause", "DrShift"} /\ from \notin DrScan => said'.dr \in Nothing
            /\ to \in {"IrPause", "IrShift"} /\ from \notin IrScan => said'.ir \in Nothing
        BY <1>1, <2>6, SaidWhenMoving
      <4>5. Fresh(tap.state, player.state)'
        BY <1>2, <2>2, <4>2, <4>3, <4>4 DEF Fresh, Nothing
      <4>6. Heading'
        <5>1. OnTheWay(Levels(wire'), tap'.state, player'.state)
          BY <1>2, <2>2, <3>2, <3>5
        <5>2. Avoids(tap'.state, player'.state)
          BY <1>2, <2>2, <4>1
        <5>3. QED BY <1>2, <2>4, <3>1, <3>5, <3>7, <3>9, <4>5, <5>1, <5>2 DEF Heading, Levels
      <4>7. QED BY <1>11, <3>5, <4>6 DEF Standing
    <3>10. QED BY <3>8, <3>9
  <2>7. QED BY <2>5, <2>6
<1>15. QED BY <1>13, <1>14

-----------------------------------------------------------------------------
(* A scan.                                                                 *)

\* The last n of some bits end what the bits ended.
LEMMA RecentEnds ==
  ASSUME NEW b \in Seq(Bit), NEW n \in Nat
  PROVE  /\ Recent(b, n) \in Seq(Bit) /\ Len(Recent(b, n)) <= n
         /\ n > 0 /\ b # <<>> => Recent(b, n) # <<>>
         /\ \A v : \A m \in Nat : EndsWith(v, m, b) => EndsWith(v, m, Recent(b, n))
<1>1. CASE Len(b) <= n
  BY <1>1 DEF Recent
<1>2. CASE ~(Len(b) <= n)
  <2> DEFINE l == Len(b)
             r == SubSeq(b, l - n + 1, l)
  <2>1. l \in Nat /\ l > n /\ Recent(b, n) = r
    BY <1>2 DEF Recent
  <2>2. r \in Seq(Bit) /\ Len(r) = n /\ \A i \in 1 .. n : r[i] = b[l - n + i]
    BY <2>1
  <2> HIDE DEF r
  <2>3. ASSUME NEW v, NEW m \in Nat, EndsWith(v, m, b) PROVE EndsWith(v, m, r)
    <3>1. \A i \in 1 .. l : b[i] = v[m - l + i]
      BY <2>3 DEF EndsWith
    <3>2. ASSUME NEW i \in 1 .. n PROVE r[i] = v[m - n + i]
      <4>1. l - n + i \in 1 .. l /\ m - l + (l - n + i) = m - n + i
        BY <2>1
      <4>2. QED BY <2>2, <3>1, <4>1
    <3>3. QED BY <2>2, <3>2 DEF EndsWith
  <2>4. n > 0 => r # <<>>
    BY <2>2
  <2>5. QED BY <2>1, <2>2, <2>3, <2>4
<1>3. QED BY <1>1, <1>2

\* Bits behind bits that end a register end it with the clocks behind it.
LEMMA ScanEnds ==
  ASSUME NEW n \in Nat, NEW v, NEW b \in Seq(Bit), Len(b) <= n, EndsWith(v, n, b),
         NEW t \in Seq(Bit), NEW w, Len(w) = Len(t), \A i \in 1 .. Len(t) : w[i].tdi = t[i]
  PROVE  EndsWith(Coming(v, n, w), n + Len(w), b \o t)
<1> DEFINE l == Len(b)
           m == Len(t)
           c == Coming(v, n, w)
           a == b \o t
<1>1. l \in Nat /\ m \in Nat /\ l <= n /\ Len(w) = m
  OBVIOUS
<1>2. Len(a) = l + m /\ \A i \in 1 .. l + m : a[i] = IF i <= l THEN b[i] ELSE t[i - l]
  OBVIOUS
<1>3. \A i \in 1 .. n + m : c[i] = IF i <= n THEN v[i] ELSE w[i - n].tdi
  <2>1. c = [i \in 1 .. n + Len(w) |-> IF i <= n THEN v[i] ELSE w[i - n].tdi]
    BY DEF Coming
  <2>2. c = [i \in 1 .. n + m |-> IF i <= n THEN v[i] ELSE w[i - n].tdi]
    BY <1>1, <2>1
  <2> HIDE DEF c, m
  <2>3. QED BY <2>2
<1>4. \A i \in 1 .. l : b[i] = v[n - l + i]
  BY DEF EndsWith
<1> HIDE DEF a, c
<1>5. ASSUME NEW i \in 1 .. l + m PROVE a[i] = c[n + m - (l + m) + i]
  <2> DEFINE j == n + m - (l + m) + i
  <2>1. j = n - l + i /\ j \in 1 .. n + m
    BY <1>1
  <2>2. CASE i <= l
    <3>1. j <= n /\ i \in 1 .. l
      BY <1>1, <2>1, <2>2
    <3>2. c[j] = v[n - l + i]
      BY <1>3, <2>1, <3>1
    <3>3. QED BY <1>2, <1>4, <2>2, <3>1, <3>2
  <2>3. CASE ~(i <= l)
    <3>1. ~(j <= n) /\ j - n = i - l /\ i - l \in 1 .. m
      BY <1>1, <2>1, <2>3
    <3>2. c[j] = w[j - n].tdi
      BY <1>3, <2>1, <3>1
    <3>3. c[j] = t[i - l]
      BY <3>1, <3>2
    <3>4. QED BY <1>2, <2>3, <3>3
  <2>4. QED BY <2>2, <2>3
<1>6. QED BY <1>1, <1>2, <1>5 DEF EndsWith, a, c

\* The bits of a shift on the wire.
LEMMA OutOnWire ==
  ASSUME NEW t \in Seq(Bit)
  PROVE  /\ Out(t) \in Seq([tms: BOOLEAN, tdi: Bit]) /\ Len(Out(t)) = Len(t)
         /\ \A i \in 1 .. Len(t) : Out(t)[i].tdi = t[i] /\ (Out(t)[i].tms <=> i = Len(t))
<1> DEFINE w == Out(t)
           n == Len(t)
           R == [tms: BOOLEAN, tdi: Bit]
<1>1. n \in Nat /\ DOMAIN t = 1 .. n /\ \A i \in 1 .. n : t[i] \in Bit
  OBVIOUS
<1>2. w = [i \in 1 .. n |-> [tms |-> i = n, tdi |-> t[i]]]
  BY <1>1 DEF Out
<1>3. \A i \in 1 .. n : [tms |-> i = n, tdi |-> t[i]] \in R
  BY <1>1
<1>4. w \in [1 .. n -> R]
  BY <1>2, <1>3
<1> HIDE DEF w, R, n
<1>5. \A i \in 1 .. n : w[i].tdi = t[i] /\ (w[i].tms <=> i = n)
  <2> SUFFICES ASSUME NEW i \in 1 .. n PROVE w[i].tdi = t[i] /\ (w[i].tms <=> i = n)
    OBVIOUS
  <2> DEFINE z == i = n
  <2>1. w[i] = [tms |-> z, tdi |-> t[i]]
    BY <1>2
  <2>2. z <=> i = n
    OBVIOUS
  <2> HIDE DEF z
  <2>3. w[i].tdi = t[i] /\ w[i].tms = z
    BY <2>1
  <2>4. QED BY <2>2, <2>3
<1>6. w \in Seq(R) /\ Len(w) = n
  BY <1>1, <1>4
<1>7. QED BY <1>5, <1>6 DEF w, R, n

LEMMA ScanStands ==
  ASSUME PlayerInv, Call, NEW k \in Shifts, Scan(k), player.state = Shifting(k), wire = <<>>, UNCHANGED tap
  PROVE  /\ Standing' /\ wire' \in Seq([tms: BOOLEAN, tdi: Bit])
         /\ ToShift' /\ (said.first \in BOOLEAN)'
         /\ player' \in PlayerType /\ player'.state \in {"DrExit1", "IrExit1"}
<1>1. /\ k.tdi \in Seq(Bit) /\ k.tdi # <<>> /\ k.ir \in BOOLEAN
      /\ Len(k.tdi) \in Nat /\ Len(k.tdi) > 0
  BY DEF Shifts
<1>2. /\ wire' = Out(k.tdi)
      /\ player' = [player EXCEPT !.state = IF k.ir THEN "IrExit1" ELSE "DrExit1"]
      /\ said' = IF k.ir THEN [said EXCEPT !.ir = Recent(@ \o k.tdi, IrBits)]
                 ELSE [said EXCEPT !.dr = Recent(@ \o k.tdi, DrBits)]
  BY DEF Scan
<1>3. wire' \in Seq([tms: BOOLEAN, tdi: Bit]) /\ Len(wire') = Len(k.tdi) /\ wire' # <<>>
      /\ \A i \in 1 .. Len(k.tdi) : wire'[i].tdi = k.tdi[i] /\ (wire'[i].tms <=> i = Len(k.tdi))
  <2> DEFINE o == Out(k.tdi)
             R == [tms: BOOLEAN, tdi: Bit]
             t == k.tdi
  <2>1. t \in Seq(Bit) /\ Len(t) > 0
    BY <1>1
  <2>2. /\ o \in Seq(R) /\ Len(o) = Len(t)
        /\ \A i \in 1 .. Len(t) : o[i].tdi = t[i] /\ (o[i].tms <=> i = Len(t))
    BY <2>1, OutOnWire
  <2> HIDE DEF o, R, t
  <2>3. o # <<>>
    BY <2>1, <2>2
  <2>4. wire' = o
    BY <1>2 DEF o, t
  <2>5. QED BY <2>2, <2>3, <2>4 DEF R, t
<1>4. LastHigh'
  BY <1>3 DEF LastHigh
<1>5. player.state \in {"DrShift", "IrShift"}
  BY DEF Shifting
<1>6. Resting /\ tap.state = player.state /\ DrKept(tap) /\ IrKept(tap)
  <2>1. ~Unmoved
    <3>1. Unknown \notin {"DrShift", "IrShift"}
      BY RegistersAssumption DEF TapState
    <3>2. QED BY <1>5, <3>1 DEF Unmoved
  <2>2. Resting
    BY <2>1, AtRest DEF PlayerInv, Standing
  <2>3. QED BY <2>2 DEF Resting
<1>7. /\ IrBits \in Nat /\ DrBits \in Nat /\ IrBits > 0 /\ DrBits > 0
      /\ Unknown \notin Seq(Bit) /\ Idcode \notin Seq(Bit)
  BY RegistersAssumption
<1>8. player' \in PlayerType /\ player'.state = (IF k.ir THEN "IrExit1" ELSE "DrExit1")
  BY <1>2 DEF PlayerInv, PlayerType, TapState
<1>9. said.first \in BOOLEAN /\ ToShift
  BY DEF PlayerInv
<1>a. \A i \in 1 .. Len(k.tdi) : wire'[i].tdi = k.tdi[i]
  BY <1>3
<1>b. Len(wire') = Len(k.tdi)
  BY <1>3
<1>10. CASE k.ir
  <2>1. player.state = "IrShift" /\ tap.state = "IrShift" /\ player'.state = "IrExit1"
    BY <1>6, <1>8, <1>10 DEF Shifting
  <2>2. said.ir \in Seq(Bit)
    BY <1>6, <1>9, <2>1 DEF ToShift, IrKept
  <2>3. Len(said.ir) <= IrBits /\ EndsWith(tap.irShift, IrBits, said.ir)
    <3>1. "IrShift" \in IrHeld
      BY DEF IrHeld
    <3>2. QED BY <1>6, <1>7, <2>1, <2>2, <3>1 DEF IrKept
  <2> DEFINE a == said.ir \o k.tdi
             r == Recent(a, IrBits)
             c == Coming(tap.irShift, IrBits, wire')
  <2>4. said' = [said EXCEPT !.ir = r]
    BY <1>2, <1>10
  <2>5. a \in Seq(Bit) /\ a # <<>>
    BY <1>1, <2>2
  <2>6. EndsWith(c, IrBits + Len(wire'), a)
    BY <1>a, <1>b, <1>1, <1>7, <2>2, <2>3, ScanEnds
  <2> HIDE DEF a
  <2>7. r \in Seq(Bit) /\ Len(r) <= IrBits /\ r # <<>>
    BY <1>7, <2>5, RecentEnds
  <2>8. EndsWith(c, IrBits + Len(wire'), r)
    <3>1. IrBits + Len(wire') \in Nat
      BY <1>b, <1>1, <1>7
    <3> HIDE DEF r, c
    <3>3. QED BY <1>7, <2>5, <2>6, <3>1, RecentEnds DEF r
  <2> HIDE DEF r
  <2>9. said'.ir = r /\ said'.dr = said.dr /\ said'.first = said.first
    BY <2>4
  <2>10. DrKept(tap)'
    BY <1>6, <2>9 DEF DrKept, EndsWith
  <2>11. ScanningIr'
    BY <1>3, <1>4, <2>1, <2>7, <2>8, <2>9, <2>10 DEF ScanningIr
  <2>12. QED BY <1>3, <1>8, <1>9, <2>1, <2>7, <2>9, <2>11 DEF Standing, ToShift
<1>11. CASE ~k.ir
  <2>1. player.state = "DrShift" /\ tap.state = "DrShift" /\ player'.state = "DrExit1"
    BY <1>6, <1>8, <1>11 DEF Shifting
  <2>2. said.dr \in Seq(Bit)
    BY <1>6, <1>9, <2>1 DEF ToShift, DrKept
  <2>3. Len(said.dr) <= DrBits /\ EndsWith(tap.drShift, DrBits, said.dr)
    <3>1. "DrShift" \in DrHeld
      BY DEF DrHeld
    <3>2. QED BY <1>6, <1>7, <2>1, <2>2, <3>1 DEF DrKept
  <2> DEFINE a == said.dr \o k.tdi
             r == Recent(a, DrBits)
             c == Coming(tap.drShift, DrBits, wire')
  <2>4. said' = [said EXCEPT !.dr = r]
    BY <1>2, <1>11
  <2>5. a \in Seq(Bit)
    BY <1>1, <2>2
  <2>6. EndsWith(c, DrBits + Len(wire'), a)
    BY <1>a, <1>b, <1>1, <1>7, <2>2, <2>3, ScanEnds
  <2> HIDE DEF a
  <2>7. r \in Seq(Bit) /\ Len(r) <= DrBits
    BY <1>7, <2>5, RecentEnds
  <2>8. EndsWith(c, DrBits + Len(wire'), r)
    <3>1. DrBits + Len(wire') \in Nat
      BY <1>b, <1>1, <1>7
    <3> HIDE DEF r, c
    <3>3. QED BY <1>7, <2>5, <2>6, <3>1, RecentEnds DEF r
  <2> HIDE DEF r
  <2>9. said'.dr = r /\ said'.ir = said.ir /\ said'.first = said.first
    BY <2>4
  <2>10. IrKept(tap)'
    BY <1>6, <2>9 DEF IrKept, EndsWith
  <2>11. ScanningDr'
    BY <1>3, <1>4, <2>1, <2>7, <2>8, <2>9, <2>10 DEF ScanningDr
  <2>12. said.ir # <<>>
    BY <1>9, <2>1 DEF ToShift
  <2>13. QED BY <1>3, <1>8, <1>9, <2>1, <2>9, <2>11, <2>12 DEF Standing, ToShift
<1>12. QED BY <1>1, <1>10, <1>11

\* The clocks of a wait.
LEMMA WaitStands ==
  ASSUME PlayerInv, Call, NEW k \in Waits, Wait(k), player.state \in Idling(k), wire = <<>>, UNCHANGED tap
  PROVE  Standing' /\ wire' \in Seq([tms: BOOLEAN, tdi: Bit])
<1> DEFINE h == k.call = "ones"
           R == [tms: BOOLEAN, tdi: Bit]
<1>1. /\ wire' = [i \in 1 .. k.n |-> [tms |-> h, tdi |-> 0]] /\ k.n \in Nat
      /\ UNCHANGED <<player, said>>
  BY DEF Wait, Waits
<1>2. player.state \in Stable /\ (h <=> player.state = "Reset")
  BY DEF Idling, Waits, Stable
<1>3. Resting
  <2>1. Unknown \notin Stable
    BY RegistersAssumption DEF Stable, TapState
  <2>2. QED BY <1>2, <2>1, AtRest DEF PlayerInv, Standing, Unmoved
<1>4. DrKept(tap)' /\ IrKept(tap)'
  BY <1>1, <1>3 DEF Resting, DrKept, IrKept, EndsWith
<1>5. h \in BOOLEAN
  OBVIOUS
<1> HIDE DEF h
<1>6. [tms |-> h, tdi |-> 0] \in R
  BY <1>5 DEF Bit
<1>7. DOMAIN wire' = 1 .. k.n /\ \A i \in 1 .. k.n : wire'[i].tms = h
  <2>1. \A i \in 1 .. k.n : wire'[i] = [tms |-> h, tdi |-> 0]
    BY <1>1
  <2>2. QED BY <1>1, <2>1
<1>8. wire' \in Seq(R)
  <2> HIDE DEF R
  <2>1. wire' \in [1 .. k.n -> R]
    BY <1>1, <1>6
  <2>2. QED BY <1>1, <2>1
<1>9. Resting'
  BY <1>1, <1>2, <1>3, <1>4, <1>7 DEF Resting, Stable
<1>10. QED BY <1>8, <1>9 DEF Standing

-----------------------------------------------------------------------------
(* The player's own steps keep the invariant.                              *)
LEMMA CallKeeps ==
  ASSUME PlayerInv, Call
  PROVE  PlayerInv'
<1> DEFINE k == Head(calls)
<1>1. /\ calls' \in Seq(CallSet) /\ wire = <<>> /\ UNCHANGED <<tap, verdict>>
      /\ \/ /\ Move(k) /\ k.to \in Targets \cup {"Reset"}
            /\ player.state \notin {"DrShift", "IrShift"}
            /\ player'.state = k.to => Ahead'
         \/ /\ Scan(k) /\ k \in Shifts /\ player.state = Shifting(k)
            /\ player'.state \in {"DrExit1", "IrExit1"} => Ahead'
         \/ /\ Wait(k) /\ k \in Waits /\ player.state \in Idling(k)
            /\ player'.state = player.state => Ahead'
  BY Called
<1> HIDE DEF k
<1>2. /\ player \in PlayerType /\ LastOK(player.lastIr) /\ LastOK(player.lastDr) /\ TypeOK
      /\ said.first \in BOOLEAN /\ ToShift
  BY DEF PlayerInv, PlayerType
<1>3. SUFFICES /\ Standing' /\ Ahead' /\ wire' \in Seq([tms: BOOLEAN, tdi: Bit]) /\ player' \in PlayerType
               /\ player'.lastIr = player.lastIr /\ player'.lastDr = player.lastDr
               /\ ToShift' /\ (said.first \in BOOLEAN)'
  <2>1. TypeOK'
    BY <1>1, <1>2, <1>3 DEF TypeOK, PlayerType, CallSet
  <2>2. LastOK(player.lastIr)' /\ LastOK(player.lastDr)'
    BY <1>2, <1>3
  <2>3. QED BY <1>3, <2>1, <2>2 DEF PlayerInv, PlayerType, Standing
<1>4. CASE /\ Move(k) /\ k.to \in Targets \cup {"Reset"}
           /\ player.state \notin {"DrShift", "IrShift"}
           /\ player'.state = k.to => Ahead'
  <2>1. player' = [player EXCEPT !.state = k.to] /\ said' = Said(player.state, k.to)
    BY <1>4 DEF Move
  <2>2. k.to \in TapState
    BY <1>4 DEF Targets, TapState
  <2>3. player' \in PlayerType /\ player'.state = k.to
        /\ player'.lastIr = player.lastIr /\ player'.lastDr = player.lastDr
    BY <1>2, <2>1, <2>2 DEF PlayerType
  <2>4. said'.first \in BOOLEAN
    BY <1>4, <2>1, SaidWhenMoving
  <2>5. Standing' /\ wire' \in Seq([tms: BOOLEAN, tdi: Bit]) /\ ToShift'
    BY <1>1, <1>4, MoveStands
  <2>6. QED BY <1>4, <2>3, <2>4, <2>5
<1>5. CASE /\ Scan(k) /\ k \in Shifts /\ player.state = Shifting(k)
           /\ player'.state \in {"DrExit1", "IrExit1"} => Ahead'
  <2>1. player' = [player EXCEPT !.state = IF k.ir THEN "IrExit1" ELSE "DrExit1"]
    BY <1>5 DEF Scan
  <2>2. player'.lastIr = player.lastIr /\ player'.lastDr = player.lastDr
    BY <1>2, <2>1 DEF PlayerType
  <2>3. /\ Standing' /\ wire' \in Seq([tms: BOOLEAN, tdi: Bit])
        /\ ToShift' /\ (said.first \in BOOLEAN)'
        /\ player' \in PlayerType /\ player'.state \in {"DrExit1", "IrExit1"}
    BY <1>1, <1>5, ScanStands
  <2>4. QED BY <1>5, <2>2, <2>3
<1>6. CASE /\ Wait(k) /\ k \in Waits /\ player.state \in Idling(k)
           /\ player'.state = player.state => Ahead'
  <2>1. UNCHANGED <<player, said>> /\ ToShift'
    BY <1>2, <1>6 DEF Wait, ToShift
  <2>2. Standing' /\ wire' \in Seq([tms: BOOLEAN, tdi: Bit])
    BY <1>1, <1>6, WaitStands
  <2>3. QED BY <1>2, <1>6, <2>1, <2>2
<1>7. QED BY <1>1, <1>4, <1>5, <1>6

LEMMA ComparingKeeps ==
  ASSUME PlayerInv, Compare
  PROVE  PlayerInv'
<1>1. /\ UNCHANGED <<player, calls, wire, tap, said>>
      /\ verdict' \in {"playing", "mismatch"}
  BY DEF Compare
<1>2. Standing'
  BY <1>1, StandsStill DEF PlayerInv, Standing
<1>3. TypeOK'
  BY <1>1 DEF PlayerInv, TypeOK
<1>4. Ahead' /\ ToShift'
  BY <1>1 DEF PlayerInv, Ahead, ToShift
<1>5. QED BY <1>1, <1>2, <1>3, <1>4 DEF PlayerInv, Standing

-----------------------------------------------------------------------------
(* One clock.                                                              *)

\* The last bit of a register goes in behind the others.
LEMMA Shifted ==
  ASSUME NEW n \in Nat \ {0}, NEW v \in Bits(n), NEW d \in Bit
  PROVE  /\ Append(Tail(v), d) \in Bits(n)
         /\ \A i \in 1 .. n : Append(Tail(v), d)[i] = IF i < n THEN v[i + 1] ELSE d
<1>1. v \in Seq(Bit) /\ Len(v) = n /\ n > 0
  BY DEF Bits
<1> DEFINE t == Tail(v)
<1>2. t \in Seq(Bit) /\ Len(t) = n - 1 /\ \A i \in 1 .. n - 1 : t[i] = v[i + 1]
  BY <1>1
<1> HIDE DEF t
<1> DEFINE a == Append(t, d)
<1>3. a \in Seq(Bit) /\ Len(a) = n /\ \A i \in 1 .. n : a[i] = IF i < n THEN t[i] ELSE d
  BY <1>2
<1> HIDE DEF a
<1>4. a \in Bits(n)
  BY <1>3 DEF Bits
<1>5. \A i \in 1 .. n : a[i] = IF i < n THEN v[i + 1] ELSE d
  BY <1>2, <1>3
<1>6. QED BY <1>4, <1>5 DEF a, t

\* How the scans are come into and left.
LEMMA Graph ==
  ASSUME NEW s \in TapState, NEW z \in {Up(s), Down(s)}
  PROVE  /\ z \in TapState
         /\ z = "DrUpdate" => s \in {"DrExit1", "DrExit2"}
         /\ z = "IrUpdate" => s \in {"IrExit1", "IrExit2"}
         /\ z \in DrHeld => s \in DrHeld \cup {"DrCapture"}
         /\ z \in IrHeld => s \in IrHeld \cup {"IrCapture"}
         /\ s \in DrHeld /\ z \notin DrHeld => z = "DrUpdate"
         /\ s \in IrHeld /\ z \notin IrHeld => z = "IrUpdate"
         /\ z = "DrCapture" => s = "DrSelect"
         /\ z = "IrCapture" => s = "IrSelect"
         /\ z = "Reset" => s \in {"Reset", "IrSelect"}
BY TapMoves DEF TapState, DrHeld, IrHeld

LEMMA TapClocked ==
  ASSUME PlayerInv, Clock
  PROVE  LET s == tap.state
             z == tap'.state
             c == Head(wire)
         IN /\ wire # <<>> /\ c.tms \in BOOLEAN /\ c.tdi \in Bit
            /\ s \in TapState /\ z \in TapState /\ z \in {Up(s), Down(s)}
            /\ z = After(s, c.tms)
            /\ (c.tms => z = Up(s)) /\ (~c.tms => z = Down(s))
            /\ wire' = Tail(wire) /\ wire' \in Seq([tms: BOOLEAN, tdi: Bit])
            /\ s = "IrShift" => tap'.irShift = Append(Tail(tap.irShift), c.tdi)
            /\ s \notin {"IrShift", "IrCapture"} => tap'.irShift = tap.irShift
            /\ tap'.ir = IF z = "Reset" THEN Idcode ELSE IF z = "IrUpdate" THEN tap.irShift ELSE tap.ir
            /\ s = "DrShift" => tap'.drShift = Append(Tail(tap.drShift), c.tdi)
            /\ s \notin {"DrShift", "DrCapture"} => tap'.drShift = tap.drShift
            /\ tap'.dr = IF z = "DrUpdate" THEN tap.drShift ELSE tap.dr
            /\ UNCHANGED <<player, calls, check, verdict, said>>
            /\ TypeOK'
<1> DEFINE s == tap.state
           z == tap'.state
           c == Head(wire)
           R == [tms: BOOLEAN, tdi: Bit]
<1>1. wire # <<>> /\ wire' = Tail(wire) /\ UNCHANGED <<player, calls, check, verdict, said>>
  BY DEF Clock
<1>2. TypeOK
  BY DEF PlayerInv
<1>3. wire \in Seq(R)
  BY <1>2 DEF TypeOK
<1>4. c \in R /\ wire' \in Seq(R)
  <2> HIDE DEF R
  <2>1. QED BY <1>1, <1>3
<1>5. c.tms \in BOOLEAN /\ c.tdi \in Bit
  BY <1>4
<1>6. PICK v \in Captures :
        tap' = [state |-> After(s, c.tms),
               irShift |-> CASE s = "IrShift" -> Append(Tail(tap.irShift), c.tdi)
                             [] s = "IrCapture" -> [i \in 1 .. IrBits |-> IF i = 1 THEN 1 ELSE 0]
                             [] OTHER -> tap.irShift,
               ir |-> CASE After(s, c.tms) = "Reset" -> Idcode
                        [] After(s, c.tms) = "IrUpdate" -> tap.irShift
                        [] OTHER -> tap.ir,
               drShift |-> CASE s = "DrShift" -> Append(Tail(tap.drShift), c.tdi)
                             [] s = "DrCapture" -> v
                             [] OTHER -> tap.drShift,
               dr |-> IF After(s, c.tms) = "DrUpdate" THEN tap.drShift ELSE tap.dr]
  BY DEF Clock
<1>7. /\ tap.state \in TapState /\ tap.irShift \in Bits(IrBits) /\ tap.ir \in Bits(IrBits) \cup {Idcode}
      /\ tap.drShift \in Bits(DrBits) /\ tap.dr \in Bits(DrBits)
  BY <1>2 DEF TypeOK
<1>8. /\ IrBits \in Nat \ {0} /\ DrBits \in Nat \ {0} /\ v \in Bits(DrBits)
  BY RegistersAssumption
<1>9. Append(Tail(tap.irShift), c.tdi) \in Bits(IrBits) /\ Append(Tail(tap.drShift), c.tdi) \in Bits(DrBits)
  BY <1>5, <1>7, <1>8, Shifted
<1>10. [i \in 1 .. IrBits |-> IF i = 1 THEN 1 ELSE 0] \in Bits(IrBits)
  BY DEF Bits, Bit
<1> DEFINE x == After(s, c.tms)
           d == c.tdi
           as == Append(Tail(tap.irShift), d)
           ad == Append(Tail(tap.drShift), d)
           ai == [i \in 1 .. IrBits |-> IF i = 1 THEN 1 ELSE 0]
<1>11. x \in TapState /\ x \in {Up(s), Down(s)} /\ (c.tms => x = Up(s)) /\ (~c.tms => x = Down(s))
  BY <1>5, <1>7, Clocked, UpOrDown
<1> HIDE DEF x, as, ad, ai
<1>12. tap' = [state |-> x,
               irShift |-> CASE s = "IrShift" -> as [] s = "IrCapture" -> ai [] OTHER -> tap.irShift,
               ir |-> CASE x = "Reset" -> Idcode [] x = "IrUpdate" -> tap.irShift [] OTHER -> tap.ir,
               drShift |-> CASE s = "DrShift" -> ad [] s = "DrCapture" -> v [] OTHER -> tap.drShift,
               dr |-> IF x = "DrUpdate" THEN tap.drShift ELSE tap.dr]
  BY <1>6 DEF x, as, ad, ai
<1>13. /\ z = x
       /\ s = "IrShift" => tap'.irShift = as
       /\ s = "IrCapture" => tap'.irShift = ai
       /\ s \notin {"IrShift", "IrCapture"} => tap'.irShift = tap.irShift
       /\ s = "DrShift" => tap'.drShift = ad
       /\ s = "DrCapture" => tap'.drShift = v
       /\ s \notin {"DrShift", "DrCapture"} => tap'.drShift = tap.drShift
       /\ tap'.dr = IF x = "DrUpdate" THEN tap.drShift ELSE tap.dr
  BY <1>12
<1>14. tap'.ir = IF x = "Reset" THEN Idcode ELSE IF x = "IrUpdate" THEN tap.irShift ELSE tap.ir
  BY <1>12
<1>15. tap' \in [state: TapState, irShift: Bits(IrBits), ir: Bits(IrBits) \cup {Idcode},
                 drShift: Bits(DrBits), dr: Bits(DrBits)]
  <2>1. as \in Bits(IrBits) /\ ad \in Bits(DrBits) /\ ai \in Bits(IrBits)
    BY <1>9, <1>10 DEF as, ad, ai
  <2> DEFINE f == IF s = "IrShift" THEN as ELSE IF s = "IrCapture" THEN ai ELSE tap.irShift
             g == IF x = "Reset" THEN Idcode ELSE IF x = "IrUpdate" THEN tap.irShift ELSE tap.ir
             h == IF s = "DrShift" THEN ad ELSE IF s = "DrCapture" THEN v ELSE tap.drShift
             k == IF x = "DrUpdate" THEN tap.drShift ELSE tap.dr
  <2>2. f \in Bits(IrBits) /\ g \in Bits(IrBits) \cup {Idcode} /\ h \in Bits(DrBits) /\ k \in Bits(DrBits)
    BY <1>7, <1>8, <2>1
  <2>3. tap' = [state |-> x, irShift |-> f, ir |-> g, drShift |-> h, dr |-> k]
    BY <1>12
  <2> HIDE DEF f, g, h, k
  <2>4. QED BY <1>11, <2>2, <2>3
<1>16. TypeOK'
  BY <1>1, <1>2, <1>4, <1>15 DEF TypeOK
<1> HIDE DEF s, z
<1>17. z \in TapState /\ z \in {Up(s), Down(s)} /\ (c.tms => z = Up(s)) /\ (~c.tms => z = Down(s)) /\ z = After(s, c.tms)
  BY <1>11, <1>13 DEF x
<1>18. QED BY <1>1, <1>4, <1>5, <1>7, <1>13, <1>14, <1>16, <1>17 DEF s, z, as, ad

LEMMA DrStep ==
  ASSUME PlayerInv, Clock, DrKept(tap), tap.state # "DrShift",
         tap'.state = "DrCapture" => said.dr \in Nothing
  PROVE  DrKept(tap)'
<1> DEFINE s == tap.state
           z == tap'.state
<1>1. /\ s \in TapState /\ z \in {Up(s), Down(s)}
      /\ s \notin {"DrShift", "DrCapture"} => tap'.drShift = tap.drShift
      /\ tap'.dr = (IF z = "DrUpdate" THEN tap.drShift ELSE tap.dr)
      /\ UNCHANGED said
  BY TapClocked
<1>2. /\ z = "DrUpdate" => s \in DrHeld
      /\ z \in DrHeld => s \in DrHeld \cup {"DrCapture"}
      /\ s \in DrHeld /\ z \notin DrHeld => z = "DrUpdate"
  BY <1>1, Graph DEF DrHeld
<1>3. "DrCapture" \notin DrHeld /\ "DrUpdate" \notin DrHeld
  BY DEF DrHeld
<1>4. CASE said.dr \in Nothing
  <2>1. (said.dr \in Nothing)'
    BY <1>1, <1>4 DEF Nothing
  <2>2. said'.dr = <<>> => EndsWith(IF tap'.state \in DrHeld THEN tap'.drShift ELSE tap'.dr, DrBits, said'.dr)
    BY NothingEnds
  <2>3. <<>> \in Seq(Bit) /\ Len(<<>>) <= DrBits
    BY RegistersAssumption
  <2>4. QED BY <2>1, <2>2, <2>3 DEF DrKept, Nothing
<1>5. CASE said.dr \notin Nothing
  <2>1. /\ said.dr \in Seq(Bit) /\ Len(said.dr) <= DrBits
        /\ EndsWith(IF s \in DrHeld THEN tap.drShift ELSE tap.dr, DrBits, said.dr)
        /\ s # "DrCapture" /\ z # "DrCapture"
    BY <1>5 DEF DrKept, Nothing
  <2>2. (IF z \in DrHeld THEN tap'.drShift ELSE tap'.dr) = (IF s \in DrHeld THEN tap.drShift ELSE tap.dr)
    BY <1>1, <1>2, <1>3, <2>1
  <2>3. QED BY <1>1, <2>1, <2>2 DEF DrKept, EndsWith
<1>6. QED BY <1>4, <1>5

LEMMA IrStep ==
  ASSUME PlayerInv, Clock, IrKept(tap), tap.state # "IrShift",
         tap'.state = "IrCapture" => said.ir \in Nothing,
         tap'.state = "Reset" => said.ir \in Nothing \cup {Idcode}
  PROVE  IrKept(tap)'
<1> DEFINE s == tap.state
           z == tap'.state
<1>1. /\ s \in TapState /\ z \in {Up(s), Down(s)}
      /\ s \notin {"IrShift", "IrCapture"} => tap'.irShift = tap.irShift
      /\ tap'.ir = (IF z = "Reset" THEN Idcode ELSE IF z = "IrUpdate" THEN tap.irShift ELSE tap.ir)
      /\ UNCHANGED said /\ tap.irShift \in Bits(IrBits)
  BY TapClocked DEF PlayerInv, TypeOK
<1>2. /\ z = "IrUpdate" => s \in IrHeld
      /\ z \in IrHeld => s \in IrHeld \cup {"IrCapture"}
      /\ s \in IrHeld /\ z \notin IrHeld => z = "IrUpdate"
  BY <1>1, Graph DEF IrHeld
<1>3. /\ "IrCapture" \notin IrHeld /\ "IrUpdate" \notin IrHeld /\ "Reset" \notin IrHeld
      /\ IrScan = IrHeld \cup {"IrCapture"}
  BY DEF IrHeld, IrScan
<1>4. CASE said.ir \in Nothing
  <2>1. (said.ir \in Nothing)'
    BY <1>1, <1>4 DEF Nothing
  <2>2. \A v : said'.ir = <<>> => EndsWith(v, IrBits, said'.ir)
    BY NothingEnds
  <2>3. <<>> \in Seq(Bit) /\ Len(<<>>) <= IrBits /\ <<>> # Idcode
    <3>1. <<>> \in Seq(Bit) /\ Len(<<>>) = 0
      OBVIOUS
    <3>2. IrBits \in Nat
      BY RegistersAssumption
    <3>3. <<>> # Idcode
      BY <3>1, RegistersAssumption
    <3>4. QED BY <3>1, <3>2, <3>3
  <2>4. QED BY <2>1, <2>2, <2>3 DEF IrKept, Nothing
<1>5. CASE said.ir = Idcode
  <2>1. s \notin IrScan /\ tap.ir = Idcode
    BY <1>5, RegistersAssumption DEF IrKept
  <2>2. Idcode \notin Nothing
    <3>1. <<>> \in Seq(Bit)
      OBVIOUS
    <3>2. QED BY <3>1, RegistersAssumption DEF Nothing
  <2>3. z \notin IrScan /\ z # "IrUpdate"
    BY <1>2, <1>3, <1>5, <2>1, <2>2
  <2>4. tap'.ir = Idcode
    BY <1>1, <2>1, <2>3
  <2>5. QED BY <1>1, <1>5, <2>3, <2>4 DEF IrKept
<1>6. CASE said.ir \notin Nothing \cup {Idcode}
  <2>1. /\ said.ir \in Seq(Bit) /\ Len(said.ir) <= IrBits /\ said.ir # <<>> /\ said.ir # Unknown
        /\ s # "IrCapture" /\ z # "IrCapture" /\ z # "Reset"
        /\ s \in IrHeld => EndsWith(tap.irShift, IrBits, said.ir)
        /\ s \notin IrHeld => tap.ir \in Bits(IrBits) /\ EndsWith(tap.ir, IrBits, said.ir)
    BY <1>6 DEF IrKept, Nothing
  <2>2. z \in IrHeld => EndsWith(tap'.irShift, IrBits, said.ir)
    BY <1>1, <1>2, <1>3, <2>1
  <2>3. z \notin IrHeld => tap'.ir \in Bits(IrBits) /\ EndsWith(tap'.ir, IrBits, said.ir)
    BY <1>1, <1>2, <1>3, <2>1
  <2>4. said'.ir = said.ir
    BY <1>1
  <2>5. QED BY <1>6, <2>1, <2>2, <2>3, <2>4 DEF IrKept, EndsWith
<1>7. QED BY <1>4, <1>5, <1>6

\* A clock off the wire is a level off the way.
LEMMA LevelsOn ==
  ASSUME NEW w \in Seq([tms: BOOLEAN, tdi: Bit]), w # <<>>
  PROVE  /\ Levels(w) \in Seq(BOOLEAN) /\ Levels(w) # <<>>
         /\ Levels(Tail(w)) = Tail(Levels(w)) /\ Head(Levels(w)) = Head(w).tms
         /\ Levels(w)[1] = Head(w).tms
         /\ Len(Levels(w)) = Len(w) /\ (Tail(w) = <<>> <=> Levels(Tail(w)) = <<>>)
<1> DEFINE R == [tms: BOOLEAN, tdi: Bit]
           n == Len(w)
           t == Tail(w)
           l == Levels(w)
<1>1. \A i \in 1 .. n : w[i].tms \in BOOLEAN
  <2>1. \A i \in 1 .. n : w[i] \in R
    <3>1. w \in Seq(R)
      OBVIOUS
    <3> HIDE DEF R
    <3>2. QED BY <3>1
  <2>2. \A x \in R : x.tms \in BOOLEAN
    OBVIOUS
  <2> HIDE DEF R
  <2>3. QED BY <2>1, <2>2
<1> HIDE DEF R
<1>2. n \in Nat /\ n > 0 /\ DOMAIN w = 1 .. n /\ Head(w) = w[1]
      /\ t \in Seq(R) /\ Len(t) = n - 1 /\ DOMAIN t = 1 .. n - 1 /\ \A i \in 1 .. n - 1 : t[i] = w[i + 1]
  <2>1. w \in Seq(R)
    BY DEF R
  <2>2. QED BY <2>1
<1>3. l = [i \in 1 .. n |-> w[i].tms]
  BY <1>2 DEF Levels
<1>4. l \in [1 .. n -> BOOLEAN]
  BY <1>1, <1>3
<1>5. Levels(t) = [i \in 1 .. n - 1 |-> t[i].tms]
  BY <1>2 DEF Levels
<1>6. \A i \in 1 .. n : l[i] = w[i].tms
  BY <1>3
<1> HIDE DEF l, t, n
<1>7. l \in Seq(BOOLEAN) /\ Len(l) = n /\ l # <<>>
  BY <1>2, <1>4
<1>8. /\ Head(l) = l[1] /\ Tail(l) \in Seq(BOOLEAN) /\ Len(Tail(l)) = n - 1
      /\ \A i \in 1 .. n - 1 : Tail(l)[i] = l[i + 1]
  BY <1>2, <1>7
<1>9. \A i \in 1 .. n - 1 : i + 1 \in 1 .. n /\ t[i].tms = l[i + 1]
  BY <1>2, <1>6
<1>10. Levels(t) = Tail(l)
  <2>1. \A i \in 1 .. n - 1 : l[i + 1] \in BOOLEAN
    BY <1>4, <1>9
  <2>2. Levels(t) \in [1 .. n - 1 -> BOOLEAN] /\ \A i \in 1 .. n - 1 : Levels(t)[i] = l[i + 1]
    BY <1>5, <1>9, <2>1
  <2> DEFINE a == Levels(t)
             b == Tail(l)
  <2> HIDE DEF a, b
  <2>3. a \in Seq(BOOLEAN) /\ Len(a) = n - 1
    BY <1>2, <2>2 DEF a
  <2>4. a = b
    BY <1>8, <2>2, <2>3 DEF a, b
  <2>5. QED BY <2>4 DEF a, b
<1>11. 1 \in 1 .. n
  BY <1>2
<1>12. t = <<>> <=> Levels(t) = <<>>
  <2>1. Levels(t) \in Seq(BOOLEAN) /\ Len(Levels(t)) = n - 1
    BY <1>2, <1>7, <1>10
  <2>2. QED BY <1>2, <2>1
<1>13. QED BY <1>2, <1>6, <1>7, <1>8, <1>10, <1>11, <1>12 DEF l, t, n

\* The clocks of a wait leave the TAP where it is.
LEMMA RestingOn ==
  ASSUME PlayerInv, Clock, Resting
  PROVE  Resting' /\ (tap'.state = "Reset" => tap.state = "Reset")
<1> DEFINE s == tap.state
           z == tap'.state
           c == Head(wire)
           w == Tail(wire)
<1>1. /\ wire # <<>> /\ c.tms \in BOOLEAN /\ s \in TapState /\ z \in {Up(s), Down(s)}
      /\ (c.tms => z = Up(s)) /\ (~c.tms => z = Down(s))
      /\ wire' = w /\ UNCHANGED <<player, said>>
  BY TapClocked
<1>2. s = player.state /\ s \in Stable /\ DrKept(tap) /\ IrKept(tap)
      /\ (s = "Reset" => said.ir = Idcode)
      /\ \A i \in DOMAIN wire : wire[i].tms <=> s = "Reset"
  BY <1>1 DEF Resting
<1>3. Len(wire) \in Nat /\ Len(wire) > 0 /\ DOMAIN wire = 1 .. Len(wire) /\ c = wire[1]
      /\ DOMAIN w = 1 .. Len(wire) - 1 /\ \A i \in 1 .. Len(wire) - 1 : w[i] = wire[i + 1]
  <2> DEFINE R == [tms: BOOLEAN, tdi: Bit]
  <2>1. wire \in Seq(R)
    BY DEF PlayerInv, TypeOK
  <2> HIDE DEF R
  <2>2. QED BY <1>1, <2>1
<1>4. c.tms <=> s = "Reset"
  BY <1>2, <1>3
<1>5. z = s
  BY <1>1, <1>2, <1>4, TapMoves DEF Stable
<1>6. DrKept(tap)'
  BY <1>2, <1>5, DrStep DEF Stable
<1>7. IrKept(tap)'
  BY <1>2, <1>5, IrStep DEF Stable
<1>8. \A i \in DOMAIN w : w[i].tms <=> s = "Reset"
  BY <1>2, <1>3
<1> HIDE DEF w
<1>9. \A i \in DOMAIN wire' : wire'[i].tms <=> s = "Reset"
  BY <1>1, <1>8
<1>10. Resting'
  BY <1>1, <1>2, <1>5, <1>6, <1>7, <1>9 DEF Resting
<1>11. QED BY <1>5, <1>10

\* Five high clocks come to Reset, and the rest of the way leads on from there.
LEMMA ResettingOn ==
  ASSUME PlayerInv, Clock, Resetting
  PROVE  /\ Resetting' \/ Heading' \/ Resting'
         /\ player.state = "Reset" \/ said.first
<1> DEFINE s == tap.state
           z == tap'.state
           c == Head(wire)
           w == Tail(wire)
<1>1. /\ wire # <<>> /\ c.tms \in BOOLEAN /\ s \in TapState /\ z \in TapState /\ z \in {Up(s), Down(s)}
      /\ (c.tms => z = Up(s)) /\ wire' = w /\ UNCHANGED <<player, said>>
      /\ (z = "Reset" => tap'.ir = Idcode)
  BY TapClocked
<1>2. PICK k \in 1 .. 5, rest \in Seq(BOOLEAN) :
        /\ Levels(wire) = Highs(k) \o rest
        /\ ToReset(s) <= k
        /\ player.state = "Reset" => rest = <<>> /\ said.ir = Idcode
        /\ player.state # "Reset" => /\ player.state \in Targets /\ said.first
                                     /\ OnTheWay(rest, "Reset", player.state)
        /\ said.ir \in Nothing \cup {Idcode}
        /\ player.state \in {"IrPause", "IrShift"} => said.ir \in Nothing
        /\ said.first \/ s = "DrShift" => said.dr \in Nothing
        /\ DrKept(tap)
  BY DEF Resetting
<1>3. /\ Levels(wire) \in Seq(BOOLEAN) /\ Levels(wire)[1] = c.tms
      /\ Levels(w) = Tail(Levels(wire)) /\ (w = <<>> <=> Levels(w) = <<>>)
  <2> DEFINE R == [tms: BOOLEAN, tdi: Bit]
             v == wire
  <2>1. v \in Seq(R) /\ v # <<>>
    BY <1>1 DEF PlayerInv, TypeOK
  <2>2. /\ Levels(v) \in Seq(BOOLEAN) /\ Levels(v)[1] = Head(v).tms
        /\ Levels(Tail(v)) = Tail(Levels(v)) /\ (Tail(v) = <<>> <=> Levels(Tail(v)) = <<>>)
    BY <2>1, LevelsOn DEF R
  <2>3. QED BY <2>2
<1>4. c.tms /\ Tail(Levels(wire)) = Highs(k - 1) \o rest
  <2> DEFINE t == TRUE
             h == Highs(k)
             g == Highs(k - 1)
  <2>1. h = [i \in 1 .. k |-> t] /\ g = [i \in 1 .. k - 1 |-> t] /\ t \in BOOLEAN /\ t
    BY DEF Highs
  <2> HIDE DEF t, h, g
  <2>2. k \in Nat /\ k > 0
    OBVIOUS
  <2>3. /\ h \in Seq(BOOLEAN) /\ Len(h) = k /\ g \in Seq(BOOLEAN) /\ Len(g) = k - 1
        /\ \A i \in 1 .. k : h[i] = t
        /\ \A i \in 1 .. k - 1 : g[i] = t
    BY <2>1, <2>2
  <2> DEFINE a == h \o rest
             m == Len(rest)
  <2>4. /\ m \in Nat /\ a \in Seq(BOOLEAN) /\ Len(a) = k + m
        /\ \A i \in 1 .. k + m : a[i] = IF i <= k THEN h[i] ELSE rest[i - k]
    BY <2>3
  <2>5. a[1] = t
    BY <2>2, <2>3, <2>4
  <2> DEFINE b == g \o rest
  <2>6. /\ b \in Seq(BOOLEAN) /\ Len(b) = k - 1 + m
        /\ \A i \in 1 .. k - 1 + m : b[i] = IF i <= k - 1 THEN g[i] ELSE rest[i - (k - 1)]
    BY <2>2, <2>3, <2>4
  <2> HIDE DEF a, b
  <2>7. Tail(a) \in Seq(BOOLEAN) /\ Len(Tail(a)) = k - 1 + m /\ \A i \in 1 .. k - 1 + m : Tail(a)[i] = a[i + 1]
    BY <2>2, <2>4
  <2>8. \A i \in 1 .. k - 1 + m : Tail(a)[i] = b[i]
    <3> SUFFICES ASSUME NEW i \in 1 .. k - 1 + m PROVE a[i + 1] = b[i]
      BY <2>7
    <3>1. i + 1 \in 1 .. k + m /\ (i <= k - 1 <=> i + 1 <= k)
      BY <2>2, <2>4
    <3>2. CASE i <= k - 1
      <4>1. i \in 1 .. k - 1 /\ i + 1 \in 1 .. k /\ i + 1 <= k
        BY <2>2, <3>1, <3>2
      <4>2. a[i + 1] = t /\ b[i] = t
        BY <2>3, <2>4, <2>6, <3>1, <3>2, <4>1
      <4>3. QED BY <4>2
    <3>3. CASE ~(i <= k - 1)
      <4>1. ~(i + 1 <= k)
        BY <3>1, <3>3
      <4>2. a[i + 1] = rest[i + 1 - k]
        BY <2>4, <3>1, <4>1
      <4>3. b[i] = rest[i - (k - 1)]
        BY <2>6, <3>3
      <4>4. i + 1 - k = i - (k - 1)
        BY <2>2
      <4>5. QED BY <4>2, <4>3, <4>4
    <3>4. QED BY <3>2, <3>3
  <2>9. Tail(a) = b
    BY <2>6, <2>7, <2>8
  <2>10. Levels(wire) = a
    BY <1>2 DEF a, h
  <2>11. QED BY <1>3, <2>1, <2>5, <2>9, <2>10 DEF b, g
<1>5. z = Up(s)
  BY <1>1, <1>4
<1>6. /\ ToReset(s) <= 1 => z = "Reset"
      /\ ToReset(z) <= 4 /\ (ToReset(s) <= k => ToReset(z) <= k - 1 \/ z = "Reset")
      /\ z \notin {"DrShift", "DrCapture"}
      /\ ToReset("Reset") = 0
  <2>1. s = "Reset" \/ s # "Reset"
    OBVIOUS
  <2>2. QED BY <1>1, <1>5, TapMoves DEF TapState, ToReset
<1>7. DrKept(tap)'
  <2>1. CASE s # "DrShift"
    BY <1>2, <1>6, <2>1, DrStep
  <2>2. CASE s = "DrShift"
    <3>1. said'.dr \in Nothing
      BY <1>1, <1>2, <2>2
    <3>2. <<>> \in Seq(Bit) /\ Len(<<>>) = 0
      OBVIOUS
    <3>3. 0 <= DrBits
      BY RegistersAssumption
    <3>4. EndsWith(IF tap'.state \in DrHeld THEN tap'.drShift ELSE tap'.dr, DrBits, <<>>)
      BY NothingEnds
    <3>5. said'.dr = <<>> => DrKept(tap)'
      BY <3>2, <3>3, <3>4 DEF DrKept
    <3>6. said'.dr = Unknown => DrKept(tap)'
      BY DEF DrKept
    <3>7. QED BY <3>1, <3>5, <3>6 DEF Nothing
  <2>3. QED BY <2>1, <2>2
<1>8. player.state = "Reset" \/ said.first
  BY <1>2
<1>9. CASE k - 1 \in 1 .. 5
  <2>1. ToReset(z) <= k - 1
    <3>1. CASE z = "Reset"
      BY <1>6, <1>9, <3>1
    <3>2. CASE z # "Reset"
      BY <1>2, <1>6, <3>2
    <3>3. QED BY <3>1, <3>2
  <2>2. Levels(wire') = Highs(k - 1) \o rest
    BY <1>1, <1>3, <1>4
  <2>3. Levels(wire)' = Levels(wire')
    BY DEF Levels
  <2>4. said'.ir \in Nothing \cup {Idcode} /\ (said'.first \/ z = "DrShift" => said'.dr \in Nothing)
    BY <1>1, <1>2, <1>6
  <2> DEFINE j == k - 1
  <2>5. j \in 1 .. 5 /\ ToReset(z) <= j /\ Levels(wire)' = Highs(j) \o rest
    BY <1>9, <2>1, <2>2, <2>3
  <2> HIDE DEF j
  <2>6. Resetting'
    BY <1>1, <1>2, <1>7, <2>4, <2>5 DEF Resetting, Nothing
  <2>7. QED BY <1>8, <2>6
<1>10. CASE k - 1 \notin 1 .. 5
  <2>1. k = 1
    BY <1>10
  <2>2. z = "Reset" /\ tap'.ir = Idcode
    BY <1>1, <1>2, <1>6, <2>1
  <2>3. Levels(w) = rest
    <3> DEFINE h == Highs(0)
    <3>1. h = <<>>
      BY DEF Highs
    <3>2. h \o rest = rest
      BY <3>1
    <3>3. k - 1 = 0
      BY <2>1
    <3>4. QED BY <1>3, <1>4, <3>2, <3>3
  <2>4. IrKept(tap)'
    <3>1. "Reset" \notin IrScan /\ "Reset" \notin IrHeld /\ "Reset" # "IrCapture"
      BY DEF IrScan, IrHeld
    <3>2. <<>> \in Seq(Bit) /\ Len(<<>>) = 0
      OBVIOUS
    <3>3. 0 <= IrBits
      BY RegistersAssumption
    <3>4. said'.ir = <<>> => IrKept(tap)'
      <4>1. <<>> # Idcode
        BY <3>2, RegistersAssumption
      <4>2. QED BY <2>2, <3>1, <3>2, <3>3, <4>1 DEF IrKept
    <3>5. said'.ir = Unknown => IrKept(tap)'
      BY DEF IrKept
    <3>6. said'.ir = Idcode => IrKept(tap)'
      BY <2>2, <3>1 DEF IrKept
    <3>7. said'.ir \in {Unknown, <<>>, Idcode}
      BY <1>1, <1>2 DEF Nothing
    <3>8. QED BY <3>4, <3>5, <3>6, <3>7
  <2>5. CASE player.state = "Reset"
    <3>1. wire' = <<>> /\ said'.ir = Idcode
      BY <1>1, <1>2, <1>3, <2>3, <2>5
    <3>2. Resting'
      BY <1>1, <1>7, <2>2, <2>4, <2>5, <3>1 DEF Resting, Stable
    <3>3. QED BY <1>8, <3>2
  <2>6. CASE player.state # "Reset"
    <3>1. player.state \in Targets /\ said.first /\ OnTheWay(rest, "Reset", player.state) /\ said.dr \in Nothing
      BY <1>2, <2>6
    <3>2. rest # <<>>
      BY <2>6, <3>1, Arrived
    <3>3. wire' # <<>>
      BY <1>1, <1>3, <2>3, <3>2
    <3>4. Avoids("Reset", player.state)
      BY DEF Avoids
    <3>5. Fresh(tap.state, player.state)'
      BY <1>1, <1>2, <3>1 DEF Fresh, Nothing
    <3>6. Levels(wire)' = rest
      <4>1. Levels(wire)' = Levels(wire')
        BY DEF Levels
      <4>2. QED BY <1>1, <2>3, <4>1
    <3>7. Heading'
      BY <1>1, <1>7, <2>2, <2>4, <3>1, <3>3, <3>4, <3>5, <3>6 DEF Heading
    <3>8. QED BY <1>8, <3>7
  <2>7. QED BY <2>5, <2>6
<1>11. QED BY <1>9, <1>10

\* On a shortest way nothing is shifted and nothing is reset.
LEMMA HeadingOn ==
  ASSUME PlayerInv, Clock, Heading
  PROVE  /\ (Heading' \/ Resting') /\ tap'.state # "Reset"
         /\ player.state \in Targets /\ Far(tap'.state, player.state) = Far(tap.state, player.state) - 1
         /\ tap.state \in IrHeld /\ player.state \in {"IrPause", "IrShift"} => tap'.state \in IrHeld
<1> DEFINE s == tap.state
           z == tap'.state
           t == player.state
           c == Head(wire)
           w == Tail(wire)
           p == Levels(wire)
<1>1. /\ wire # <<>> /\ s \in TapState /\ z \in TapState /\ z \in {Up(s), Down(s)} /\ z = After(s, c.tms)
      /\ wire' = w /\ UNCHANGED <<player, said>>
  BY TapClocked
<1>2. /\ t \in Targets /\ OnTheWay(p, s, t) /\ Avoids(s, t) /\ Fresh(s, t)
      /\ DrKept(tap) /\ IrKept(tap)
  BY DEF Heading
<1>3. /\ p # <<>> /\ Head(p) = c.tms /\ Levels(w) = Tail(p) /\ (w = <<>> <=> Levels(w) = <<>>)
  <2> DEFINE R == [tms: BOOLEAN, tdi: Bit]
             v == wire
  <2>1. v \in Seq(R) /\ v # <<>>
    BY <1>1 DEF PlayerInv, TypeOK
  <2>2. /\ Levels(v) # <<>> /\ Head(Levels(v)) = Head(v).tms
        /\ Levels(Tail(v)) = Tail(Levels(v)) /\ (Tail(v) = <<>> <=> Levels(Tail(v)) = <<>>)
    BY <2>1, LevelsOn DEF R
  <2>3. QED BY <2>2
<1>4. OnTheWay(Tail(p), z, t) /\ Far(z, t) = Far(s, t) - 1
  <2> HIDE DEF p
  <2>1. /\ OnTheWay(Tail(p), After(s, Head(p)), t)
        /\ Far(After(s, Head(p)), t) = Far(s, t) - 1
    BY <1>2, <1>3, NextHop
  <2>2. After(s, Head(p)) = z
    BY <1>1, <1>3
  <2>3. QED BY <2>1, <2>2
<1>5. /\ Avoids(z, t) /\ z # "Reset" /\ s \notin {"DrShift", "IrShift"}
      /\ z = "DrCapture" => t \in {"DrPause", "DrShift"}
      /\ z = "IrCapture" => t \in {"IrPause", "IrShift"}
      /\ s \in DrHeld /\ t \in {"DrPause", "DrShift"} => z \in DrHeld
      /\ s \in IrHeld /\ t \in {"IrPause", "IrShift"} => z \in IrHeld
  BY <1>1, <1>2, <1>4, Hops
<1>6. z = "DrCapture" => said.dr \in Nothing
  <2>1. z = "DrCapture" => s \notin DrHeld
    BY <1>1, Graph DEF DrHeld
  <2>2. QED BY <1>2, <1>5, <2>1 DEF Fresh
<1>7. z = "IrCapture" => said.ir \in Nothing
  <2>1. z = "IrCapture" => s \notin IrHeld
    BY <1>1, Graph DEF IrHeld
  <2>2. QED BY <1>2, <1>5, <2>1 DEF Fresh
<1>8. DrKept(tap)'
  BY <1>2, <1>5, <1>6, DrStep
<1>9. IrKept(tap)'
  BY <1>2, <1>5, <1>7, IrStep
<1>10. Levels(wire)' = Tail(p)
  <2>1. Levels(wire)' = Levels(wire')
    BY DEF Levels
  <2>2. QED BY <1>1, <1>3, <2>1
<1>11. CASE w # <<>>
  <2>1. (Fresh(tap.state, player.state))'
    BY <1>1, <1>2, <1>5 DEF Fresh, Nothing
  <2>2. Heading'
    BY <1>1, <1>2, <1>4, <1>5, <1>8, <1>9, <1>10, <1>11, <2>1 DEF Heading
  <2>3. QED BY <1>2, <1>4, <1>5, <2>2
<1>12. CASE w = <<>>
  <2>1. z = t
    <3>1. Tail(p) = <<>>
      BY <1>3, <1>12
    <3>2. QED BY <1>4, <3>1, Arrived
  <2>2. t \in Stable \cup {"DrShift", "DrExit1", "IrShift", "IrExit1"} /\ t # "Reset"
    BY <1>2 DEF Targets, Stable
  <2>3. Resting'
    BY <1>1, <1>8, <1>9, <1>12, <2>1, <2>2 DEF Resting
  <2>4. QED BY <1>2, <1>4, <1>5, <2>3
<1>13. QED BY <1>11, <1>12

\* A register with the clocks to come behind it, one of them gone in.
LEMMA ComingOn ==
  ASSUME NEW n \in Nat \ {0}, NEW v \in Bits(n), NEW w, Len(w) \in Nat, Len(w) > 0,
         NEW u, Len(u) = Len(w) - 1, \A i \in 1 .. Len(w) - 1 : u[i] = w[i + 1],
         NEW x, \A i \in 1 .. n : x[i] = IF i < n THEN v[i + 1] ELSE w[1].tdi,
         NEW b, Len(b) \in Nat, Len(b) <= n, EndsWith(Coming(v, n, w), n + Len(w), b)
  PROVE  EndsWith(Coming(x, n, u), n + Len(u), b)
<1> DEFINE m == Len(w)
           l == Len(b)
           c == Coming(v, n, w)
           d == Coming(x, n, u)
<1>1. m \in Nat /\ m > 0 /\ l \in Nat /\ l <= n /\ n > 0
  OBVIOUS
<1>2. \A i \in 1 .. n + m : c[i] = IF i <= n THEN v[i] ELSE w[i - n].tdi
  <2>1. c = [i \in 1 .. n + m |-> IF i <= n THEN v[i] ELSE w[i - n].tdi]
    BY DEF Coming
  <2> HIDE DEF c, m
  <2>2. QED BY <2>1
<1>3. \A i \in 1 .. n + (m - 1) : d[i] = IF i <= n THEN x[i] ELSE u[i - n].tdi
  <2>1. d = [i \in 1 .. n + Len(u) |-> IF i <= n THEN x[i] ELSE u[i - n].tdi]
    BY DEF Coming
  <2>2. d = [i \in 1 .. n + (m - 1) |-> IF i <= n THEN x[i] ELSE u[i - n].tdi]
    BY <2>1
  <2> HIDE DEF d, m
  <2>3. QED BY <2>2
<1>4. \A i \in 1 .. l : b[i] = c[n + m - l + i]
  BY DEF EndsWith
<1> HIDE DEF c, d, l
<1>5. ASSUME NEW i \in 1 .. l PROVE b[i] = d[n + (m - 1) - l + i]
  <2> DEFINE j == n + (m - 1) - l + i
  <2>1. j \in 1 .. n + (m - 1) /\ j + 1 \in 1 .. n + m /\ n + m - l + i = j + 1
    BY <1>1
  <2>2. b[i] = c[j + 1]
    BY <1>4, <2>1
  <2> HIDE DEF j
  <2>3. CASE j < n
    <3>1. j \in 1 .. n /\ j <= n /\ j + 1 <= n
      BY <1>1, <2>1, <2>3
    <3>2. c[j + 1] = v[j + 1]
      BY <1>2, <2>1, <3>1
    <3>3. d[j] = x[j]
      BY <1>3, <2>1, <3>1
    <3>4. x[j] = v[j + 1]
      BY <2>3, <3>1
    <3>5. QED BY <2>2, <3>2, <3>3, <3>4 DEF j
  <2>4. CASE j = n
    <3>1. ~(j + 1 <= n) /\ j + 1 - n = 1 /\ n \in 1 .. n /\ ~(n < n) /\ j <= n
      BY <1>1, <2>4
    <3>2. c[j + 1] = w[1].tdi
      <4>1. c[j + 1] = w[j + 1 - n].tdi
        BY <1>2, <2>1, <3>1
      <4>2. QED BY <3>1, <4>1
    <3>3. d[j] = x[n]
      BY <1>3, <2>1, <2>4, <3>1
    <3>4. x[n] = w[1].tdi
      BY <3>1
    <3>5. QED BY <2>2, <3>2, <3>3, <3>4 DEF j
  <2>5. CASE j > n
    <3>1. ~(j + 1 <= n) /\ ~(j <= n) /\ j + 1 - n = j - n + 1 /\ j - n \in 1 .. m - 1
      BY <1>1, <2>1, <2>5
    <3>2. c[j + 1] = w[j - n + 1].tdi
      <4>1. c[j + 1] = w[j + 1 - n].tdi
        BY <1>2, <2>1, <3>1
      <4>2. QED BY <3>1, <4>1
    <3>3. d[j] = u[j - n].tdi
      BY <1>3, <2>1, <3>1
    <3>4. u[j - n] = w[j - n + 1]
      BY <3>1 DEF m
    <3>5. QED BY <2>2, <3>2, <3>3, <3>4 DEF j
  <2>6. QED BY <1>1, <2>1, <2>3, <2>4, <2>5
<1>6. Len(u) = m - 1
  OBVIOUS
<1>7. QED BY <1>5, <1>6 DEF EndsWith, d, l

\* When the last clock has gone in the register ends with what was said.
LEMMA ComingLast ==
  ASSUME NEW n \in Nat, NEW x, NEW b, Len(b) \in Nat, Len(b) <= n,
         EndsWith(Coming(x, n, <<>>), n + Len(<<>>), b)
  PROVE  EndsWith(x, n, b)
<1> DEFINE l == Len(b)
           c == Coming(x, n, <<>>)
<1>1. Len(<<>>) = 0 /\ n + 0 = n
  OBVIOUS
<1>2. c = [i \in 1 .. n + Len(<<>>) |-> IF i <= n THEN x[i] ELSE <<>>[i - n].tdi]
  BY DEF Coming
<1>3. c = [i \in 1 .. n |-> IF i <= n THEN x[i] ELSE <<>>[i - n].tdi]
  BY <1>1, <1>2
<1>4. \A i \in 1 .. n : c[i] = x[i]
  BY <1>3
<1> HIDE DEF c
<1>5. \A i \in 1 .. l : b[i] = c[n - l + i]
  <2>1. EndsWith(c, n, b)
    BY <1>1 DEF c
  <2>2. QED BY <2>1 DEF EndsWith
<1>6. \A i \in 1 .. l : n - l + i \in 1 .. n
  OBVIOUS
<1>7. QED BY <1>4, <1>5, <1>6 DEF EndsWith

\* What a clock of a shift does to the wire and to the TAP.
LEMMA ScanClocked ==
  ASSUME PlayerInv, Clock, LastHigh, tap.state \in {"IrShift", "DrShift"}
  PROVE  LET c == Head(wire) IN
         /\ wire # <<>> /\ Len(wire) \in Nat /\ Len(wire) > 0 /\ c = wire[1]
         /\ Len(wire') = Len(wire) - 1 /\ \A i \in 1 .. Len(wire) - 1 : wire'[i] = wire[i + 1]
         /\ LastHigh'
         /\ wire' # <<>> => tap'.state = tap.state
         /\ wire' = <<>> => tap'.state = IF tap.state = "IrShift" THEN "IrExit1" ELSE "DrExit1"
<1> DEFINE c == Head(wire)
           w == Tail(wire)
           n == Len(wire)
           v == wire
           R == [tms: BOOLEAN, tdi: Bit]
<1>1. /\ wire # <<>> /\ c.tms \in BOOLEAN /\ wire' = w
      /\ (c.tms => tap'.state = Up(tap.state)) /\ (~c.tms => tap'.state = Down(tap.state))
  BY TapClocked
<1>2. v \in Seq(R)
  BY DEF PlayerInv, TypeOK
<1> HIDE DEF R
<1>3. /\ n \in Nat /\ n > 0 /\ c = v[1] /\ w \in Seq(R) /\ Len(w) = n - 1
      /\ \A i \in 1 .. n - 1 : w[i] = v[i + 1]
  BY <1>1, <1>2
<1>4. \A i \in 1 .. n : wire[i].tms <=> i = n
  BY DEF LastHigh
<1>5. c.tms <=> n = 1
  <2>1. 1 \in 1 .. n
    BY <1>3
  <2>2. wire[1].tms <=> 1 = n
    BY <1>4, <2>1
  <2>3. c = wire[1]
    BY <1>3
  <2> HIDE DEF c
  <2>4. QED BY <2>2, <2>3
<1>6. w = <<>> <=> n = 1
  BY <1>3
<1>7. /\ Up("IrShift") = "IrExit1" /\ Down("IrShift") = "IrShift"
      /\ Up("DrShift") = "DrExit1" /\ Down("DrShift") = "DrShift"
  BY TapMoves
<1>8. LastHigh'
  <2>1. \A i \in 1 .. n - 1 : i + 1 \in 1 .. n /\ (i + 1 = n <=> i = n - 1)
    BY <1>3
  <2>2. \A i \in 1 .. n - 1 : w[i].tms <=> i = n - 1
    BY <1>3, <1>4, <2>1
  <2> HIDE DEF w
  <2>3. QED BY <1>1, <1>3, <2>2 DEF LastHigh
<1> HIDE DEF w
<1>9. QED BY <1>1, <1>3, <1>5, <1>6, <1>7, <1>8

LEMMA ScanningIrOn ==
  ASSUME PlayerInv, Clock, ScanningIr
  PROVE  (ScanningIr' \/ Resting') /\ tap'.state # "Reset"
<1> DEFINE c == Head(wire)
           z == tap'.state
<1>1. /\ player.state = "IrExit1" /\ tap.state = "IrShift" /\ LastHigh
      /\ said.ir \in Seq(Bit) /\ said.ir # <<>> /\ Len(said.ir) <= IrBits
      /\ EndsWith(Coming(tap.irShift, IrBits, wire), IrBits + Len(wire), said.ir)
      /\ DrKept(tap)
  BY DEF ScanningIr
<1>2. /\ wire # <<>> /\ Len(wire) \in Nat /\ Len(wire) > 0 /\ c = wire[1]
      /\ Len(wire') = Len(wire) - 1 /\ \A i \in 1 .. Len(wire) - 1 : wire'[i] = wire[i + 1]
      /\ LastHigh'
      /\ wire' # <<>> => z = "IrShift"
      /\ wire' = <<>> => z = "IrExit1"
  BY <1>1, ScanClocked
<1>3. /\ c.tdi \in Bit /\ tap'.irShift = Append(Tail(tap.irShift), c.tdi)
      /\ UNCHANGED <<player, said>> /\ tap.irShift \in Bits(IrBits)
  BY <1>1, TapClocked DEF PlayerInv, TypeOK
<1>4. IrBits \in Nat \ {0} /\ IrBits \in Nat
  BY RegistersAssumption
<1> DEFINE x == Append(Tail(tap.irShift), c.tdi)
<1>5. \A i \in 1 .. IrBits : x[i] = IF i < IrBits THEN tap.irShift[i + 1] ELSE wire[1].tdi
  <2>1. \A i \in 1 .. IrBits : x[i] = IF i < IrBits THEN tap.irShift[i + 1] ELSE c.tdi
    BY <1>3, <1>4, Shifted
  <2>2. QED BY <1>2, <2>1
<1> HIDE DEF x
<1>6. Len(said.ir) \in Nat /\ Len(said.ir) <= IrBits
  BY <1>1
<1>7. EndsWith(Coming(x, IrBits, wire'), IrBits + Len(wire'), said.ir)
  <2>1. Len(wire') = Len(wire) - 1 /\ Len(wire) \in Nat /\ Len(wire) > 0
    BY <1>2
  <2>2. \A i \in 1 .. Len(wire) - 1 : wire'[i] = wire[i + 1]
    BY <1>2
  <2>3. EndsWith(Coming(tap.irShift, IrBits, wire), IrBits + Len(wire), said.ir)
    BY <1>1
  <2>4. tap.irShift \in Bits(IrBits)
    BY <1>3
  <2>5. QED BY <1>4, <1>5, <1>6, <2>1, <2>2, <2>3, <2>4, ComingOn
<1>8. DrKept(tap)'
  <2>1. z # "DrCapture"
    BY <1>2
  <2>2. QED BY <1>1, <2>1, DrStep
<1>9. CASE wire' # <<>>
  <2>1. ScanningIr'
    BY <1>1, <1>2, <1>3, <1>7, <1>8, <1>9 DEF ScanningIr, x
  <2>2. QED BY <1>2, <1>9, <2>1
<1>10. CASE wire' = <<>>
  <2>1. EndsWith(x, IrBits, said.ir)
    <3>1. EndsWith(Coming(x, IrBits, <<>>), IrBits + Len(<<>>), said.ir)
      BY <1>7, <1>10
    <3>2. QED BY <1>4, <1>6, <3>1, ComingLast
  <2>2. IrKept(tap)'
    <3>1. z = "IrExit1" /\ "IrExit1" \in IrHeld /\ said.ir # Idcode
      BY <1>1, <1>2, <1>10, RegistersAssumption DEF IrHeld
    <3>2. tap'.irShift = x /\ said'.ir = said.ir
      BY <1>3 DEF x
    <3>3. EndsWith(tap'.irShift, IrBits, said'.ir)
      BY <2>1, <3>2
    <3>4. QED BY <1>1, <3>1, <3>2, <3>3 DEF IrKept
  <2>3. Resting'
    BY <1>1, <1>2, <1>3, <1>8, <1>10, <2>2 DEF Resting
  <2>4. QED BY <1>2, <1>10, <2>3
<1>11. QED BY <1>9, <1>10

LEMMA ScanningDrOn ==
  ASSUME PlayerInv, Clock, ScanningDr
  PROVE  (ScanningDr' \/ Resting') /\ tap'.state # "Reset"
<1> DEFINE c == Head(wire)
           z == tap'.state
<1>1. /\ player.state = "DrExit1" /\ tap.state = "DrShift" /\ LastHigh
      /\ said.dr \in Seq(Bit) /\ Len(said.dr) <= DrBits
      /\ EndsWith(Coming(tap.drShift, DrBits, wire), DrBits + Len(wire), said.dr)
      /\ IrKept(tap)
  BY DEF ScanningDr
<1>2. /\ wire # <<>> /\ Len(wire) \in Nat /\ Len(wire) > 0 /\ c = wire[1]
      /\ Len(wire') = Len(wire) - 1 /\ \A i \in 1 .. Len(wire) - 1 : wire'[i] = wire[i + 1]
      /\ LastHigh'
      /\ wire' # <<>> => z = "DrShift"
      /\ wire' = <<>> => z = "DrExit1"
  BY <1>1, ScanClocked
<1>3. /\ c.tdi \in Bit /\ tap'.drShift = Append(Tail(tap.drShift), c.tdi)
      /\ UNCHANGED <<player, said>> /\ tap.drShift \in Bits(DrBits)
  BY <1>1, TapClocked DEF PlayerInv, TypeOK
<1>4. DrBits \in Nat \ {0} /\ DrBits \in Nat
  BY RegistersAssumption
<1> DEFINE x == Append(Tail(tap.drShift), c.tdi)
<1>5. \A i \in 1 .. DrBits : x[i] = IF i < DrBits THEN tap.drShift[i + 1] ELSE wire[1].tdi
  <2>1. \A i \in 1 .. DrBits : x[i] = IF i < DrBits THEN tap.drShift[i + 1] ELSE c.tdi
    BY <1>3, <1>4, Shifted
  <2>2. QED BY <1>2, <2>1
<1> HIDE DEF x
<1>6. Len(said.dr) \in Nat /\ Len(said.dr) <= DrBits
  BY <1>1
<1>7. EndsWith(Coming(x, DrBits, wire'), DrBits + Len(wire'), said.dr)
  <2>1. Len(wire') = Len(wire) - 1 /\ Len(wire) \in Nat /\ Len(wire) > 0
    BY <1>2
  <2>2. \A i \in 1 .. Len(wire) - 1 : wire'[i] = wire[i + 1]
    BY <1>2
  <2>3. EndsWith(Coming(tap.drShift, DrBits, wire), DrBits + Len(wire), said.dr)
    BY <1>1
  <2>4. tap.drShift \in Bits(DrBits)
    BY <1>3
  <2>5. QED BY <1>4, <1>5, <1>6, <2>1, <2>2, <2>3, <2>4, ComingOn
<1>8. IrKept(tap)'
  <2>1. z # "IrCapture" /\ z # "Reset"
    BY <1>2
  <2>2. QED BY <1>1, <2>1, IrStep
<1>9. CASE wire' # <<>>
  <2>1. ScanningDr'
    BY <1>1, <1>2, <1>3, <1>7, <1>8, <1>9 DEF ScanningDr, x
  <2>2. QED BY <1>2, <1>9, <2>1
<1>10. CASE wire' = <<>>
  <2>1. EndsWith(x, DrBits, said.dr)
    <3>1. EndsWith(Coming(x, DrBits, <<>>), DrBits + Len(<<>>), said.dr)
      BY <1>7, <1>10
    <3>2. QED BY <1>4, <1>6, <3>1, ComingLast
  <2>2. DrKept(tap)'
    <3>1. z = "DrExit1" /\ "DrExit1" \in DrHeld
      BY <1>2, <1>10 DEF DrHeld
    <3>2. tap'.drShift = x /\ said'.dr = said.dr
      BY <1>3 DEF x
    <3>3. EndsWith(tap'.drShift, DrBits, said'.dr)
      BY <2>1, <3>2
    <3>4. QED BY <1>1, <3>1, <3>2, <3>3 DEF DrKept
  <2>3. Resting'
    BY <1>1, <1>2, <1>3, <1>8, <1>10, <2>2 DEF Resting
  <2>4. QED BY <1>2, <1>10, <2>3
<1>11. QED BY <1>9, <1>10

LEMMA ClockKeeps ==
  ASSUME PlayerInv, Clock
  PROVE  /\ PlayerInv'
         /\ tap.state # "Reset" /\ tap'.state = "Reset" => player.state = "Reset" \/ said.first
<1>1. /\ UNCHANGED <<player, calls, verdict, said>> /\ TypeOK' /\ wire # <<>>
  BY TapClocked
<1>2. /\ Standing'
      /\ tap.state # "Reset" /\ tap'.state = "Reset" => player.state = "Reset" \/ said.first
  <2>1. Unmoved => wire = <<>>
    BY DEF Unmoved
  <2>2. Standing
    BY DEF PlayerInv, Standing
  <2>3. QED BY <1>1, <2>1, <2>2, RestingOn, ResettingOn, HeadingOn, ScanningIrOn, ScanningDrOn DEF Standing
<1>3. Ahead' /\ ToShift'
  BY <1>1 DEF PlayerInv, Ahead, ToShift
<1>4. QED BY <1>1, <1>2, <1>3 DEF PlayerInv, Standing

-----------------------------------------------------------------------------
(* What the invariant says to those who play an SVF.                       *)

\* The last bits of a register.
LEMMA EndsRecent ==
  ASSUME NEW n \in Nat, NEW v \in Bits(n), NEW b \in Seq(Bit), Len(b) <= n, EndsWith(v, n, b)
  PROVE  Recent(v, Len(b)) = b
<1> DEFINE l == Len(b)
           r == SubSeq(v, n - l + 1, n)
<1>1. l \in Nat /\ l <= n /\ v \in Seq(Bit) /\ Len(v) = n
  BY DEF Bits
<1>2. \A i \in 1 .. l : b[i] = v[n - l + i]
  BY DEF EndsWith
<1>3. CASE n <= l
  <2>1. l = n
    BY <1>1, <1>3
  <2>2. \A i \in 1 .. n : b[i] = v[i]
    BY <1>1, <1>2, <2>1
  <2>3. b = v
    BY <1>1, <2>1, <2>2
  <2>4. Recent(v, l) = v
    BY <1>1, <1>3 DEF Recent
  <2>5. QED BY <2>3, <2>4
<1>4. CASE ~(n <= l)
  <2>1. Recent(v, l) = r
    BY <1>1, <1>4 DEF Recent
  <2>2. r \in Seq(Bit) /\ Len(r) = l /\ \A i \in 1 .. l : r[i] = v[n - l + i]
    BY <1>1, <1>4
  <2> HIDE DEF r
  <2>3. r = b
    BY <1>1, <1>2, <2>2
  <2>4. QED BY <2>1, <2>3
<1>5. QED BY <1>3, <1>4

LEMMA PlayerTells == PlayerInv => TypeOK /\ TrackedState /\ Delivered
<1> SUFFICES ASSUME PlayerInv PROVE TypeOK /\ TrackedState /\ Delivered
  OBVIOUS
<1>1. TypeOK /\ Standing /\ ToShift
  BY DEF PlayerInv, Standing
<1>2. TrackedState
  BY <1>1, AtRest DEF TrackedState, Unmoved, Resting
<1>3. IrBits \in Nat /\ DrBits \in Nat
  BY RegistersAssumption
<1>4. ASSUME Ready, tap.state \notin IrScan, said.ir # Unknown
      PROVE  IF said.ir = Idcode THEN tap.ir = Idcode ELSE Recent(tap.ir, Len(said.ir)) = said.ir
  <2>1. Resting
    BY <1>1, <1>4, AtRest DEF Ready, Unmoved
  <2>2. player.state = tap.state /\ IrKept(tap)
    BY <2>1 DEF Resting
  <2>3. "IrShift" \in IrScan /\ IrHeld \subseteq IrScan
    BY DEF IrScan, IrHeld
  <2>4. CASE said.ir = Idcode
    BY <1>4, <2>2, <2>4 DEF IrKept
  <2>5. CASE said.ir # Idcode
    <3>1. said.ir # <<>>
      BY <1>1, <1>4, <2>2, <2>3 DEF ToShift
    <3>2. said.ir \in Seq(Bit) /\ Len(said.ir) <= IrBits /\ tap.ir \in Bits(IrBits) /\ EndsWith(tap.ir, IrBits, said.ir)
      BY <1>4, <2>2, <2>3, <2>5, <3>1 DEF IrKept
    <3>3. QED BY <1>3, <2>5, <3>2, EndsRecent
  <2>6. QED BY <2>4, <2>5
<1>5. ASSUME Ready, tap.state \notin DrScan, said.dr # Unknown
      PROVE  Recent(tap.dr, Len(said.dr)) = said.dr
  <2>1. Resting
    BY <1>1, <1>5, AtRest DEF Ready, Unmoved
  <2>2. DrKept(tap)
    BY <2>1 DEF Resting
  <2>3. DrHeld \subseteq DrScan
    BY DEF DrScan, DrHeld
  <2>4. said.dr \in Seq(Bit) /\ Len(said.dr) <= DrBits /\ EndsWith(tap.dr, DrBits, said.dr)
    BY <1>5, <2>2, <2>3 DEF DrKept
  <2>5. tap.dr \in Bits(DrBits)
    BY <1>1 DEF TypeOK
  <2>6. QED BY <1>3, <2>4, <2>5, EndsRecent
<1>6. QED BY <1>1, <1>2, <1>4, <1>5 DEF Delivered

\* The SVF of a load is one the player can be given.
LEMMA SvfParsed == Len(Svf) = 15 /\ \A i \in 1 .. 15 : Parsed(Svf[i])
<1>1. Len(Svf) = 15
  BY DEF Svf
<1>2. /\ Svf[1] = [cmd |-> "ENDDR", state |-> "Idle"]
      /\ Svf[2] = [cmd |-> "ENDIR", state |-> "IrPause"]
      /\ Svf[3] = [cmd |-> "STATE", path |-> <<"Idle">>]
      /\ Svf[15] = [cmd |-> "STATE", path |-> <<"Idle">>]
  BY DEF Svf
<1>3. Svf[4] = Sir(PROGRAM) /\ Svf[7] = Sir(CHECK_STATUS) /\ Svf[10] = Sir(STARTUP) /\ Svf[13] = Sir(BYPASS)
  BY DEF Svf
<1>4. Svf[8] = Run(ShortTck) /\ Svf[11] = Run(ShortTck) /\ Svf[12] = Run(InitTck) /\ Svf[14] = Run(SettleTck)
  BY DEF Svf
<1>5. Svf[5] = [cmd |-> "RUNTEST", run |-> "Idle", n |-> SettleTck, end |-> "Idle"]
  BY DEF Svf
<1>6. Svf[6] = [cmd |-> "SDR", len |-> Len(Stream), tdi |-> Stream, tdo |-> None, mask |-> None]
  BY DEF Svf
<1>7. Svf[9] = [cmd |-> "SDR", len |-> DrBits, tdi |-> Zero, tdo |-> ConfDone, mask |-> ConfDone]
  BY DEF Svf
<1>8. Parsed(Svf[1]) /\ Parsed(Svf[2])
  BY <1>2 DEF Parsed, Stable
<1>9. Parsed(Svf[3]) /\ Parsed(Svf[15])
  <2>1. <<"Idle">> \in Seq(Stable)
    BY DEF Stable
  <2>2. QED BY <1>2, <2>1 DEF Parsed
<1>10. IrBits \in Nat /\ DrBits \in Nat
  BY RegistersAssumption
<1>11. ASSUME NEW op \in Bits(IrBits) PROVE Parsed(Sir(op))
  BY <1>10 DEF Sir, Parsed
<1>12. ASSUME NEW n \in Nat PROVE Parsed(Run(n))
  BY DEF Run, Parsed
<1>13. Parsed(Svf[5])
  BY <1>5, InstructionAssumption DEF Parsed, Stable
<1>14. Parsed(Svf[6])
  <2>1. Stream \in Bits(Len(Stream)) /\ Len(Stream) \in Nat
    BY InstructionAssumption DEF Bits
  <2>2. QED BY <1>6, <2>1 DEF Parsed
<1>15. Parsed(Svf[9])
  <2>1. Zero \in Bits(DrBits) /\ ConfDone \in Bits(DrBits)
    BY DEF Zero, ConfDone, Bits, Bit
  <2>2. QED BY <1>7, <1>10, <2>1 DEF Parsed
<1>16. \A i \in {4, 7, 10, 13} : Parsed(Svf[i])
  BY <1>3, <1>11, InstructionAssumption
<1>17. \A i \in {8, 11, 12, 14} : Parsed(Svf[i])
  BY <1>4, <1>12, InstructionAssumption
<1>18. \A i \in 1 .. 15 : \/ i \in {1, 2, 3, 5, 6} \/ i \in {9, 15}
                          \/ i \in {4, 7, 10, 13} \/ i \in {8, 11, 12, 14}
  OBVIOUS
<1>19. QED BY <1>1, <1>8, <1>9, <1>13, <1>14, <1>15, <1>16, <1>17, <1>18


-----------------------------------------------------------------------------
(* The load of the EP2C35 command by command.                              *)

Sirs == {4, 7, 10, 13}
Runs == {5, 8, 11, 12, 14}
Sdrs == {6, 9}

\* The instruction a command is played under, and the one before it.
Op(n) ==
  CASE n \in 4 .. 6 -> PROGRAM
    [] n \in 7 .. 9 -> CHECK_STATUS
    [] n \in 10 .. 12 -> STARTUP
    [] OTHER -> BYPASS
OpBefore(n) ==
  CASE n \in 4 .. 6 -> Idcode
    [] n \in 7 .. 9 -> PROGRAM
    [] n \in 10 .. 12 -> CHECK_STATUS
    [] OTHER -> STARTUP

\* The call k that a command is to make when it has j of them left.
Is(k, state, bits, want) == k.call = "shift" /\ Shifting(k) = state /\ k.tdi = bits /\ k.want = want
Due(n, j, k) ==
  \/ n \in Sirs /\ j = 3 /\ k = Goto("IrShift")
  \/ n \in Sirs /\ j = 2 /\ Is(k, "IrShift", Op(n), None)
  \/ n \in Sirs /\ j = 1 /\ k = Goto("IrPause")
  \/ n \in Sdrs /\ j = 3 /\ k = Goto("DrShift")
  \/ n = 6 /\ j = 2 /\ Is(k, "DrShift", Stream, None)
  \/ n = 9 /\ j = 2 /\ Is(k, "DrShift", Zero, ConfDone) /\ k.mask = ConfDone
  \/ n \in Sdrs /\ j = 1 /\ k = Goto("Idle")
  \/ n \in Runs /\ j \in {1, 3} /\ k = Goto("Idle")
  \/ n \in Runs /\ j = 2 /\ k.call = "idle"
  \/ n \in {3, 15} /\ j = 1 /\ k = Goto("Idle")

\* Where the player has the TAP with j calls left.
Stands(n, j) ==
  CASE n \in Sirs /\ j = 2 -> {"IrShift"}
    [] n \in Sirs /\ j = 1 -> {"IrExit1"}
    [] n \in Sirs /\ j = 0 -> {"IrPause"}
    [] n \in Sdrs /\ j = 2 -> {"DrShift"}
    [] n \in Sdrs /\ j = 1 -> {"DrExit1"}
    [] n \in Runs /\ j = 3 -> {"Idle", "IrPause"}
    [] n \in 0 .. 2 \/ (n = 3 /\ j = 1) -> {Unknown}
    [] OTHER -> {"Idle"}

\* What has been said of the instruction.
Instructed(n, j) ==
  /\ n \in Sirs /\ j = 2 => said.ir = <<>>
  /\ n \notin Sirs \/ j \notin {2, 3} => said.ir = Op(n)

ConfBit == IF conf THEN 1 ELSE 0

\* The status register on its way out to be compared.
Asking ==
  /\ Len(calls) = 2 => /\ tap.state \in {"Idle", "DrSelect", "DrCapture", "DrShift"}
                       /\ tap.state = "DrShift" => tap.drShift[DrBits] = ConfBit
  /\ Len(calls) = 1 /\ check # None =>
       /\ check = [want |-> ConfDone, mask |-> ConfDone]
       /\ tdo \in Seq(Bit) /\ Len(tdo) + Len(wire) = DrBits
       /\ wire # <<>> => tap.drShift[Len(wire)] = ConfBit
       /\ wire = <<>> => tdo[DrBits] = ConfBit
  /\ Len(calls) < 2 /\ check = None /\ verdict = "playing" => conf

CycloneInv ==
  /\ pc \in 0 .. 15 /\ conf \in BOOLEAN
  /\ player.endDr = "Idle" /\ player.runState = "Idle" /\ player.endState = "Idle"
  /\ pc >= 2 => player.endIr = "IrPause"
  /\ verdict # "error" /\ (check # None => pc = 9 /\ Len(calls) = 1)
  /\ \A i \in 1 .. Len(calls) : Due(pc, Len(calls) - i + 1, calls[i])
  /\ player.state \in Stands(pc, Len(calls))
  /\ Len(calls) = 3 => wire = <<>>
  /\ pc = 3 /\ calls = <<>> => said.ir = Idcode /\ said.first
  /\ pc >= 4 => /\ Instructed(pc, Len(calls))
                /\ tap.ir \in {OpBefore(pc), Op(pc)}
                /\ said.first => pc = 4 /\ Len(calls) = 3
  /\ pc = 9 => Asking
  /\ pc >= 10 => conf

LEMMA Ops ==
  /\ \A n \in 4 .. 15 : Op(n) \in Bits(IrBits) /\ Op(n) \in Seq(Bit) /\ Len(Op(n)) = IrBits
                        /\ Op(n) # <<>> /\ Op(n) # Idcode /\ Op(n) # Unknown /\ Op(n) # None
  /\ \A n \in 4 .. 6 : Op(n) = PROGRAM /\ OpBefore(n) = Idcode
  /\ \A n \in 7 .. 9 : Op(n) = CHECK_STATUS /\ OpBefore(n) = PROGRAM
  /\ \A n \in 10 .. 12 : Op(n) = STARTUP /\ OpBefore(n) = CHECK_STATUS
  /\ \A n \in 13 .. 15 : Op(n) = BYPASS /\ OpBefore(n) = STARTUP
  /\ PROGRAM # STARTUP /\ PROGRAM # CHECK_STATUS /\ PROGRAM # BYPASS
  /\ STARTUP # CHECK_STATUS /\ STARTUP # BYPASS /\ CHECK_STATUS # BYPASS
  /\ STARTUP # Idcode /\ PROGRAM # Idcode
<1>1. {PROGRAM, STARTUP, CHECK_STATUS, BYPASS} \subseteq Bits(IrBits)
  BY InstructionAssumption
<1>2. IrBits \in Nat /\ IrBits > 0
  BY RegistersAssumption
<1>3. ASSUME NEW v \in Bits(IrBits)
      PROVE  v \in Seq(Bit) /\ Len(v) = IrBits /\ v # <<>> /\ v # Idcode /\ v # Unknown /\ v # None
  <2>1. v \in Seq(Bit) /\ Len(v) = IrBits
    BY <1>2 DEF Bits
  <2>2. v # <<>>
    BY <1>2, <2>1
  <2>3. QED BY <2>1, <2>2, RegistersAssumption
<1>4. \A n \in 4 .. 15 : Op(n) \in Bits(IrBits)
  BY <1>1 DEF Op
<1>5. /\ \A n \in 4 .. 6 : Op(n) = PROGRAM /\ OpBefore(n) = Idcode
      /\ \A n \in 7 .. 9 : Op(n) = CHECK_STATUS /\ OpBefore(n) = PROGRAM
      /\ \A n \in 10 .. 12 : Op(n) = STARTUP /\ OpBefore(n) = CHECK_STATUS
      /\ \A n \in 13 .. 15 : Op(n) = BYPASS /\ OpBefore(n) = STARTUP
  BY DEF Op, OpBefore
<1> DEFINE ops == <<PROGRAM, STARTUP, CHECK_STATUS, BYPASS>>
<1>6. \A i, j \in 1 .. 4 : ops[i] = ops[j] => i = j
  BY InstructionAssumption
<1>7. ops[1] = PROGRAM /\ ops[2] = STARTUP /\ ops[3] = CHECK_STATUS /\ ops[4] = BYPASS
  OBVIOUS
<1> HIDE DEF ops
<1>8. ops[1] # ops[2] /\ ops[1] # ops[3] /\ ops[1] # ops[4] /\ ops[2] # ops[3] /\ ops[2] # ops[4] /\ ops[3] # ops[4]
  BY <1>6
<1>9. QED BY <1>1, <1>3, <1>4, <1>5, <1>7, <1>8

LEMMA Places ==
  /\ \A n \in Sirs : /\ Stands(n, 3) = {"Idle"} /\ Stands(n, 2) = {"IrShift"}
                     /\ Stands(n, 1) = {"IrExit1"} /\ Stands(n, 0) = {"IrPause"}
  /\ \A n \in Sdrs : /\ Stands(n, 3) = {"Idle"} /\ Stands(n, 2) = {"DrShift"}
                     /\ Stands(n, 1) = {"DrExit1"} /\ Stands(n, 0) = {"Idle"}
  /\ \A n \in Runs : /\ Stands(n, 3) = {"Idle", "IrPause"}
                     /\ Stands(n, 2) = {"Idle"} /\ Stands(n, 1) = {"Idle"} /\ Stands(n, 0) = {"Idle"}
  /\ Stands(3, 1) = {Unknown} /\ Stands(3, 0) = {"Idle"}
  /\ Stands(15, 1) = {"Idle"} /\ Stands(15, 0) = {"Idle"}
  /\ \A n \in 0 .. 2 : Stands(n, 0) = {Unknown}
BY DEF Stands, Sirs, Sdrs, Runs

LEMMA Groups ==
  /\ \A n \in 0 .. 15 : n \in Sirs \cup Sdrs \cup Runs \cup {0, 1, 2, 3, 15}
  /\ Sirs \cap Sdrs = {} /\ Sirs \cap Runs = {} /\ Sdrs \cap Runs = {}
  /\ {0, 1, 2, 3, 15} \cap (Sirs \cup Sdrs \cup Runs) = {}
  /\ Sirs \subseteq 4 .. 15 /\ Sdrs \subseteq 5 .. 15 /\ Runs \subseteq 5 .. 15
BY DEF Sirs, Sdrs, Runs

\* A register that what was said fills.
LEMMA FullEnds ==
  ASSUME NEW n \in Nat, NEW v \in Bits(n), NEW b \in Bits(n), EndsWith(v, n, b)
  PROVE  v = b
<1>1. Len(b) = n
  BY DEF Bits
<1>2. \A i \in 1 .. n : b[i] = v[n - n + i]
  BY <1>1 DEF EndsWith
<1>3. \A i \in 1 .. n : n - n + i = i
  OBVIOUS
<1>4. \A i \in 1 .. n : b[i] = v[i]
  BY <1>2, <1>3
<1>5. QED BY <1>4 DEF Bits

\* Outside a scan of it the instruction in force is the one said.
LEMMA InForce ==
  ASSUME PlayerInv, IrKept(tap), NEW op \in Bits(IrBits), op # <<>>, said.ir = op
  PROVE  /\ tap.state \notin IrHeld \cup {"IrCapture"} => tap.ir = op
         /\ tap.state \in IrHeld => tap.irShift = op
<1>1. op \in Seq(Bit) /\ Len(op) = IrBits /\ op # Unknown /\ op # Idcode /\ IrBits \in Nat
  <2>1. IrBits \in Nat
    BY RegistersAssumption
  <2>2. op \in Seq(Bit) /\ Len(op) = IrBits
    BY <2>1 DEF Bits
  <2>3. QED BY <2>1, <2>2, RegistersAssumption
<1>2. tap.irShift \in Bits(IrBits)
  BY DEF PlayerInv, TypeOK
<1>3. /\ tap.state \in IrHeld => EndsWith(tap.irShift, IrBits, op)
      /\ tap.state \notin IrHeld => tap.ir \in Bits(IrBits) /\ EndsWith(tap.ir, IrBits, op)
  BY <1>1 DEF IrKept
<1>4. QED BY <1>1, <1>2, <1>3, FullEnds

LEMMA CycloneStarts == LoadInit => CycloneInv
<1> SUFFICES ASSUME LoadInit PROVE CycloneInv
  OBVIOUS
<1>1. /\ pc = 0 /\ conf \in BOOLEAN /\ calls = <<>> /\ wire = <<>> /\ check = None /\ verdict = "playing"
      /\ player = [state |-> Unknown, endIr |-> "Idle", endDr |-> "Idle",
                   runState |-> "Idle", endState |-> "Idle", lastIr |-> None, lastDr |-> None]
  BY DEF LoadInit, Init
<1>2. Len(calls) = 0
  BY <1>1
<1>3. player.state \in Stands(pc, Len(calls))
  BY <1>1, <1>2, Places
<1>4. QED BY <1>1, <1>2, <1>3 DEF CycloneInv

\* The commands of the load.
LEMMA Commands ==
  /\ \A n \in Sirs : Svf[n] = Sir(Op(n))
  /\ \A n \in Runs : /\ Svf[n].cmd = "RUNTEST" /\ Svf[n].n \in Nat
                     /\ Svf[n].run \in {None, "Idle"} /\ Svf[n].end \in {None, "Idle"}
  /\ Svf[6] = [cmd |-> "SDR", len |-> Len(Stream), tdi |-> Stream, tdo |-> None, mask |-> None]
  /\ Svf[9] = [cmd |-> "SDR", len |-> DrBits, tdi |-> Zero, tdo |-> ConfDone, mask |-> ConfDone]
  /\ \A n \in {3, 15} : Svf[n] = [cmd |-> "STATE", path |-> <<"Idle">>]
  /\ Svf[1] = [cmd |-> "ENDDR", state |-> "Idle"]
  /\ Svf[2] = [cmd |-> "ENDIR", state |-> "IrPause"]
<1>1. Svf[4] = Sir(PROGRAM) /\ Svf[7] = Sir(CHECK_STATUS) /\ Svf[10] = Sir(STARTUP) /\ Svf[13] = Sir(BYPASS)
  BY DEF Svf
<1>2. Svf[8] = Run(ShortTck) /\ Svf[11] = Run(ShortTck) /\ Svf[12] = Run(InitTck) /\ Svf[14] = Run(SettleTck)
  BY DEF Svf
<1>3. Svf[5] = [cmd |-> "RUNTEST", run |-> "Idle", n |-> SettleTck, end |-> "Idle"]
  BY DEF Svf
<1>4. \A n \in Sirs : Svf[n] = Sir(Op(n))
  <2>1. 4 \in 4 .. 6 /\ 7 \in 7 .. 9 /\ 10 \in 10 .. 12 /\ 13 \in 13 .. 15
    OBVIOUS
  <2>2. Op(4) = PROGRAM /\ Op(7) = CHECK_STATUS /\ Op(10) = STARTUP /\ Op(13) = BYPASS
    BY <2>1, Ops
  <2>3. QED BY <1>1, <2>2 DEF Sirs
<1>5. \A m \in Nat : Run(m).cmd = "RUNTEST" /\ Run(m).n = m /\ Run(m).run = None /\ Run(m).end = None
  BY DEF Run
<1>6. SettleTck \in Nat /\ ShortTck \in Nat /\ InitTck \in Nat
  BY InstructionAssumption
<1>7. \A n \in Runs : /\ Svf[n].cmd = "RUNTEST" /\ Svf[n].n \in Nat
                      /\ Svf[n].run \in {None, "Idle"} /\ Svf[n].end \in {None, "Idle"}
  BY <1>2, <1>3, <1>5, <1>6 DEF Runs
<1>8. QED
  <2>1. Svf[6] = [cmd |-> "SDR", len |-> Len(Stream), tdi |-> Stream, tdo |-> None, mask |-> None]
    BY DEF Svf
  <2>2. Svf[9] = [cmd |-> "SDR", len |-> DrBits, tdi |-> Zero, tdo |-> ConfDone, mask |-> ConfDone]
    BY DEF Svf
  <2>3. Svf[3] = [cmd |-> "STATE", path |-> <<"Idle">>] /\ Svf[15] = [cmd |-> "STATE", path |-> <<"Idle">>]
    BY DEF Svf
  <2>4. Svf[1] = [cmd |-> "ENDDR", state |-> "Idle"] /\ Svf[2] = [cmd |-> "ENDIR", state |-> "IrPause"]
    BY DEF Svf
  <2>5. QED BY <1>4, <1>7, <2>1, <2>2, <2>3, <2>4

\* A step that begins the next command keeps what does not depend on its calls.
LEMMA Plays ==
  ASSUME PlayerInv, CycloneInv, Play
  PROVE  /\ pc + 1 \in 1 .. 15 /\ pc' = pc + 1 /\ calls = <<>> /\ Len(calls) = 0 /\ wire = <<>> /\ wire' = <<>>
         /\ check = None /\ verdict = "playing" /\ UNCHANGED <<wire, tap, check, tdo, said, conf>>
         /\ LET c == Svf[pc + 1] IN EndIr(c) \/ EndDr(c) \/ State(c) \/ RunTest(c) \/ Shift(c)
         /\ player \in PlayerType
         /\ pc >= 4 => ~said.first
         /\ pc >= 3 => Resting
         /\ pc + 1 >= 10 => conf
<1>1. /\ pc < Len(Svf) /\ Begin(Svf[pc + 1]) /\ pc' = pc + 1 /\ conf' = conf
  BY DEF Play
<1>2. pc \in 0 .. 15 /\ Len(Svf) = 15
  BY SvfParsed DEF CycloneInv
<1>3. /\ Ready /\ UNCHANGED <<wire, tap, check, tdo, said>>
      /\ LET c == Svf[pc + 1] IN EndIr(c) \/ EndDr(c) \/ State(c) \/ RunTest(c) \/ Shift(c)
  BY <1>1 DEF Begin
<1>4. calls = <<>> /\ wire = <<>> /\ check = None /\ verdict = "playing" /\ Len(calls) = 0
  BY <1>3 DEF Ready
<1>5. player \in PlayerType
  BY DEF PlayerInv, PlayerType
<1>6. pc >= 4 => ~said.first
  BY <1>4 DEF CycloneInv
<1>7. pc >= 3 => Resting
  <2> SUFFICES ASSUME pc >= 3 PROVE Resting
    OBVIOUS
  <2>1. player.state \in Stands(pc, 0)
    BY <1>4 DEF CycloneInv
  <2>2. player.state \in {"Idle", "IrPause"}
    BY <1>2, <2>1 DEF Stands
  <2>3. Unknown \notin {"Idle", "IrPause"}
    BY RegistersAssumption DEF TapState
  <2>4. QED BY <1>4, <2>2, <2>3, AtRest DEF PlayerInv, Standing, Unmoved
<1>8. pc + 1 >= 10 => conf
  <2>1. pc >= 10 => conf
    BY DEF CycloneInv
  <2>2. pc = 9 => conf
    BY <1>4 DEF CycloneInv, Asking
  <2>3. QED BY <1>2, <2>1, <2>2
<1>9. pc + 1 \in 1 .. 15
  BY <1>1, <1>2
<1>10. QED BY <1>1, <1>3, <1>4, <1>5, <1>6, <1>7, <1>8, <1>9

\* The instruction in force when a command begins, and what was said of it.
LEMMA InForceAtPlay ==
  ASSUME PlayerInv, CycloneInv, Play, pc >= 3
  PROVE  LET n == pc + 1 IN
         /\ n \in Sirs => tap.ir = OpBefore(n)
         /\ n \notin Sirs => said.ir = Op(n) /\ tap.ir \in {OpBefore(n), Op(n)}
<1> DEFINE n == pc + 1
<1>1. /\ n \in 1 .. 15 /\ n >= 4 /\ Len(calls) = 0 /\ calls = <<>> /\ Resting /\ pc \in 3 .. 14
  BY Plays DEF CycloneInv
<1>2. IrKept(tap) /\ tap.state = player.state /\ player.state \in Stands(pc, 0)
  BY <1>1 DEF Resting, CycloneInv
<1>3. pc >= 4 => said.ir = Op(pc) /\ tap.ir \in {OpBefore(pc), Op(pc)}
  BY <1>1 DEF CycloneInv, Instructed
<1>4. CASE n = 4
  <2>1. said.ir = Idcode
    BY <1>1, <1>4 DEF CycloneInv
  <2>2. tap.ir = Idcode
    BY <1>2, <2>1, RegistersAssumption DEF IrKept
  <2>3. n \in Sirs /\ OpBefore(n) = Idcode
    BY <1>4 DEF Sirs, OpBefore
  <2>4. QED BY <2>2, <2>3
<1>5. CASE n \in {7, 10, 13}
  <2>0. /\ n \in Sirs /\ pc \in 4 .. 15
        /\ (pc \in 4 .. 6 /\ n \in 7 .. 9) \/ (pc \in 7 .. 9 /\ n \in 10 .. 12) \/ (pc \in 10 .. 12 /\ n \in 13 .. 15)
    BY <1>1, <1>5 DEF Sirs
  <2>1. said.ir = Op(pc) /\ OpBefore(n) = Op(pc) /\ n \in Sirs /\ pc \in 4 .. 15
    <3>1. \A m \in 4 .. 6, k \in 7 .. 9 : Op(m) = OpBefore(k)
      BY Ops
    <3>2. \A m \in 7 .. 9, k \in 10 .. 12 : Op(m) = OpBefore(k)
      BY Ops
    <3>3. \A m \in 10 .. 12, k \in 13 .. 15 : Op(m) = OpBefore(k)
      BY Ops
    <3>4. Op(pc) = OpBefore(n)
      BY <2>0, <3>1, <3>2, <3>3
    <3>5. pc >= 4
      BY <2>0
    <3>6. QED BY <2>0, <3>4, <3>5, <1>3
  <2>2. player.state = "Idle"
    BY <1>1, <1>2, <1>5 DEF Stands, Sirs, Sdrs, Runs
  <2>3. tap.state \notin IrHeld \cup {"IrCapture"}
    BY <1>2, <2>2 DEF IrHeld
  <2>4. tap.ir = Op(pc)
    BY <1>2, <2>1, <2>3, Ops, InForce
  <2>5. QED BY <2>1, <2>4
<1>6. CASE n \notin {4, 7, 10, 13}
  <2>1. pc \in 4 .. 15 /\ Op(n) = Op(pc) /\ OpBefore(n) = OpBefore(pc) /\ n \notin Sirs
    <3>1. n \in 5 .. 6 \/ n \in 8 .. 9 \/ n \in 11 .. 12 \/ n \in 14 .. 15
      BY <1>1, <1>6
    <3>2. pc \in 4 .. 15
      BY <1>1, <1>6
    <3>3. \/ pc \in 4 .. 6 /\ n \in 4 .. 6
          \/ pc \in 7 .. 9 /\ n \in 7 .. 9
          \/ pc \in 10 .. 12 /\ n \in 10 .. 12
          \/ pc \in 13 .. 15 /\ n \in 13 .. 15
      BY <1>1, <3>1
    <3>4. Op(n) = Op(pc) /\ OpBefore(n) = OpBefore(pc)
      BY <3>3, Ops
    <3>5. QED BY <1>6, <3>2, <3>4 DEF Sirs
  <2>2. QED BY <1>3, <2>1
<1>7. QED BY <1>4, <1>5, <1>6

\* The invariant after a command begins, by the calls it makes.
LEMMA PlayLeaves ==
  ASSUME PlayerInv, CycloneInv, Play,
         player'.state = player.state, player'.endDr = "Idle",
         player'.runState = "Idle", player'.endState = "Idle",
         pc + 1 >= 2 => player'.endIr = "IrPause",
         verdict' = "playing", Len(calls') \in {0, 1, 3},
         \A i \in 1 .. Len(calls') : Due(pc + 1, Len(calls') - i + 1, calls'[i]),
         player.state \in Stands(pc + 1, Len(calls')),
         pc + 1 = 3 => Len(calls') = 1,
         pc + 1 \in Sirs \cup Sdrs => Len(calls') = 3
  PROVE  CycloneInv'
<1> DEFINE n == pc + 1
<1>1. /\ n \in 1 .. 15 /\ pc' = n /\ wire' = <<>> /\ UNCHANGED <<wire, tap, check, tdo, said, conf>>
      /\ check = None /\ (pc >= 4 => ~said.first) /\ (n >= 10 => conf) /\ pc \in 0 .. 15 /\ conf \in BOOLEAN
  BY Plays DEF CycloneInv
<1>2. ASSUME n >= 4 
      PROVE  /\ n \in Sirs => tap.ir = OpBefore(n) /\ Len(calls') = 3
             /\ n \notin Sirs => said.ir = Op(n)
             /\ tap.ir \in {OpBefore(n), Op(n)}
  <2>1. pc >= 3
    BY <1>1, <1>2
  <2>2. /\ n \in Sirs => tap.ir = OpBefore(n)
        /\ n \notin Sirs => said.ir = Op(n) /\ tap.ir \in {OpBefore(n), Op(n)}
    BY <2>1, InForceAtPlay
  <2>3. QED BY <2>2
<1>3. ASSUME n = 4 PROVE Len(calls') = 3
  <2>1. n \in Sirs
    BY <1>3 DEF Sirs
  <2>2. QED BY <2>1
<1>4. (pc >= 4)' => /\ Instructed(pc, Len(calls))'
                    /\ (tap.ir \in {OpBefore(pc), Op(pc)})'
                    /\ (said.first => pc = 4 /\ Len(calls) = 3)'
  <2> SUFFICES ASSUME n >= 4
      PROVE  /\ Instructed(pc, Len(calls))'
             /\ tap'.ir \in {OpBefore(n), Op(n)}
             /\ said'.first => n = 4 /\ Len(calls') = 3
    BY <1>1 DEF OpBefore, Op
  <2>1. Instructed(pc, Len(calls))'
    <3>1. CASE n \in Sirs
      BY <3>1, <1>1, <1>2 DEF Instructed
    <3>2. CASE n \notin Sirs
      BY <3>2, <1>1, <1>2 DEF Instructed, Op
    <3>3. QED BY <3>1, <3>2
  <2>2. QED BY <1>1, <1>2, <1>3, <2>1
<1>5. (pc = 9 => Asking)'
  <2> SUFFICES ASSUME n = 9 PROVE Asking'
    BY <1>1
  <2>1. Len(calls') = 3
    BY DEF Sdrs
  <2>2. QED BY <2>1 DEF Asking
<1>6. (pc = 3 /\ calls = <<>> => said.ir = Idcode /\ said.first)'
  BY <1>1
<1>7. (\A i \in 1 .. Len(calls) : Due(pc, Len(calls) - i + 1, calls[i]))'
  <2> SUFFICES ASSUME NEW i \in 1 .. Len(calls') PROVE Due(n, Len(calls') - i + 1, calls'[i])
    BY <1>1 DEF Due, Is, Shifting, Op
  <2>1. QED OBVIOUS
<1>8. (player.state \in Stands(pc, Len(calls)))'
  BY <1>1 DEF Stands
<1>9. (verdict # "error" /\ (check # None => pc = 9 /\ Len(calls) = 1))' /\ (pc \in 0 .. 15 /\ conf \in BOOLEAN)'
      /\ (pc >= 10 => conf)' /\ (Len(calls) = 3 => wire = <<>>)'
  BY <1>1
<1>10. (player.endDr = "Idle" /\ player.runState = "Idle" /\ player.endState = "Idle")' /\ (pc >= 2 => player.endIr = "IrPause")'
  BY <1>1
<1>11. QED BY <1>4, <1>5, <1>6, <1>7, <1>8, <1>9, <1>10 DEF CycloneInv

\* A shift that brings its TDI and some bits.
LEMMA ShiftCalls ==
  ASSUME NEW c, c.cmd \in {"SIR", "SDR"}, c.len \in Nat, c.len > 0, c.tdi # None,
         player \in PlayerType, verdict = "playing", Begin(c)
  PROVE  LET state == IF c.cmd = "SIR" THEN "IrShift" ELSE "DrShift"
             end == IF c.cmd = "SIR" THEN player.endIr ELSE player.endDr
         IN /\ Len(calls') = 3 /\ calls'[1] = Goto(state) /\ calls'[3] = Goto(end)
            /\ Is(calls'[2], state, c.tdi, c.tdo)
            /\ c.mask # None => calls'[2].mask = c.mask
            /\ verdict' = "playing"
            /\ player'.state = player.state /\ player'.endIr = player.endIr /\ player'.endDr = player.endDr
            /\ player'.runState = player.runState /\ player'.endState = player.endState
<1> DEFINE isIr == c.cmd = "SIR"
           last == IF isIr THEN player.lastIr ELSE player.lastDr
           carries == last # None /\ last.len = c.len
           tdi == IF c.tdi # None THEN c.tdi ELSE IF carries THEN last.tdi ELSE None
           mask == IF c.mask # None THEN c.mask
                   ELSE IF carries THEN last.mask ELSE [i \in 1 .. c.len |-> 1]
           now == [len |-> c.len, tdi |-> tdi, mask |-> mask]
           k == [call |-> "shift", ir |-> isIr, tdi |-> tdi, want |-> c.tdo, mask |-> mask]
           end == IF isIr THEN player.endIr ELSE player.endDr
           g == Goto(IF isIr THEN "IrShift" ELSE "DrShift")
           e == Goto(end)
<1>1. Shift(c)
  BY DEF Begin, EndIr, EndDr, State, RunTest
<1>2. ~Refused(tdi)
  BY DEF Refused
<1>3. /\ player' = IF isIr THEN [player EXCEPT !.lastIr = now] ELSE [player EXCEPT !.lastDr = now]
      /\ calls' = <<g, k>> \o <<e>>
      /\ verdict' = verdict
  BY <1>1, <1>2 DEF Shift
<1>4. tdi = c.tdi /\ (c.mask # None => mask = c.mask)
  OBVIOUS
<1> DEFINE state == IF c.cmd = "SIR" THEN "IrShift" ELSE "DrShift"
<1>5. Is(k, state, c.tdi, c.tdo) /\ (c.mask # None => k.mask = c.mask)
  <2>1. k.call = "shift" /\ k.tdi = tdi /\ k.want = c.tdo /\ k.mask = mask
    OBVIOUS
  <2>2. Shifting(k) = state
    BY DEF Shifting
  <2> HIDE DEF k, tdi, mask, state
  <2>3. QED BY <1>4, <2>1, <2>2 DEF Is
<1>6. /\ player'.state = player.state /\ player'.endIr = player.endIr /\ player'.endDr = player.endDr
      /\ player'.runState = player.runState /\ player'.endState = player.endState
  <2> HIDE DEF now
  <2>1. CASE isIr
    BY <1>3, <2>1 DEF PlayerType
  <2>2. CASE ~isIr
    BY <1>3, <2>2 DEF PlayerType
  <2>3. QED BY <2>1, <2>2
<1>7. g = Goto(state)
  OBVIOUS
<1> HIDE DEF k, g, e, tdi, mask, state
<1>8. Len(calls') = 3 /\ calls'[1] = g /\ calls'[2] = k /\ calls'[3] = e
  BY <1>3
<1>9. QED BY <1>3, <1>5, <1>6, <1>7, <1>8 DEF state, e

\* A command begun with nothing left to do, or with one move.
LEMMA PlayKeepsOrder ==
  ASSUME PlayerInv, CycloneInv, Play, pc + 1 \in {1, 2, 3, 15}
  PROVE  CycloneInv'
<1> DEFINE n == pc + 1
           c == Svf[n]
<1>1. /\ n \in 1 .. 15 /\ player \in PlayerType /\ verdict = "playing" /\ calls = <<>> /\ Len(calls) = 0
      /\ EndIr(c) \/ EndDr(c) \/ State(c) \/ RunTest(c) \/ Shift(c)
      /\ pc \in 0 .. 14
  BY Plays DEF CycloneInv
<1>2. /\ player.state \in Stands(pc, 0) /\ player.endDr = "Idle" /\ player.runState = "Idle" /\ player.endState = "Idle"
      /\ (pc >= 2 => player.endIr = "IrPause")
  BY <1>1 DEF CycloneInv
<1>3. n \notin Sirs /\ n \notin Sdrs
  BY DEF Sirs, Sdrs
<1>4. CASE n = 1
  <2>1. c = [cmd |-> "ENDDR", state |-> "Idle"]
    BY <1>4, Commands
  <2>2. player' = [player EXCEPT !.endDr = "Idle"] /\ calls' = calls /\ verdict' = verdict
    BY <1>1, <2>1 DEF EndIr, EndDr, State, RunTest, Shift
  <2>3. player'.state = player.state /\ player'.endDr = "Idle" /\ player'.runState = "Idle" /\ player'.endState = "Idle"
    BY <1>1, <1>2, <2>2 DEF PlayerType
  <2>4. player.state \in Stands(n, 0)
    BY <1>1, <1>2, <1>4, Places
  <2>5. QED BY <1>1, <1>3, <1>4, <2>2, <2>3, <2>4, PlayLeaves
<1>5. CASE n = 2
  <2>1. c = [cmd |-> "ENDIR", state |-> "IrPause"]
    BY <1>5, Commands
  <2>2. player' = [player EXCEPT !.endIr = "IrPause"] /\ calls' = calls /\ verdict' = verdict
    BY <1>1, <2>1 DEF EndIr, EndDr, State, RunTest, Shift
  <2>3. player'.state = player.state /\ player'.endDr = "Idle" /\ player'.runState = "Idle" /\ player'.endState = "Idle"
        /\ player'.endIr = "IrPause"
    BY <1>1, <1>2, <2>2 DEF PlayerType
  <2>4. player.state \in Stands(n, 0)
    BY <1>1, <1>2, <1>5, Places
  <2>5. QED BY <1>1, <1>3, <1>5, <2>2, <2>3, <2>4, PlayLeaves
<1>6. CASE n \in {3, 15}
  <2>1. c = [cmd |-> "STATE", path |-> <<"Idle">>]
    BY <1>6, Commands
  <2>2. calls' = [i \in DOMAIN c.path |-> Goto(c.path[i])] /\ player' = player /\ verdict' = verdict
    BY <1>1, <2>1 DEF EndIr, EndDr, State, RunTest, Shift
  <2>3. DOMAIN c.path = 1 .. 1 /\ c.path[1] = "Idle"
    BY <2>1
  <2>4. Len(calls') = 1 /\ calls'[1] = Goto("Idle")
    BY <2>2, <2>3
  <2>5. Due(n, 1, Goto("Idle"))
    BY <1>6 DEF Due
  <2>6. \A i \in 1 .. Len(calls') : Due(n, Len(calls') - i + 1, calls'[i])
    BY <2>4, <2>5
  <2>7. player.state \in Stands(n, 1)
    <3>1. CASE n = 3
      BY <1>1, <1>2, <3>1, Places
    <3>2. CASE n = 15
      <4>1. 14 \in Runs /\ pc = 14
        BY <1>1, <3>2 DEF Runs
      <4>2. QED BY <1>2, <3>2, <4>1, Places
    <3>3. QED BY <1>6, <3>1, <3>2
  <2>8. pc + 1 >= 2 => player'.endIr = "IrPause"
    BY <1>1, <1>2, <1>6, <2>2
  <2>9. QED BY <1>1, <1>2, <1>3, <1>6, <2>2, <2>4, <2>6, <2>7, <2>8, PlayLeaves
<1>7. QED BY <1>4, <1>5, <1>6

\* A command of three calls.
LEMMA PlayKeepsThree ==
  ASSUME PlayerInv, CycloneInv, Play, pc + 1 \notin {1, 2, 3, 15}
  PROVE  CycloneInv'
<1> DEFINE n == pc + 1
           c == Svf[n]
<1>1. /\ n \in 1 .. 15 /\ player \in PlayerType /\ verdict = "playing" /\ calls = <<>> /\ Len(calls) = 0
      /\ EndIr(c) \/ EndDr(c) \/ State(c) \/ RunTest(c) \/ Shift(c)
      /\ pc \in 0 .. 14 /\ Begin(c)
  BY Plays DEF CycloneInv, Play
<1>2. /\ player.state \in Stands(pc, 0) /\ player.endDr = "Idle" /\ player.runState = "Idle" /\ player.endState = "Idle"
      /\ player.endIr = "IrPause"
  BY <1>1 DEF CycloneInv
<1>3. n \in 4 .. 14 /\ n \in Sirs \cup Sdrs \cup Runs
  BY <1>1, Groups
<1>4. pc \in 3 .. 13 /\ n \in 4 .. 15
  BY <1>1, <1>3
<1> SUFFICES /\ Len(calls') = 3 /\ verdict' = "playing" 
             /\ Due(n, 3, calls'[1]) /\ Due(n, 2, calls'[2]) /\ Due(n, 1, calls'[3])
             /\ player.state \in Stands(n, 3)
             /\ player'.state = player.state /\ player'.endIr = "IrPause" /\ player'.endDr = "Idle"
             /\ player'.runState = "Idle" /\ player'.endState = "Idle"
  <2>1. Len(calls') \in {0, 1, 3} /\ (pc + 1 = 3 => Len(calls') = 1)
    BY <1>3
  <2>2. \A i \in 1 .. Len(calls') : Due(pc + 1, Len(calls') - i + 1, calls'[i])
    <3>1. \A i \in 1 .. 3 : (i = 1 /\ 3 - i + 1 = 3) \/ (i = 2 /\ 3 - i + 1 = 2) \/ (i = 3 /\ 3 - i + 1 = 1)
      OBVIOUS
    <3>2. QED BY <3>1
  <2>3. QED BY <2>1, <2>2, PlayLeaves
<1>5. CASE n \in Sirs
  <2>1. c = Sir(Op(n)) /\ IrBits \in Nat /\ IrBits > 0
    BY <1>5, Commands, RegistersAssumption
  <2>2. c.cmd = "SIR" /\ c.len = IrBits /\ c.tdi = Op(n) /\ c.tdo = None
    BY <2>1 DEF Sir
  <2>3. Op(n) # None
    BY <1>4, Ops
  <2> HIDE DEF c
  <2>4. /\ Len(calls') = 3 /\ calls'[1] = Goto("IrShift") /\ calls'[3] = Goto("IrPause")
        /\ Is(calls'[2], "IrShift", Op(n), None) /\ verdict' = "playing"
        /\ player'.state = player.state /\ player'.endIr = player.endIr /\ player'.endDr = player.endDr
        /\ player'.runState = player.runState /\ player'.endState = player.endState
    <3>1. c.cmd \in {"SIR", "SDR"} /\ c.len \in Nat /\ c.len > 0 /\ c.tdi # None
      BY <2>1, <2>2, <2>3
    <3>2. QED BY <1>1, <1>2, <2>2, <3>1, ShiftCalls
  <2>5. Due(n, 3, calls'[1]) /\ Due(n, 2, calls'[2]) /\ Due(n, 1, calls'[3])
    BY <1>5, <2>4 DEF Due
  <2>6. player.state \in Stands(n, 3)
    <3>1. pc = 3 \/ pc \in Sdrs \/ pc \in Runs
      BY <1>4, <1>5 DEF Sirs, Sdrs, Runs
    <3>2. player.state = "Idle"
      BY <1>2, <3>1, Places
    <3>3. QED BY <1>5, <3>2, Places
  <2>7. QED BY <1>2, <2>4, <2>5, <2>6
<1>6. CASE n \in Sdrs
  <2>1. n = 6 \/ n = 9
    BY <1>6 DEF Sdrs
  <2>2. /\ c.cmd = "SDR" /\ c.len \in Nat /\ c.len > 0
        /\ n = 6 => c.tdi = Stream /\ c.tdo = None
        /\ n = 9 => c.tdi = Zero /\ c.tdo = ConfDone /\ c.mask = ConfDone /\ c.mask # None
        /\ c.tdi # None
    <3>1. DrBits \in Nat /\ DrBits > 0
      BY RegistersAssumption
    <3>2. Zero \in Seq(Bit) /\ ConfDone \in Seq(Bit)
      BY <3>1 DEF Zero, ConfDone, Bit
    <3>3. Stream \in Seq(Bit) /\ Stream # <<>>
      BY InstructionAssumption
    <3>4. Zero # None /\ ConfDone # None /\ Stream # None
      BY <3>2, <3>3, RegistersAssumption
    <3>5. Len(Stream) \in Nat /\ Len(Stream) > 0
      BY <3>3
    <3>6. n = 6 => c = [cmd |-> "SDR", len |-> Len(Stream), tdi |-> Stream, tdo |-> None, mask |-> None]
      BY Commands
    <3>7. n = 9 => c = [cmd |-> "SDR", len |-> DrBits, tdi |-> Zero, tdo |-> ConfDone, mask |-> ConfDone]
      BY Commands
    <3> HIDE DEF c
    <3>8. QED BY <2>1, <3>1, <3>4, <3>5, <3>6, <3>7
  <2> HIDE DEF c
  <2>3. /\ Len(calls') = 3 /\ calls'[1] = Goto("DrShift") /\ calls'[3] = Goto("Idle")
        /\ Is(calls'[2], "DrShift", c.tdi, c.tdo) /\ (c.mask # None => calls'[2].mask = c.mask) /\ verdict' = "playing"
        /\ player'.state = player.state /\ player'.endIr = player.endIr /\ player'.endDr = player.endDr
        /\ player'.runState = player.runState /\ player'.endState = player.endState
    <3>1. c.cmd \in {"SIR", "SDR"} /\ c.cmd # "SIR"
      BY <2>2
    <3>2. QED BY <1>1, <1>2, <2>2, <3>1, ShiftCalls
  <2>4. Due(n, 3, calls'[1]) /\ Due(n, 2, calls'[2]) /\ Due(n, 1, calls'[3])
    <3>1. Due(n, 3, calls'[1]) /\ Due(n, 1, calls'[3])
      BY <1>6, <2>3 DEF Due
    <3>2. Due(n, 2, calls'[2])
      BY <2>1, <2>2, <2>3 DEF Due
    <3>3. QED BY <3>1, <3>2
  <2>5. player.state \in Stands(n, 3)
    <3>1. pc \in Runs
      BY <1>4, <2>1 DEF Runs
    <3>2. player.state = "Idle"
      BY <1>2, <3>1, Places
    <3>3. QED BY <1>6, <3>2, Places
  <2>6. QED BY <1>2, <2>3, <2>4, <2>5
<1>7. CASE n \in Runs
  <2>1. c.cmd = "RUNTEST" /\ c.n \in Nat /\ c.run \in {None, "Idle"} /\ c.end \in {None, "Idle"} /\ "Idle" # None
    BY <1>7, Commands, RegistersAssumption DEF Stable
  <2>2. RunTest(c)
    BY <1>1, <2>1 DEF EndIr, EndDr, State, Shift
  <2> DEFINE w == [call |-> "idle", n |-> c.n]
  <2>3. /\ player' = [player EXCEPT !.runState = "Idle", !.endState = "Idle"]
        /\ calls' = <<Goto("Idle"), w, Goto("Idle")>> /\ verdict' = "playing"
    BY <1>1, <1>2, <2>1, <2>2 DEF RunTest
  <2>4. w.call = "idle"
    OBVIOUS
  <2> HIDE DEF w
  <2>5. Len(calls') = 3 /\ calls'[1] = Goto("Idle") /\ calls'[2] = w /\ calls'[3] = Goto("Idle")
    BY <2>3
  <2>6. Due(n, 3, calls'[1]) /\ Due(n, 2, calls'[2]) /\ Due(n, 1, calls'[3])
    BY <1>7, <2>4, <2>5 DEF Due
  <2>7. player.state \in Stands(n, 3)
    <3>1. pc \in Sirs \/ pc \in Sdrs \/ pc \in Runs
      BY <1>4, <1>7 DEF Sirs, Sdrs, Runs
    <3>2. player.state \in {"Idle", "IrPause"}
      BY <1>2, <3>1, Places
    <3>3. QED BY <1>7, <3>2, Places
  <2>8. /\ player'.state = player.state /\ player'.endIr = player.endIr /\ player'.endDr = player.endDr
        /\ player'.runState = "Idle" /\ player'.endState = "Idle"
    BY <1>1, <2>3 DEF PlayerType
  <2>9. QED BY <1>2, <2>3, <2>5, <2>6, <2>7, <2>8
<1>8. QED BY <1>3, <1>5, <1>6, <1>7

LEMMA PlayKeeps == PlayerInv /\ CycloneInv /\ Play => CycloneInv'
BY PlayKeepsOrder, PlayKeepsThree

\* What the moves of the load keep of the instruction said.
LEMMA SaidOnTheWay ==
  ASSUME NEW from \in TapState \cup {Unknown}, NEW to \in TapState
  PROVE  LET s == Said(from, to) IN
         /\ from # Unknown /\ to \notin {"Reset", "IrShift", "IrPause"} => s.ir = said.ir
         /\ from = "IrExit1" /\ to = "IrPause" => s.ir = said.ir
         /\ from = "Idle" /\ to = "IrShift" => s.ir = <<>>
         /\ from = Unknown /\ to = "Idle" => s.ir = Idcode
         /\ s.first <=> from = Unknown
<1> DEFINE was == IF from = Unknown \/ to = "Reset" THEN Idcode ELSE said.ir
           i == Kept(was, IrScan, "IrShift", "IrPause", from, to)
           d == Kept(said.dr, DrScan, "DrShift", "DrPause", from, to)
           f == from = Unknown
<1>1. Said(from, to) = [ir |-> i, dr |-> d, first |-> f]
  BY DEF Said
<1>2. to \notin {"IrShift", "IrPause"} => i = was
  BY DEF Kept
<1>3. from = "IrExit1" /\ to = "IrPause" => i = was
  BY DEF Kept, IrScan
<1>4. from = "Idle" /\ to = "IrShift" => i = <<>>
  BY DEF Kept, IrScan
<1>5. /\ from # Unknown /\ to # "Reset" => was = said.ir
      /\ from = Unknown => was = Idcode
  OBVIOUS
<1>6. "IrExit1" # Unknown
  BY RegistersAssumption DEF TapState
<1> HIDE DEF i, d, was
<1>7. Said(from, to).ir = i /\ (Said(from, to).first <=> f)
  <2> HIDE DEF f
  <2>1. QED BY <1>1
<1>8. QED BY <1>2, <1>3, <1>4, <1>5, <1>6, <1>7 DEF f

\* The next call of the load, with j of them left.
LEMMA Calling ==
  ASSUME PlayerInv, CycloneInv, Call
  PROVE  LET k == calls[1]
             j == Len(calls)
         IN /\ j \in 1 .. 3 /\ pc \in 3 .. 15 /\ Due(pc, j, k)
            /\ Len(calls') = j - 1 /\ \A i \in 1 .. j - 1 : calls'[i] = calls[i + 1]
            /\ calls' \in Seq(CallSet)
            /\ wire = <<>> /\ check = None /\ verdict = "playing" /\ UNCHANGED <<tap, verdict>>
            /\ player \in PlayerType
            /\ Move(k) \/ Scan(k) \/ Wait(k)
            /\ player.state # Unknown => Resting
<1> DEFINE k == calls[1]
           j == Len(calls)
<1>1. /\ calls' = Tail(calls) /\ calls' \in Seq(CallSet) /\ wire = <<>> /\ check = None /\ verdict = "playing"
      /\ UNCHANGED <<tap, verdict>>
  BY Called
<1>2. calls \in Seq(CallSet)
  BY CallsTyped DEF PlayerInv
<1>4. calls # <<>>
  BY DEF Call
<1>5. /\ j \in Nat /\ j >= 1 /\ Len(calls') = j - 1 /\ k = Head(calls)
      /\ \A i \in 1 .. j - 1 : calls'[i] = calls[i + 1]
  BY <1>1, <1>2, <1>4
<1>6. Due(pc, j - 1 + 1, k)
  BY <1>5 DEF CycloneInv
<1>7. j - 1 + 1 = j
  BY <1>5
<1>8. j \in {1, 2, 3} /\ pc \in Sirs \cup Sdrs \cup Runs \cup {3, 15}
  BY <1>6, <1>7 DEF Due, Sdrs
<1>9. pc \in 3 .. 15
  BY <1>8, Groups
<1>10. player \in PlayerType
  BY DEF PlayerInv, PlayerType
<1>11. player.state # Unknown => Resting
  BY <1>1, AtRest DEF PlayerInv, Standing, Unmoved
<1>12. Move(k) \/ Scan(k) \/ Wait(k)
  BY <1>5 DEF Call
<1> HIDE DEF k
<1>13. QED BY <1>1, <1>5, <1>6, <1>7, <1>8, <1>9, <1>10, <1>11, <1>12 DEF k

\* The invariant after a call, from what the call does.
LEMMA CallLeaves ==
  ASSUME PlayerInv, CycloneInv, Call, UNCHANGED <<pc, conf>>,
         player'.state \in Stands(pc, Len(calls) - 1),
         player'.endIr = player.endIr, player'.endDr = player.endDr,
         player'.runState = player.runState, player'.endState = player.endState,
         check' # None => pc = 9 /\ Len(calls) = 2,
         pc = 3 => said'.ir = Idcode /\ said'.first,
         pc >= 4 => ~said'.first,
         pc >= 4 => IF pc \in Sirs /\ Len(calls) = 3 THEN said'.ir = <<>> ELSE said'.ir = Op(pc),
         pc = 9 => Asking'
  PROVE  CycloneInv'
<1> DEFINE j == Len(calls)
<1>1. /\ j \in 1 .. 3 /\ pc \in 3 .. 15
      /\ Len(calls') = j - 1 /\ \A i \in 1 .. j - 1 : calls'[i] = calls[i + 1]
      /\ verdict = "playing" /\ UNCHANGED <<tap, verdict>>
  BY Calling
<1>2. (\A i \in 1 .. Len(calls) : Due(pc, Len(calls) - i + 1, calls[i]))'
  <2> SUFFICES ASSUME NEW i \in 1 .. Len(calls') PROVE Due(pc', Len(calls') - i + 1, calls'[i])
    BY DEF Due, Is, Shifting, Op
  <2>0. /\ i \in 1 .. j - 1 /\ Len(calls') - i + 1 = (j - 1) - i + 1
        /\ pc' = pc /\ calls'[i] = calls[i + 1]
    BY <1>1
  <2>1. i + 1 \in 1 .. j /\ (j - 1) - i + 1 = j - (i + 1) + 1
    BY <1>1
  <2>2. Due(pc, j - (i + 1) + 1, calls[i + 1])
    BY <2>1 DEF CycloneInv
  <2>3. QED BY <2>0, <2>1, <2>2
<1>3. (player.state \in Stands(pc, Len(calls)))'
  BY <1>1 DEF Stands
<1>4. (pc >= 4)' => /\ Instructed(pc, Len(calls))'
                    /\ (tap.ir \in {OpBefore(pc), Op(pc)})'
                    /\ (said.first => pc = 4 /\ Len(calls) = 3)'
  <2> SUFFICES ASSUME pc >= 4
      PROVE  /\ Instructed(pc, Len(calls))'
             /\ tap.ir \in {OpBefore(pc), Op(pc)}
             /\ ~said'.first
    BY <1>1 DEF OpBefore, Op
  <2>1. tap.ir \in {OpBefore(pc), Op(pc)}
    BY DEF CycloneInv
  <2>2. IF pc \in Sirs /\ j = 3 THEN said'.ir = <<>> ELSE said'.ir = Op(pc)
    OBVIOUS
  <2>3. Len(calls') = 2 <=> j = 3
    BY <1>1
  <2>4. Len(calls') # 3
    BY <1>1
  <2> HIDE DEF j
  <2>5. /\ pc \in Sirs /\ Len(calls') = 2 => said'.ir = <<>>
        /\ pc \notin Sirs \/ Len(calls') \notin {2, 3} => said'.ir = Op(pc)
    BY <2>2, <2>3
  <2>6. Instructed(pc, Len(calls))'
    BY <2>5 DEF Instructed, Op
  <2>7. QED BY <2>1, <2>6
<1>5. (pc = 3 /\ calls = <<>> => said.ir = Idcode /\ said.first)'
  OBVIOUS
<1>6. (verdict # "error")' /\ (pc \in 0 .. 15 /\ conf \in BOOLEAN)' /\ (pc >= 10 => conf)'
  BY <1>1 DEF CycloneInv
<1>7. (check # None => pc = 9 /\ Len(calls) = 1)' /\ (Len(calls) = 3 => wire = <<>>)'
  <2>0. Len(calls') = j - 1 /\ j \in 1 .. 3
    BY <1>1
  <2> HIDE DEF j
  <2>1. Len(calls') # 3 /\ (j = 2 => Len(calls') = 1)
    BY <2>0
  <2>2. check' # None => pc' = 9 /\ Len(calls') = 1
    BY <2>1 DEF j
  <2>3. QED BY <2>1, <2>2
<1>8. (player.endDr = "Idle" /\ player.runState = "Idle" /\ player.endState = "Idle")' /\ (pc >= 2 => player.endIr = "IrPause")'
  BY DEF CycloneInv
<1>9. (pc = 9 => Asking)'
  OBVIOUS
<1>10. QED BY <1>2, <1>3, <1>4, <1>5, <1>6, <1>7, <1>8, <1>9 DEF CycloneInv

\* The status register when it is about to be shifted.
LEMMA AskingStarts ==
  ASSUME pc = 9, conf' = conf, Len(calls') = 1, tdo' = <<>>, wire' = Out(Zero), tap' = tap,
         check' = [want |-> ConfDone, mask |-> ConfDone],
         tap.drShift[DrBits] = ConfBit
  PROVE  Asking'
<1>1. DrBits \in Nat /\ DrBits > 0
  BY RegistersAssumption
<1>2. Zero \in Seq(Bit) /\ Len(Zero) = DrBits /\ ConfDone \in Seq(Bit)
  BY <1>1 DEF Zero, ConfDone, Bit
<1>3. Len(wire') = DrBits
  <2>1. DOMAIN Zero = 1 .. DrBits
    BY DEF Zero
  <2>2. wire' = [i \in 1 .. DrBits |-> [tms |-> i = Len(Zero), tdi |-> Zero[i]]]
    BY <2>1 DEF Out
  <2>3. QED BY <1>1, <2>2
<1>4. <<>> \in Seq(Bit) /\ Len(<<>>) = 0
  OBVIOUS
<1>5. [want |-> ConfDone, mask |-> ConfDone] \in [want: Seq(Bit), mask: Seq(Bit)]
  BY <1>2
<1>6. check' # None
  BY <1>5, RegistersAssumption
<1>7. wire' # <<>>
  BY <1>1, <1>3, <1>4
<1>8. ConfBit' = ConfBit
  BY DEF ConfBit
<1>9. 0 + DrBits = DrBits
  BY <1>1
<1>10. Len(tdo') + Len(wire') = DrBits /\ tdo' \in Seq(Bit)
  BY <1>3, <1>4, <1>9
<1>11. QED BY <1>3, <1>6, <1>7, <1>8, <1>10 DEF Asking

LEMMA CycloneMoves ==
  ASSUME PlayerInv, CycloneInv, Call, UNCHANGED <<pc, conf>>, Len(calls) # 2
  PROVE  CycloneInv'
<1> DEFINE k == calls[1]
           j == Len(calls)
<1>1. /\ j \in 1 .. 3 /\ pc \in 3 .. 15 /\ Due(pc, j, k) /\ Len(calls') = j - 1 
      /\ check = None /\ verdict = "playing" /\ UNCHANGED <<tap, verdict>> /\ player \in PlayerType
      /\ Move(k) \/ Scan(k) \/ Wait(k)
      /\ player.state # Unknown => Resting
  BY Calling
<1>2. player.state \in Stands(pc, j)
  BY DEF CycloneInv
<1>3. pc \in Sirs \cup Sdrs \cup Runs \cup {3, 15} /\ j \in {1, 3}
  BY <1>1, Groups
<1>4. PICK t \in TapState : k = Goto(t)
  BY <1>1 DEF Due, TapState
<1>5. k.call = "goto" /\ k.to = t
  BY <1>4 DEF Goto
<1>6. Move(k)
  BY <1>1, <1>5 DEF Scan, Wait
<1>7. /\ player'.state = t /\ said' = Said(player.state, t) /\ UNCHANGED <<check, tdo>>
      /\ player'.endIr = player.endIr /\ player'.endDr = player.endDr
      /\ player'.runState = player.runState /\ player'.endState = player.endState
      /\ player.state \in TapState \cup {Unknown}
  BY <1>1, <1>5, <1>6 DEF Move, PlayerType
<1>8. LET s == said' IN
      /\ player.state # Unknown /\ t \notin {"Reset", "IrShift", "IrPause"} => s.ir = said.ir
      /\ player.state = "IrExit1" /\ t = "IrPause" => s.ir = said.ir
      /\ player.state = "Idle" /\ t = "IrShift" => s.ir = <<>>
      /\ player.state = Unknown /\ t = "Idle" => s.ir = Idcode
      /\ s.first <=> player.state = Unknown
  BY <1>7, SaidOnTheWay
<1>9. {"Idle", "IrPause", "IrExit1", "DrExit1"} \subseteq TapState /\ Unknown \notin TapState
  BY RegistersAssumption DEF TapState
<1>10. check' = None
  BY <1>1, <1>7
<1>11. CASE pc \in Sirs
  <2>0. pc # 3 /\ pc # 9
    BY <1>11 DEF Sirs
  <2>1. CASE j = 3
    <3>1. player.state = "Idle" /\ t = "IrShift"
      BY <1>1, <1>2, <1>4, <1>5, <1>11, <2>1, Places, Groups DEF Due, Goto
    <3>2. said'.ir = <<>> /\ ~said'.first
      BY <1>8, <1>9, <3>1
    <3>3. player'.state \in Stands(pc, j - 1)
      <4>1. j - 1 = 2
        BY <2>1
      <4>2. Stands(pc, 2) = {"IrShift"}
        BY <1>11, Places
      <4>3. QED BY <1>7, <3>1, <4>1, <4>2
    <3>4. QED BY <1>7, <1>10, <1>11, <2>0, <2>1, <3>2, <3>3, CallLeaves
  <2>2. CASE j = 1
    <3>1. player.state = "IrExit1" /\ t = "IrPause"
      BY <1>1, <1>2, <1>4, <1>5, <1>11, <2>2, Places, Groups DEF Due, Goto
    <3>2. said'.ir = Op(pc) /\ ~said'.first
      <4>1. pc >= 4
        BY <1>11 DEF Sirs
      <4>2. said.ir = Op(pc)
        BY <1>11, <2>2, <4>1 DEF CycloneInv, Instructed
      <4>3. QED BY <1>8, <1>9, <3>1, <4>2
    <3>3. player'.state \in Stands(pc, j - 1)
      <4>1. j - 1 = 0
        BY <2>2
      <4>2. Stands(pc, 0) = {"IrPause"}
        BY <1>11, Places
      <4>3. QED BY <1>7, <3>1, <4>1, <4>2
    <3>4. QED BY <1>7, <1>10, <1>11, <2>0, <2>2, <3>2, <3>3, CallLeaves
  <2>3. QED BY <1>3, <2>1, <2>2
<1>12. CASE pc \in Sdrs \cup Runs \cup {15}
  <2>0. pc # 3 /\ pc >= 4 /\ pc \notin Sirs
    BY <1>12, Groups DEF Sirs
  <2>1. /\ said.ir = Op(pc)
    BY <2>0 DEF CycloneInv, Instructed
  <2>2. /\ t \in {"Idle", "DrShift"} /\ player.state \in {"Idle", "IrPause", "DrExit1"}
        /\ player'.state \in Stands(pc, j - 1)
    <3>1. CASE pc \in Sdrs /\ j = 3
      <4>1. t = "DrShift" /\ player.state = "Idle"
        BY <1>1, <1>2, <1>4, <1>5, <3>1, Places, Groups DEF Due, Goto
      <4>2. j - 1 = 2
        BY <3>1
      <4>3. QED BY <1>7, <3>1, <4>1, <4>2, Places
    <3>2. CASE pc \in Sdrs /\ j = 1
      <4>1. t = "Idle" /\ player.state = "DrExit1"
        BY <1>1, <1>2, <1>4, <1>5, <3>2, Places, Groups DEF Due, Goto
      <4>2. j - 1 = 0
        BY <3>2
      <4>3. QED BY <1>7, <3>2, <4>1, <4>2, Places
    <3>3. CASE pc \in Runs /\ j = 3
      <4>1. t = "Idle" /\ player.state \in {"Idle", "IrPause"}
        BY <1>1, <1>2, <1>4, <1>5, <3>3, Places, Groups DEF Due, Goto
      <4>2. j - 1 = 2
        BY <3>3
      <4>3. QED BY <1>7, <3>3, <4>1, <4>2, Places
    <3>4. CASE pc \in Runs /\ j = 1
      <4>1. t = "Idle" /\ player.state = "Idle"
        BY <1>1, <1>2, <1>4, <1>5, <3>4, Places, Groups DEF Due, Goto
      <4>2. j - 1 = 0
        BY <3>4
      <4>3. QED BY <1>7, <3>4, <4>1, <4>2, Places
    <3>5. CASE pc = 15
      <4>0. j = 1
        BY <1>1, <3>5 DEF Due, Sirs, Sdrs, Runs
      <4>1. t = "Idle" /\ player.state = "Idle"
        BY <1>1, <1>2, <1>4, <1>5, <3>5, <4>0, Places, Groups DEF Due, Goto
      <4>2. j - 1 = 0
        BY <4>0
      <4>3. QED BY <1>7, <3>5, <4>1, <4>2, Places
    <3>6. QED BY <1>3, <1>12, <3>1, <3>2, <3>3, <3>4, <3>5
  <2>3. said'.ir = Op(pc) /\ ~said'.first
    BY <1>8, <1>9, <2>1, <2>2
  <2>4. ASSUME pc = 9 PROVE Asking'
    <3>1. CASE j = 3
      <4>1. tap.state = "Idle"
        <5>1. player.state = "Idle" /\ Resting
          <6>1. pc \in Sdrs
            BY <2>4 DEF Sdrs
          <6>2. player.state = "Idle"
            BY <1>2, <3>1, <6>1, Places
          <6>3. QED BY <1>1, <1>9, <6>2
        <5>2. QED BY <5>1 DEF Resting
      <4>2. Len(calls') = 2 /\ tap' = tap
        BY <1>1, <3>1
      <4>3. /\ tap'.state \in {"Idle", "DrSelect", "DrCapture", "DrShift"}
            /\ tap'.state # "DrShift"
        BY <4>1, <4>2
      <4>4. QED BY <4>2, <4>3 DEF Asking
    <3>2. CASE j = 1
      <4>1. conf
        BY <1>1, <2>4, <3>2 DEF CycloneInv, Asking
      <4>2. Len(calls') = 0
        BY <1>1, <3>2
      <4>3. QED BY <4>1, <4>2 DEF Asking
    <3>3. QED BY <1>3, <3>1, <3>2
  <2>5. QED BY <1>7, <1>10, <2>0, <2>2, <2>3, <2>4, CallLeaves
<1>13. CASE pc = 3
  <2>1. j = 1
    BY <1>1, <1>13 DEF Due, Sirs, Sdrs, Runs
  <2>2. player.state = Unknown /\ t = "Idle"
    BY <1>1, <1>2, <1>4, <1>5, <1>13, <2>1, Places, Groups DEF Due, Goto
  <2>3. j - 1 = 0
    BY <2>1
  <2>4. player'.state \in Stands(pc, j - 1)
    BY <1>7, <1>13, <2>2, <2>3, Places
  <2>5. said'.ir = Idcode /\ said'.first
    BY <1>8, <2>2
  <2>6. QED BY <1>7, <1>10, <1>13, <2>4, <2>5, CallLeaves
<1>14. QED BY <1>3, <1>11, <1>12, <1>13

LEMMA CycloneScans ==
  ASSUME PlayerInv, CycloneInv, Call, UNCHANGED <<pc, conf>>, Len(calls) = 2
  PROVE  CycloneInv'
<1> DEFINE k == calls[1]
           j == Len(calls)
<1>1. /\ pc \in 3 .. 15 /\ Due(pc, 2, k) /\ Len(calls') = 1
      /\ check = None /\ verdict = "playing" /\ UNCHANGED <<tap, verdict>> /\ player \in PlayerType
      /\ wire = <<>>
      /\ Move(k) \/ Scan(k) \/ Wait(k)
      /\ player.state # Unknown => Resting
  BY Calling
<1>2. player.state \in Stands(pc, 2) /\ j - 1 = 1
  BY DEF CycloneInv
<1>3. pc \in Sirs \cup Sdrs \cup Runs /\ pc # 3 /\ pc >= 4 /\ pc \in 4 .. 15
  BY <1>1, Groups DEF Due, Sirs, Sdrs, Runs
<1>4. ~said.first
  BY <1>3 DEF CycloneInv
<1>5. {"IrShift", "DrShift"} \subseteq TapState /\ Unknown \notin TapState
  BY RegistersAssumption DEF TapState
<1>6. CASE pc \in Sirs
  <2>0. pc \notin {3, 6, 9, 15} \cup Sdrs \cup Runs
    BY <1>6 DEF Sirs, Sdrs, Runs
  <2>1. k.call = "shift" /\ Shifting(k) = "IrShift" /\ k.tdi = Op(pc) /\ k.want = None
    BY <1>1, <2>0 DEF Due, Is
  <2>2. k.ir
    BY <2>1 DEF Shifting
  <2>3. /\ Scan(k)
    BY <1>1, <2>1 DEF Move, Wait
  <2>4. /\ player' = [player EXCEPT !.state = "IrExit1"] /\ check' = None
        /\ said' = [said EXCEPT !.ir = Recent(said.ir \o k.tdi, IrBits)]
    BY <2>1, <2>2, <2>3 DEF Scan
  <2>5. said.ir = <<>>
    BY <1>3, <1>6 DEF CycloneInv, Instructed
  <2>6. Recent(said.ir \o k.tdi, IrBits) = Op(pc)
    <3>1. Op(pc) \in Seq(Bit) /\ Len(Op(pc)) = IrBits /\ IrBits \in Nat
      BY <1>3, Ops, RegistersAssumption
    <3> DEFINE o == Op(pc)
    <3> HIDE DEF o
    <3>2. <<>> \o o = o
      BY <3>1 DEF o
    <3>3. Recent(o, IrBits) = o
      BY <3>1 DEF Recent, o
    <3>4. QED BY <2>1, <2>5, <3>2, <3>3 DEF o
  <2>7. said'.ir = Op(pc) /\ ~said'.first
    <3> DEFINE r == Recent(said.ir \o k.tdi, IrBits)
    <3> HIDE DEF r
    <3>1. said' = [said EXCEPT !.ir = r]
      BY <2>4 DEF r
    <3>2. said'.ir = r /\ said'.first = said.first
      BY <3>1
    <3>3. QED BY <1>4, <2>6, <3>2 DEF r
  <2>8. /\ player'.state = "IrExit1"
        /\ player'.endIr = player.endIr /\ player'.endDr = player.endDr
        /\ player'.runState = player.runState /\ player'.endState = player.endState
    BY <1>1, <2>4 DEF PlayerType
  <2>9. player'.state \in Stands(pc, j - 1)
    BY <1>2, <1>6, <2>8, Places
  <2>10. j # 3 /\ pc # 9
    BY <1>6 DEF Sirs
  <2>11. QED BY <1>3, <2>4, <2>7, <2>8, <2>9, <2>10, CallLeaves
<1>7. CASE pc \in Sdrs
  <2>1. /\ k.call = "shift" /\ Shifting(k) = "DrShift"
        /\ k.want # None => pc = 9
        /\ pc = 9 => k.tdi = Zero /\ k.want = ConfDone /\ k.mask = ConfDone
    BY <1>1, <1>7, Groups DEF Due, Is
  <2>2. ~k.ir
    BY <2>1 DEF Shifting
  <2>3. Scan(k)
    BY <1>1, <2>1 DEF Move, Wait
  <2> DEFINE r == Recent(said.dr \o k.tdi, DrBits)
             cmp == [want |-> k.want, mask |-> k.mask]
  <2> HIDE DEF r
  <2>4. /\ player' = [player EXCEPT !.state = "DrExit1"]
        /\ check' = IF k.want = None THEN None ELSE cmp
        /\ said' = [said EXCEPT !.dr = r]
        /\ wire' = Out(k.tdi) /\ tdo' = <<>>
    BY <2>1, <2>2, <2>3 DEF Scan, r
  <2>5. said'.ir = Op(pc) /\ ~said'.first
    <3>1. said'.ir = said.ir /\ said'.first = said.first
      BY <2>4
    <3>2. said.ir = Op(pc)
      <4>1. pc \notin Sirs
        BY <1>7, Groups
      <4>2. QED BY <1>3, <4>1 DEF CycloneInv, Instructed
    <3>3. QED BY <1>4, <3>1, <3>2
  <2>6. /\ player'.state = "DrExit1"
        /\ player'.endIr = player.endIr /\ player'.endDr = player.endDr
        /\ player'.runState = player.runState /\ player'.endState = player.endState
    BY <1>1, <2>4 DEF PlayerType
  <2>7. player'.state \in Stands(pc, j - 1)
    BY <1>2, <1>7, <2>6, Places
  <2>8. check' # None => pc = 9
    BY <2>1, <2>4
  <2>9. ASSUME pc = 9 PROVE Asking'
    <3>1. player.state = "DrShift"
      BY <1>2, <1>7, Places
    <3>2. tap.state = "DrShift"
      BY <1>1, <1>5, <3>1 DEF Resting
    <3>3. tap.drShift[DrBits] = ConfBit
      BY <2>9, <3>2 DEF CycloneInv, Asking
    <3>4. ConfDone # None
      <4>1. ConfDone \in Seq(Bit)
        BY RegistersAssumption DEF ConfDone, Bit
      <4>2. QED BY <4>1, RegistersAssumption
    <3>5. check' = [want |-> ConfDone, mask |-> ConfDone]
      BY <2>1, <2>4, <2>9, <3>4
    <3>6. wire' = Out(Zero)
      BY <2>1, <2>4, <2>9
    <3>7. QED BY <1>1, <2>4, <2>9, <3>3, <3>5, <3>6, AskingStarts
  <2>10. j # 3 /\ pc \notin Sirs
    BY <1>7, Groups
  <2>11. QED BY <1>3, <2>5, <2>6, <2>7, <2>8, <2>9, <2>10, CallLeaves
<1>8. CASE pc \in Runs
  <2>0. pc \notin {3, 6, 9, 15} \cup Sdrs \cup Sirs
    BY <1>8 DEF Sirs, Sdrs, Runs
  <2>1. k.call = "idle"
    BY <1>1, <2>0 DEF Due
  <2>2. Wait(k)
    BY <1>1, <2>1 DEF Move, Scan
  <2>3. UNCHANGED <<player, check, tdo, said>>
    BY <2>2 DEF Wait
  <2>4. said'.ir = Op(pc) /\ ~said'.first
    <3>1. pc \notin Sirs
      BY <1>8, Groups
    <3>2. said.ir = Op(pc)
      BY <1>3, <3>1 DEF CycloneInv, Instructed
    <3>3. QED BY <1>4, <2>3, <3>2
  <2>5. player'.state \in Stands(pc, j - 1)
    BY <1>2, <1>8, <2>3, Places
  <2>6. check' = None /\ pc # 9
    BY <1>1, <1>8, <2>3 DEF Runs
  <2>7. j # 3
    OBVIOUS
  <2>8. QED BY <1>3, <2>3, <2>4, <2>5, <2>6, <2>7, CallLeaves
<1>9. QED BY <1>3, <1>6, <1>7, <1>8

LEMMA CycloneCalls ==
  PlayerInv /\ CycloneInv /\ Call /\ UNCHANGED <<pc, conf>> => CycloneInv'
BY CycloneMoves, CycloneScans

\* The status register is compared, and tells whether the device is configured.
LEMMA CycloneCompares ==
  ASSUME PlayerInv, CycloneInv, Compare, UNCHANGED <<pc, conf>>
  PROVE  CycloneInv'
<1>1. /\ wire = <<>> /\ check # None /\ verdict = "playing" /\ check' = None
      /\ verdict' = IF Mismatch(tdo, check) THEN "mismatch" ELSE "playing"
      /\ UNCHANGED <<player, calls, wire, tap, tdo, said>>
  BY DEF Compare
<1>2. pc = 9 /\ Len(calls) = 1
  BY <1>1 DEF CycloneInv
<1>3. DrBits \in Nat /\ DrBits > 0
  BY RegistersAssumption
<1>4. /\ check = [want |-> ConfDone, mask |-> ConfDone] /\ tdo \in Seq(Bit)
      /\ Len(tdo) + Len(wire) = DrBits /\ tdo[DrBits] = ConfBit
  BY <1>1, <1>2 DEF CycloneInv, Asking
<1>5. Len(wire) = 0
  BY <1>1
<1>6. DrBits \in DOMAIN tdo
  BY <1>3, <1>4, <1>5
<1>7. verdict' = "playing" => conf
  <2> SUFFICES ASSUME ~conf PROVE Mismatch(tdo, check)
    BY <1>1
  <2>1. tdo[DrBits] = 0
    BY <1>4 DEF ConfBit
  <2>2. ConfDone[DrBits] = 1
    BY <1>3 DEF ConfDone
  <2>3. check.mask[DrBits] = 1 /\ tdo[DrBits] # check.want[DrBits]
    BY <1>4, <2>1, <2>2
  <2>4. QED BY <1>6, <2>3 DEF Mismatch
<1>8. (pc = 9 => Asking)'
  BY <1>1, <1>2, <1>7 DEF Asking
<1>9. (verdict # "error" /\ (check # None => pc = 9 /\ Len(calls) = 1))'
  BY <1>1
<1>10. (\A i \in 1 .. Len(calls) : Due(pc, Len(calls) - i + 1, calls[i]))'
  BY <1>1 DEF CycloneInv, Due, Is, Shifting, Op
<1>11. (player.state \in Stands(pc, Len(calls)))'
  BY <1>1 DEF CycloneInv, Stands
<1>12. (pc >= 4 => /\ Instructed(pc, Len(calls))
                   /\ tap.ir \in {OpBefore(pc), Op(pc)}
                   /\ said.first => pc = 4 /\ Len(calls) = 3)'
  BY <1>1 DEF CycloneInv, Instructed, Op, OpBefore
<1>13. QED BY <1>1, <1>8, <1>9, <1>10, <1>11, <1>12 DEF CycloneInv

\* The TAP is clocked where a command of the load has it.
LEMMA Ticking ==
  ASSUME PlayerInv, CycloneInv, Clock
  PROVE  /\ UNCHANGED <<player, calls, check, verdict, said>> /\ wire # <<>> /\ Len(calls) # 3
         /\ pc \in 3 .. 15 /\ player.state \in Stands(pc, Len(calls)) /\ player.state # Unknown
         /\ pc >= 4 => ~said.first /\ player.state # "Reset" /\ (Heading \/ ScanningIr \/ ScanningDr \/ Resting)
<1>1. UNCHANGED <<player, calls, check, verdict, said>> /\ wire # <<>>
  BY DEF Clock
<1>2. Len(calls) # 3 /\ pc \in 0 .. 15 /\ player.state \in Stands(pc, Len(calls))
  BY <1>1 DEF CycloneInv
<1>3. player.state # Unknown
  <2>1. Unknown \notin TapState /\ Targets \subseteq TapState /\ Stable \subseteq TapState
        /\ {"Reset", "IrExit1", "DrExit1", "DrShift", "IrShift"} \subseteq TapState
    BY RegistersAssumption DEF Targets, Stable, TapState
  <2>2. ~Unmoved
    BY <1>1 DEF Unmoved
  <2>3. player.state \in TapState
    BY <2>1, <2>2 DEF PlayerInv, Resetting, Heading, ScanningIr, ScanningDr, Resting
  <2>4. QED BY <2>1, <2>3
<1>4. pc \in 3 .. 15
  <2> SUFFICES ASSUME pc \in 0 .. 2 PROVE FALSE
    BY <1>2
  <2>1. Stands(pc, Len(calls)) = {Unknown}
    BY DEF Stands, Sirs, Sdrs, Runs
  <2>2. QED BY <1>2, <1>3, <2>1
<1>5. ASSUME pc >= 4 PROVE ~said.first /\ player.state # "Reset" /\ (Heading \/ ScanningIr \/ ScanningDr \/ Resting)
  <2>1. ~said.first
    BY <1>2, <1>5 DEF CycloneInv
  <2>2. player.state \in {"IrShift", "IrExit1", "IrPause", "DrShift", "DrExit1", "Idle"}
    <3>1. Stands(pc, Len(calls)) \subseteq {"IrShift", "IrExit1", "IrPause", "DrShift", "DrExit1", "Idle"}
      BY <1>4, <1>5 DEF Stands
    <3>2. QED BY <1>2, <3>1
  <2>3. ~Resetting
    BY <2>1, <2>2 DEF Resetting
  <2>4. QED BY <1>1, <2>1, <2>2, <2>3 DEF PlayerInv, Unmoved
<1>6. QED BY <1>1, <1>2, <1>3, <1>4, <1>5

\* A clock puts no other instruction in force than the one said.
LEMMA TickInForce ==
  ASSUME PlayerInv, CycloneInv, Clock, pc >= 4
  PROVE  /\ tap'.ir \in {OpBefore(pc), Op(pc)}
         /\ tap'.state = "IrUpdate" => tap'.ir = Op(pc)
<1>1. /\ UNCHANGED <<player, calls, check, verdict, said>> /\ wire # <<>> /\ Len(calls) # 3
      /\ pc \in 4 .. 15 /\ player.state \in Stands(pc, Len(calls))
      /\ Heading \/ ScanningIr \/ ScanningDr \/ Resting
      /\ player.state # "Reset" /\ ~said.first
  BY Ticking
<1>2. tap.ir \in {OpBefore(pc), Op(pc)}
  BY DEF CycloneInv
<1>3. /\ tap.state \in TapState /\ tap'.state \in {Up(tap.state), Down(tap.state)}
      /\ tap'.ir = IF tap'.state = "Reset" THEN Idcode ELSE IF tap'.state = "IrUpdate" THEN tap.irShift ELSE tap.ir
  BY TapClocked
<1>4. tap'.state # "Reset"
  <2>1. Resting => tap'.state # "Reset"
    BY <1>1, RestingOn DEF Resting
  <2>2. QED BY <1>1, <2>1, HeadingOn, ScanningIrOn, ScanningDrOn
<1>5. ASSUME tap'.state = "IrUpdate" PROVE tap'.ir = Op(pc)
  <2>1. tap.state \in {"IrExit1", "IrExit2"} /\ tap.state \in IrHeld /\ tap'.state \notin IrHeld
    BY <1>3, <1>5, Graph DEF IrHeld
  <2>2. Heading \/ Resting
    BY <1>1, <2>1 DEF ScanningIr, ScanningDr
  <2>3. IrKept(tap)
    BY <2>2 DEF Heading, Resting
  <2>4. said.ir = Op(pc)
    <3>1. CASE pc \in Sirs /\ Len(calls) = 2
      <4>1. player.state = "IrShift"
        BY <1>1, <3>1, Places
      <4>2. Resting => FALSE
        BY <2>1, <4>1 DEF Resting
      <4>3. QED BY <2>1, <2>2, <4>1, <4>2, HeadingOn
    <3>2. CASE ~(pc \in Sirs /\ Len(calls) = 2)
      BY <1>1, <3>2 DEF CycloneInv, Instructed
    <3>3. QED BY <3>1, <3>2
  <2>5. Op(pc) \in Bits(IrBits) /\ Op(pc) # <<>>
    BY <1>1, Ops
  <2>6. tap.irShift = Op(pc)
    BY <2>1, <2>3, <2>4, <2>5, InForce
  <2>7. QED BY <1>3, <1>5, <2>6
<1>6. QED BY <1>2, <1>3, <1>4, <1>5

\* The device keeps what it has of the configuration after the stream.
LEMMA TickKeepsConf ==
  ASSUME PlayerInv, CycloneInv, Tick, pc >= 9
  PROVE  conf' = conf
<1>1. /\ UNCHANGED <<player, calls, check, verdict, said>>
      /\ pc \in 9 .. 15 /\ pc >= 4 /\ player.state \in Stands(pc, Len(calls))
      /\ Heading \/ ScanningIr \/ ScanningDr \/ Resting
  BY Ticking DEF Tick
<1>2. tap'.state = "IrUpdate" => tap'.ir = Op(pc)
  BY <1>1, TickInForce DEF Tick
<1>3. Op(pc) # PROGRAM
  <2>1. pc \in 7 .. 9 \/ pc \in 10 .. 12 \/ pc \in 13 .. 15
    BY <1>1
  <2>2. QED BY <2>1, Ops
<1>4. tap'.state = "DrUpdate" => tap.ir # PROGRAM
  <2> SUFFICES ASSUME tap'.state = "DrUpdate" PROVE tap.ir # PROGRAM
    OBVIOUS
  <2>1. tap.state \in {"DrExit1", "DrExit2"}
    <3>1. tap.state \in TapState /\ tap'.state \in {Up(tap.state), Down(tap.state)}
      BY TapClocked DEF Tick
    <3>2. QED BY <3>1, Graph
  <2>2. CASE pc = 9
    <3>1. pc \notin Sirs
      BY <2>2 DEF Sirs
    <3>2. said.ir = Op(pc)
      BY <1>1, <3>1 DEF CycloneInv, Instructed
    <3>3. IrKept(tap)
      BY <1>1, <2>1 DEF Heading, Resting, ScanningIr, ScanningDr
    <3>4. tap.state \notin IrHeld \cup {"IrCapture"}
      BY <2>1 DEF IrHeld
    <3>a. pc \in 4 .. 15
      BY <1>1
    <3>5. Op(pc) \in Bits(IrBits) /\ Op(pc) # <<>>
      BY <3>a, Ops
    <3>6. tap.ir = Op(pc)
      BY <3>2, <3>3, <3>4, <3>5, InForce
    <3>7. QED BY <1>3, <3>6
  <2>3. CASE pc >= 10
    <3>1. tap.ir \in {OpBefore(pc), Op(pc)}
      BY <1>1 DEF CycloneInv
    <3>2. OpBefore(pc) # PROGRAM
      <4>1. pc \in 10 .. 12 \/ pc \in 13 .. 15
        BY <1>1, <2>3
      <4>2. QED BY <4>1, Ops
    <3>3. QED BY <1>3, <3>1, <3>2
  <2>4. QED BY <1>1, <2>2, <2>3
<1>5. QED BY <1>2, <1>3, <1>4 DEF Tick, Device

\* On the way to the status register the device captures its CONF_DONE.
LEMMA AskingCaptures ==
  ASSUME PlayerInv, CycloneInv, Tick, pc = 9, Len(calls) = 2
  PROVE  Asking'
<1>1. /\ UNCHANGED <<player, calls, check, verdict, said>> /\ wire # <<>>
      /\ player.state \in Stands(pc, 2)
      /\ Heading \/ ScanningIr \/ ScanningDr \/ Resting
  BY Ticking DEF Tick
<1>2. pc \in Sdrs /\ pc \notin Sirs
  BY DEF Sdrs, Sirs
<1>3. player.state = "DrShift"
  BY <1>1, <1>2, Places
<1>4. Heading
  BY <1>1, <1>3 DEF ScanningIr, ScanningDr, Resting, Stable
<1>5. /\ Far(tap'.state, "DrShift") = Far(tap.state, "DrShift") - 1
      /\ tap'.state \in {Up(tap.state), Down(tap.state)} /\ tap.state \in TapState
  BY <1>3, <1>4, HeadingOn, TapClocked DEF Tick
<1>6. tap.state \in {"Idle", "DrSelect", "DrCapture", "DrShift"}
  BY DEF CycloneInv, Asking
<1>7. \/ tap.state = "Idle" /\ tap'.state = "DrSelect"
      \/ tap.state = "DrSelect" /\ tap'.state = "DrCapture"
      \/ tap.state = "DrCapture" /\ tap'.state = "DrShift"
  <2>1. CASE tap.state = "Idle"
    <3>1. Far("Idle", "DrShift") = 3
      BY FarFrom
    <3>2. tap'.state \in {"Idle", "DrSelect"}
      BY <1>5, <2>1, TapMoves
    <3>3. QED BY <1>5, <2>1, <3>1, <3>2
  <2>2. CASE tap.state = "DrSelect"
    <3>1. Far("DrSelect", "DrShift") = 2 /\ Far("IrSelect", "DrShift") # 1
      BY FarFrom
    <3>2. tap'.state \in {"DrCapture", "IrSelect"}
      BY <1>5, <2>2, TapMoves
    <3>3. QED BY <1>5, <2>2, <3>1, <3>2
  <2>3. CASE tap.state = "DrCapture"
    <3>1. Far("DrCapture", "DrShift") = 1 /\ Far("DrExit1", "DrShift") # 0
      BY FarFrom
    <3>2. tap'.state \in {"DrShift", "DrExit1"}
      BY <1>5, <2>3, TapMoves
    <3>3. QED BY <1>5, <2>3, <3>1, <3>2
  <2>4. CASE tap.state = "DrShift"
    <3>1. Far("DrShift", "DrShift") = 0
      BY FarFrom
    <3>2. Far(tap'.state, "DrShift") \in 0 .. 7
      <4>1. tap'.state \in TapState /\ "DrShift" \in Targets
        BY <1>5, Graph DEF Targets
      <4>2. QED BY <4>1, Distances
    <3>3. QED BY <1>5, <2>4, <3>1, <3>2
  <2>5. QED BY <1>6, <2>1, <2>2, <2>3, <2>4
<1>8. conf' = conf /\ ConfBit' = ConfBit
  <2>1. conf' = conf
    BY TickKeepsConf
  <2>2. QED BY <2>1 DEF ConfBit
<1>9. tap'.state = "DrShift" => tap'.drShift[DrBits] = ConfBit
  <2> SUFFICES ASSUME tap'.state = "DrShift" PROVE tap'.drShift[DrBits] = ConfBit
    OBVIOUS
  <2>1. tap.state = "DrCapture"
    BY <1>7
  <2>2. tap.ir = CHECK_STATUS
    <3>1. said.ir = Op(9)
      BY <1>2 DEF CycloneInv, Instructed
    <3>2. IrKept(tap)
      BY <1>4 DEF Heading
    <3>3. tap.state \notin IrHeld \cup {"IrCapture"}
      BY <2>1 DEF IrHeld
    <3>4. 9 \in 4 .. 15 /\ 9 \in 7 .. 9
      OBVIOUS
    <3>5. Op(9) \in Bits(IrBits) /\ Op(9) # <<>> /\ Op(9) = CHECK_STATUS
      BY <3>4, Ops
    <3>6. tap.ir = Op(9)
      BY <3>1, <3>2, <3>3, <3>5, InForce
    <3>7. QED BY <3>5, <3>6
  <2>3. QED BY <2>1, <2>2 DEF Tick, Device, ConfBit
<1>10. Len(calls') = 2
  BY <1>1
<1>11. QED BY <1>7, <1>8, <1>9, <1>10 DEF Asking

\* And it comes out as the bit compared.
LEMMA AskingShifts ==
  ASSUME PlayerInv, CycloneInv, Tick, pc = 9, Len(calls) = 1, check # None
  PROVE  Asking'
<1>1. /\ UNCHANGED <<player, calls, check, verdict, said>> /\ wire # <<>>
      /\ player.state \in Stands(pc, 1)
      /\ Heading \/ ScanningIr \/ ScanningDr \/ Resting
  BY Ticking DEF Tick
<1>2. player.state = "DrExit1"
  <2>1. pc \in Sdrs
    BY DEF Sdrs
  <2>2. QED BY <1>1, <2>1, Places
<1>3. ScanningDr
  BY <1>1, <1>2 DEF Heading, ScanningIr, Resting, Stable, Targets
<1>4. tap.state = "DrShift" /\ LastHigh
  BY <1>3 DEF ScanningDr
<1>5. /\ Len(wire) \in Nat /\ Len(wire) > 0 /\ Len(wire') = Len(wire) - 1
      /\ wire' = Tail(wire)
  BY <1>4, ScanClocked DEF Tick, Clock
<1>6. /\ check = [want |-> ConfDone, mask |-> ConfDone]
      /\ tdo \in Seq(Bit) /\ Len(tdo) + Len(wire) = DrBits
      /\ tap.drShift[Len(wire)] = ConfBit
  BY <1>1 DEF CycloneInv, Asking
<1>7. DrBits \in Nat \ {0} /\ DrBits \in Nat /\ tap.drShift \in Bits(DrBits)
  BY RegistersAssumption DEF PlayerInv, TypeOK
<1>8. conf' = conf /\ ConfBit' = ConfBit
  <2>1. conf' = conf
    BY TickKeepsConf
  <2>2. QED BY <2>1 DEF ConfBit
<1>9. tap'.drShift = Append(Tail(tap.drShift), Head(wire).tdi) /\ Head(wire).tdi \in Bit
  BY <1>4, TapClocked DEF Tick
<1>10. tdo' = Append(tdo, Head(tap.drShift))
  BY <1>4 DEF Tick, Clock
<1>11. Head(tap.drShift) = tap.drShift[1] /\ tap.drShift[1] \in Bit
  BY <1>7 DEF Bits
<1>12. tdo' \in Seq(Bit) /\ Len(tdo') + Len(wire') = DrBits
  BY <1>5, <1>6, <1>10, <1>11
<1>13. wire' # <<>> => tap'.drShift[Len(wire')] = ConfBit
  <2> SUFFICES ASSUME wire' # <<>> PROVE tap'.drShift[Len(wire')] = ConfBit
    OBVIOUS
  <2> DEFINE l == Len(wire')
             d == Head(wire).tdi
             x == Append(Tail(tap.drShift), d)
  <2>1. l \in Nat /\ l # 0
    <3> DEFINE w == wire'
               R == [tms: BOOLEAN, tdi: Bit]
    <3>1. w \in Seq(R) /\ w # <<>>
      BY TapClocked DEF Tick
    <3> HIDE DEF R, w
    <3>2. Len(w) \in Nat /\ Len(w) # 0
      BY <3>1
    <3>3. QED BY <3>2 DEF w
  <2>2. l + 1 = Len(wire) /\ l \in 1 .. DrBits /\ l < DrBits
    <3>1. Len(tdo) \in Nat
      BY <1>6
    <3>2. QED BY <1>5, <1>6, <1>7, <2>1, <3>1
  <2>3. \A i \in 1 .. DrBits : x[i] = IF i < DrBits THEN tap.drShift[i + 1] ELSE d
    BY <1>7, <1>9, Shifted
  <2> HIDE DEF x, l, d
  <2>4. x[l] = tap.drShift[l + 1]
    BY <2>2, <2>3
  <2>5. QED BY <1>6, <1>9, <2>2, <2>4 DEF x, l, d
<1>14. wire' = <<>> => tdo'[DrBits] = ConfBit
  <2> SUFFICES ASSUME wire' = <<>> PROVE tdo'[DrBits] = ConfBit
    OBVIOUS
  <2>1. Len(wire') = 0
    OBVIOUS
  <2>2. Len(wire) = 1 /\ DrBits = Len(tdo) + 1
    <3>1. Len(tdo) \in Nat
      BY <1>6
    <3>2. Len(wire) = 1
      BY <1>5, <2>1
    <3>3. QED BY <1>6, <1>7, <3>1, <3>2
  <2>3. tdo'[DrBits] = Head(tap.drShift)
    BY <1>6, <1>10, <2>2
  <2>4. QED BY <1>6, <1>11, <2>2, <2>3
<1>15. QED
  <2>1. Len(calls') = 1 /\ check' = check /\ check' # None
    BY <1>1
  <2>2. (Len(calls) = 1 /\ check # None =>
          /\ check = [want |-> ConfDone, mask |-> ConfDone]
          /\ tdo \in Seq(Bit) /\ Len(tdo) + Len(wire) = DrBits
          /\ wire # <<>> => tap.drShift[Len(wire)] = ConfBit
          /\ wire = <<>> => tdo[DrBits] = ConfBit)'
    BY <1>6, <1>8, <1>12, <1>13, <1>14, <2>1
  <2>3. QED BY <2>1, <2>2 DEF Asking

LEMMA CycloneTicks ==
  ASSUME PlayerInv, CycloneInv, Tick
  PROVE  CycloneInv'
<1>1. /\ UNCHANGED <<player, calls, check, verdict, said>> /\ wire # <<>> /\ Len(calls) # 3
      /\ pc \in 3 .. 15 /\ player.state \in Stands(pc, Len(calls))
      /\ pc' = pc
  BY Ticking DEF Tick
<1>2. conf \in BOOLEAN /\ conf' \in BOOLEAN
  BY DEF CycloneInv, Tick, Device
<1>3. (pc = 9 => Asking)'
  <2> SUFFICES ASSUME pc = 9 PROVE Asking'
    BY <1>1
  <2>1. CASE Len(calls) = 2
    BY <2>1, AskingCaptures
  <2>2. CASE Len(calls) = 1 /\ check # None
    BY <2>2, AskingShifts
  <2>3. CASE Len(calls) # 2 /\ ~(Len(calls) = 1 /\ check # None)
    <3>1. conf' = conf
      BY TickKeepsConf
    <3>2. QED BY <1>1, <2>3, <3>1 DEF CycloneInv, Asking
  <2>4. QED BY <2>1, <2>2, <2>3
<1>4. (pc >= 10 => conf)'
  <2> SUFFICES ASSUME pc >= 10 PROVE conf'
    BY <1>1
  <2>1. conf' = conf
    BY <1>1, TickKeepsConf
  <2>2. QED BY <2>1 DEF CycloneInv
<1>5. (\A i \in 1 .. Len(calls) : Due(pc, Len(calls) - i + 1, calls[i]))'
  BY <1>1 DEF CycloneInv, Due, Is, Shifting, Op
<1>6. (player.state \in Stands(pc, Len(calls)))'
  BY <1>1 DEF Stands
<1>7. (pc >= 4 => /\ Instructed(pc, Len(calls))
                  /\ tap.ir \in {OpBefore(pc), Op(pc)}
                  /\ said.first => pc = 4 /\ Len(calls) = 3)'
  <2> SUFFICES ASSUME pc >= 4
      PROVE  /\ Instructed(pc, Len(calls))'
             /\ tap'.ir \in {OpBefore(pc), Op(pc)}
             /\ said'.first => pc = 4 /\ Len(calls) = 3
    BY <1>1 DEF OpBefore, Op
  <2>1. Instructed(pc, Len(calls))'
    BY <1>1 DEF CycloneInv, Instructed, Op
  <2>2. tap'.ir \in {OpBefore(pc), Op(pc)}
    BY TickInForce DEF Tick
  <2>3. QED BY <1>1, <2>1, <2>2 DEF CycloneInv
<1>8. QED BY <1>1, <1>2, <1>3, <1>4, <1>5, <1>6, <1>7 DEF CycloneInv

\* What the invariant says of a load.
LEMMA CycloneTells == PlayerInv /\ CycloneInv =>
                       PlayedMeansConfigured /\ StartupOnlyConfigured /\ StreamUnderProgram
<1> SUFFICES ASSUME PlayerInv, CycloneInv 
               PROVE  PlayedMeansConfigured /\ StartupOnlyConfigured /\ StreamUnderProgram
  OBVIOUS
<1>1. pc \in 0 .. 15 /\ player.state \in Stands(pc, Len(calls))
  BY DEF CycloneInv
<1>2. PlayedMeansConfigured
  BY SvfParsed DEF PlayedMeansConfigured, CycloneInv
<1>3. StartupOnlyConfigured
  <2> SUFFICES ASSUME tap.ir = STARTUP, pc > 0, player.state # Unknown, ~said.first PROVE conf
    BY DEF StartupOnlyConfigured
  <2>1. CASE pc \in 1 .. 3
    <3>2. pc = 3
      <4>1. pc \in 1 .. 2 => Stands(pc, Len(calls)) = {Unknown}
        BY DEF Stands, Sirs, Sdrs, Runs
      <4>2. QED BY <1>1, <2>1, <4>1
    <3>3. calls # <<>>
      BY <3>2 DEF CycloneInv
    <3>4. Len(calls) = 1
      <4>1. calls \in Seq(CallSet)
        BY CallsTyped DEF PlayerInv
      <4>2. Len(calls) \in Nat /\ Len(calls) >= 1
        BY <3>3, <4>1
      <4>3. 1 \in 1 .. Len(calls)
        BY <4>2
      <4>4. Due(pc, Len(calls) - 1 + 1, calls[1])
        BY <4>3 DEF CycloneInv
      <4>5. Len(calls) - 1 + 1 = 1
        BY <3>2, <4>4 DEF Due, Sirs, Sdrs, Runs
      <4>6. QED BY <4>2, <4>5
    <3>5. Stands(3, 1) = {Unknown}
      BY Places
    <3>6. QED BY <1>1, <3>2, <3>4, <3>5
  <2>2. CASE pc \in 4 .. 9
    <3>1. tap.ir \in {OpBefore(pc), Op(pc)}
      BY <2>2 DEF CycloneInv
    <3>2. pc \in 4 .. 6 \/ pc \in 7 .. 9
      BY <2>2
    <3>3. QED BY <3>1, <3>2, Ops
  <2>3. CASE pc >= 10
    BY <2>3 DEF CycloneInv
  <2>4. QED BY <1>1, <2>1, <2>2, <2>3
<1>4. StreamUnderProgram
  <2> SUFFICES ASSUME pc > 0, tap.state = "DrShift", player.state = "DrExit1"
               PROVE  tap.ir = IF pc = 6 THEN PROGRAM ELSE CHECK_STATUS
    BY DEF StreamUnderProgram
  <2>1. "DrExit1" # Unknown
    BY RegistersAssumption DEF TapState
  <2>2. pc \in Sdrs
    <3>1. pc \notin Sdrs => "DrExit1" \notin Stands(pc, Len(calls))
      BY <2>1 DEF Stands
    <3>2. QED BY <1>1, <3>1
  <2>3. pc \in 4 .. 15 /\ pc \notin Sirs
    BY <2>2, Groups
  <2>4. said.ir = Op(pc)
    BY <2>3 DEF CycloneInv, Instructed
  <2>5. IrKept(tap)
    <3>1. ~Resetting /\ ~Heading
      BY DEF Resetting, Heading, Targets
    <3>2. ScanningDr
      BY <2>1, <3>1 DEF PlayerInv, Unmoved, ScanningIr, Resting
    <3>3. QED BY <3>2 DEF ScanningDr
  <2>6. tap.state \notin IrHeld \cup {"IrCapture"}
    BY DEF IrHeld
  <2>7. Op(pc) \in Bits(IrBits) /\ Op(pc) # <<>>
    BY <2>3, Ops
  <2>8. tap.ir = Op(pc)
    BY <2>4, <2>5, <2>6, <2>7, InForce
  <2>9. QED
    <3>1. pc = 6 => Op(pc) = PROGRAM
      BY Ops
    <3>2. pc = 9 => Op(pc) = CHECK_STATUS
      BY Ops
    <3>3. QED BY <2>2, <2>8, <3>1, <3>2 DEF Sdrs
<1>5. QED BY <1>2, <1>3, <1>4

LEMMA CycloneKept ==
  ASSUME PlayerInv, CycloneInv, LoadNext
  PROVE  CycloneInv'
<1>1. ASSUME Play PROVE CycloneInv'
  BY <1>1, PlayKeeps
<1>2. ASSUME Call \/ Compare, UNCHANGED <<pc, conf>> PROVE CycloneInv'
  BY <1>2, CycloneCalls, CycloneCompares
<1>3. ASSUME Tick PROVE CycloneInv'
  BY <1>3, CycloneTicks
<1>4. QED BY <1>1, <1>2, <1>3 DEF LoadNext
=============================================================================
