----------------------------- MODULE JtagProofs ------------------------------
(***************************************************************************)
(* What a load over JTAG and a write of the flash leave behind, for every  *)
(* chain, bitstream, flash, image and address; and SvfPlayerProofs carried *)
(* over to the bench.                                                      *)
(***************************************************************************)
EXTENDS MCJtag, SvfPlayerProofs

-----------------------------------------------------------------------------
(* One thing on the bench.                                                 *)

LEMMA OneBench ==
  /\ BenchInit => /\ bench = "epcs" => Load!FlashInit
                  /\ bench # "epcs" => NoFlash
                  /\ bench = "xc7" => Load!ChainInit
                  /\ bench # "xc7" => NoZynq
  /\ [BenchNext]_benches =>
       /\ bench' = bench
       /\ bench = "epcs" => [Load!FlashNext]_(Load!epcs)
       /\ bench # "epcs" => UNCHANGED Load!epcs
       /\ bench = "xc7" => [Load!ChainNext]_(Load!xc7)
       /\ bench # "xc7" => UNCHANGED Load!xc7
<1>1. BenchInit => /\ bench = "epcs" => Load!FlashInit
                   /\ bench # "epcs" => NoFlash
                   /\ bench = "xc7" => Load!ChainInit
                   /\ bench # "xc7" => NoZynq
  BY DEF BenchInit
<1>2. ASSUME BenchNext
      PROVE  /\ bench' = bench
             /\ bench = "epcs" => Load!FlashNext
             /\ bench # "epcs" => UNCHANGED Load!epcs
             /\ bench = "xc7" => Load!ChainNext
             /\ bench # "xc7" => UNCHANGED Load!xc7
  BY <1>2 DEF BenchNext, CableStep, AdapterStep, LoadStep, DeviceStep, OnPlayer, OnCable, OnFlash, OnChain,
              flashes, chains, Load!epcs, Load!xc7, Load!FlashNext, Load!ChainNext
<1>3. ASSUME UNCHANGED benches
      PROVE  bench' = bench /\ UNCHANGED Load!epcs /\ UNCHANGED Load!xc7
  BY <1>3 DEF benches, flashes, chains, Load!epcs, Load!xc7
<1>4. QED BY <1>1, <1>2, <1>3

-----------------------------------------------------------------------------
(* The bits of the instruction registers of a chain.                       *)

LEMMA Registers ==
  ASSUME NEW lens \in Seq(Nat)
  PROVE  LET upto == Load!BitsUpTo(lens)
         IN  /\ upto[0] = 0
             /\ \A t \in 1 .. Len(lens) : upto[t] = upto[t - 1] + lens[t]
<1> DEFINE Do(sum, n) == sum + lens[n]
           last == Len(lens)
           Sums(g, m) == g = [n \in 0 .. m |-> IF n = 0 THEN 0 ELSE Do(g[n - 1], n)]
           G == {m \in Nat : \E g : Sums(g, m)}
<1>1. last \in Nat
  OBVIOUS
<1>2. Load!BitsUpTo(lens) = CHOOSE g : Sums(g, last)
  BY DEF Load!BitsUpTo
<1> HIDE DEF Do, last
<1>3. 0 \in G
  <2>1. Sums([n \in {0} |-> 0], 0)
    OBVIOUS
  <2>2. QED BY <2>1
<1>4. \A m \in Nat : m < last /\ m \in G => m + 1 \in G
  <2> SUFFICES ASSUME NEW m \in Nat, NEW g, Sums(g, m)
               PROVE  \E h : Sums(h, m + 1)
    <3> HIDE DEF Sums
    <3> QED OBVIOUS
  <2> DEFINE h == [n \in 0 .. m + 1 |-> IF n = m + 1 THEN Do(g[m], m + 1) ELSE g[n]]
  <2>1. ASSUME NEW n \in 0 .. m + 1
        PROVE  h[n] = IF n = 0 THEN 0 ELSE Do(h[n - 1], n)
    <3>1. CASE n = m + 1
      <4>1. n - 1 = m /\ h[m] = g[m]
        BY <3>1
      <4>2. QED BY <3>1, <4>1
    <3>2. CASE n # m + 1
      <4>1. n \in 0 .. m /\ h[n] = g[n]
        BY <3>2
      <4>2. n # 0 => n - 1 \in 0 .. m /\ h[n - 1] = g[n - 1]
        BY <4>1
      <4>3. QED BY <4>1, <4>2
    <3>3. QED BY <3>1, <3>2
  <2>2. h = [n \in 0 .. m + 1 |-> h[n]]
    OBVIOUS
  <2> HIDE DEF h
  <2>3. Sums(h, m + 1)
    BY <2>1, <2>2
  <2>4. QED BY <2>3
<1>5. last \in G
  <2> HIDE DEF G
  <2>1. \A m \in 0 .. last : m \in G
    BY <1>1, <1>3, <1>4, UpTo
  <2>2. QED BY <1>1, <2>1
<1>6. Sums(Load!BitsUpTo(lens), last)
  <2>1. \E g : Sums(g, last)
    BY <1>5
  <2> HIDE DEF Sums
  <2>2. QED BY <1>2, <2>1
<1>7. Load!BitsUpTo(lens)[0] = 0
  BY <1>1, <1>6
<1>8. \A n \in 1 .. last : Load!BitsUpTo(lens)[n] = Do(Load!BitsUpTo(lens)[n - 1], n)
  BY <1>1, <1>6
<1>9. QED BY <1>7, <1>8 DEF Do, last

\* The registers come one after the other.
LEMMA RegistersApart ==
  ASSUME NEW lens \in Seq(Nat)
  PROVE  LET upto == Load!BitsUpTo(lens)
         IN  /\ \A t \in 0 .. Len(lens) : upto[t] \in Nat
             /\ \A s, t \in 0 .. Len(lens) : s <= t => upto[s] <= upto[t]
<1> DEFINE upto == Load!BitsUpTo(lens)
           G == {t \in Nat : \A s \in 0 .. t : upto[s] \in Nat /\ upto[s] <= upto[t]}
<1>1. upto[0] = 0 /\ \A t \in 1 .. Len(lens) : upto[t] = upto[t - 1] + lens[t]
  BY Registers
<1>2. Len(lens) \in Nat /\ \A t \in 1 .. Len(lens) : lens[t] \in Nat
  OBVIOUS
<1> HIDE DEF upto
<1>3. 0 \in G
  BY <1>1
<1>4. ASSUME NEW m \in Nat, m < Len(lens), m \in G PROVE m + 1 \in G
  <2>1. m + 1 \in 1 .. Len(lens) /\ m + 1 - 1 = m
    BY <1>2, <1>4
  <2>2. upto[m + 1] = upto[m] + lens[m + 1] /\ lens[m + 1] \in Nat
    BY <1>1, <1>2, <2>1
  <2>3. \A s \in 0 .. m : upto[s] \in Nat /\ upto[s] <= upto[m]
    BY <1>4
  <2>4. \A s \in 0 .. m : upto[s] \in Nat /\ upto[s] <= upto[m + 1]
    BY <2>2, <2>3
  <2>5. upto[m + 1] \in Nat
    BY <2>2, <2>3
  <2>6. QED BY <2>4, <2>5
<1>5. \A m \in 0 .. Len(lens) : m \in G
  <2> HIDE DEF G
  <2>1. QED BY <1>2, <1>3, <1>4, UpTo
<1>6. QED BY <1>2, <1>5 DEF upto

LEMMA Joined ==
  ASSUME NEW S, NEW s \in Seq(S), NEW t \in Seq(S), NEW m, NEW n, Len(s) = m, Len(t) = n
  PROVE  /\ s \o t \in Seq(S) /\ Len(s \o t) = m + n
         /\ \A i \in 1 .. m + n : (s \o t)[i] = IF i <= m THEN s[i] ELSE t[i - m]
BY ConcatProperties

LEMMA Part ==
  ASSUME NEW S, NEW s, NEW m \in Nat, NEW n \in Nat, \A i \in 1 .. n : s[m + i] \in S
  PROVE  /\ SubSeq(s, m + 1, m + n) \in Seq(S) /\ Len(SubSeq(s, m + 1, m + n)) = n
         /\ \A i \in 1 .. n : SubSeq(s, m + 1, m + n)[i] = s[m + i]
<1>1. /\ m + 1 \in Int /\ m + n \in Int /\ m + n - (m + 1) + 1 = n /\ (m + 1 <= m + n <=> n # 0)
      /\ \A i \in 1 .. n : m + 1 + i - 1 = m + i
  OBVIOUS
<1>2. ASSUME NEW i \in m + 1 .. m + n PROVE s[i] \in S
  <2>1. i - m \in 1 .. n /\ m + (i - m) = i
    OBVIOUS
  <2>2. QED BY <2>1
<1>3. QED BY <1>1, <1>2, SubSeqProperties

LEMMA Sliced ==
  ASSUME NEW s, NEW m \in Nat, NEW n \in Nat
  PROVE  SubSeq(s, m + 1, m + n) = [i \in 1 .. n |-> s[m + i]]
<1>1. /\ m + 1 \in Nat /\ m + n \in Nat /\ 1 + (m + n) - (m + 1) = n
      /\ \A i \in 1 .. n : i + (m + 1) - 1 = m + i
  OBVIOUS
<1>2. SubSeq(s, m + 1, m + n) = [i \in 1 .. (1 + (m + n) - (m + 1)) |-> s[i + (m + 1) - 1]]
  BY <1>1
<1>3. QED BY <1>1, <1>2

\* A scan of the instruction registers gives `op` to the target and leaves
\* everybody else in BYPASS, wherever the target is in its chain.
LEMMA Instructs ==
  ASSUME board \in Chains, NEW op \in Seq(Bit), Len(op) = board.lens[board.target]
  PROVE  \A t \in DOMAIN board.lens :
           Load!Delivered(Load!Ir(op))[t] = IF t = board.target THEN op ELSE Load!Bypass(board.lens[t])
<1> DEFINE lens == board.lens
           me == board.target
           upto == Load!BitsUpTo(lens)
           bits == Load!Ir(op)
<1>1. lens \in Seq(Nat) /\ me \in DOMAIN lens /\ DOMAIN lens = 1 .. Len(lens) /\ Len(lens) \in Nat
  BY LoadsAssumption DEF Load!ChainsFit
<1>2. /\ \A t \in 1 .. Len(lens) : upto[t] = upto[t - 1] + lens[t]
      /\ \A t \in 0 .. Len(lens) : upto[t] \in Nat
      /\ \A s, t \in 0 .. Len(lens) : s <= t => upto[s] <= upto[t]
  BY <1>1, Registers, RegistersApart
<1>3. \A t \in DOMAIN lens : lens[t] \in Nat
  BY <1>1
<1>4. bits = [i \in 1 .. upto[Len(lens)] |->
               IF i \in upto[me - 1] + 1 .. upto[me - 1] + Len(op) THEN op[i - upto[me - 1]] ELSE 1]
  BY DEF Load!Ir, Load!Offset, Load!Total
<1>5. \A t \in DOMAIN lens :
        Load!Delivered(bits)[t] = SubSeq(bits, upto[t - 1] + 1, upto[t - 1] + lens[t])
  BY DEF Load!Delivered, Load!Offset
<1>6. Len(op) = lens[me] /\ op \in [1 .. lens[me] -> Bit]
  OBVIOUS
<1> HIDE DEF upto, bits, lens, me
<1> SUFFICES ASSUME NEW t \in DOMAIN lens
             PROVE  Load!Delivered(bits)[t] = IF t = me THEN op ELSE Load!Bypass(lens[t])
  BY DEF bits, lens, me
<1>7. /\ t \in 1 .. Len(lens) /\ t \in Int /\ upto[t - 1] \in Nat /\ upto[t] = upto[t - 1] + lens[t]
      /\ me \in 1 .. Len(lens) /\ me \in Int /\ upto[me - 1] \in Nat /\ upto[me] = upto[me - 1] + lens[me]
      /\ lens[t] \in Nat /\ lens[me] \in Nat /\ upto[Len(lens)] \in Nat
  <2>1. t \in 1 .. Len(lens) /\ me \in 1 .. Len(lens) /\ lens[t] \in Nat /\ lens[me] \in Nat
    BY <1>1, <1>3
  <2>2. /\ t \in Int /\ t - 1 \in 0 .. Len(lens) /\ me \in Int /\ me - 1 \in 0 .. Len(lens)
        /\ Len(lens) \in 0 .. Len(lens)
    BY <1>1, <2>1
  <2>3. QED BY <1>2, <2>1, <2>2
<1>8. upto[t] <= upto[Len(lens)]
  BY <1>1, <1>2, <1>7
<1>9. t < me => upto[t] <= upto[me - 1]
  BY <1>2, <1>7
<1>10. me < t => upto[me] <= upto[t - 1]
  BY <1>2, <1>7
<1> DEFINE at == upto[t - 1]
           width == lens[t]
           mine == upto[me - 1]
           part == SubSeq(bits, at + 1, at + width)
<1>11. at \in Nat /\ width \in Nat /\ mine \in Nat
  BY <1>7
<1>12. /\ at + width <= upto[Len(lens)]
       /\ t = me => at = mine /\ width = Len(op)
       /\ t # me => at + width <= mine \/ mine + Len(op) <= at
  BY <1>1, <1>6, <1>7, <1>8, <1>9, <1>10
<1>13. Len(op) \in Nat /\ upto[Len(lens)] \in Nat
  BY <1>7
<1>14. \A i \in 1 .. upto[Len(lens)] :
         bits[i] = IF i \in mine + 1 .. mine + Len(op) THEN op[i - mine] ELSE 1
  BY <1>4
<1> HIDE DEF at, width, mine
<1>15. \A i \in 1 .. width : bits[at + i] = IF t = me THEN op[i] ELSE 1
  <2> SUFFICES ASSUME NEW i \in 1 .. width PROVE bits[at + i] = IF t = me THEN op[i] ELSE 1
    OBVIOUS
  <2> DEFINE x == at + i
  <2>1. x \in 1 .. upto[Len(lens)]
    BY <1>11, <1>12, <1>13
  <2>2. t = me => x \in mine + 1 .. mine + Len(op) /\ x - mine = i
    BY <1>11, <1>12, <1>13
  <2>3. t # me => ~(x \in mine + 1 .. mine + Len(op))
    BY <1>11, <1>12, <1>13
  <2> HIDE DEF x
  <2>4. bits[x] = IF x \in mine + 1 .. mine + Len(op) THEN op[x - mine] ELSE 1
    BY <1>14, <2>1
  <2>5. QED BY <2>2, <2>3, <2>4 DEF x
<1>16. part = [i \in 1 .. width |-> bits[at + i]]
  BY <1>11, Sliced
<1> HIDE DEF part
<1>17. Load!Delivered(bits)[t] = part
  BY <1>5 DEF part, at, width
<1>18. CASE t = me
  <2>1. part = [i \in 1 .. Len(op) |-> op[i]]
    BY <1>12, <1>15, <1>16, <1>18
  <2>2. op = [i \in 1 .. Len(op) |-> op[i]]
    BY LenProperties
  <2>3. QED BY <1>17, <1>18, <2>1, <2>2
<1>19. CASE t # me
  <2>1. part = [i \in 1 .. width |-> 1]
    BY <1>15, <1>16, <1>19
  <2>2. QED BY <1>17, <1>19, <2>1 DEF Load!Bypass, width
<1>20. QED BY <1>18, <1>19

\* What the target makes of the stream, wherever it is in its chain: past the
\* zeros of the devices before and after it, all of the payload.
LEMMA Fed ==
  ASSUME board \in Chains
  PROVE  /\ Load!Seen(Load!Data) \in Seq(Bit)
         /\ Load!IsPrefix(Payload, Load!AfterSync(Load!Seen(Load!Data)))
<1> DEFINE B == {0, 1}
           late == Len(board.lens) - board.target
           before == board.target - 1
           pad == [i \in 1 .. before |-> 0]
           lag == [i \in 1 .. late |-> 0]
           sync == Len(Sync)
           payload == Len(Payload)
           trailer == Len(Trailer)
           data == Load!Data
           seen == Load!Seen(data)
<1>1. /\ board.lens \in Seq(Nat) /\ board.target \in 1 .. Len(board.lens)
      /\ late <= trailer
      /\ Sync \in Seq(B) /\ Payload \in Seq(B) /\ Trailer \in Seq(B)
      /\ Sync # <<>> /\ Sync[1] = 1
  BY LoadsAssumption DEF Load!ChainsFit
<1>2. late \in Nat /\ before \in Nat
  <2>1. Len(board.lens) \in Nat
    BY <1>1
  <2>2. QED BY <1>1, <2>1
<1>3. sync \in Nat /\ payload \in Nat /\ trailer \in Nat /\ 0 < sync
  <2>1. sync \in Nat \ {0}
    BY <1>1, EmptySeq
  <2>2. QED BY <1>1, <2>1
<1>4. /\ pad \in Seq(B) /\ Len(pad) = before /\ \A i \in 1 .. before : pad[i] = 0
      /\ lag \in Seq(B) /\ Len(lag) = late /\ \A i \in 1 .. late : lag[i] = 0
  BY <1>2
<1>5. data = pad \o Sync \o Payload \o Trailer
  BY DEF Load!Data
<1>6. seen = SubSeq(lag \o data, 1, Len(data))
  BY DEF Load!Seen
<1>7. Len(Sync) = sync /\ Len(Payload) = payload /\ Len(Trailer) = trailer
  OBVIOUS
<1> HIDE DEF late, before, pad, lag, data, seen, B, sync, payload, trailer
<1> DEFINE one == pad \o Sync
           two == one \o Payload
           three == two \o Trailer
           four == lag \o three
<1>8. /\ one \in Seq(B) /\ Len(one) = before + sync
      /\ \A i \in 1 .. before + sync : one[i] = IF i <= before THEN pad[i] ELSE Sync[i - before]
  BY <1>1, <1>4, <1>7, Joined
<1> HIDE DEF one
<1>9. /\ two \in Seq(B) /\ Len(two) = before + sync + payload
      /\ \A i \in 1 .. before + sync + payload :
           two[i] = IF i <= before + sync THEN one[i] ELSE Payload[i - (before + sync)]
  <2> DEFINE m == before + sync
  <2>1. one \in Seq(B) /\ Len(one) = m
    BY <1>8
  <2>2. Payload \in Seq(B) /\ Len(Payload) = payload
    BY <1>1, <1>7
  <2> HIDE DEF m
  <2>3. /\ one \o Payload \in Seq(B) /\ Len(one \o Payload) = m + payload
        /\ \A i \in 1 .. m + payload : (one \o Payload)[i] = IF i <= m THEN one[i] ELSE Payload[i - m]
    BY <2>1, <2>2, Joined
  <2>4. QED BY <2>3 DEF m
<1> HIDE DEF two
<1> DEFINE size == before + sync + payload + trailer
<1>10. /\ three \in Seq(B) /\ Len(three) = size
       /\ \A i \in 1 .. size :
            three[i] = IF i <= before + sync + payload THEN two[i] ELSE Trailer[i - (before + sync + payload)]
  <2> DEFINE m == before + sync + payload
  <2>1. two \in Seq(B) /\ Len(two) = m
    BY <1>9
  <2>2. Trailer \in Seq(B) /\ Len(Trailer) = trailer
    BY <1>1, <1>7
  <2> HIDE DEF m
  <2>3. /\ two \o Trailer \in Seq(B) /\ Len(two \o Trailer) = m + trailer
        /\ \A i \in 1 .. m + trailer : (two \o Trailer)[i] = IF i <= m THEN two[i] ELSE Trailer[i - m]
    BY <2>1, <2>2, Joined
  <2>4. QED BY <2>3 DEF m
<1> HIDE DEF three
<1>11. /\ four \in Seq(B) /\ Len(four) = late + size
       /\ \A i \in 1 .. late + size : four[i] = IF i <= late THEN lag[i] ELSE three[i - late]
  BY <1>4, <1>10, Joined
<1>12. seen = SubSeq(four, 1, size)
  BY <1>5, <1>6, <1>10 DEF one, two, three, four
<1> HIDE DEF four
<1> DEFINE zeros == late + before
<1>13. size \in Nat /\ zeros \in Nat /\ zeros + sync + payload <= size
  BY <1>1, <1>2, <1>3
<1>14. /\ seen \in Seq(B) /\ Len(seen) = size
       /\ \A i \in 1 .. size : seen[i] = four[i]
  <2>1. \A i \in 1 .. size : 0 + i = i /\ i \in 1 .. late + size
    BY <1>2, <1>13
  <2>2. \A i \in 1 .. size : four[0 + i] \in B
    BY <1>11, <2>1, ElementOfSeq
  <2>3. 0 \in Nat /\ 0 + 1 = 1 /\ 0 + size = size
    BY <1>13
  <2> HIDE DEF size
  <2>4. /\ SubSeq(four, 0 + 1, 0 + size) \in Seq(B) /\ Len(SubSeq(four, 0 + 1, 0 + size)) = size
        /\ \A i \in 1 .. size : SubSeq(four, 0 + 1, 0 + size)[i] = four[0 + i]
    BY <1>13, <2>2, <2>3, Part
  <2>5. QED BY <1>12, <2>1, <2>3, <2>4
<1>15. \A i \in 1 .. size : seen[i] \in B
  BY <1>14, ElementOfSeq
<1>16. \A i \in 1 .. zeros : seen[i] = 0
  <2> SUFFICES ASSUME NEW i \in 1 .. zeros PROVE seen[i] = 0
    OBVIOUS
  <2>1. i \in 1 .. size /\ i \in 1 .. late + size
    BY <1>2, <1>3, <1>13
  <2>2. CASE i <= late
    BY <1>2, <1>4, <1>11, <1>14, <2>1, <2>2
  <2>3. CASE ~(i <= late)
    <3>1. /\ i - late \in 1 .. size /\ i - late \in 1 .. before /\ i - late <= before
          /\ i - late <= before + sync + payload /\ i - late <= before + sync
          /\ i - late \in 1 .. before + sync + payload /\ i - late \in 1 .. before + sync
      BY <1>2, <1>3, <2>1, <2>3
    <3>2. seen[i] = three[i - late]
      BY <1>11, <1>14, <2>1, <2>3
    <3>3. three[i - late] = two[i - late]
      BY <1>10, <3>1
    <3>4. two[i - late] = one[i - late]
      BY <1>9, <3>1
    <3>5. one[i - late] = pad[i - late]
      BY <1>8, <3>1
    <3>6. QED BY <1>4, <3>1, <3>2, <3>3, <3>4, <3>5
  <2>4. QED BY <2>2, <2>3
<1>17. \A i \in 1 .. sync : seen[zeros + i] = Sync[i]
  <2> SUFFICES ASSUME NEW i \in 1 .. sync PROVE seen[zeros + i] = Sync[i]
    OBVIOUS
  <2> DEFINE j == zeros + i
             k == before + i
  <2>1. /\ j \in 1 .. size /\ j \in 1 .. late + size /\ ~(j <= late) /\ j - late = k
        /\ k \in 1 .. size /\ k - before = i /\ ~(k <= before)
        /\ k <= before + sync + payload /\ k <= before + sync
        /\ k \in 1 .. before + sync + payload /\ k \in 1 .. before + sync
    BY <1>2, <1>3, <1>13
  <2> HIDE DEF j, k
  <2>2. seen[j] = three[k]
    BY <1>11, <1>14, <2>1
  <2>3. three[k] = two[k]
    BY <1>10, <2>1
  <2>4. two[k] = one[k]
    BY <1>9, <2>1
  <2>5. one[k] = Sync[k - before]
    BY <1>8, <2>1
  <2>6. QED BY <2>1, <2>2, <2>3, <2>4, <2>5 DEF j
<1>18. \A i \in 1 .. payload : seen[zeros + sync + i] = Payload[i]
  <2> SUFFICES ASSUME NEW i \in 1 .. payload PROVE seen[zeros + sync + i] = Payload[i]
    OBVIOUS
  <2> DEFINE j == zeros + sync + i
             k == before + sync + i
  <2>1. /\ j \in 1 .. size /\ j \in 1 .. late + size /\ ~(j <= late) /\ j - late = k
        /\ k \in 1 .. size /\ k - (before + sync) = i /\ ~(k <= before + sync)
        /\ k <= before + sync + payload /\ k \in 1 .. before + sync + payload
    BY <1>2, <1>3, <1>13
  <2> HIDE DEF j, k
  <2>2. seen[j] = three[k]
    BY <1>11, <1>14, <2>1
  <2>3. three[k] = two[k]
    BY <1>10, <2>1
  <2>4. two[k] = Payload[k - (before + sync)]
    BY <1>9, <2>1
  <2>5. QED BY <2>1, <2>2, <2>3, <2>4 DEF j
<1> HIDE DEF size, zeros
<1> DEFINE from == zeros + 1
           past == zeros + sync
<1>19. ASSUME NEW i \in 1 .. size - sync + 1
       PROVE  /\ SubSeq(seen, i, i + sync - 1) \in Seq(B) /\ Len(SubSeq(seen, i, i + sync - 1)) = sync
              /\ \A k \in 1 .. sync : SubSeq(seen, i, i + sync - 1)[k] = seen[i + k - 1]
  <2> DEFINE m == i - 1
  <2>1. /\ m \in Nat /\ m + 1 = i /\ m + sync = i + sync - 1
        /\ \A k \in 1 .. sync : m + k \in 1 .. size /\ m + k = i + k - 1
    BY <1>3, <1>13
  <2> HIDE DEF m
  <2>2. \A k \in 1 .. sync : seen[m + k] \in B
    BY <1>15, <2>1
  <2>3. /\ SubSeq(seen, m + 1, m + sync) \in Seq(B) /\ Len(SubSeq(seen, m + 1, m + sync)) = sync
        /\ \A k \in 1 .. sync : SubSeq(seen, m + 1, m + sync)[k] = seen[m + k]
    <3>1. m \in Nat
      BY <2>1
    <3>2. sync \in Nat
      BY <1>3
    <3>3. QED BY <2>2, <3>1, <3>2, Part
  <2>4. QED BY <2>1, <2>3
<1>20. from \in Load!Synced(seen)
  <2>1. from \in 1 .. size - sync + 1
        /\ \A k \in 1 .. sync : from + k - 1 = zeros + k
    BY <1>3, <1>13
  <2> DEFINE there == SubSeq(seen, from, from + sync - 1)
  <2> HIDE DEF from
  <2>2. /\ there \in Seq(B) /\ Len(there) = sync
        /\ \A k \in 1 .. sync : there[k] = seen[from + k - 1]
    BY <1>19, <2>1
  <2> HIDE DEF there
  <2>3. \A k \in 1 .. Len(there) : there[k] = Sync[k]
    BY <1>17, <2>1, <2>2
  <2>4. there = Sync
    BY <1>1, <1>7, <2>2, <2>3, SeqEqual
  <2>5. QED BY <1>7, <1>14, <2>1, <2>4 DEF there, Load!Synced
<1>21. \A i \in Load!Synced(seen) : from <= i /\ i \in Int
  <2> SUFFICES ASSUME NEW i \in Load!Synced(seen) PROVE from <= i /\ i \in Int
    OBVIOUS
  <2>1. i \in 1 .. size - sync + 1 /\ SubSeq(seen, i, i + sync - 1) = Sync
    BY <1>7, <1>14 DEF Load!Synced
  <2>2. i \in Int
    BY <1>3, <1>13, <2>1
  <2> DEFINE there == SubSeq(seen, i, i + sync - 1)
  <2>3. ASSUME ~(from <= i) PROVE FALSE
    <3>1. i \in 1 .. zeros /\ i + 1 - 1 = i /\ 1 \in 1 .. sync
      BY <1>3, <1>13, <2>1, <2>3
    <3>2. there[1] = seen[i]
      BY <1>19, <2>1, <3>1
    <3>3. seen[i] = 0
      BY <1>16, <3>1
    <3>4. there = Sync
      BY <2>1
    <3> HIDE DEF there
    <3>5. QED BY <1>1, <3>2, <3>3, <3>4
  <2>4. QED BY <2>2, <2>3
<1>22. Load!Synced(seen) # {} /\ Load!Min(Load!Synced(seen)) = from
  <2>1. from \in Int
    BY <1>13
  <2> DEFINE all == Load!Synced(seen)
  <2> HIDE DEF all, from
  <2>2. from \in all /\ \A i \in all : from <= i /\ i \in Int
    BY <1>20, <1>21 DEF all
  <2>3. \A i \in all : (\A k \in all : i <= k) => i = from
    BY <2>1, <2>2
  <2>4. Load!Min(all) = from
    BY <2>2, <2>3 DEF Load!Min
  <2>5. QED BY <2>2, <2>4 DEF all
<1> DEFINE much == size - past
           rest == SubSeq(seen, past + 1, past + much)
<1>23. /\ past \in Nat /\ much \in Nat /\ payload <= much /\ past + much = size /\ from + sync = past + 1
       /\ \A i \in 1 .. much : past + i \in 1 .. size
       /\ \A i \in 1 .. payload : i \in 1 .. much
  BY <1>3, <1>13
<1>24. Load!AfterSync(seen) = rest
  BY <1>7, <1>14, <1>22, <1>23 DEF Load!AfterSync
<1> HIDE DEF much
<1>25. /\ rest \in Seq(B) /\ Len(rest) = much
       /\ \A i \in 1 .. much : rest[i] = seen[past + i]
  <2> HIDE DEF past
  <2>1. \A i \in 1 .. much : seen[past + i] \in B
    BY <1>15, <1>23
  <2>2. QED BY <1>23, <2>1, Part
<1> HIDE DEF rest
<1>26. \A i \in 1 .. payload : rest[i] = Payload[i]
  BY <1>18, <1>23, <1>25
<1>27. SubSeq(Payload, 1, payload) = SubSeq(rest, 1, payload)
  <2>1. \A i \in 1 .. payload : 1 + i - 1 = i
    BY <1>3
  <2>2. SubSeq(Payload, 1, payload) = [i \in 1 .. payload |-> Payload[1 + i - 1]]
    BY <1>3
  <2>3. SubSeq(rest, 1, payload) = [i \in 1 .. payload |-> rest[1 + i - 1]]
    BY <1>3
  <2>4. QED BY <1>26, <2>1, <2>2, <2>3
<1>28. Load!IsPrefix(Payload, rest)
  BY <1>7, <1>23, <1>25, <1>27 DEF Load!IsPrefix
<1>29. seen \in Seq(Bit)
  BY <1>14 DEF B, Bit
<1>30. QED BY <1>24, <1>28, <1>29 DEF seen, data

-----------------------------------------------------------------------------
(* The load of a 7-series device.                                          *)

Dev == [init: BOOLEAN, done: BOOLEAN, fed: Seq(Bit), ok: BOOLEAN, bad: BOOLEAN]

\* Where the host is says what the device has been through: its memory is
\* clear once the wait is over, it has taken the stream or will not take it
\* after the scan of it, and it runs, or will not, after the clocks.
ChainInv ==
  /\ board \in Chains /\ target \in Dev /\ step \in 0 .. 12
  /\ Load!OthersBypassed
  /\ step = 6 => Load!Target = CFG_IN
  /\ step = 8 => Load!Target = JSTART
  /\ step \in 4 .. 12 => target.init
  /\ step \in 7 .. 8 => target.ok \/ target.bad
  /\ step \in 9 .. 11 => target.done \/ target.bad
  /\ step = 11 => target.done
  /\ step = 12 => target.bad

LEMMA Steps ==
  /\ Load!Played = 11 /\ Load!Refused = 12 /\ Load!TimedOut = 0
  /\ DOMAIN Load!Program = 1 .. 10
  /\ \A n \in {1, 4, 9} : Load!Program[n] = Load!Do("reset")
  /\ Load!Program[2] = Load!Sir(JPROGRAM, FALSE)
  /\ Load!Program[3] = Load!Do("poll")
  /\ Load!Program[5] = Load!Sir(CFG_IN, FALSE)
  /\ Load!Program[6] = Load!Do("sdr")
  /\ Load!Program[7] = Load!Sir(JSTART, FALSE)
  /\ Load!Program[8] = Load!Do("run")
  /\ Load!Program[10] = Load!Sir(Load!BypassOp, TRUE)
<1> DEFINE p == Load!Program
<1>1. p = <<Load!Do("reset"), Load!Sir(JPROGRAM, FALSE), Load!Do("poll"), Load!Do("reset"),
            Load!Sir(CFG_IN, FALSE), Load!Do("sdr"), Load!Sir(JSTART, FALSE),
            Load!Do("run"), Load!Do("reset"), Load!Sir(Load!BypassOp, TRUE)>>
  BY DEF Load!Program
<1> HIDE DEF p
<1>2. Len(p) = 10 /\ DOMAIN p = 1 .. 10
  BY <1>1
<1>3. /\ p[1] = Load!Do("reset") /\ p[4] = Load!Do("reset") /\ p[9] = Load!Do("reset")
      /\ p[2] = Load!Sir(JPROGRAM, FALSE) /\ p[3] = Load!Do("poll") /\ p[5] = Load!Sir(CFG_IN, FALSE)
      /\ p[6] = Load!Do("sdr") /\ p[7] = Load!Sir(JSTART, FALSE) /\ p[8] = Load!Do("run")
      /\ p[10] = Load!Sir(Load!BypassOp, TRUE)
  BY <1>1
<1>4. QED BY <1>2, <1>3 DEF p, Load!Played, Load!Refused, Load!TimedOut

\* The instructions differ, and have the target's length.
LEMMA Instructions ==
  ASSUME board \in Chains
  PROVE  /\ \A op \in {JPROGRAM, CFG_IN, JSTART, Load!BypassOp} :
               op \in Seq(Bit) /\ Len(op) = board.lens[board.target]
         /\ JPROGRAM \notin {CFG_IN, JSTART, Load!BypassOp}
         /\ board.target \in DOMAIN board.lens
<1>1. /\ {JPROGRAM, CFG_IN, JSTART} \subseteq Seq(Bit)
      /\ {Len(JPROGRAM), Len(CFG_IN), Len(JSTART)} = {board.lens[board.target]}
      /\ JPROGRAM \notin {CFG_IN, JSTART} /\ \E i \in DOMAIN JPROGRAM : JPROGRAM[i] = 0
      /\ board.lens \in Seq(Nat) /\ board.target \in DOMAIN board.lens
  BY LoadsAssumption DEF Load!ChainsFit, Bit
<1> DEFINE n == board.lens[board.target]
<1>2. n \in Nat
  BY <1>1
<1> HIDE DEF n
<1>3. Load!BypassOp = [i \in 1 .. n |-> 1]
  BY DEF Load!BypassOp, Load!Bypass, n
<1>4. Load!BypassOp \in Seq(Bit) /\ Len(Load!BypassOp) = n
  BY <1>2, <1>3 DEF Bit
<1>5. \A i \in DOMAIN Load!BypassOp : Load!BypassOp[i] = 1
  BY <1>3
<1>6. JPROGRAM # Load!BypassOp
  BY <1>1, <1>5
<1>7. Len(JPROGRAM) = n /\ Len(CFG_IN) = n /\ Len(JSTART) = n
  BY <1>1 DEF n
<1>8. QED BY <1>1, <1>4, <1>6, <1>7 DEF n

LEMMA ChainStarts == Load!ChainInit => ChainInv
<1> SUFFICES ASSUME Load!ChainInit PROVE ChainInv
  OBVIOUS
<1>1. /\ board \in Chains /\ step = 1
      /\ ir = [t \in DOMAIN board.lens |-> Load!Bypass(board.lens[t])]
      /\ target = [init |-> TRUE, done |-> FALSE, fed |-> <<>>, ok |-> FALSE, bad |-> FALSE]
  BY DEF Load!ChainInit
<1>2. target \in Dev
  BY <1>1, EmptySeq DEF Dev
<1>3. Load!OthersBypassed
  BY <1>1 DEF Load!OthersBypassed
<1>4. QED BY <1>1, <1>2, <1>3 DEF ChainInv

LEMMA ChainKept == ChainInv /\ [Load!ChainNext]_(Load!xc7) => ChainInv'
<1> SUFFICES ASSUME ChainInv, [Load!ChainNext]_(Load!xc7) PROVE ChainInv'
  OBVIOUS
<1>1. board \in Chains /\ board.target \in DOMAIN board.lens
  BY Instructions DEF ChainInv
<1>2. \A op \in {JPROGRAM, CFG_IN, JSTART, Load!BypassOp} :
        \A t \in DOMAIN board.lens :
          Load!Delivered(Load!Ir(op))[t] = IF t = board.target THEN op ELSE Load!Bypass(board.lens[t])
  BY <1>1, Instructions, Instructs
<1>3. Load!Playing => step \in 1 .. 10
  BY Steps DEF Load!Playing
<1>4. CASE Load!Reset
  <2>1. /\ step \in {1, 4, 9} /\ step' = step + 1 /\ board' = board /\ target' = target
        /\ ir' = [t \in DOMAIN board.lens |-> Load!Bypass(board.lens[t])]
    BY <1>3, <1>4, Steps DEF Load!Reset, Load!Now, Load!Do, Load!Sir
  <2>2. Load!OthersBypassed'
    BY <2>1 DEF Load!OthersBypassed
  <2>3. QED BY <2>1, <2>2 DEF ChainInv
<1>5. CASE Load!ScanIr
  <2> DEFINE op == Load!Now.op
  <2>1. /\ \/ step = 2 /\ op = JPROGRAM /\ Load!Now.done = FALSE
           \/ step = 5 /\ op = CFG_IN /\ Load!Now.done = FALSE
           \/ step = 7 /\ op = JSTART /\ Load!Now.done = FALSE
           \/ step = 10 /\ op = Load!BypassOp /\ Load!Now.done = TRUE
        /\ ir' = Load!Delivered(Load!Ir(op)) /\ target' = Load!Instructed(ir'[board.target])
        /\ step' = IF Load!Now.done /\ ~target.done THEN Load!Refused ELSE step + 1
        /\ board' = board
    BY <1>3, <1>5, Steps DEF Load!ScanIr, Load!Now, Load!Do, Load!Sir
  <2> HIDE DEF op
  <2>2. \A t \in DOMAIN board.lens : ir'[t] = IF t = board.target THEN op ELSE Load!Bypass(board.lens[t])
    BY <1>2, <2>1
  <2>3. Load!OthersBypassed'
    BY <2>1, <2>2 DEF Load!OthersBypassed
  <2>4. ir'[board.target] = op
    BY <1>1, <2>2
  <2>5. Load!Target' = op
    BY <2>1, <2>4 DEF Load!Target
  <2>6. step # 2 => target' = target
    BY <1>1, <2>1, <2>4, Instructions DEF Load!Instructed
  <2>7. target' \in Dev
    BY <2>1, EmptySeq DEF Load!Instructed, ChainInv, Dev
  <2>8. CASE step = 2
    BY <2>1, <2>3, <2>7, <2>8 DEF ChainInv
  <2>9. CASE step # 2
    BY <2>1, <2>3, <2>5, <2>6, <2>7, <2>9, Steps DEF ChainInv, Dev
  <2>10. QED BY <2>8, <2>9
<1>6. CASE Load!Poll
  <2>1. /\ step = 3 /\ step' \in (IF target.init THEN {4} ELSE {3, 0})
        /\ ir' = Load!Delivered(Load!Ir(Load!BypassOp)) /\ board' = board /\ target' = target
    BY <1>3, <1>6, Steps DEF Load!Poll, Load!Now, Load!Do, Load!Sir
  <2>2. Load!OthersBypassed'
    BY <1>2, <2>1 DEF Load!OthersBypassed
  <2>3. QED BY <2>1, <2>2 DEF ChainInv
<1>7. CASE Load!ScanDr
  <2>1. /\ step = 6 /\ step' = 7 /\ board' = board /\ ir' = ir
        /\ target' = IF Load!Target = CFG_IN /\ target.init
                     THEN [target EXCEPT !.fed = Load!Seen(Load!Data),
                            !.ok = ~target.bad /\ Load!IsPrefix(Payload, Load!AfterSync(Load!Seen(Load!Data)))]
                     ELSE target
    BY <1>3, <1>7, Steps DEF Load!ScanDr, Load!Now, Load!Do, Load!Sir
  <2>2. target' = [target EXCEPT !.fed = Load!Seen(Load!Data), !.ok = ~target.bad]
    BY <1>1, <2>1, Fed DEF ChainInv
  <2>3. target' \in Dev /\ (target'.ok \/ target'.bad) /\ target'.init = target.init
    BY <1>1, <2>2, Fed DEF ChainInv, Dev
  <2>4. Load!OthersBypassed'
    BY <2>1 DEF ChainInv, Load!OthersBypassed
  <2>5. QED BY <2>1, <2>3, <2>4 DEF ChainInv
<1>8. CASE Load!Run
  <2>1. /\ step = 8 /\ step' = 9 /\ board' = board /\ ir' = ir
        /\ target' = [target EXCEPT !.done = Load!Target = JSTART /\ target.ok]
    BY <1>3, <1>8, Steps DEF Load!Run, Load!Now, Load!Do, Load!Sir
  <2>2. target' \in Dev /\ (target'.done \/ target'.bad) /\ target'.init = target.init
    BY <2>1 DEF ChainInv, Dev
  <2>3. Load!OthersBypassed'
    BY <2>1 DEF ChainInv, Load!OthersBypassed
  <2>4. QED BY <2>1, <2>2, <2>3 DEF ChainInv
<1>9. CASE Load!Clear
  <2>1. step' = step /\ board' = board /\ ir' = ir /\ target' = [target EXCEPT !.init = TRUE]
    BY <1>9 DEF Load!Clear
  <2>2. Load!OthersBypassed' /\ Load!Target' = Load!Target
    BY <2>1 DEF ChainInv, Load!OthersBypassed, Load!Target
  <2>3. /\ target' \in Dev /\ target'.init
        /\ target'.ok = target.ok /\ target'.bad = target.bad /\ target'.done = target.done
    BY <2>1 DEF ChainInv, Dev
  <2>4. QED BY <2>1, <2>2, <2>3 DEF ChainInv
<1>10. CASE Load!Spoil
  <2>1. step' = step /\ board' = board /\ ir' = ir /\ target' = [target EXCEPT !.bad = TRUE]
    BY <1>10 DEF Load!Spoil
  <2>2. Load!OthersBypassed' /\ Load!Target' = Load!Target
    BY <2>1 DEF ChainInv, Load!OthersBypassed, Load!Target
  <2>3. /\ target' \in Dev /\ target'.init = target.init
        /\ target'.bad /\ target'.done = target.done
    BY <2>1 DEF ChainInv, Dev
  <2>4. QED BY <2>1, <2>2, <2>3 DEF ChainInv
<1>11. CASE UNCHANGED Load!xc7
  <2>1. step' = step /\ board' = board /\ ir' = ir /\ target' = target
    BY <1>11 DEF Load!xc7
  <2>2. QED BY <2>1 DEF ChainInv, Load!OthersBypassed, Load!Target
<1>12. QED
  BY <1>4, <1>5, <1>6, <1>7, <1>8, <1>9, <1>10, <1>11 DEF Load!ChainNext, Load!ChainHost

\* The load of a 7-series device (jtag/src/xc7.rs), in any chain of devices
\* whose instruction registers are known: one that plays to its end left the
\* target configured, one that is refused met a device that would not take the
\* stream, and nobody else was ever given an instruction.
THEOREM LoadedMeansConfigured == BenchSpec => []DeviceConfigured
<1> DEFINE Inv == (bench = "xc7" => ChainInv) /\ (bench # "xc7" => NoZynq)
<1>1. BenchInit => Inv
  BY OneBench, ChainStarts
<1>2. Inv /\ [BenchNext]_benches => Inv'
  <2> SUFFICES ASSUME Inv, [BenchNext]_benches PROVE Inv'
    OBVIOUS
  <2>1. /\ bench' = bench
        /\ bench = "xc7" => [Load!ChainNext]_(Load!xc7)
        /\ bench # "xc7" => UNCHANGED Load!xc7
    BY OneBench
  <2>2. bench = "xc7" => ChainInv'
    BY <2>1, ChainKept
  <2>3. bench # "xc7" => NoZynq'
    BY <2>1 DEF NoZynq, Load!xc7
  <2>4. QED BY <2>1, <2>2, <2>3
<1>3. Inv => DeviceConfigured
  <2>1. ChainInv => DeviceConfigured
    BY Steps DEF ChainInv, DeviceConfigured, Load!Configured
  <2>2. ASSUME NoZynq PROVE DeviceConfigured
    <3>1. board.lens = <<3>> /\ board.target = 1 /\ step = 0
      BY <2>2 DEF NoZynq
    <3>2. DOMAIN board.lens = {1}
      BY <3>1
    <3>3. QED BY <3>1, <3>2, Steps DEF DeviceConfigured, Load!Configured, Load!OthersBypassed
  <2>3. QED BY <2>1, <2>2
<1> HIDE DEF Inv
<1>4. QED BY <1>1, <1>2, <1>3, PTL DEF BenchSpec

-----------------------------------------------------------------------------
(* Sectors and pages.                                                      *)

LEMMA Products ==
  ASSUME NEW p \in Int, NEW q \in Int, NEW d \in Nat, p <= q
  PROVE  p * d <= q * d
<1>1. (q - p) * d >= 0 /\ (q - p) * d = q * d - p * d
  OBVIOUS
<1>2. QED BY <1>1

LEMMA Quotients ==
  ASSUME NEW a \in Nat, NEW d \in Nat \ {0}
  PROVE  /\ a \div d \in Nat /\ (a \div d) * d <= a /\ a < (a \div d + 1) * d
         /\ a % d \in 0 .. d - 1 /\ a = (a \div d) * d + (a % d)
OBVIOUS

LEMMA Quotient ==
  ASSUME NEW a \in Nat, NEW d \in Nat \ {0}, NEW q \in Nat, q * d <= a, a < (q + 1) * d
  PROVE  a \div d = q
OBVIOUS

\* The later the byte, the later its sector.
LEMMA LaterSector ==
  ASSUME NEW a \in Nat, NEW b \in Nat, NEW d \in Nat \ {0}, a <= b
  PROVE  a \div d <= b \div d
<1> DEFINE p == a \div d
           q == b \div d
<1>1. p \in Nat /\ p * d <= a /\ q \in Nat /\ b < (q + 1) * d
  BY Quotients
<1> HIDE DEF p, q
<1>2. ASSUME q + 1 <= p PROVE FALSE
  <2>1. (q + 1) * d <= p * d
    BY <1>1, <1>2, Products
  <2>2. (q + 1) * d \in Int /\ p * d \in Int
    BY <1>1
  <2>3. QED BY <1>1, <2>1, <2>2
<1>3. p <= q
  BY <1>1, <1>2
<1>4. QED BY <1>3 DEF p, q

\* The number of sectors up to e, rounded up, is past all of them.
LEMMA LastSectors ==
  ASSUME NEW a \in Nat, NEW e \in Nat, NEW d \in Nat \ {0}, a < e
  PROVE  a \div d < (e + d - 1) \div d
<1>1. a + d \in Nat /\ e + d - 1 \in Nat /\ a + d <= e + d - 1
  OBVIOUS
<1>2. (a + d) \div d <= (e + d - 1) \div d
  BY <1>1, LaterSector
<1>3. (a + d) \div d = a \div d + 1
  <2> DEFINE q == a \div d
  <2>1. q \in Nat /\ q * d <= a /\ a < (q + 1) * d
    BY Quotients
  <2> HIDE DEF q
  <2>2. q + 1 \in Nat /\ (q + 1) * d = q * d + d /\ (q + 1 + 1) * d = (q + 1) * d + d
    BY <2>1
  <2>3. (q + 1) * d <= a + d /\ a + d < (q + 1 + 1) * d
    BY <2>1, <2>2
  <2>4. (a + d) \div d = q + 1
    BY <1>1, <2>2, <2>3, Quotient
  <2>5. QED BY <2>4 DEF q
<1>4. a \div d \in Nat /\ (e + d - 1) \div d \in Nat
  BY <1>1, Quotients
<1>5. QED BY <1>2, <1>3, <1>4

\* Counting on from a within its page does not wrap.
LEMMA WithinPage ==
  ASSUME NEW a \in Nat, NEW d \in Nat \ {0}, NEW i \in Nat \ {0}, i <= d - (a % d)
  PROVE  a - (a % d) + ((a + i - 1 - (a - (a % d))) % d) = a + i - 1
<1> DEFINE r == a % d
           x == r + i - 1
<1>1. r \in Nat /\ r < d
  BY Quotients
<1> HIDE DEF r
<1>2. a + i - 1 - (a - r) = x /\ x \in Nat /\ x < d
  BY <1>1 DEF r
<1>3. x % d = x
  <2>1. x \in Nat /\ 0 * d <= x /\ x < (0 + 1) * d
    BY <1>2
  <2> HIDE DEF x
  <2>2. x \div d = 0
    BY <2>1, Quotient
  <2>3. x = (x \div d) * d + (x % d) /\ x % d \in 0 .. d - 1
    BY <2>1, Quotients
  <2>4. QED BY <2>1, <2>2, <2>3
<1>4. a - r + x = a + i - 1
  BY <1>1
<1> HIDE DEF x
<1>5. a - r + ((a + i - 1 - (a - r)) % d) = a + i - 1
  BY <1>2, <1>3, <1>4
<1>6. QED BY <1>5 DEF r

-----------------------------------------------------------------------------
(* The flash.                                                              *)

Meant == job.address .. Load!End - 1
Byte(a) == job.data[a - job.address + 1]
Sector(a) == a \div SECTOR

\* What a command is still to do to a byte.
Erasure(a) == [at |-> a, byte |-> Load!Erased, erase |-> TRUE]
Clearing(a) == [at |-> a, byte |-> Byte(a), erase |-> FALSE]

Erasing == {"erase", "erase-sector", "erase-wait"}
Programming == {"program", "program-page", "program-wait"}
Checking == {"read", "reboot", "conf", "done"}

FlashTypes ==
  /\ job \in Jobs
  /\ flasher \in [pc: Erasing \cup Programming \cup Checking \cup {"failed"}, at: Nat, sector: Nat,
                 seen: Seq(Int), first: Seq(Int)]
  /\ flash \in [mem: [Load!Address -> Nat], enabled: BOOLEAN,
               busy: SUBSET [at: Load!Address, byte: Nat, erase: BOOLEAN], fails: BOOLEAN]

\* The flash is busy only while the host waits, or when it gave up waiting, and
\* with nothing outside the sectors meant.
Waiting ==
  /\ flash.busy # {} => flasher.pc \in {"erase-wait", "program-wait", "failed"}
  /\ flasher.pc \in {"erase-sector", "program-page"} => flash.enabled
  /\ \A c \in flash.busy : \E b \in Meant : Sector(b) = Sector(c.at)

\* From the first sector of the range on, what the host is past is erased, or
\* is being erased.
ErasedSoFar ==
  flasher.pc \in Erasing =>
    /\ Sector(job.address) <= flasher.sector
    /\ flasher.pc # "erase" => flasher.sector < Load!LastSector
    /\ \A a \in Load!Address :
         Sector(job.address) <= Sector(a) /\ Sector(a) < flasher.sector => flash.mem[a] = Load!Erased
    /\ flasher.pc = "erase-wait" =>
         /\ \A c \in flash.busy : c = Erasure(c.at)
         /\ \A a \in Load!Address :
              Sector(a) = flasher.sector => flash.mem[a] = Load!Erased \/ Erasure(a) \in flash.busy

\* What the host is past is programmed, or is being programmed; the rest is
\* erased.
ProgrammedSoFar ==
  flasher.pc \in Programming =>
    /\ job.address <= flasher.at /\ flasher.at <= Load!End
    /\ \A a \in flasher.at .. Load!End - 1 : flash.mem[a] = Load!Erased
    /\ \A c \in flash.busy : c.at \in job.address .. flasher.at - 1 /\ c = Clearing(c.at)
    /\ \A a \in job.address .. flasher.at - 1 :
         \/ flash.mem[a] = Byte(a)
         \/ flasher.pc = "program-wait" /\ flash.mem[a] = Load!Erased /\ Clearing(a) \in flash.busy

\* Once all is programmed the flash has the data.
HasData ==
  flasher.pc \in Checking /\ job.op = "program" => \A a \in Meant : flash.mem[a] = Byte(a)

\* Nothing is read before all is programmed.
Unread ==
  flasher.pc \in Erasing \cup Programming => flasher.seen = <<>> /\ flasher.first = <<>>

\* A good connection reads what the flash has.
ReadWell ==
  /\ flasher.pc = "read" => Len(flasher.seen) <= Load!Want
  /\ flasher.pc = "read" /\ ~flash.fails =>
       \A i \in 1 .. Len(flasher.seen) : flasher.seen[i] = flash.mem[Load!From + i - 1]
  /\ flasher.pc = "read" /\ ~flash.fails /\ flasher.first # <<>> =>
       /\ Len(flasher.first) = Load!Want
       /\ \A i \in 1 .. Load!Want : flasher.first[i] = flash.mem[Load!From + i - 1]

\* What the FPGA runs after the pulse is nothing, or what the flash has.
Boots ==
  /\ flasher.pc = "conf" /\ job.op = "program" =>
       fpga.runs = "nothing" \/ fpga = [runs |-> "flash", code |-> job.data[1]]
  /\ flasher.pc = "done" /\ job.op = "program" => fpga = [runs |-> "flash", code |-> job.data[1]]

FlashInv ==
  /\ FlashTypes
  /\ flasher.pc # "failed" => Load!End <= SIZE
  /\ job.op = "dump" => flasher.pc \in Checking \cup {"failed"}
  /\ Waiting /\ ErasedSoFar /\ ProgrammedSoFar /\ HasData /\ Unread /\ ReadWell /\ Boots
  /\ flasher.pc = "failed" => flash.fails \/ fpga.runs = "nothing" \/ Load!End > SIZE

LEMMA JobFacts ==
  ASSUME job \in Jobs
  PROVE  /\ job.op \in {"program", "dump"} /\ job.address \in Nat /\ job.data \in Seq(Nat)
         /\ Len(job.data) \in Nat /\ Load!End = job.address + Len(job.data) /\ Load!End \in Nat
         /\ job.op = "program" => job.address < Load!End /\ Len(job.data) > 0
         /\ job.op = "dump" => job.address = 0 /\ Load!End = 0
         /\ \A a \in Meant : /\ a \in Nat /\ Byte(a) \in Nat
                             /\ a - job.address + 1 \in 1 .. Len(job.data)
         /\ \A a \in Load!Address : a \in Nat
         /\ SIZE \in Nat /\ SECTOR \in Nat \ {0} /\ PAGE \in Nat \ {0} /\ READ_CHUNK \in Nat \ {0}
<1>1. /\ job.op \in {"program", "dump"} /\ job.address \in Nat /\ job.data \in Seq(Nat)
      /\ job.op = "program" => job.data # <<>>
      /\ job.op = "dump" => job.address = 0 /\ job.data = <<>>
      /\ SIZE \in Nat /\ SECTOR \in Nat \ {0} /\ PAGE \in Nat \ {0} /\ READ_CHUNK \in Nat \ {0}
  BY LoadsAssumption DEF Load!JobsFit
<1>2. Len(job.data) \in Nat /\ (job.data # <<>> => Len(job.data) > 0) /\ (job.data = <<>> => Len(job.data) = 0)
  BY <1>1, EmptySeq
<1>3. Load!End = job.address + Len(job.data)
  BY DEF Load!End
<1>4. ASSUME NEW a \in Meant
      PROVE  a \in Nat /\ Byte(a) \in Nat /\ a - job.address + 1 \in 1 .. Len(job.data)
  <2>1. a \in Nat /\ a - job.address + 1 \in 1 .. Len(job.data)
    BY <1>1, <1>2, <1>3 DEF Meant
  <2>2. QED BY <1>1, <2>1, ElementOfSeq DEF Byte
<1>5. \A a \in Load!Address : a \in Nat
  BY <1>1 DEF Load!Address
<1>6. QED BY <1>1, <1>2, <1>3, <1>4, <1>5

LEMMA FlashStarts == Load!FlashInit => FlashInv
<1> SUFFICES ASSUME Load!FlashInit PROVE FlashInv
  OBVIOUS
<1>1. job \in Jobs
  BY DEF Load!FlashInit
<1>2. PICK g \in Garbage : flash = [mem |-> g, enabled |-> FALSE, busy |-> {}, fails |-> FALSE]
  BY DEF Load!FlashInit
<1>3. g \in [Load!Address -> Nat]
  BY LoadsAssumption DEF Load!JobsFit, Load!Address
<1> DEFINE room == ~(job.address + Len(job.data) > SIZE)
<1>4. /\ flasher.at \in Nat /\ flasher.sector \in Nat /\ flasher.seen = <<>> /\ flasher.first = <<>>
      /\ DOMAIN flasher = {"pc", "at", "sector", "seen", "first"}
      /\ flasher.pc = IF ~room THEN "failed" ELSE IF job.op = "dump" THEN "read" ELSE "erase"
      /\ flasher.pc = "erase" => flasher.sector = job.address \div SECTOR
      /\ flasher = [pc |-> flasher.pc, at |-> flasher.at, sector |-> flasher.sector,
                    seen |-> <<>>, first |-> <<>>]
  <2>1. job.address \in Nat /\ job.address \div SECTOR \in Nat
    BY <1>1, JobFacts, Quotients
  <2>2. CASE ~room
    BY <2>1, <2>2 DEF Load!FlashInit, Load!Phase
  <2>3. CASE room /\ job.op = "dump"
    BY <2>1, <2>3 DEF Load!FlashInit, Load!Phase
  <2>4. CASE room /\ job.op # "dump"
    BY <2>1, <2>4 DEF Load!FlashInit, Load!Phase
  <2>5. QED BY <2>2, <2>3, <2>4
<1>5. room => Load!End <= SIZE
  BY <1>1, JobFacts
<1>6. ~room => Load!End > SIZE
  BY <1>1, JobFacts
<1> HIDE DEF room
<1>7. <<>> \in Seq(Int) /\ Len(<<>>) = 0
  BY EmptySeq
<1>8. flasher \in [pc: Erasing \cup Programming \cup Checking \cup {"failed"}, at: Nat, sector: Nat,
                 seen: Seq(Int), first: Seq(Int)]
  BY <1>4, <1>7 DEF Erasing, Checking
<1>9. FlashTypes
  BY <1>1, <1>2, <1>3, <1>8 DEF FlashTypes
<1>10. Waiting /\ Boots /\ ProgrammedSoFar /\ Unread
  BY <1>2, <1>4 DEF Waiting, Boots, ProgrammedSoFar, Programming, Unread
<1>11. ErasedSoFar
  <2>1. ASSUME flasher.pc \in Erasing
        PROVE  flasher.pc = "erase" /\ flasher.sector = Sector(job.address)
    BY <1>4, <2>1 DEF Erasing, Sector
  <2>2. Sector(job.address) \in Nat
    BY <1>1, JobFacts, Quotients DEF Sector
  <2>3. ASSUME NEW a \in Load!Address PROVE Sector(a) \in Nat
    BY <1>1, JobFacts, Quotients DEF Sector
  <2>4. QED BY <2>1, <2>2, <2>3 DEF ErasedSoFar
<1>12. HasData
  BY <1>4 DEF HasData, Checking
<1>13. ReadWell
  <2>1. Load!Want \in Nat
    BY <1>1, JobFacts DEF Load!Want
  <2>2. QED BY <1>4, <1>7, <2>1 DEF ReadWell
<1>14. QED
  BY <1>1, <1>2, <1>4, <1>5, <1>6, <1>9, <1>10, <1>11, <1>12, <1>13, JobFacts DEF FlashInv, Checking

LEMMA SameJob ==
  ASSUME job' = job
  PROVE  /\ Load!End' = Load!End /\ Load!LastSector' = Load!LastSector /\ Meant' = Meant
         /\ Load!From' = Load!From /\ Load!Want' = Load!Want
         /\ \A a : Byte(a)' = Byte(a) /\ Clearing(a)' = Clearing(a)
BY DEF Load!End, Load!LastSector, Meant, Load!From, Load!Want, Byte, Clearing

LEMMA Sectors ==
  ASSUME job \in Jobs
  PROVE  \A a \in Load!Address \cup Meant \cup {job.address} : Sector(a) \in Nat
<1>1. \A a \in Load!Address \cup Meant \cup {job.address} : a \in Nat
  BY JobFacts
<1>2. SECTOR \in Nat \ {0}
  BY JobFacts
<1>3. QED BY <1>1, <1>2, Quotients DEF Sector

\* Erasing one sector after the other.
LEMMA EraseEnableKeeps == ASSUME FlashInv, Load!EraseEnable PROVE FlashInv'
<1>1. /\ flasher.pc = "erase" /\ flasher.sector < Load!LastSector /\ job' = job /\ fpga' = fpga
      /\ flash' = IF flash.busy = {} THEN [flash EXCEPT !.enabled = TRUE] ELSE flash
      /\ flasher' = [flasher EXCEPT !.pc = "erase-sector"]
  BY DEF Load!EraseEnable, Load!WriteEnable
<1>2. FlashTypes /\ Waiting /\ ErasedSoFar /\ Load!End <= SIZE /\ job.op # "dump"
  BY <1>1 DEF FlashInv, Checking
<1>3. flash' = [flash EXCEPT !.enabled = TRUE] /\ flash.busy = {}
  BY <1>1, <1>2 DEF Waiting
<1>4. /\ flash'.mem = flash.mem /\ flash'.busy = {} /\ flash'.enabled /\ flash'.fails = flash.fails
      /\ flasher'.pc = "erase-sector" /\ flasher'.sector = flasher.sector
  BY <1>1, <1>2, <1>3 DEF FlashTypes
<1>5. FlashTypes'
  BY <1>1, <1>2, <1>3 DEF FlashTypes, Erasing
<1>6. Waiting'
  BY <1>4 DEF Waiting
<1>7. ErasedSoFar'
  BY <1>1, <1>2, <1>4, SameJob DEF ErasedSoFar, Erasing, Sector
<1>8. ProgrammedSoFar' /\ HasData' /\ ReadWell' /\ Boots'
  BY <1>4 DEF ProgrammedSoFar, HasData, ReadWell, Boots, Programming, Checking
<1>9. Unread'
  <2>1. flasher'.seen = flasher.seen /\ flasher'.first = flasher.first
    BY <1>1, <1>2 DEF FlashTypes
  <2>2. QED BY <1>1, <2>1 DEF FlashInv, Unread, Erasing, Programming
<1>10. QED BY <1>1, <1>2, <1>4, <1>5, <1>6, <1>7, <1>8, <1>9, SameJob DEF FlashInv

LEMMA EraseSectorKeeps == ASSUME FlashInv, Load!EraseSector PROVE FlashInv'
<1> DEFINE cells == {[at |-> a, byte |-> Load!Erased, erase |-> TRUE] :
                       a \in {b \in Load!Address : b \div SECTOR = flasher.sector}}
<1>1. /\ flasher.pc = "erase-sector" /\ job' = job /\ fpga' = fpga
      /\ flash' = IF Load!Takes THEN [flash EXCEPT !.busy = cells, !.enabled = FALSE] ELSE flash
      /\ flasher' = [flasher EXCEPT !.pc = "erase-wait"]
  BY DEF Load!EraseSector, Load!Works
<1>2. /\ FlashTypes /\ Waiting /\ ErasedSoFar /\ Load!End <= SIZE
      /\ job.op = "program" /\ job \in Jobs
  BY <1>1, JobFacts DEF FlashInv, Checking, FlashTypes
<1>3. Load!Takes
  BY <1>1, <1>2 DEF Waiting, Load!Takes
<1>4. cells \subseteq [at: Load!Address, byte: Nat, erase: BOOLEAN]
  <2> SUFFICES ASSUME NEW c \in cells PROVE c \in [at: Load!Address, byte: Nat, erase: BOOLEAN]
    OBVIOUS
  <2>1. PICK a \in Load!Address : c = [at |-> a, byte |-> Load!Erased, erase |-> TRUE]
    OBVIOUS
  <2>2. Load!Erased \in Nat
    BY DEF Load!Erased
  <2>3. QED BY <2>1, <2>2
<1>5. /\ \A c \in cells : c = Erasure(c.at) /\ c.at \in Load!Address /\ Sector(c.at) = flasher.sector
      /\ \A a \in Load!Address : Sector(a) = flasher.sector => Erasure(a) \in cells
  <2>1. ASSUME NEW c \in cells
        PROVE  c = Erasure(c.at) /\ c.at \in Load!Address /\ Sector(c.at) = flasher.sector
    <3>1. PICK a \in Load!Address :
            a \div SECTOR = flasher.sector /\ c = [at |-> a, byte |-> Load!Erased, erase |-> TRUE]
      OBVIOUS
    <3>2. c.at = a
      BY <3>1
    <3>3. QED BY <3>1, <3>2 DEF Erasure, Sector
  <2>2. ASSUME NEW a \in Load!Address, Sector(a) = flasher.sector PROVE Erasure(a) \in cells
    BY <2>2 DEF Erasure, Sector
  <2>3. QED BY <2>1, <2>2
<1> HIDE DEF cells
<1>6. /\ flash'.mem = flash.mem /\ flash'.busy = cells /\ flash'.fails = flash.fails
      /\ flasher'.pc = "erase-wait" /\ flasher'.sector = flasher.sector
  BY <1>1, <1>2, <1>3 DEF FlashTypes
<1>7. FlashTypes'
  BY <1>1, <1>2, <1>3, <1>4 DEF FlashTypes, Erasing
<1>8. /\ Sector(job.address) <= flasher.sector /\ flasher.sector < Load!LastSector
      /\ \A a \in Load!Address :
           Sector(job.address) <= Sector(a) /\ Sector(a) < flasher.sector => flash.mem[a] = Load!Erased
  BY <1>1, <1>2 DEF ErasedSoFar, Erasing
<1>9. \E b \in Meant : Sector(b) = flasher.sector
  <2> DEFINE d     == SECTOR
             s     == flasher.sector
             e     == Load!End
             first == job.address
             p     == first \div d
             last  == (e + d - 1) \div d
  <2>1. /\ s \in Nat /\ first \in Nat /\ e \in Nat /\ d \in Nat \ {0} /\ first < e
        /\ p <= s /\ s < last
    BY <1>2, <1>8, JobFacts DEF FlashTypes, Load!LastSector, Sector
  <2> HIDE DEF d, s, e, first
  <2>2. p \in Nat /\ first < (p + 1) * d /\ e + d - 1 \in Nat
    BY <2>1, Quotients
  <2>3. last \in Nat /\ last * d <= e + d - 1
    BY <2>1, <2>2, Quotients
  <2>4. \E b \in first .. e - 1 : b \div d = s
    <3>1. CASE p = s
      <4>1. first \in first .. e - 1
        BY <2>1
      <4>2. QED BY <3>1, <4>1
    <3>2. CASE p # s
      <4> HIDE DEF p, last
      <4>1. p + 1 <= s /\ s + 1 <= last
        BY <2>1, <2>2, <2>3, <3>2
      <4>2. (p + 1) * d <= s * d
        BY <2>1, <2>2, <4>1, Products
      <4>3. (s + 1) * d <= last * d
        BY <2>1, <2>3, <4>1, Products
      <4>4. s * d \in Nat /\ (s + 1) * d = s * d + d /\ (p + 1) * d \in Nat /\ last * d \in Nat
        BY <2>1, <2>2, <2>3
      <4>5. s * d \in first .. e - 1
        BY <2>1, <2>2, <2>3, <4>2, <4>3, <4>4
      <4>6. s * d < (s + 1) * d
        BY <2>1, <4>4
      <4>7. (s * d) \div d = s
        BY <2>1, <4>4, <4>6, Quotient
      <4>8. QED BY <4>5, <4>7
    <3>3. QED BY <3>1, <3>2
  <2>5. QED BY <2>4 DEF Meant, Sector, d, s, e, first
<1>10. Waiting'
  BY <1>1, <1>5, <1>6, <1>9, SameJob DEF Waiting, Sector
<1>11. ErasedSoFar'
  BY <1>1, <1>5, <1>6, <1>8, SameJob DEF ErasedSoFar, Sector, Erasure
<1>12. ProgrammedSoFar' /\ HasData' /\ ReadWell' /\ Boots'
  BY <1>6 DEF ProgrammedSoFar, HasData, ReadWell, Boots, Programming, Checking
<1>13. Unread'
  <2>1. flasher'.seen = flasher.seen /\ flasher'.first = flasher.first
    BY <1>1, <1>2 DEF FlashTypes
  <2>2. QED BY <1>1, <2>1 DEF FlashInv, Unread, Erasing, Programming
<1>14. QED BY <1>1, <1>2, <1>6, <1>7, <1>10, <1>11, <1>12, <1>13, SameJob DEF FlashInv

LEMMA WaitedKeeps == ASSUME FlashInv, Load!Waited PROVE FlashInv'
<1>1. /\ flasher.pc \in {"erase-wait", "program-wait"} /\ flash.busy = {}
      /\ job' = job /\ fpga' = fpga /\ flash' = flash
      /\ flasher' = IF flasher.pc = "erase-wait"
                    THEN [flasher EXCEPT !.pc = "erase", !.sector = flasher.sector + 1]
                    ELSE [flasher EXCEPT !.pc = "program"]
  BY DEF Load!Waited, Load!Idle
<1>2. /\ FlashTypes /\ ErasedSoFar /\ ProgrammedSoFar /\ Load!End <= SIZE
      /\ job.op # "dump" /\ job \in Jobs
  BY <1>1 DEF FlashInv, Checking, FlashTypes
<1>3. FlashTypes'
  <2>1. CASE flasher.pc = "erase-wait"
    <3>1. flasher' = [flasher EXCEPT !.pc = "erase", !.sector = flasher.sector + 1]
      BY <1>1, <2>1
    <3>2. flasher.sector + 1 \in Nat
      BY <1>2 DEF FlashTypes
    <3>3. QED BY <1>1, <1>2, <3>1, <3>2 DEF FlashTypes, Erasing
  <2>2. CASE flasher.pc # "erase-wait"
    BY <1>1, <1>2, <2>2 DEF FlashTypes, Programming
  <2>3. QED BY <2>1, <2>2
<1>4. flasher'.pc \in {"erase", "program"}
  BY <1>1, <1>2 DEF FlashTypes
<1>5. Waiting'
  BY <1>1, <1>4 DEF Waiting
<1>6. ErasedSoFar'
  <2>1. CASE flasher.pc = "erase-wait"
    <3>1. flasher'.pc = "erase" /\ flasher'.sector = flasher.sector + 1 /\ flasher.sector \in Nat
      BY <1>1, <1>2, <2>1 DEF FlashTypes
    <3>2. /\ Sector(job.address) <= flasher.sector
          /\ \A a \in Load!Address :
               Sector(job.address) <= Sector(a) /\ Sector(a) < flasher.sector => flash.mem[a] = Load!Erased
          /\ \A a \in Load!Address : Sector(a) = flasher.sector => flash.mem[a] = Load!Erased
      BY <1>1, <1>2, <2>1 DEF ErasedSoFar, Erasing
    <3>3. Sector(job.address) \in Nat /\ \A a \in Load!Address : Sector(a) \in Nat
      BY <1>2, Sectors
    <3>4. Sector(job.address) <= flasher.sector + 1
      BY <3>1, <3>2, <3>3
    <3>5. \A a \in Load!Address :
            Sector(job.address) <= Sector(a) /\ Sector(a) < flasher.sector + 1 => flash.mem[a] = Load!Erased
      BY <3>1, <3>2, <3>3
    <3>6. Sector(job.address)' = Sector(job.address)
      BY <1>1 DEF Sector
    <3>7. QED BY <1>1, <3>1, <3>4, <3>5, <3>6 DEF ErasedSoFar, Sector
  <2>2. CASE flasher.pc = "program-wait"
    <3>1. flasher'.pc = "program"
      BY <1>1, <1>2, <2>2 DEF FlashTypes
    <3>2. QED BY <3>1 DEF ErasedSoFar, Erasing
  <2>3. QED BY <1>1, <2>1, <2>2
<1>7. ProgrammedSoFar'
  <2>1. CASE flasher.pc = "erase-wait"
    <3>1. flasher'.pc = "erase"
      BY <1>1, <1>2, <2>1 DEF FlashTypes
    <3>2. QED BY <3>1 DEF ProgrammedSoFar, Programming
  <2>2. CASE flasher.pc = "program-wait"
    <3>1. flasher'.pc = "program" /\ flasher'.at = flasher.at
      BY <1>1, <1>2, <2>2 DEF FlashTypes
    <3>2. QED BY <1>1, <1>2, <2>2, <3>1, SameJob DEF ProgrammedSoFar, Programming
  <2>3. QED BY <1>1, <2>1, <2>2
<1>8. HasData' /\ ReadWell' /\ Boots'
  BY <1>4 DEF HasData, ReadWell, Boots, Checking
<1>9. Unread'
  <2>1. flasher'.seen = flasher.seen /\ flasher'.first = flasher.first
    BY <1>1, <1>2 DEF FlashTypes
  <2>2. QED BY <1>1, <2>1 DEF FlashInv, Unread, Erasing, Programming
<1>10. QED BY <1>1, <1>2, <1>3, <1>4, <1>5, <1>6, <1>7, <1>8, <1>9, SameJob DEF FlashInv

LEMMA GiveUpKeeps == ASSUME FlashInv, Load!GiveUp PROVE FlashInv'
<1>1. /\ flash.fails /\ job' = job /\ fpga' = fpga /\ flash' = flash
      /\ flasher' = [flasher EXCEPT !.pc = "failed"]
  BY DEF Load!GiveUp
<1>2. FlashTypes /\ Waiting
  BY DEF FlashInv
<1>3. FlashTypes' /\ flasher'.pc = "failed"
  BY <1>1, <1>2 DEF FlashTypes
<1>4. Waiting'
  BY <1>1, <1>2, <1>3, SameJob DEF Waiting, Sector
<1>5. ErasedSoFar' /\ ProgrammedSoFar' /\ HasData' /\ ReadWell' /\ Boots'
  BY <1>3 DEF ErasedSoFar, ProgrammedSoFar, HasData, ReadWell, Boots, Erasing, Programming, Checking
<1>6. Unread'
  BY <1>3 DEF Unread, Erasing, Programming
<1>7. QED BY <1>1, <1>3, <1>4, <1>5, <1>6 DEF FlashInv

LEMMA EraseDoneKeeps == ASSUME FlashInv, Load!EraseDone PROVE FlashInv'
<1>1. /\ flasher.pc = "erase" /\ flasher.sector >= Load!LastSector
      /\ job' = job /\ fpga' = fpga /\ flash' = flash
      /\ flasher' = [flasher EXCEPT !.pc = "program", !.at = job.address]
  BY DEF Load!EraseDone
<1>2. /\ FlashTypes /\ Waiting /\ ErasedSoFar /\ Load!End <= SIZE
      /\ job.op # "dump" /\ job \in Jobs
  BY <1>1 DEF FlashInv, Checking, FlashTypes
<1>3. /\ job.address \in Nat /\ Load!End \in Nat /\ SECTOR \in Nat \ {0} /\ SIZE \in Nat
      /\ job.address <= Load!End
  BY <1>2, JobFacts
<1>4. flasher'.pc = "program" /\ flasher'.at = job.address /\ FlashTypes'
  BY <1>1, <1>2, <1>3 DEF FlashTypes, Programming
<1>5. flash.busy = {}
  BY <1>1, <1>2 DEF Waiting
<1>6. ASSUME NEW a \in job.address .. Load!End - 1 PROVE flash.mem[a] = Load!Erased
  <2>1. a \in Nat /\ a \in Load!Address /\ job.address <= a /\ a < Load!End
    BY <1>2, <1>3 DEF Load!Address
  <2>2. Sector(job.address) <= Sector(a)
    BY <1>3, <2>1, LaterSector DEF Sector
  <2>3. Sector(a) < Load!LastSector
    BY <1>3, <2>1, LastSectors DEF Sector, Load!LastSector
  <2>4. Sector(a) \in Nat /\ Load!LastSector \in Nat /\ flasher.sector \in Nat
    <3>1. Load!End + SECTOR - 1 \in Nat
      BY <1>3
    <3>2. (Load!End + SECTOR - 1) \div SECTOR \in Nat
      BY <1>3, <3>1, Quotients
    <3>3. QED BY <1>2, <2>1, <3>2, Sectors DEF FlashTypes, Load!LastSector
  <2>5. Sector(a) < flasher.sector
    BY <1>1, <2>3, <2>4
  <2>6. QED BY <1>1, <1>2, <2>1, <2>2, <2>5 DEF ErasedSoFar, Erasing
<1>7. Waiting' /\ ErasedSoFar' /\ HasData' /\ ReadWell' /\ Boots'
  BY <1>1, <1>4, <1>5 DEF Waiting, ErasedSoFar, HasData, ReadWell, Boots, Erasing, Checking
<1>8. ProgrammedSoFar'
  <2>1. job.address .. job.address - 1 = {}
    BY <1>3
  <2>2. QED BY <1>1, <1>3, <1>4, <1>5, <1>6, <2>1, SameJob DEF ProgrammedSoFar
<1>9. Unread'
  <2>1. flasher'.seen = flasher.seen /\ flasher'.first = flasher.first
    BY <1>1, <1>2 DEF FlashTypes
  <2>2. QED BY <1>1, <2>1 DEF FlashInv, Unread, Erasing, Programming
<1>10. QED BY <1>1, <1>2, <1>4, <1>7, <1>8, <1>9, SameJob DEF FlashInv

\* What is left to program, and how much of it goes to this page.
LEMMA Pages ==
  ASSUME job \in Jobs, NEW at \in Nat, at = flasher.at, job.address <= at, at <= Load!End
  PROVE  /\ Load!Rest = <<>> <=> at = Load!End
         /\ \E n \in 0 .. Load!End - at :
              /\ n <= PAGE - (at % PAGE)
              /\ Load!ThisPage = [i \in 1 .. n |-> Byte(at + i - 1)]
<1> DEFINE skip == at - job.address
           left == Load!End - at
<1>1. /\ job.address \in Nat /\ Load!End \in Nat /\ Load!End = job.address + Len(job.data)
      /\ PAGE \in Nat \ {0} /\ Len(job.data) \in Nat
  BY JobFacts
<1>2. skip \in Nat /\ left \in Nat /\ skip + left = Len(job.data)
  <2> DEFINE first == job.address
             e == Load!End
             n == Len(job.data)
  <2>1. first \in Nat /\ e \in Nat /\ n \in Nat /\ e = first + n /\ first <= at /\ at <= e
    BY <1>1
  <2> HIDE DEF first, e, n
  <2>2. at - first \in Nat /\ e - at \in Nat /\ at - first + (e - at) = n
    BY <2>1
  <2>3. QED BY <2>2 DEF first, e, n
<1>3. Load!Rest = SubSeq(job.data, skip + 1, skip + left)
  BY <1>1, <1>2 DEF Load!Rest
<1>4. ASSUME NEW i \in Int PROVE skip + i = at + i - 1 - job.address + 1
  <2> DEFINE first == job.address
  <2>1. first \in Nat
    BY <1>1
  <2> HIDE DEF first
  <2>2. at - first + i = at + i - 1 - first + 1
    BY <2>1
  <2>3. QED BY <2>2 DEF first
<1>5. left = 0 <=> at = Load!End
  BY <1>1
<1> HIDE DEF skip, left
<1>6. Load!Rest = [i \in 1 .. left |-> job.data[skip + i]]
  BY <1>2, <1>3, Sliced
<1>7. Load!Rest = [i \in 1 .. left |-> Byte(at + i - 1)]
  <2>1. ASSUME NEW i \in 1 .. left PROVE job.data[skip + i] = Byte(at + i - 1)
    <3> DEFINE a == at + i - 1
    <3>1. i \in Int
      BY <1>2
    <3>2. skip + i = a - job.address + 1
      <4>1. skip + i = at + i - 1 - job.address + 1
        BY <1>4, <3>1
      <4>2. QED BY <1>1, <4>1
    <3> HIDE DEF a
    <3>3. job.data[skip + i] = Byte(a)
      BY <3>2 DEF Byte
    <3>4. QED BY <3>3 DEF a
  <2>2. QED BY <1>6, <2>1
<1>8. Len(Load!Rest) = left /\ (Load!Rest = <<>> <=> left = 0)
  <2>1. Len(Load!Rest) = left
    BY <1>2, <1>6
  <2>2. left = 0 => Load!Rest = <<>>
    BY <1>6
  <2>3. Load!Rest = <<>> => left = 0
    <3>1. Len(<<>>) = 0
      OBVIOUS
    <3>2. QED BY <2>1, <3>1
  <2>4. QED BY <2>1, <2>2, <2>3
<1>9. \E n \in 0 .. left :
        n <= PAGE - (at % PAGE) /\ Load!ThisPage = [i \in 1 .. n |-> Byte(at + i - 1)]
  <2> DEFINE room == PAGE - (at % PAGE)
             n == Load!Min({left, room})
  <2>1. room \in Nat \ {0}
    <3> DEFINE d == PAGE
    <3>1. d \in Nat \ {0}
      BY <1>1
    <3> HIDE DEF d
    <3>2. at % d \in 0 .. d - 1
      BY <3>1, Quotients
    <3>3. d - (at % d) \in Nat \ {0}
      BY <3>1, <3>2
    <3>4. QED BY <3>3 DEF d
  <2>2. left \in Nat
    BY <1>2
  <2>3. Load!ThisPage = SubSeq(Load!Rest, 1, n)
    BY <1>8 DEF Load!ThisPage, Load!PageLeft
  <2> HIDE DEF room
  <2>4. n \in {left, room} /\ n <= left /\ n <= room
    BY <2>1, <2>2 DEF Load!Min
  <2> HIDE DEF n
  <2>5. n \in 0 .. left /\ n \in Nat /\ n <= room
    BY <2>1, <2>2, <2>4
  <2>6. Load!ThisPage = SubSeq(Load!Rest, 0 + 1, 0 + n)
    BY <2>3, <2>5
  <2>7. Load!ThisPage = [i \in 1 .. n |-> Load!Rest[0 + i]]
    BY <2>5, <2>6, Sliced
  <2>8. \A i \in 1 .. n : Load!Rest[0 + i] = Byte(at + i - 1)
    BY <1>2, <1>7, <2>5
  <2>9. Load!ThisPage = [i \in 1 .. n |-> Byte(at + i - 1)]
    BY <2>7, <2>8
  <2>10. QED BY <2>5, <2>9 DEF room
<1>10. QED BY <1>5, <1>8, <1>9 DEF left

\* Programming one page after the other.
LEMMA SkipPageKeeps == ASSUME FlashInv, Load!SkipPage PROVE FlashInv'
<1> DEFINE at == flasher.at
<1>1. /\ flasher.pc = "program" /\ Load!Rest # <<>> /\ \A i \in DOMAIN Load!ThisPage : Load!ThisPage[i] = Load!Erased
      /\ job' = job /\ fpga' = fpga /\ flash' = flash
      /\ flasher' = [flasher EXCEPT !.at = at + Len(Load!ThisPage)]
  BY DEF Load!SkipPage
<1>2. /\ FlashTypes /\ Waiting /\ ProgrammedSoFar /\ Load!End <= SIZE
      /\ job.op # "dump" /\ job \in Jobs
  BY <1>1 DEF FlashInv, Checking, FlashTypes
<1>3. at \in Nat /\ job.address <= at /\ at <= Load!End /\ job.address \in Nat /\ Load!End \in Nat
  BY <1>1, <1>2, JobFacts DEF FlashTypes, ProgrammedSoFar, Programming
<1>4. PICK n \in 0 .. Load!End - at : Load!ThisPage = [i \in 1 .. n |-> Byte(at + i - 1)]
  BY <1>2, <1>3, Pages
<1>5. Len(Load!ThisPage) = n /\ \A i \in 1 .. n : Byte(at + i - 1) = Load!Erased
  BY <1>1, <1>4
<1>6. flash.busy = {}
  BY <1>1, <1>2 DEF Waiting
<1>7. flasher' = [flasher EXCEPT !.at = at + n] /\ n \in Nat /\ at + n \in Nat /\ at + n <= Load!End
  BY <1>1, <1>3, <1>5
<1>8. flasher'.pc = "program" /\ flasher'.at = at + n /\ FlashTypes'
  BY <1>1, <1>2, <1>7 DEF FlashTypes
<1> HIDE DEF at
<1>9. /\ \A a \in at .. Load!End - 1 : flash.mem[a] = Load!Erased
      /\ \A a \in job.address .. at - 1 : flash.mem[a] = Byte(a)
  BY <1>1, <1>2 DEF ProgrammedSoFar, Programming, at
<1>10. \A a \in at .. at + n - 1 : Byte(a) = Load!Erased
  <2> SUFFICES ASSUME NEW a \in at .. at + n - 1 PROVE Byte(a) = Load!Erased
    OBVIOUS
  <2>1. a - at + 1 \in 1 .. n /\ at + (a - at + 1) - 1 = a
    BY <1>3, <1>7
  <2>2. QED BY <1>5, <2>1
<1>11. \A a \in at + n .. Load!End - 1 : flash.mem[a] = Load!Erased
  BY <1>3, <1>7, <1>9
<1>12. ASSUME NEW a \in job.address .. at + n - 1 PROVE flash.mem[a] = Byte(a)
  <2>1. CASE a < at
    BY <1>3, <1>9, <2>1
  <2>2. CASE a >= at
    <3>1. a \in at .. at + n - 1 /\ a \in at .. Load!End - 1
      BY <1>3, <1>7, <2>2
    <3>2. QED BY <1>9, <1>10, <3>1
  <2>3. QED BY <1>3, <2>1, <2>2
<1>13. job.address <= at + n
  BY <1>3, <1>7
<1>14. ProgrammedSoFar'
  <2>1. /\ flash'.busy = {} /\ flash'.mem = flash.mem /\ flasher'.at = at + n
        /\ job'.address = job.address /\ Load!End' = Load!End /\ \A a : Byte(a)' = Byte(a)
    BY <1>1, <1>6, <1>8, SameJob
  <2>2. job'.address <= flasher'.at /\ flasher'.at <= Load!End'
    BY <1>7, <1>13, <2>1
  <2>3. \A a \in flasher'.at .. Load!End' - 1 : flash'.mem[a] = Load!Erased
    BY <1>11, <2>1
  <2>4. \A c \in flash'.busy : c.at \in job'.address .. flasher'.at - 1 /\ c = Clearing(c.at)'
    BY <2>1
  <2>5. ASSUME NEW a \in job'.address .. flasher'.at - 1 PROVE flash'.mem[a] = Byte(a)'
    <3>1. a \in job.address .. at + n - 1
      BY <1>3, <1>7, <2>1
    <3>2. flash.mem[a] = Byte(a)
      BY <1>12, <3>1
    <3>3. QED BY <2>1, <3>2
  <2>6. QED BY <2>2, <2>3, <2>4, <2>5 DEF ProgrammedSoFar
<1>15. Waiting' /\ ErasedSoFar' /\ HasData' /\ ReadWell' /\ Boots'
  BY <1>1, <1>6, <1>8 DEF Waiting, ErasedSoFar, HasData, ReadWell, Boots, Erasing, Checking
<1>16. Unread'
  <2>1. flasher'.seen = flasher.seen /\ flasher'.first = flasher.first
    BY <1>1, <1>2 DEF FlashTypes
  <2>2. QED BY <1>1, <2>1 DEF FlashInv, Unread, Erasing, Programming
<1>17. QED BY <1>1, <1>2, <1>8, <1>14, <1>15, <1>16, SameJob DEF FlashInv

LEMMA PageEnableKeeps == ASSUME FlashInv, Load!PageEnable PROVE FlashInv'
<1>1. /\ flasher.pc = "program" /\ Load!Rest # <<>> /\ job' = job /\ fpga' = fpga
      /\ flash' = IF flash.busy = {} THEN [flash EXCEPT !.enabled = TRUE] ELSE flash
      /\ flasher' = [flasher EXCEPT !.pc = "program-page"]
  BY DEF Load!PageEnable, Load!WriteEnable
<1>2. FlashTypes /\ Waiting /\ ProgrammedSoFar /\ Load!End <= SIZE /\ job.op # "dump"
  BY <1>1 DEF FlashInv, Checking
<1>3. flash' = [flash EXCEPT !.enabled = TRUE] /\ flash.busy = {}
  BY <1>1, <1>2 DEF Waiting
<1>4. /\ flash'.mem = flash.mem /\ flash'.busy = {} /\ flash'.enabled /\ flash'.fails = flash.fails
      /\ flasher'.pc = "program-page" /\ flasher'.at = flasher.at
  BY <1>1, <1>2, <1>3 DEF FlashTypes
<1>5. FlashTypes'
  BY <1>1, <1>2, <1>3 DEF FlashTypes, Programming
<1>6. Waiting'
  BY <1>4 DEF Waiting
<1>7. ProgrammedSoFar'
  BY <1>1, <1>2, <1>4, SameJob DEF ProgrammedSoFar, Programming
<1>8. ErasedSoFar' /\ HasData' /\ ReadWell' /\ Boots'
  BY <1>4 DEF ErasedSoFar, HasData, ReadWell, Boots, Erasing, Checking
<1>9. Unread'
  <2>1. flasher'.seen = flasher.seen /\ flasher'.first = flasher.first
    BY <1>1, <1>2 DEF FlashTypes
  <2>2. QED BY <1>1, <2>1 DEF FlashInv, Unread, Erasing, Programming
<1>10. QED BY <1>1, <1>2, <1>4, <1>5, <1>6, <1>7, <1>8, <1>9, SameJob DEF FlashInv

LEMMA PageProgramKeeps == ASSUME FlashInv, Load!PageProgram PROVE FlashInv'
<1> DEFINE at == flasher.at
           start == at - (at % PAGE)
           cell(i) == start + ((at + i - 1 - start) % PAGE)
           cells == {[at |-> cell(i), byte |-> Load!ThisPage[i], erase |-> FALSE] : i \in DOMAIN Load!ThisPage}
<1>1. /\ flasher.pc = "program-page" /\ job' = job /\ fpga' = fpga
      /\ flash' = IF Load!Takes THEN [flash EXCEPT !.busy = cells, !.enabled = FALSE] ELSE flash
      /\ flasher' = [flasher EXCEPT !.pc = "program-wait", !.at = at + Len(Load!ThisPage)]
  BY DEF Load!PageProgram, Load!Works
<1>2. /\ FlashTypes /\ Waiting /\ ProgrammedSoFar /\ Load!End <= SIZE
      /\ job.op # "dump" /\ job \in Jobs
  BY <1>1 DEF FlashInv, Checking, FlashTypes
<1>3. /\ at \in Nat /\ job.address <= at /\ at <= Load!End /\ job.address \in Nat /\ Load!End \in Nat
      /\ PAGE \in Nat \ {0} /\ SIZE \in Nat
  BY <1>1, <1>2, JobFacts DEF FlashTypes, ProgrammedSoFar, Programming
<1>4. PICK n \in 0 .. Load!End - at :
        n <= PAGE - (at % PAGE) /\ Load!ThisPage = [i \in 1 .. n |-> Byte(at + i - 1)]
  BY <1>2, <1>3, Pages
<1>5. /\ Len(Load!ThisPage) = n /\ DOMAIN Load!ThisPage = 1 .. n
      /\ \A i \in 1 .. n : Load!ThisPage[i] = Byte(at + i - 1)
  BY <1>4
<1>6. Load!Takes
  BY <1>1, <1>2 DEF Waiting, Load!Takes
<1>7. n \in Nat /\ at + n \in Nat /\ at + n <= Load!End
  BY <1>3
<1>8. ASSUME NEW i \in 1 .. n PROVE cell(i) = at + i - 1
  <2> DEFINE d == PAGE
  <2>1. d \in Nat \ {0}
    BY <1>3
  <2>2. i \in Nat \ {0}
    BY <1>7
  <2>3. i <= d - (at % d)
    <3> DEFINE r == d - (at % d)
    <3>1. r \in Int
      BY <1>3
    <3>2. n <= r
      BY <1>4
    <3> HIDE DEF r
    <3>3. i <= r
      BY <1>7, <3>1, <3>2
    <3>4. QED BY <3>3 DEF r
  <2>4. at \in Nat
    BY <1>3
  <2> HIDE DEF d, at
  <2>5. at - (at % d) + ((at + i - 1 - (at - (at % d))) % d) = at + i - 1
    BY <2>1, <2>2, <2>3, <2>4, WithinPage
  <2>6. QED BY <2>5 DEF d
<1>9. cells = {Clearing(a) : a \in at .. at + n - 1}
  <2> HIDE DEF cell
  <2>1. ASSUME NEW c \in cells PROVE c \in {Clearing(a) : a \in at .. at + n - 1}
    <3>1. PICK i \in 1 .. n : c = [at |-> cell(i), byte |-> Load!ThisPage[i], erase |-> FALSE]
      BY <1>5
    <3>2. c = Clearing(at + i - 1)
      BY <1>5, <1>8, <3>1 DEF Clearing
    <3>3. at + i - 1 \in at .. at + n - 1
      BY <1>3, <1>7
    <3>4. QED BY <3>2, <3>3
  <2>2. ASSUME NEW c \in {Clearing(a) : a \in at .. at + n - 1} PROVE c \in cells
    <3>1. PICK a \in at .. at + n - 1 : c = Clearing(a)
      OBVIOUS
    <3>2. a - at + 1 \in 1 .. n /\ at + (a - at + 1) - 1 = a
      BY <1>3, <1>7
    <3>3. c = [at |-> cell(a - at + 1), byte |-> Load!ThisPage[a - at + 1], erase |-> FALSE]
      BY <1>5, <1>8, <3>1, <3>2 DEF Clearing
    <3>4. QED BY <1>5, <3>2, <3>3
  <2>3. QED BY <2>1, <2>2
<1> HIDE DEF at, cells
<1>10. \A a \in at .. at + n - 1 : a \in Meant /\ a \in Load!Address /\ Byte(a) \in Nat
  <2>1. \A a \in at .. at + n - 1 : a \in Meant /\ a \in Load!Address
    BY <1>2, <1>3, <1>7 DEF Meant, Load!Address
  <2>2. QED BY <1>2, <2>1, JobFacts
<1>11. /\ \A c \in cells : c.at \in at .. at + n - 1 /\ c = Clearing(c.at)
       /\ \A a \in at .. at + n - 1 : Clearing(a) \in cells
  <2> SUFFICES ASSUME NEW c \in cells PROVE c.at \in at .. at + n - 1 /\ c = Clearing(c.at)
    BY <1>9
  <2>1. PICK a \in at .. at + n - 1 : c = Clearing(a)
    BY <1>9
  <2>2. c.at = a
    BY <2>1 DEF Clearing
  <2>3. QED BY <2>1, <2>2
<1>12. cells \subseteq [at: Load!Address, byte: Nat, erase: BOOLEAN]
  <2> SUFFICES ASSUME NEW c \in cells PROVE c \in [at: Load!Address, byte: Nat, erase: BOOLEAN]
    OBVIOUS
  <2>1. PICK a \in at .. at + n - 1 : c = Clearing(a)
    BY <1>9
  <2>2. QED BY <1>10, <2>1 DEF Clearing
<1>13. flasher' = [flasher EXCEPT !.pc = "program-wait", !.at = at + n]
  BY <1>1, <1>5
<1>14. /\ flash'.mem = flash.mem /\ flash'.busy = cells /\ flash'.fails = flash.fails
       /\ flasher'.pc = "program-wait" /\ flasher'.at = at + n
  BY <1>1, <1>2, <1>6, <1>13 DEF FlashTypes
<1>15. FlashTypes'
  BY <1>1, <1>2, <1>6, <1>7, <1>12, <1>13 DEF FlashTypes, Programming
<1>16. Waiting'
  <2>1. \A c \in cells : \E b \in Meant : Sector(b) = Sector(c.at)
    BY <1>10, <1>11
  <2>2. QED BY <1>1, <1>14, <2>1, SameJob DEF Waiting, Sector
<1>17. /\ \A a \in at .. Load!End - 1 : flash.mem[a] = Load!Erased
       /\ \A a \in job.address .. at - 1 : flash.mem[a] = Byte(a)
  BY <1>1, <1>2 DEF ProgrammedSoFar, Programming, at
<1>18. \A a \in at + n .. Load!End - 1 : flash.mem[a] = Load!Erased
  BY <1>3, <1>7, <1>17
<1>19. ASSUME NEW a \in job.address .. at + n - 1
       PROVE  flash.mem[a] = Byte(a) \/ (flash.mem[a] = Load!Erased /\ Clearing(a) \in cells)
  <2>1. CASE a < at
    BY <1>3, <1>17, <2>1
  <2>2. CASE a >= at
    <3>1. a \in at .. at + n - 1 /\ a \in at .. Load!End - 1
      BY <1>3, <1>7, <2>2
    <3>2. QED BY <1>11, <1>17, <3>1
  <2>3. QED BY <1>3, <2>1, <2>2
<1>20. \A c \in cells : c.at \in job.address .. at + n - 1 /\ c = Clearing(c.at)
  BY <1>3, <1>7, <1>11
<1>21. job.address <= at + n
  BY <1>3, <1>7
<1>22. ProgrammedSoFar'
  <2>1. /\ job'.address = job.address /\ Load!End' = Load!End
        /\ \A a : Byte(a)' = Byte(a) /\ Clearing(a)' = Clearing(a)
    BY <1>1, SameJob
  <2>2. job'.address <= flasher'.at /\ flasher'.at <= Load!End'
    BY <1>7, <1>14, <1>21, <2>1
  <2>3. \A a \in flasher'.at .. Load!End' - 1 : flash'.mem[a] = Load!Erased
    BY <1>14, <1>18, <2>1
  <2>4. ASSUME NEW c \in flash'.busy
        PROVE  c.at \in job'.address .. flasher'.at - 1 /\ c = Clearing(c.at)'
    <3>1. c.at \in job.address .. at + n - 1 /\ c = Clearing(c.at)
      BY <1>14, <1>20
    <3>2. c.at \in job'.address .. flasher'.at - 1
      BY <1>3, <1>7, <1>14, <2>1, <3>1
    <3>3. QED BY <2>1, <3>1, <3>2
  <2>5. ASSUME NEW a \in job'.address .. flasher'.at - 1
        PROVE  \/ flash'.mem[a] = Byte(a)'
               \/ flasher'.pc = "program-wait" /\ flash'.mem[a] = Load!Erased /\ Clearing(a)' \in flash'.busy
    <3>1. a \in job.address .. at + n - 1
      BY <1>3, <1>7, <1>14, <2>1
    <3>2. flash.mem[a] = Byte(a) \/ (flash.mem[a] = Load!Erased /\ Clearing(a) \in cells)
      BY <1>19, <3>1
    <3>3. QED BY <1>14, <2>1, <3>2
  <2>6. QED BY <2>2, <2>3, <2>4, <2>5 DEF ProgrammedSoFar
<1>23. ErasedSoFar' /\ HasData' /\ ReadWell' /\ Boots'
  BY <1>14 DEF ErasedSoFar, HasData, ReadWell, Boots, Erasing, Checking
<1>24. Unread'
  <2>1. flasher'.seen = flasher.seen /\ flasher'.first = flasher.first
    BY <1>2, <1>13 DEF FlashTypes
  <2>2. QED BY <1>1, <2>1 DEF FlashInv, Unread, Erasing, Programming
<1>25. QED BY <1>1, <1>2, <1>14, <1>15, <1>16, <1>22, <1>23, <1>24, SameJob DEF FlashInv

LEMMA ProgramDoneKeeps == ASSUME FlashInv, Load!ProgramDone PROVE FlashInv'
<1>1. /\ flasher.pc = "program" /\ Load!Rest = <<>> /\ job' = job /\ fpga' = fpga /\ flash' = flash
      /\ flasher' = [flasher EXCEPT !.pc = "read", !.at = job.address]
  BY DEF Load!ProgramDone
<1>2. /\ FlashTypes /\ Waiting /\ ProgrammedSoFar /\ Load!End <= SIZE
      /\ job.op # "dump" /\ job \in Jobs
  BY <1>1 DEF FlashInv, Checking, FlashTypes
<1>3. flasher.at \in Nat /\ job.address <= flasher.at /\ flasher.at <= Load!End /\ job.address \in Nat
  BY <1>1, <1>2, JobFacts DEF FlashTypes, ProgrammedSoFar, Programming
<1>4. flasher.at = Load!End
  BY <1>1, <1>2, <1>3, Pages
<1>5. /\ flasher'.pc = "read" /\ flasher'.seen = flasher.seen /\ flasher'.first = flasher.first
      /\ FlashTypes'
  BY <1>1, <1>2, <1>3 DEF FlashTypes, Checking
<1>6. \A a \in Meant : flash.mem[a] = Byte(a)
  BY <1>1, <1>2, <1>4 DEF ProgrammedSoFar, Programming, Meant
<1>7. flash.busy = {}
  BY <1>1, <1>2 DEF Waiting
<1>8. HasData'
  BY <1>1, <1>6, SameJob DEF HasData
<1>9. Waiting' /\ ErasedSoFar' /\ ProgrammedSoFar' /\ Boots'
  BY <1>1, <1>5, <1>7 DEF Waiting, ErasedSoFar, ProgrammedSoFar, Boots, Erasing, Programming
<1>10. flasher.seen = <<>> /\ flasher.first = <<>>
  BY <1>1 DEF FlashInv, Unread, Programming
<1>11. Load!Want \in Nat
  BY <1>2, JobFacts DEF Load!Want
<1>12. ReadWell' /\ Unread'
  BY <1>1, <1>5, <1>10, <1>11, EmptySeq, SameJob DEF ReadWell, Unread, Erasing, Programming
<1>13. QED BY <1>1, <1>2, <1>5, <1>8, <1>9, <1>12, SameJob DEF FlashInv

\* Reading back what was written, or the whole flash twice.
LEMMA ReadKeeps == ASSUME FlashInv, Load!Read PROVE FlashInv'
<1> DEFINE had  == Len(flasher.seen)
           at   == Load!From + had
           n    == Load!Min({Load!Want - had, READ_CHUNK})
           good == [i \in 1 .. n |-> flash.mem[at + i - 1]]
<1>1. PICK bytes \in {good} \cup (IF flash.fails THEN {[good EXCEPT ![1] = 1 - good[1]]} ELSE {}) :
        flasher' = [flasher EXCEPT !.seen = flasher.seen \o bytes]
  BY DEF Load!Read
<1>2. flasher.pc = "read" /\ had < Load!Want /\ job' = job /\ fpga' = fpga /\ flash' = flash
  BY DEF Load!Read
<1>3. FlashTypes /\ Waiting /\ ReadWell /\ HasData /\ Load!End <= SIZE /\ job \in Jobs
  BY <1>2 DEF FlashInv, FlashTypes
<1>4. /\ had \in Nat /\ Load!Want \in Nat /\ Load!From \in Nat /\ Load!From + Load!Want <= SIZE
      /\ READ_CHUNK \in Nat \ {0} /\ SIZE \in Nat
  BY <1>3, JobFacts, LenProperties DEF FlashTypes, Load!Want, Load!From
<1> HIDE DEF had
<1>5. n \in {Load!Want - had, READ_CHUNK} /\ n <= Load!Want - had
  BY <1>2, <1>4 DEF Load!Min
<1> HIDE DEF n
<1>6. n \in Nat \ {0} /\ had + n \in Nat /\ had + n <= Load!Want /\ at \in Nat
  BY <1>2, <1>4, <1>5
<1>7. ASSUME NEW i \in 1 .. n PROVE at + i - 1 \in Load!Address
  BY <1>4, <1>6 DEF Load!Address
<1>8. ASSUME NEW i \in 1 .. n PROVE flash.mem[at + i - 1] \in Int
  BY <1>3, <1>7 DEF FlashTypes
<1>9. good \in [1 .. n -> Int] /\ 1 - good[1] \in Int
  BY <1>6, <1>8
<1>10. bytes \in [1 .. n -> Int] /\ (~flash.fails => bytes = good)
  <2> HIDE DEF good
  <2>1. [good EXCEPT ![1] = 1 - good[1]] \in [1 .. n -> Int]
    BY <1>9
  <2>2. QED BY <1>1, <1>9, <2>1
<1>11. bytes \in Seq(Int) /\ Len(bytes) = n
  <2>1. bytes \in Seq(Int)
    BY <1>6, <1>10
  <2>2. QED BY <1>6, <1>10, <2>1
<1>12. flasher.seen \in Seq(Int) /\ Len(flasher.seen) = had
  BY <1>3 DEF FlashTypes, had
<1> DEFINE seen == flasher.seen \o bytes
<1>13. /\ seen \in Seq(Int) /\ Len(seen) = had + n
       /\ \A i \in 1 .. had + n : seen[i] = IF i <= had THEN flasher.seen[i] ELSE bytes[i - had]
  BY <1>11, <1>12, Joined
<1>14. /\ flasher'.pc = "read" /\ flasher'.seen = seen /\ flasher'.first = flasher.first
  BY <1>1, <1>2, <1>3 DEF FlashTypes
<1>15. FlashTypes'
  <2> HIDE DEF seen
  <2>1. flasher' = [flasher EXCEPT !.seen = seen]
    BY <1>1 DEF seen
  <2>2. QED BY <1>2, <1>3, <1>13, <2>1 DEF FlashTypes
<1> HIDE DEF seen
<1>16. ~flash.fails => \A i \in 1 .. had + n : seen[i] = flash.mem[Load!From + i - 1]
  <2> SUFFICES ASSUME ~flash.fails, NEW i \in 1 .. had + n PROVE seen[i] = flash.mem[Load!From + i - 1]
    OBVIOUS
  <2>1. CASE i <= had
    <3>1. i \in 1 .. Len(flasher.seen)
      BY <1>4, <1>12, <2>1
    <3>2. flasher.seen[i] = flash.mem[Load!From + i - 1]
      BY <1>2, <1>3, <3>1 DEF ReadWell
    <3>3. QED BY <1>13, <2>1, <3>2
  <2>2. CASE i > had
    <3>1. i - had \in 1 .. n /\ at + (i - had) - 1 = Load!From + i - 1 /\ ~(i <= had)
      BY <1>4, <1>6, <2>2
    <3>2. bytes[i - had] = flash.mem[at + (i - had) - 1]
      BY <1>10, <3>1
    <3>3. QED BY <1>13, <3>1, <3>2
  <2>3. QED BY <1>4, <1>6, <2>1, <2>2
<1>17. ReadWell'
  <2>1. flasher'.pc = "read" => Len(flasher'.seen) <= Load!Want'
    BY <1>2, <1>6, <1>13, <1>14, SameJob
  <2>2. flasher'.pc = "read" /\ ~flash'.fails =>
          \A i \in 1 .. Len(flasher'.seen) : flasher'.seen[i] = flash'.mem[Load!From' + i - 1]
    BY <1>2, <1>13, <1>14, <1>16, SameJob
  <2>3. flasher'.pc = "read" /\ ~flash'.fails /\ flasher'.first # <<>> =>
          /\ Len(flasher'.first) = Load!Want'
          /\ \A i \in 1 .. Load!Want' : flasher'.first[i] = flash'.mem[Load!From' + i - 1]
    BY <1>2, <1>3, <1>14, SameJob DEF ReadWell
  <2>4. QED BY <2>1, <2>2, <2>3 DEF ReadWell
<1>18. HasData'
  BY <1>2, <1>3, <1>14, SameJob DEF HasData, Checking
<1>19. Waiting' /\ ErasedSoFar' /\ ProgrammedSoFar' /\ Unread' /\ Boots'
  <2>1. flash.busy = {}
    BY <1>2, <1>3 DEF Waiting
  <2>2. QED BY <1>2, <1>14, <2>1 DEF Waiting, ErasedSoFar, ProgrammedSoFar, Unread, Boots, Erasing, Programming
<1>20. QED BY <1>2, <1>3, <1>14, <1>15, <1>17, <1>18, <1>19, SameJob DEF FlashInv, Checking

LEMMA CompareKeeps == ASSUME FlashInv, Load!Compare PROVE FlashInv'
<1> DEFINE against == IF job.op = "dump" THEN flasher.first ELSE job.data
<1>1. /\ flasher.pc = "read" /\ Len(flasher.seen) = Load!Want /\ job' = job /\ fpga' = fpga /\ flash' = flash
      /\ flasher' = IF job.op = "dump" /\ flasher.first = <<>>
                    THEN [flasher EXCEPT !.first = flasher.seen, !.seen = <<>>]
                    ELSE [flasher EXCEPT !.pc = IF flasher.seen = against THEN "reboot" ELSE "failed"]
  BY DEF Load!Compare
<1>2. FlashTypes /\ Waiting /\ ReadWell /\ HasData /\ Load!End <= SIZE /\ job \in Jobs
  BY <1>1 DEF FlashInv, FlashTypes
<1>3. flash.busy = {}
  BY <1>1, <1>2 DEF Waiting
<1>4. flasher'.pc \in {"read", "reboot", "failed"}
  BY <1>1, <1>2 DEF FlashTypes
<1>5. Waiting' /\ ErasedSoFar' /\ ProgrammedSoFar' /\ Unread' /\ Boots'
  BY <1>1, <1>3, <1>4 DEF Waiting, ErasedSoFar, ProgrammedSoFar, Unread, Boots, Erasing, Programming
<1>6. HasData'
  BY <1>1, <1>2, SameJob DEF HasData, Checking
<1>7. FlashTypes'
  <2>1. CASE job.op = "dump" /\ flasher.first = <<>>
    <3>1. flasher' = [flasher EXCEPT !.first = flasher.seen, !.seen = <<>>]
      BY <1>1, <2>1
    <3>2. QED BY <1>1, <1>2, <3>1, EmptySeq DEF FlashTypes
  <2>2. CASE ~(job.op = "dump" /\ flasher.first = <<>>)
    <3> DEFINE there == IF flasher.seen = against THEN "reboot" ELSE "failed"
    <3>1. flasher' = [flasher EXCEPT !.pc = there] /\ there \in Checking \cup {"failed"}
      BY <1>1, <2>2 DEF Checking
    <3> HIDE DEF there
    <3>2. QED BY <1>1, <1>2, <3>1 DEF FlashTypes
  <2>3. QED BY <2>1, <2>2
<1>8. Load!Want \in Nat
  BY <1>2, JobFacts DEF Load!Want
<1>9. ReadWell'
  <2>1. CASE job.op = "dump" /\ flasher.first = <<>>
    <3>1. flasher'.first = flasher.seen /\ flasher'.seen = <<>>
      BY <1>1, <1>2, <2>1 DEF FlashTypes
    <3>2. Len(flasher'.seen) = 0
      BY <3>1
    <3>3. Len(flasher'.seen) <= Load!Want /\ 1 .. Len(flasher'.seen) = {}
      BY <1>8, <3>2
    <3>4. ~flash.fails => \A i \in 1 .. Load!Want : flasher.seen[i] = flash.mem[Load!From + i - 1]
      BY <1>1, <1>2 DEF ReadWell
    <3>5. QED BY <1>1, <3>1, <3>3, <3>4, SameJob DEF ReadWell
  <2>2. CASE ~(job.op = "dump" /\ flasher.first = <<>>)
    <3>1. flasher'.pc \in {"reboot", "failed"}
      BY <1>1, <1>2, <2>2 DEF FlashTypes
    <3>2. QED BY <3>1 DEF ReadWell
  <2>3. QED BY <2>1, <2>2
<1>10. ASSUME flasher'.pc = "failed" PROVE flash.fails
  <2>1. ~(job.op = "dump" /\ flasher.first = <<>>) /\ flasher.seen # against
    BY <1>1, <1>2, <1>10 DEF FlashTypes
  <2> SUFFICES ASSUME ~flash.fails PROVE FALSE
    OBVIOUS
  <2>2. \A i \in 1 .. Load!Want : flasher.seen[i] = flash.mem[Load!From + i - 1]
    BY <1>1, <1>2 DEF ReadWell
  <2>3. against \in Seq(Int) /\ Len(against) = Load!Want
        /\ \A i \in 1 .. Load!Want : against[i] = flash.mem[Load!From + i - 1]
    <3>1. CASE job.op = "dump"
      BY <1>1, <1>2, <2>1, <3>1 DEF ReadWell, FlashTypes
    <3>2. CASE job.op # "dump"
      <4>1. job.op = "program" /\ Load!Want = Len(job.data) /\ Load!From = job.address /\ against = job.data
        BY <1>2, <3>2, JobFacts DEF Load!Want, Load!From
      <4>2. job.data \in Seq(Nat) /\ job.address \in Nat /\ Load!End = job.address + Len(job.data)
        BY <1>2, JobFacts
      <4>3. job.data \in Seq(Int)
        BY <4>2
      <4>4. ASSUME NEW i \in 1 .. Load!Want PROVE job.data[i] = flash.mem[Load!From + i - 1]
        <5>1. Load!From + i - 1 \in Meant /\ Load!From + i - 1 - job.address + 1 = i
          BY <4>1, <4>2 DEF Meant
        <5>2. flash.mem[Load!From + i - 1] = Byte(Load!From + i - 1)
          BY <1>1, <1>2, <4>1, <5>1 DEF HasData, Checking
        <5>3. Byte(Load!From + i - 1) = job.data[i]
          <6> DEFINE k == Load!From + i - 1
          <6>1. k - job.address + 1 = i
            BY <4>1, <4>2
          <6> HIDE DEF k
          <6>2. Byte(k) = job.data[i]
            BY <6>1 DEF Byte
          <6>3. QED BY <6>2 DEF k
        <5>4. QED BY <5>2, <5>3
      <4>5. QED BY <4>1, <4>3, <4>4
    <3>3. QED BY <3>1, <3>2
  <2> HIDE DEF against
  <2>4. flasher.seen \in Seq(Int)
    BY <1>2 DEF FlashTypes
  <2>5. flasher.seen = against
    <3> DEFINE seen == flasher.seen
    <3>1. seen \in Seq(Int)
      BY <2>4
    <3>2. against \in Seq(Int)
      BY <2>3
    <3>3. Len(seen) = Len(against)
      BY <1>1, <2>3
    <3>4. \A i \in 1 .. Len(seen) : seen[i] = against[i]
      BY <1>1, <2>2, <2>3
    <3> HIDE DEF seen
    <3>5. seen = against
      BY <3>1, <3>2, <3>3, <3>4, SeqEqual
    <3>6. QED BY <3>5 DEF seen
  <2>6. QED BY <2>1, <2>5
<1>11. QED BY <1>1, <1>2, <1>4, <1>5, <1>6, <1>7, <1>9, <1>10, SameJob DEF FlashInv, Checking

\* Starting the FPGA from the flash.
LEMMA RebootKeeps == ASSUME FlashInv, Load!Reboot PROVE FlashInv'
<1>1. /\ flasher.pc = "reboot" /\ job' = job /\ flash' = flash
      /\ flasher' = [flasher EXCEPT !.pc = "conf"]
      /\ fpga' \in {[runs |-> "nothing", code |-> 0], [runs |-> "flash", code |-> flash.mem[job.address]]}
  BY DEF Load!Reboot
<1>2. FlashTypes /\ Waiting /\ HasData /\ Load!End <= SIZE /\ job \in Jobs
  BY <1>1 DEF FlashInv, FlashTypes
<1>3. flasher'.pc = "conf" /\ FlashTypes'
  BY <1>1, <1>2 DEF FlashTypes, Checking
<1>4. flash.busy = {}
  BY <1>1, <1>2 DEF Waiting
<1>5. Waiting' /\ ErasedSoFar' /\ ProgrammedSoFar' /\ Unread' /\ ReadWell'
  BY <1>1, <1>3, <1>4 DEF Waiting, ErasedSoFar, ProgrammedSoFar, Unread, ReadWell, Erasing, Programming
<1>6. HasData'
  BY <1>1, <1>2, <1>3, SameJob DEF HasData, Checking
<1>7. job.op = "program" => flash.mem[job.address] = job.data[1]
  <2> SUFFICES ASSUME job.op = "program" PROVE flash.mem[job.address] = job.data[1]
    OBVIOUS
  <2>1. job.address \in Meant /\ job.address - job.address + 1 = 1
    BY <1>2, JobFacts DEF Meant
  <2>2. flash.mem[job.address] = Byte(job.address)
    BY <1>1, <1>2, <2>1 DEF HasData, Checking
  <2>3. QED BY <2>1, <2>2 DEF Byte
<1>8. Boots'
  BY <1>1, <1>3, <1>7 DEF Boots
<1>9. QED BY <1>1, <1>2, <1>3, <1>5, <1>6, <1>8, SameJob DEF FlashInv, Checking

LEMMA BootedKeeps == ASSUME FlashInv, Load!Booted PROVE FlashInv'
<1> DEFINE there == IF fpga.runs = "nothing" \/ (job.op = "program" /\ fpga.code # job.data[1])
                    THEN "failed" ELSE "done"
<1>1. /\ flasher.pc = "conf" /\ job' = job /\ flash' = flash /\ fpga' = fpga
      /\ flasher' = [flasher EXCEPT !.pc = there]
  BY DEF Load!Booted
<1>2. FlashTypes /\ Waiting /\ HasData /\ Boots /\ Load!End <= SIZE /\ job \in Jobs
  BY <1>1 DEF FlashInv, FlashTypes
<1>3. there \in {"failed", "done"}
  OBVIOUS
<1>4. there = "failed" => fpga.runs = "nothing"
  BY <1>1, <1>2 DEF Boots
<1>5. there = "done" /\ job.op = "program" => fpga = [runs |-> "flash", code |-> job.data[1]]
  BY <1>1, <1>2 DEF Boots
<1> HIDE DEF there
<1>6. flasher'.pc = there /\ FlashTypes'
  BY <1>1, <1>2, <1>3 DEF FlashTypes, Checking
<1>7. flash.busy = {}
  BY <1>1, <1>2 DEF Waiting
<1>8. Waiting' /\ ErasedSoFar' /\ ProgrammedSoFar' /\ Unread' /\ ReadWell'
  BY <1>1, <1>3, <1>6, <1>7 DEF Waiting, ErasedSoFar, ProgrammedSoFar, Unread, ReadWell, Erasing, Programming
<1>9. HasData'
  BY <1>1, <1>2, SameJob DEF HasData, Checking
<1>10. Boots'
  BY <1>1, <1>3, <1>5, <1>6 DEF Boots
<1>11. QED BY <1>1, <1>2, <1>3, <1>4, <1>6, <1>8, <1>9, <1>10, SameJob DEF FlashInv, Checking

\* What a byte is once the flash is done with it.
LEMMA Settles ==
  ASSUME FlashTypes, Load!Settle
  PROVE  /\ job' = job /\ flasher' = flasher /\ fpga' = fpga
         /\ flash'.busy = {} /\ flash'.enabled = flash.enabled /\ flash'.fails = flash.fails
         /\ \A a \in Load!Address :
              \/ flash'.mem[a] = flash.mem[a] /\ \A c \in flash.busy : c.at # a
              \/ \E c \in flash.busy :
                   c.at = a /\ flash'.mem[a] = IF c.erase THEN Load!Erased ELSE Load!Cleared(flash.mem[a], c.byte)
         /\ FlashTypes'
<1> DEFINE cell(a) == CHOOSE c \in flash.busy : c.at = a
           after(a) == IF cell(a).erase THEN Load!Erased ELSE Load!Cleared(flash.mem[a], cell(a).byte)
           mem == [a \in Load!Address |-> IF \E c \in flash.busy : c.at = a THEN after(a) ELSE flash.mem[a]]
<1>1. /\ flash' = [flash EXCEPT !.busy = {}, !.mem = mem]
      /\ job' = job /\ flasher' = flasher /\ fpga' = fpga
  BY DEF Load!Settle
<1>2. ASSUME NEW a \in Load!Address, \E c \in flash.busy : c.at = a
      PROVE  cell(a) \in flash.busy /\ cell(a).at = a
  BY <1>2
<1> HIDE DEF cell
<1>3. mem \in [Load!Address -> Nat]
  <2> SUFFICES ASSUME NEW a \in Load!Address
               PROVE  (IF \E c \in flash.busy : c.at = a THEN after(a) ELSE flash.mem[a]) \in Nat
    OBVIOUS
  <2>1. flash.mem[a] \in Nat
    BY DEF FlashTypes
  <2>2. ASSUME \E c \in flash.busy : c.at = a PROVE after(a) \in Nat
    <3>1. cell(a).byte \in Nat
      BY <1>2, <2>2 DEF FlashTypes
    <3>2. QED BY <2>1, <3>1 DEF Load!Cleared, Load!Erased
  <2>3. QED BY <2>1, <2>2
<1>4. ASSUME NEW a \in Load!Address
      PROVE  \/ mem[a] = flash.mem[a] /\ \A c \in flash.busy : c.at # a
             \/ \E c \in flash.busy :
                  c.at = a /\ mem[a] = IF c.erase THEN Load!Erased ELSE Load!Cleared(flash.mem[a], c.byte)
  <2>1. CASE \E c \in flash.busy : c.at = a
    <3>1. mem[a] = after(a)
      BY <2>1
    <3>2. QED BY <1>2, <2>1, <3>1
  <2>2. CASE ~ \E c \in flash.busy : c.at = a
    BY <2>2
  <2>3. QED BY <2>1, <2>2
<1> HIDE DEF mem
<1>5. /\ flash'.busy = {} /\ flash'.mem = mem /\ flash'.enabled = flash.enabled /\ flash'.fails = flash.fails
      /\ flash' \in [mem: [Load!Address -> Nat], enabled: BOOLEAN,
                    busy: SUBSET [at: Load!Address, byte: Nat, erase: BOOLEAN], fails: BOOLEAN]
  BY <1>1, <1>3 DEF FlashTypes
<1>6. FlashTypes'
  BY <1>1, <1>5 DEF FlashTypes
<1>7. QED BY <1>1, <1>4, <1>5, <1>6

LEMMA SettleKeeps == ASSUME FlashInv, Load!Settle PROVE FlashInv'
<1>1. FlashTypes /\ Waiting /\ ErasedSoFar /\ ProgrammedSoFar /\ job \in Jobs
  BY DEF FlashInv, FlashTypes
<1>2. /\ job' = job /\ flasher' = flasher /\ fpga' = fpga
      /\ flash'.busy = {} /\ flash'.enabled = flash.enabled /\ flash'.fails = flash.fails
      /\ \A a \in Load!Address :
           \/ flash'.mem[a] = flash.mem[a] /\ \A c \in flash.busy : c.at # a
           \/ \E c \in flash.busy :
                c.at = a /\ flash'.mem[a] = IF c.erase THEN Load!Erased ELSE Load!Cleared(flash.mem[a], c.byte)
      /\ FlashTypes'
  BY <1>1, Settles
<1>3. flasher.pc \in {"erase-wait", "program-wait", "failed"}
  BY <1>1 DEF Load!Settle, Waiting
<1>4. Waiting'
  BY <1>2, <1>3 DEF Waiting
<1>5. ErasedSoFar'
  <2> SUFFICES ASSUME flasher.pc \in Erasing PROVE ErasedSoFar'
    BY <1>2 DEF ErasedSoFar
  <2>1. flasher.pc = "erase-wait"
    BY <1>3 DEF Erasing
  <2>2. /\ Sector(job.address) <= flasher.sector /\ flasher.sector < Load!LastSector
        /\ \A a \in Load!Address :
             Sector(job.address) <= Sector(a) /\ Sector(a) < flasher.sector => flash.mem[a] = Load!Erased
        /\ \A c \in flash.busy : c = Erasure(c.at)
        /\ \A a \in Load!Address :
             Sector(a) = flasher.sector => flash.mem[a] = Load!Erased \/ Erasure(a) \in flash.busy
    BY <1>1, <2>1 DEF ErasedSoFar, Erasing
  <2>3. ASSUME NEW a \in Load!Address
        PROVE  /\ flash.mem[a] = Load!Erased => flash'.mem[a] = Load!Erased
               /\ Erasure(a) \in flash.busy => flash'.mem[a] = Load!Erased
    <3>1. \A c \in flash.busy : c.erase
      BY <2>2 DEF Erasure
    <3>2. Erasure(a).at = a
      BY DEF Erasure
    <3>3. \/ flash'.mem[a] = flash.mem[a] /\ Erasure(a) \notin flash.busy
          \/ flash'.mem[a] = Load!Erased
      BY <1>2, <3>1, <3>2
    <3>4. QED BY <3>3
  <2>4. QED BY <1>2, <2>1, <2>2, <2>3, SameJob DEF ErasedSoFar, Sector
<1>6. ProgrammedSoFar'
  <2> SUFFICES ASSUME flasher.pc \in Programming PROVE ProgrammedSoFar'
    BY <1>2 DEF ProgrammedSoFar
  <2>1. flasher.pc = "program-wait"
    BY <1>3 DEF Programming
  <2>2. /\ job.address <= flasher.at /\ flasher.at <= Load!End
        /\ \A a \in flasher.at .. Load!End - 1 : flash.mem[a] = Load!Erased
        /\ \A c \in flash.busy : c.at \in job.address .. flasher.at - 1 /\ c = Clearing(c.at)
        /\ \A a \in job.address .. flasher.at - 1 :
             \/ flash.mem[a] = Byte(a)
             \/ flash.mem[a] = Load!Erased /\ Clearing(a) \in flash.busy
    BY <1>1, <2>1 DEF ProgrammedSoFar, Programming
  <2>3. /\ job.address \in Nat /\ flasher.at \in Nat /\ Load!End \in Nat /\ SIZE \in Nat
        /\ Load!End <= SIZE
    BY <1>1, <1>3, <2>1, JobFacts DEF FlashInv, FlashTypes
  <2>4. ASSUME NEW a \in flasher.at .. Load!End - 1 PROVE flash'.mem[a] = Load!Erased
    <3>1. a \in Load!Address /\ a \notin job.address .. flasher.at - 1
      BY <2>2, <2>3 DEF Load!Address
    <3>2. \A c \in flash.busy : c.at # a
      BY <2>2, <3>1
    <3>3. QED BY <1>2, <2>2, <3>1, <3>2
  <2>5. ASSUME NEW a \in job.address .. flasher.at - 1 PROVE flash'.mem[a] = Byte(a)
    <3>1. a \in Load!Address /\ a \in Meant
      BY <2>2, <2>3 DEF Load!Address, Meant
    <3>2. \A c \in flash.busy : c.at = a => ~c.erase /\ c.byte = Byte(a)
      BY <2>2 DEF Clearing
    <3>3. \/ flash'.mem[a] = flash.mem[a] /\ \A c \in flash.busy : c.at # a
          \/ flash'.mem[a] = Load!Cleared(flash.mem[a], Byte(a))
      BY <1>2, <3>1, <3>2
    <3>4. Clearing(a).at = a
      BY DEF Clearing
    <3>5. CASE flash.mem[a] = Byte(a)
      BY <3>3, <3>5 DEF Load!Cleared
    <3>6. CASE flash.mem[a] = Load!Erased /\ Clearing(a) \in flash.busy
      BY <3>3, <3>4, <3>6 DEF Load!Cleared
    <3>7. QED BY <2>2, <3>5, <3>6
  <2>6. QED BY <1>2, <2>1, <2>2, <2>4, <2>5, SameJob DEF ProgrammedSoFar
<1>7. HasData' /\ Unread' /\ ReadWell' /\ Boots'
  <2>1. flasher.pc \notin Checking
    BY <1>3 DEF Checking
  <2>2. Unread'
    BY <1>2 DEF FlashInv, Unread
  <2>3. QED BY <1>2, <2>1, <2>2 DEF HasData, ReadWell, Boots, Checking
<1>8. QED BY <1>1, <1>2, <1>4, <1>5, <1>6, <1>7, SameJob DEF FlashInv

LEMMA FailKeeps == ASSUME FlashInv, Load!Fail PROVE FlashInv'
<1>1. flash' = [flash EXCEPT !.fails = TRUE] /\ job' = job /\ flasher' = flasher /\ fpga' = fpga
  BY DEF Load!Fail
<1>2. FlashTypes
  BY DEF FlashInv
<1>3. /\ flash'.mem = flash.mem /\ flash'.busy = flash.busy /\ flash'.enabled = flash.enabled /\ flash'.fails
      /\ FlashTypes'
  BY <1>1, <1>2 DEF FlashTypes
<1>4. Waiting' /\ Unread' /\ ReadWell' /\ Boots'
  BY <1>1, <1>3, SameJob DEF FlashInv, Waiting, Unread, ReadWell, Boots, Sector
<1>5. ErasedSoFar'
  BY <1>1, <1>3, SameJob DEF FlashInv, ErasedSoFar, Sector, Erasure
<1>6. ProgrammedSoFar' /\ HasData'
  BY <1>1, <1>3, SameJob DEF FlashInv, ProgrammedSoFar, HasData
<1>7. QED BY <1>1, <1>3, <1>4, <1>5, <1>6, SameJob DEF FlashInv

LEMMA FlashKept == FlashInv /\ [Load!FlashNext]_(Load!epcs) => FlashInv'
<1>1. FlashInv /\ UNCHANGED Load!epcs => FlashInv'
  <2> SUFFICES ASSUME FlashInv, UNCHANGED Load!epcs PROVE FlashInv'
    OBVIOUS
  <2>1. job' = job /\ flasher' = flasher /\ flash' = flash /\ fpga' = fpga
    BY DEF Load!epcs
  <2>2. FlashTypes' /\ Waiting' /\ Unread' /\ ReadWell' /\ Boots'
    BY <2>1, SameJob DEF FlashInv, FlashTypes, Waiting, Unread, ReadWell, Boots, Sector
  <2>3. ErasedSoFar'
    BY <2>1, SameJob DEF FlashInv, ErasedSoFar, Sector, Erasure
  <2>4. ProgrammedSoFar' /\ HasData'
    BY <2>1, SameJob DEF FlashInv, ProgrammedSoFar, HasData
  <2>5. QED BY <2>1, <2>2, <2>3, <2>4, SameJob DEF FlashInv
<1>2. QED
  BY <1>1, EraseEnableKeeps, EraseSectorKeeps, WaitedKeeps, GiveUpKeeps, EraseDoneKeeps,
     SkipPageKeeps, PageEnableKeeps, PageProgramKeeps, ProgramDoneKeeps, ReadKeeps, CompareKeeps,
     RebootKeeps, BootedKeeps, SettleKeeps, FailKeeps DEF Load!FlashNext, Load!FlashHost

\* Only what the flash does when it settles changes a byte, and it was asked to
\* change none outside the sectors of the range.
LEMMA Touches ==
  ASSUME FlashInv, [Load!FlashNext]_(Load!epcs)
  PROVE  \A a \in Load!Address :
           flash'.mem[a] # flash.mem[a] =>
             \E b \in job.address .. Load!End - 1 : b \div SECTOR = a \div SECTOR
<1>1. FlashTypes /\ Waiting
  BY DEF FlashInv
<1>2. CASE Load!Settle
  <2> SUFFICES ASSUME NEW a \in Load!Address, flash'.mem[a] # flash.mem[a]
               PROVE  \E b \in job.address .. Load!End - 1 : b \div SECTOR = a \div SECTOR
    OBVIOUS
  <2>1. PICK c \in flash.busy : c.at = a
    BY <1>1, <1>2, Settles
  <2>2. QED BY <1>1, <2>1 DEF Waiting, Meant, Sector
<1>3. CASE ~Load!Settle
  <2>1. \/ flash' = flash
        \/ \E on \in BOOLEAN : flash' = [flash EXCEPT !.enabled = on]
        \/ \E cells : flash' = [flash EXCEPT !.busy = cells, !.enabled = FALSE]
        \/ flash' = [flash EXCEPT !.fails = TRUE]
    BY <1>3 DEF Load!FlashNext, Load!FlashHost, Load!epcs, Load!EraseEnable, Load!EraseSector, Load!Waited,
                Load!GiveUp, Load!EraseDone, Load!SkipPage, Load!PageEnable, Load!PageProgram, Load!ProgramDone,
                Load!Read, Load!Compare, Load!Reboot, Load!Booted, Load!Fail, Load!WriteEnable, Load!Works
  <2>2. flash'.mem = flash.mem
    BY <1>1, <2>1 DEF FlashTypes
  <2>3. QED BY <2>2
<1>4. QED BY <1>2, <1>3

\* A write of the flash (persist/epcs.rs), of any image, to any address, on a
\* flash of any size, sectors and pages: one that says it is done left the image
\* in the flash and the FPGA running it, one that failed had a reason outside,
\* no command was given while the flash would not take it, and at no time did a
\* byte change in a sector the image has nothing in, whatever failed.
THEOREM FlashIsWritten == BenchSpec => FlashWritten
<1> DEFINE Inv == (bench = "epcs" => FlashInv) /\ (bench # "epcs" => NoFlash)
           Touched == \A a \in Load!Address :
                        flash'.mem[a] # flash.mem[a] =>
                          \E b \in job.address .. Load!End - 1 : b \div SECTOR = a \div SECTOR
<1>1. BenchInit => Inv
  BY OneBench, FlashStarts
<1>2. Inv /\ [BenchNext]_benches => Inv' /\ [Touched]_(Load!epcs)
  <2> SUFFICES ASSUME Inv, [BenchNext]_benches PROVE Inv' /\ [Touched]_(Load!epcs)
    OBVIOUS
  <2>1. /\ bench' = bench
        /\ bench = "epcs" => [Load!FlashNext]_(Load!epcs)
        /\ bench # "epcs" => UNCHANGED Load!epcs
    BY OneBench
  <2>2. bench = "epcs" => FlashInv' /\ Touched
    BY <2>1, FlashKept, Touches
  <2>3. bench # "epcs" => NoFlash'
    BY <2>1 DEF NoFlash, Load!epcs, Load!Phase
  <2> HIDE DEF Touched
  <2>4. QED BY <2>1, <2>2, <2>3
<1>3. Inv => Load!Written /\ Load!NoneIgnored
  <2>1. ASSUME FlashInv PROVE Load!Written /\ Load!NoneIgnored
    <3>1. job \in Jobs
      BY <2>1 DEF FlashInv, FlashTypes
    <3>2. ASSUME flasher.pc = "done", job.op = "program"
          PROVE  /\ \A i \in DOMAIN job.data : flash.mem[job.address + i - 1] = job.data[i]
                 /\ fpga = [runs |-> "flash", code |-> job.data[1]]
      <4>1. fpga = [runs |-> "flash", code |-> job.data[1]]
        BY <2>1, <3>2 DEF FlashInv, Boots
      <4>2. ASSUME NEW i \in DOMAIN job.data PROVE flash.mem[job.address + i - 1] = job.data[i]
        <5>1. i \in 1 .. Len(job.data)
          BY <3>1, JobFacts
        <5> DEFINE k == job.address + i - 1
        <5>2. job.address \in Nat /\ Len(job.data) \in Nat /\ Load!End = job.address + Len(job.data)
          BY <3>1, JobFacts
        <5>3. k \in Meant /\ k - job.address + 1 = i
          BY <5>1, <5>2 DEF Meant
        <5> HIDE DEF k
        <5>4. flash.mem[k] = Byte(k)
          BY <2>1, <3>2, <5>3 DEF FlashInv, HasData, Checking
        <5>5. Byte(k) = job.data[i]
          BY <5>3 DEF Byte
        <5>6. QED BY <5>4, <5>5 DEF k
      <4>3. QED BY <4>1, <4>2
    <3>3. Load!Written
      BY <2>1, <3>2 DEF FlashInv, Load!Written
    <3>4. Load!NoneIgnored
      BY <2>1 DEF FlashInv, Waiting, Load!NoneIgnored, Load!Takes
    <3>5. QED BY <3>3, <3>4
  <2>2. NoFlash => Load!Written /\ Load!NoneIgnored
    BY DEF NoFlash, Load!Phase, Load!Written, Load!NoneIgnored
  <2>3. QED BY <2>1, <2>2
<1> HIDE DEF Inv
<1>4. QED BY <1>1, <1>2, <1>3, PTL DEF BenchSpec, FlashWritten, Load!OnlyTouched

-----------------------------------------------------------------------------
(* The SVF player.                                                         *)

\* What a step of the bench is to the player.
LEMMA OnePlayer ==
  /\ BenchInit => Init /\ pc = 0
  /\ pc \in Nat /\ [BenchNext]_benches =>
       /\ pc' \in Nat
       /\ \/ \E c : Parsed(c) /\ Begin(c)
          \/ Call \/ Compare \/ Clock
          \/ UNCHANGED vars
<1>1. BenchInit => Init /\ pc = 0
  BY DEF BenchInit, LoadInit, Parked
<1>2. ASSUME pc \in Nat, BenchNext
      PROVE  /\ pc' \in Nat
             /\ \/ \E c : Parsed(c) /\ Begin(c)
                \/ Call \/ Compare \/ Clock
                \/ UNCHANGED vars
  <2>1. CASE Next /\ UNCHANGED <<pc, conf>>
    BY <1>2, <2>1, CommandsAssumption DEF Next
  <2>2. CASE LoadNext
    <3>1. CASE Play
      <4>1. pc + 1 \in 1 .. 15
        BY <1>2, <3>1, SvfParsed DEF Play
      <4>2. Parsed(Svf[pc + 1]) /\ Begin(Svf[pc + 1]) /\ pc' \in Nat
        BY <1>2, <3>1, <4>1, SvfParsed DEF Play
      <4>3. QED BY <4>2
    <3>2. CASE (Call \/ Compare) /\ UNCHANGED <<pc, conf>>
      BY <1>2, <3>2
    <3>3. CASE Tick
      BY <1>2, <3>3 DEF Tick
    <3>4. QED BY <2>2, <3>1, <3>2, <3>3 DEF LoadNext
  <2>3. CASE UNCHANGED players
    BY <1>2, <2>3 DEF players, loadVars
  <2>4. QED
    BY <1>2, <2>1, <2>2, <2>3
       DEF BenchNext, CableStep, AdapterStep, LoadStep, DeviceStep, OnPlayer, OnCable, OnFlash, OnChain
<1>3. ASSUME pc \in Nat, UNCHANGED benches PROVE pc' \in Nat /\ UNCHANGED vars
  BY <1>3 DEF benches, players, loadVars
<1>4. QED BY <1>1, <1>2, <1>3

\* A move to a state other than Reset does not reset the TAP.
Resets == tap.state # "Reset" /\ tap'.state = "Reset" => player.state = "Reset" \/ said.first

LEMMA PlayerKept ==
  ASSUME PlayerInv, pc \in Nat, [BenchNext]_benches
  PROVE  PlayerInv' /\ pc' \in Nat /\ [Resets]_vars
<1>1. /\ pc' \in Nat
      /\ \/ \E c : Parsed(c) /\ Begin(c)
         \/ Call \/ Compare \/ Clock
         \/ UNCHANGED vars
  BY OnePlayer
<1>2. ASSUME NEW c, Parsed(c), Begin(c) PROVE PlayerInv' /\ Resets
  <2>1. PlayerInv'
    BY <1>2, BeginKeeps
  <2>2. tap' = tap
    BY <1>2 DEF Begin
  <2>3. QED BY <2>1, <2>2 DEF Resets
<1>3. ASSUME Call PROVE PlayerInv' /\ Resets
  <2>1. tap' = tap
    BY <1>3 DEF Call
  <2>2. QED BY <1>3, <2>1, CallKeeps DEF Resets
<1>4. ASSUME Compare PROVE PlayerInv' /\ Resets
  <2>1. tap' = tap
    BY <1>4 DEF Compare
  <2>2. QED BY <1>4, <2>1, ComparingKeeps DEF Resets
<1>5. ASSUME Clock PROVE PlayerInv' /\ Resets
  BY <1>5, ClockKeeps DEF Resets
<1>6. ASSUME UNCHANGED vars PROVE PlayerInv'
  <2>1. UNCHANGED <<player, calls, wire, tap, verdict, said>>
    BY <1>6 DEF vars
  <2>2. Standing'
    BY <2>1, StandsStill DEF PlayerInv, Standing
  <2>3. TypeOK'
    BY <2>1 DEF PlayerInv, TypeOK
  <2>4. Ahead' /\ ToShift'
    BY <2>1 DEF PlayerInv, Ahead, ToShift
  <2>5. QED BY <2>1, <2>2, <2>3, <2>4 DEF PlayerInv, Standing
<1>7. QED BY <1>1, <1>2, <1>3, <1>4, <1>5, <1>6

\* The SVF player (jtag/src/svf.rs), on any commands, with registers of any
\* length and from any state of the TAP: where it takes the TAP to be is where
\* the TAP is, the instruction in force and the data updated are what it was
\* told to shift, and no move goes by Reset that was not told to.
THEOREM PlayerIsExact == BenchSpec => PlayerExact
<1> DEFINE Inv == PlayerInv /\ pc \in Nat
<1>1. BenchInit => Inv
  BY OnePlayer, PlayerStarts
<1>2. Inv /\ [BenchNext]_benches => Inv' /\ [Resets]_vars
  BY PlayerKept
<1>3. Inv => TypeOK /\ TrackedState /\ Delivered
  BY PlayerTells
<1> HIDE DEF Inv
<1>4. QED BY <1>1, <1>2, <1>3, PTL DEF BenchSpec, PlayerExact, MovesNeverReset, Resets

\* Whatever else is on the bench, no command of the load has begun.
Loading == IF bench = "cyclone" THEN CycloneInv ELSE pc = 0

LEMMA LoadingKept ==
  /\ BenchInit => Loading
  /\ PlayerInv /\ Loading /\ [BenchNext]_benches => Loading'
<1>1. BenchInit => Loading
  BY CycloneStarts DEF BenchInit, Parked, Loading
<1>2. ASSUME PlayerInv, Loading, UNCHANGED players, UNCHANGED bench PROVE Loading'
  <2>1. UNCHANGED <<player, calls, wire, tap, check, tdo, verdict, said, pc, conf, bench>>
    BY <1>2 DEF players, loadVars, vars
  <2>2. CycloneInv => CycloneInv'
    <3> SUFFICES ASSUME CycloneInv PROVE CycloneInv'
      OBVIOUS
    <3>1. (\A i \in 1 .. Len(calls) : Due(pc, Len(calls) - i + 1, calls[i]))'
      BY <2>1 DEF CycloneInv, Due, Is, Shifting, Op
    <3>2. (player.state \in Stands(pc, Len(calls)))'
      BY <2>1 DEF CycloneInv, Stands
    <3>3. (pc >= 4 => /\ Instructed(pc, Len(calls))
                      /\ tap.ir \in {OpBefore(pc), Op(pc)}
                      /\ said.first => pc = 4 /\ Len(calls) = 3)'
      BY <2>1 DEF CycloneInv, Instructed, Op, OpBefore
    <3>4. (pc = 9 => Asking)'
      BY <2>1 DEF CycloneInv, Asking, ConfBit
    <3>5. QED BY <2>1, <3>1, <3>2, <3>3, <3>4 DEF CycloneInv
  <2>3. QED BY <1>2, <2>1, <2>2 DEF Loading
<1>3. ASSUME PlayerInv, Loading, BenchNext PROVE Loading'
  <2>1. CASE bench = "svf" /\ OnPlayer(Next /\ UNCHANGED <<pc, conf>>)
    BY <1>3, <2>1 DEF Loading, OnPlayer
  <2>2. CASE bench = "cyclone" /\ OnPlayer(LoadNext)
    BY <1>3, <2>2, CycloneKept DEF Loading, OnPlayer
  <2>3. CASE UNCHANGED players /\ UNCHANGED bench
    BY <1>2, <1>3, <2>3
  <2>4. QED
    BY <1>3, <2>1, <2>2, <2>3
       DEF BenchNext, CableStep, AdapterStep, LoadStep, DeviceStep, OnCable, OnFlash, OnChain
<1>4. ASSUME PlayerInv, Loading, UNCHANGED benches PROVE Loading'
  <2>1. UNCHANGED players /\ UNCHANGED bench
    BY <1>4 DEF benches
  <2>2. QED BY <1>2, <1>4, <2>1
<1>5. QED BY <1>1, <1>3, <1>4

\* The SVF chipsmith-cyclone2 writes for an EP2C35 (bitstream/jtag.rs, svf),
\* played whole: the device ends up configured or the SVF fails, is started
\* only once it is configured, and takes the stream under PROGRAM; whatever
\* it held before and however long the stream and the registers are.
THEOREM LoadsMeanConfigured == BenchSpec => []LoadsAreReal
<1> DEFINE Inv == PlayerInv /\ pc \in Nat /\ Loading
<1>1. BenchInit => Inv
  BY OnePlayer, PlayerStarts, LoadingKept
<1>2. Inv /\ [BenchNext]_benches => Inv'
  BY PlayerKept, LoadingKept
<1>3. Inv => LoadsAreReal
  <2>1. pc = 0 => LoadsAreReal
    BY SvfParsed DEF LoadsAreReal, PlayedMeansConfigured, StartupOnlyConfigured, StreamUnderProgram
  <2>2. QED BY <2>1, CycloneTells DEF Loading, LoadsAreReal
<1> HIDE DEF Inv
<1>4. QED BY <1>1, <1>2, <1>3, PTL DEF BenchSpec
=============================================================================
