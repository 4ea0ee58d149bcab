----------------------------- MODULE UsbCables ------------------------------
(***************************************************************************)
(* The two USB cables, and what they have in common.                       *)
(***************************************************************************)
EXTENDS Integers, Sequences, SequencesExt

-----------------------------------------------------------------------------
(***************************************************************************)
(* What the two cables have in common (crates/chipsmith-jtag/src,          *)
(* usb_blaster.rs and ftdi.rs): a call pushes bytes to a buffer piece by   *)
(* piece, writes the buffer when it is large, and reads back the replies   *)
(* to what it sent before they fill the adapter.  The adapter is another   *)
(* process at the far end of two FIFOs.                                    *)
(***************************************************************************)

CONSTANTS
  ByteBits,    \* bits to a byte
  WriteChunk,  \* WRITE_CHUNK
  ReadChunk,   \* READ_CHUNK
  DownRoom,    \* bytes the adapter takes before it has acted on them
  UpRoom,      \* replies it keeps before they are read
  Packet,      \* replies one USB packet brings
  Hurry,       \* what a round trip adds to the buffer
  Pattern,     \* what TDO reads, clock after clock, over and over
  Calls, Nothing

VARIABLES
  host,   \* the cable object and the call it is in
  down,   \* bytes on their way to the adapter
  up,     \* replies on their way back
  dev,    \* the adapter
  heard   \* history: TDO at the clocks of this call that were read

pipe == <<host, down, up, dev, heard>>

\* A piece of a call: the bytes to push, and for each reply they ask for the
\* bits of it that count; `check` is whether the buffer is looked at then.
Piece(bytes, reads, check) == [bytes |-> bytes, reads |-> reads, check |-> check]
Take(from, n) == [from |-> from, n |-> n]

Ready(out) ==
  [pc |-> "ready", call |-> Nothing, pieces |-> <<>>, out |-> out, reads |-> <<>>,
   got |-> <<>>, tdo |-> <<>>, reply |-> Nothing, then |-> "push", level |-> FALSE]

Capturing == host.call.op = "shift" /\ host.call.capture

\* TMS after a call.
LevelAfter(c) ==
  CASE c.op = "tms" /\ c.tms # <<>> -> Last(c.tms)
    [] c.op = "shift" /\ c.tdi # <<>> -> c.exit
    [] c.op = "idle" /\ c.n > 0 -> FALSE
    [] OTHER -> host.level

Begin(c, pieces) ==
  /\ host.pc = "ready"
  /\ host' = [host EXCEPT !.pc = "push", !.call = c, !.pieces = pieces, !.tdo = <<>>,
                          !.reply = Nothing, !.then = "push", !.level = LevelAfter(c)]
  /\ heard' = <<>>
  /\ UNCHANGED <<down, up, dev>>

\* Wrong on purpose: everything is read back at the end.
FullAtTheEnd(reads) == FALSE

\* Enough replies to come that they are read now.
Full(reads) == Len(reads) >= ReadChunk

Push ==
  /\ host.pc = "push" /\ host.pieces # <<>>
  /\ LET p     == Head(host.pieces)
         out   == host.out \o p.bytes
         reads == host.reads \o p.reads
     IN  host' = [host EXCEPT
           !.pieces = Tail(@), !.out = out, !.reads = reads,
           !.pc = IF p.check /\ Capturing /\ Full(reads) THEN "trip"
                  ELSE IF p.check /\ ~Capturing /\ Len(out) >= WriteChunk THEN "send"
                  ELSE "push"]
  /\ UNCHANGED <<down, up, dev, heard>>

\* Every piece is pushed: a capture reads back the rest, `flush` writes
\* whatever there is, the other calls return (a shift without a look at the
\* buffer).
End ==
  /\ host.pc = "push" /\ host.pieces = <<>>
  /\ LET write == \/ host.call.op = "flush"
              \/ (host.call.op # "shift" /\ Len(host.out) >= WriteChunk)
     IN  host' = [host EXCEPT
           !.then = "return", !.out = IF Capturing THEN @ \o Hurry ELSE @,
           !.pc = IF Capturing THEN "trip" ELSE IF write THEN "send" ELSE "return"]
  /\ UNCHANGED <<down, up, dev, heard>>

Return ==
  /\ host.pc = "return"
  /\ host' = [host EXCEPT !.pc = "ready", !.call = Nothing,
                          !.reply = IF Capturing THEN host.tdo ELSE Nothing, !.tdo = <<>>]
  /\ UNCHANGED <<down, up, dev, heard>>

\* write_all: as much as the adapter has room for, until all is out.
Send ==
  /\ host.pc \in {"send", "trip"} /\ host.out # <<>> /\ Len(down) < DownRoom
  /\ LET room == DownRoom - Len(down)
         n    == IF Len(host.out) <= room THEN Len(host.out) ELSE room
     IN  /\ down' = down \o SubSeq(host.out, 1, n)
         /\ host' = [host EXCEPT !.out = SubSeq(@, n + 1, Len(@))]
  /\ UNCHANGED <<up, dev, heard>>

Sent ==
  /\ host.pc \in {"send", "trip"} /\ host.out = <<>>
  /\ host' = [host EXCEPT !.pc = IF @ = "send" THEN host.then ELSE "read", !.got = <<>>]
  /\ UNCHANGED <<down, up, dev, heard>>

\* read_exact: whatever each packet brings, until there is enough.
Receive ==
  /\ host.pc = "read" /\ Len(host.got) < Len(host.reads)
  /\ \E n \in 1 .. Packet :
       /\ n <= Len(up)
       /\ host' = [host EXCEPT !.got = @ \o SubSeq(up, 1, n)]
       /\ up' = SubSeq(up, n + 1, Len(up))
  /\ UNCHANGED <<down, dev, heard>>

\* The bits of the replies that were asked for.
Decoded(got, reads) ==
  FlattenSeq([i \in DOMAIN got |-> SubSeq(got[i], reads[i].from, reads[i].from + reads[i].n - 1)])

Received ==
  /\ host.pc = "read" /\ Len(host.got) >= Len(host.reads)
  /\ host' = IF Len(host.got) = Len(host.reads)
             THEN [host EXCEPT !.pc = host.then, !.tdo = @ \o Decoded(host.got, host.reads),
                               !.reads = <<>>, !.got = <<>>]
             ELSE [host EXCEPT !.pc = "failed"]
  /\ UNCHANGED <<down, up, dev, heard>>

Host == Push \/ End \/ Return \/ Send \/ Sent \/ Receive \/ Received

-----------------------------------------------------------------------------
(* The TAP at the far end (external).                                      *)

\* TDO over the next n clocks, from place `at` of the pattern.
Tdo(at, n) == [i \in 1 .. n |-> Pattern[((at + i - 1) % Len(Pattern)) + 1]]
Moved(at, n) == (at + n) % Len(Pattern)

\* A reply of one byte with `bits` at place `from`.
Reply(bits, from) ==
  [i \in 1 .. ByteBits |-> IF i \in from .. from + Len(bits) - 1 THEN bits[i - from + 1] ELSE 0]

\* Whole bytes of a shift.
InBytes(bits) == [k \in 1 .. (Len(bits) \div ByteBits) |->
                    SubSeq(bits, (k - 1) * ByteBits + 1, k * ByteBits)]

\* Wrong on purpose: whole chunks only.
WholeChunks(bytes, n) == [k \in 1 .. (Len(bytes) \div n) |-> SubSeq(bytes, (k - 1) * n + 1, k * n)]

\* ... in chunks of at most n bytes.
Chunks(bytes, n) ==
  [k \in 1 .. ((Len(bytes) + n - 1) \div n) |->
     SubSeq(bytes, (k - 1) * n + 1, IF k * n <= Len(bytes) THEN k * n ELSE Len(bytes))]

-----------------------------------------------------------------------------
(***************************************************************************)
(* The USB-Blaster (crates/chipsmith-jtag/src/usb_blaster.rs): a CPLD that *)
(* takes bytes.  A byte either sets the pins, or says how many of the next *)
(* bytes are data to shift with TMS where it is.                           *)
(***************************************************************************)

CONSTANTS MaxShiftBytes,  \* MAX_SHIFT_BYTES
          OpenClocks      \* clocks that `open` makes

Pins(tck, tms, tdi, read) == [is |-> "pins", tck |-> tck, tms |-> tms, tdi |-> tdi, read |-> read]
Shift(read, n) == [is |-> "shift", read |-> read, n |-> n]
Data(bits) == [is |-> "data", bits |-> bits]

\* TCK low, then high.
ClockBytes(tms, tdi, read) == <<Pins(FALSE, tms, tdi, FALSE), Pins(TRUE, tms, tdi, read)>>

\* TCK low again after a run of clocks.
Settle(tms) == <<Pins(FALSE, tms, 0, FALSE)>>

ChunkPiece(chunk, capture) ==
  Piece(<<Shift(capture, Len(chunk))>> \o [i \in DOMAIN chunk |-> Data(chunk[i])],
        IF capture THEN [i \in DOMAIN chunk |-> Take(1, ByteBits)] ELSE <<>>, TRUE)

\* Everything up to the final bit as whole bytes, the rest clock by clock; a
\* shift that stays in its state has no final bit.
BlasterShiftPieces(c) ==
  LET bits  == Len(c.tdi)
      whole == (IF c.exit THEN bits - 1 ELSE bits) \div ByteBits
      bytes == InBytes(SubSeq(c.tdi, 1, whole * ByteBits))
      chunks == Chunks(bytes, MaxShiftBytes)
      tail  == [i \in 1 .. bits - whole * ByteBits |-> whole * ByteBits + i]
  IN  [k \in DOMAIN chunks |-> ChunkPiece(chunks[k], c.capture)]
      \o [k \in DOMAIN tail |->
            Piece(ClockBytes(c.exit /\ tail[k] = bits, c.tdi[tail[k]], c.capture),
                  IF c.capture THEN <<Take(1, 1)>> ELSE <<>>, c.capture)]
      \o <<Piece(Settle(c.exit), <<>>, FALSE)>>

BlasterIdlePieces(c) ==
  LET zeros  == [k \in 1 .. (c.n \div ByteBits) |-> [i \in 1 .. ByteBits |-> 0]]
      chunks == Chunks(zeros, MaxShiftBytes)
      rest   == c.n % ByteBits
  IN  [k \in DOMAIN chunks |-> [ChunkPiece(chunks[k], FALSE) EXCEPT !.check = FALSE]]
      \o [k \in 1 .. rest |-> Piece(ClockBytes(FALSE, 0, FALSE), <<>>, FALSE)]
      \o <<Piece(Settle(IF rest > 0 THEN FALSE ELSE host.level), <<>>, FALSE)>>

BlasterTmsPieces(tms) ==
  IF tms = <<>> THEN <<>>
  ELSE [i \in DOMAIN tms |-> Piece(ClockBytes(tms[i], 0, FALSE), <<>>, FALSE)]
       \o <<Piece(Settle(Last(tms)), <<>>, FALSE)>>

BlasterPieces(c) ==
  CASE c.op = "tms"   -> BlasterTmsPieces(c.tms)
    [] c.op = "shift" -> IF c.tdi = <<>> THEN <<>> ELSE BlasterShiftPieces(c)
    [] c.op = "idle"  -> BlasterIdlePieces(c)
    [] c.op = "flush" -> <<>>

\* "the TAP is not in a shift state"
Refuses(c) ==
  /\ host.level
  /\ \/ c.op = "shift" /\ c.tdi # <<>>
     \/ c.op = "idle" /\ c.n >= ByteBits

BlasterCall(c) == ~Refuses(c) /\ Begin(c, BlasterPieces(c))

-----------------------------------------------------------------------------
(* The CPLD, which may be in the middle of someone else's shift.           *)

OpenBytes ==
  FlattenSeq([i \in 1 .. OpenClocks |-> ClockBytes(TRUE, 0, FALSE)]) \o Settle(TRUE)

\* `open` has purged the FIFOs and queued its clocks, which it then flushes.
\* A session that was cut short was not one that captures.
BlasterInit ==
  /\ host = [Ready(OpenBytes) EXCEPT !.pc = "send", !.then = "ready", !.level = TRUE]
  /\ down = <<>> /\ up = <<>> /\ heard = <<>>
  /\ \E left \in 0 .. MaxShiftBytes, tms \in BOOLEAN, tck \in BOOLEAN :
       dev = [left |-> left, read |-> FALSE, tms |-> tms, tck |-> tck, at |-> 0]

\* The clocks the CPLD makes of a byte, in state d, and the state after it.
BlasterMakes(d, b) ==
  IF d.left > 0
  THEN [i \in 1 .. ByteBits |->
          [tms |-> d.tms, tdi |-> IF b.is = "data" THEN b.bits[i] ELSE 0, read |-> d.read]]
  ELSE IF b.is = "pins" /\ b.tck /\ ~d.tck
  THEN <<[tms |-> b.tms, tdi |-> b.tdi, read |-> b.read]>>
  ELSE <<>>

BlasterBecomes(d, b) ==
  IF d.left > 0 THEN [d EXCEPT !.left = @ - 1]
  ELSE IF b.is = "shift" THEN [d EXCEPT !.left = b.n, !.read = b.read]
  ELSE IF b.is = "pins" THEN [d EXCEPT !.tms = b.tms, !.tck = b.tck]
  ELSE d

BlasterAct ==
  /\ down # <<>>
  /\ LET b     == Head(down)
         made  == BlasterMakes(dev, b)
         reads == made # <<>> /\ made[1].read
         tdo   == Tdo(dev.at, Len(made))
     IN  /\ reads => Len(up) < UpRoom
         /\ up' = IF reads THEN Append(up, Reply(tdo, 1)) ELSE up
         /\ heard' = IF reads THEN heard \o tdo ELSE heard
         /\ dev' = [BlasterBecomes(dev, b) EXCEPT !.at = Moved(@, Len(made))]
  /\ down' = Tail(down)
  /\ UNCHANGED host

BlasterNext == (\E c \in Calls : BlasterCall(c)) \/ Host \/ BlasterAct

BlasterSpec == BlasterInit /\ [][BlasterNext]_pipe
BlasterLiveSpec == BlasterSpec /\ WF_pipe(Host) /\ WF_pipe(BlasterAct)

\* The clocks still to come: those of the bytes not acted on and of the
\* pieces not pushed yet.
BlasterDue ==
  LET left  == down \o host.out \o FlattenSeq([i \in DOMAIN host.pieces |-> host.pieces[i].bytes])
      after[i \in 0 .. Len(left)] ==
        IF i = 0 THEN [d |-> dev, clocks |-> <<>>]
        ELSE CHOOSE next \in {[d |-> BlasterBecomes(a.d, left[i]), clocks |-> a.clocks \o BlasterMakes(a.d, left[i])] :
                                 a \in {after[i - 1]}} : TRUE
  IN  after[Len(left)].clocks

-----------------------------------------------------------------------------
(***************************************************************************)
(* An FT2232 in MPSSE mode (crates/chipsmith-jtag/src/ftdi.rs): an engine  *)
(* that takes commands for bytes, bits and TMS moves, holds TMS between    *)
(* them, and may sit on its replies until it is told to send them.         *)
(***************************************************************************)

CONSTANTS \* MAX_SHIFT_BYTES
          MaxTmsBits      \* TMS bits to a command

Cmd(is, n, read) == [is |-> is, n |-> n, read |-> read]

\* The bits of a short shift come in from the top.
TopBits(n) == Take(ByteBits - n + 1, n)

\* A short last byte holds the bits at its bottom.
Packed(bits) == Reply(bits, 1)

\* Everything but the exit bit as whole bytes, then bits, then a TMS move.
FtdiShiftPieces(c) ==
  LET bits   == Len(c.tdi)
      body   == IF c.exit THEN bits - 1 ELSE bits
      whole  == body \div ByteBits
      rest   == body % ByteBits
      chunks == Chunks(InBytes(SubSeq(c.tdi, 1, whole * ByteBits)),
                       IF c.capture THEN ReadChunk ELSE MaxShiftBytes)
      asks(take) == IF c.capture THEN take ELSE <<>>
  IN  [k \in DOMAIN chunks |->
         Piece(<<Cmd("bytes", Len(chunks[k]), c.capture)>>
                 \o [i \in DOMAIN chunks[k] |-> Data(chunks[k][i])],
               asks([i \in DOMAIN chunks[k] |-> Take(1, ByteBits)]), TRUE)]
      \o (IF rest = 0 THEN <<>>
          ELSE <<Piece(<<Cmd("bits", rest, c.capture),
                         Data(Packed(SubSeq(c.tdi, whole * ByteBits + 1, body)))>>,
                       asks(<<TopBits(rest)>>), FALSE)>>)
      \o (IF ~c.exit THEN <<>>
          ELSE <<Piece(<<[is |-> "tms", tms |-> <<TRUE>>, tdi |-> Last(c.tdi), read |-> c.capture]>>,
                       asks(<<TopBits(1)>>), FALSE)>>)

FtdiIdlePieces(c) ==
  LET bytes == c.n \div ByteBits
      bursts == (bytes + MaxShiftBytes - 1) \div MaxShiftBytes
      rest  == c.n % ByteBits
  IN  [k \in 1 .. bursts |->
         Piece(<<Cmd("clockbytes", IF k < bursts THEN MaxShiftBytes
                                   ELSE bytes - (bursts - 1) * MaxShiftBytes, FALSE)>>, <<>>, FALSE)]
      \o (IF rest = 0 THEN <<>> ELSE <<Piece(<<Cmd("clockbits", rest, FALSE)>>, <<>>, FALSE)>>)

FtdiTmsPieces(tms) ==
  LET moves == Chunks(tms, MaxTmsBits)
  IN  [k \in DOMAIN moves |->
         Piece(<<[is |-> "tms", tms |-> moves[k], tdi |-> 0, read |-> FALSE]>>, <<>>, FALSE)]

FtdiPieces(c) ==
  CASE c.op = "tms"   -> FtdiTmsPieces(c.tms)
    [] c.op = "shift" -> IF c.tdi = <<>> THEN <<>> ELSE FtdiShiftPieces(c)
    [] c.op = "idle"  -> FtdiIdlePieces(c)
    [] c.op = "flush" -> <<>>

\* The player shifts and waits only where TMS low keeps the state.
FtdiCall(c) == (c.op \in {"shift", "idle"} => ~host.level) /\ Begin(c, FtdiPieces(c))
-----------------------------------------------------------------------------
(* The engine.  `open` resets it.                                          *)

FtdiInit ==
  /\ host = Ready(<<>>)
  /\ down = <<>> /\ up = <<>> /\ heard = <<>>
  /\ dev = [left |-> 0, bits |-> 0, read |-> FALSE, tms |-> FALSE, at |-> 0]

FtdiMakes(d, c) ==
  LET Flat(n) == [i \in 1 .. n |-> [tms |-> d.tms, tdi |-> 0, read |-> FALSE]]
  IN  CASE c.is = "data" -> [i \in 1 .. d.bits |->
                               [tms |-> d.tms, tdi |-> c.bits[i], read |-> d.read]]
        [] c.is = "tms" -> [i \in DOMAIN c.tms |->
                              [tms |-> c.tms[i], tdi |-> c.tdi, read |-> c.read]]
        [] c.is = "clockbytes" -> Flat(c.n * ByteBits)
        [] c.is = "clockbits" -> Flat(c.n)
        [] OTHER -> <<>>

FtdiBecomes(d, c) ==
  CASE c.is = "bytes" -> [d EXCEPT !.left = c.n, !.bits = ByteBits, !.read = c.read]
    [] c.is = "bits"  -> [d EXCEPT !.left = 1, !.bits = c.n, !.read = c.read]
    [] c.is = "data"  -> [d EXCEPT !.left = @ - 1]
    [] c.is = "tms"   -> [d EXCEPT !.tms = Last(c.tms)]
    [] OTHER -> d

\* Bits are shifted in from the top of a reply.
FtdiAct ==
  /\ down # <<>>
  /\ LET c     == Head(down)
         made  == FtdiMakes(dev, c)
         n     == Len(made)
         reads == made # <<>> /\ made[1].read
         tdo   == Tdo(dev.at, n)
     IN  /\ reads => Len(up) < UpRoom
         /\ up' = IF reads THEN Append(up, Reply(tdo, ByteBits - n + 1)) ELSE up
         /\ heard' = IF reads THEN heard \o tdo ELSE heard
         /\ dev' = [FtdiBecomes(dev, c) EXCEPT !.at = Moved(@, n)]
  /\ down' = Tail(down)
  /\ UNCHANGED host

FtdiNext == (\E c \in Calls : FtdiCall(c)) \/ Host \/ FtdiAct

FtdiSpec == FtdiInit /\ [][FtdiNext]_pipe
FtdiLiveSpec == FtdiSpec /\ WF_pipe(Host) /\ WF_pipe(FtdiAct)

FtdiDue ==
  LET left  == down \o host.out \o FlattenSeq([i \in DOMAIN host.pieces |-> host.pieces[i].bytes])
      after[i \in 0 .. Len(left)] ==
        IF i = 0 THEN [d |-> dev, clocks |-> <<>>]
        ELSE CHOOSE next \in {[d |-> FtdiBecomes(a.d, left[i]), clocks |-> a.clocks \o FtdiMakes(a.d, left[i])] :
                                 a \in {after[i - 1]}} : TRUE
  IN  after[Len(left)].clocks
=============================================================================
