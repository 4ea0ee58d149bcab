------------------------------ MODULE Memories ------------------------------
(***************************************************************************)
(* Memories read through registers, and memories made of registers.        *)
(***************************************************************************)
EXTENDS Integers, Sequences, SequencesExt

-----------------------------------------------------------------------------
(***************************************************************************)
(* Registers merged into a memory's read port, and the read moved an edge  *)
(* earlier (crates/chipsmith-synth/src/memory.rs: merge_registers,         *)
(* read_early).  The design's memory and registers run beside what is made *)
(* of them, on a memory of two one-bit words with one write port.          *)
(*                                                                         *)
(* A design is [layers, ff, addr, wr]: the multiplexers [s, a, b] between  *)
(* the read data ("me") and the register, inside out; the register's       *)
(* [en, reset, over, value]; where the address comes from; and what the    *)
(* write enable is.                                                        *)
(***************************************************************************)

CONSTANTS None, Designs, MAX_LAYERS

VARIABLES
  design,
  reader,          \* what the read port becomes
  mem, asked, q,    \* the design: memory, address register, register
  qm,            \* the merged reader's data
  qe, qr,        \* the early reader's data and the register after it
  last           \* what the edge before did: [write, load]

readport == <<design, reader, mem, asked, q, qm, qe, qr, last>>

Ctrl(sig, pos) == [sig |-> sig, pos |-> pos]
Consts == {"0", "1"}
Bit(c) == c = "1"

-----------------------------------------------------------------------------
(* through_muxes: what each multiplexer is.                                *)

Kind(mux) ==
  IF mux.s \in Consts THEN (IF (IF mux.s = "1" THEN mux.b ELSE mux.a) = "me" THEN "pass" ELSE "drop")
  ELSE IF mux.b = "me" /\ mux.a # "me" THEN "en"
  ELSE IF mux.a = "me" /\ mux.b \in Consts THEN "srst"
  ELSE IF mux.a = "me" THEN IF mux.b = "q" THEN "hold" ELSE "bypass"
  ELSE "none"

Layers == SelectSeq(design.layers, LAMBDA mux : Kind(mux) # "pass")
Kinds == [i \in DOMAIN Layers |-> Kind(Layers[i])]
These(kinds) == {i \in DOMAIN Layers : Kinds[i] \in kinds}
Resets == These({"srst"})
Bypasses == These({"bypass"})
Enabling == These({"en", "hold"})

\* A reset acts on enabled edges only when it is inside every enable, on all
\* of them when it is outside; between two it is neither.
ResetPlaced ==
  \A i \in Resets : (\A j \in Enabling : j > i) \/ (\A j \in Enabling : j < i)

Followable ==
  /\ Len(Layers) <= MAX_LAYERS
  /\ \A i \in DOMAIN Layers : Kinds[i] \notin {"drop", "none"}
  /\ Layers # <<>> => design.ff.en = None /\ design.ff.reset = None
  /\ \A i \in Enabling : Kinds[i] = "en" => Layers[i].a = "q"
  /\ Bypasses \subseteq {1}
  /\ \A i, j \in Resets : i = j
  /\ ResetPlaced
  /\ ~(design.ff.reset # None /\ design.ff.over = "reset")

Enables ==
  {Ctrl(Layers[i].s, Kinds[i] = "en") : i \in Enabling}
    \cup (IF design.ff.en = None THEN {} ELSE {design.ff.en})

\* The synchronous reset: [ctrl, gated, value].
SyncReset ==
  IF Resets # {}
  THEN LET i == CHOOSE r \in Resets : TRUE
       IN  [ctrl |-> Ctrl(Layers[i].s, TRUE), value |-> Bit(Layers[i].b),
            gated |-> \E j \in Enabling : j > i]
  ELSE IF design.ff.reset = None THEN None
  ELSE [ctrl |-> design.ff.reset, value |-> design.ff.value, gated |-> design.ff.over = "enable"]

\* The write enable is the bypass's, or it and an enable of the read.

WriteIsBypass(we) ==
  \/ design.wr = {we}
  \/ we \in design.wr /\ \A w \in design.wr \ {we} : Ctrl(w, TRUE) \in Enables

ReadThrough ==
  Bypasses # {} /\ design.addr = "write" /\ Layers[1].b = "wd" /\ WriteIsBypass(Layers[1].s)

OutputMerges ==
  /\ Followable
  /\ Bypasses # {} => ReadThrough
  /\ SyncReset # None => SyncReset.ctrl.pos

\* Failing that, the register on the address.
AddressMerges == ~OutputMerges /\ design.addr = "register"

-----------------------------------------------------------------------------
(* One edge.  "in" gives the signals; the two control inputs the design's  *)
(* names stand for are any.                                                *)

Signal(s, in) == IF s \in Consts THEN Bit(s) ELSE IF s = "q" THEN q ELSE in[s]
Active(c, in) == in[c.sig] = c.pos
Writes(in) == \A w \in design.wr : in[w]

Address(in) == CASE design.addr = "register" -> asked [] design.addr = "write" -> in.wa [] OTHER -> in.ra
Read(in) == mem[Address(in)]

RECURSIVE Through(_, _, _)
Through(me, n, in) ==
  IF n = 0 THEN me
  ELSE LET mux == design.layers[n]
           pin(x) == IF x = "me" THEN Through(me, n - 1, in) ELSE Signal(x, in)
       IN  IF Signal(mux.s, in) THEN pin(mux.b) ELSE pin(mux.a)

\* The register of the design.
Clocked(d, in) ==
  LET ff == design.ff
      on == ff.en = None \/ Active(ff.en, in)
      rs == ff.reset # None /\ Active(ff.reset, in)
  IN  IF rs /\ (ff.over = "enable" => on) THEN ff.value ELSE IF on THEN d ELSE q

\* The synchronous read port (netlist/src/mem.rs).
Port(en, reset, transparent, address, data, in) ==
  LET old == mem[address]
      word == IF transparent /\ Writes(in) /\ in.wa = address THEN in.wd ELSE old
      on == \A c \in en : Active(c, in)
  IN  IF reset # None /\ Active(reset.ctrl, in) /\ (reset.gated => on) THEN reset.value
      ELSE IF on THEN word ELSE data

Loads(in) == \A c \in reader.en : Active(c, in)

\* read_early: the read takes the old word on the edge before, at the
\* address register's next value.
Early ==
  OutputMerges /\ design.addr = "register" /\ SyncReset = None /\ ~ReadThrough

NextRa(in) == IF design.hold # None /\ ~Active(design.hold, in) THEN asked ELSE in.ra

EarlyAddress(in) == NextRa(in)

\* A refused design is left as it is.
PortInit ==
  /\ design \in Designs /\ (OutputMerges \/ AddressMerges)
  /\ reader = [output |-> OutputMerges, early |-> Early, through |-> ReadThrough,
             en |-> IF OutputMerges THEN Enables ELSE {},
             reset |-> IF OutputMerges THEN SyncReset ELSE None]
  /\ mem = [a \in {0, 1} |-> a = 1] /\ asked \in {0, 1} /\ q \in BOOLEAN
  /\ qm = (IF reader.output THEN q ELSE None) /\ qe = None /\ qr = q
  /\ last = [write |-> TRUE, load |-> FALSE]

PortEdge(in) ==
  /\ q' = Clocked(Through(Read(in), Len(design.layers), in), in)
  /\ asked' = NextRa(in)
  /\ mem' = IF Writes(in) THEN [mem EXCEPT ![in.wa] = in.wd] ELSE mem
  /\ qm' = IF reader.output THEN Port(reader.en, reader.reset, reader.through, Address(in), qm, in)
           ELSE Port({}, None, TRUE, NextRa(in), qm, in)
  /\ qe' = IF reader.early
           THEN IF Writes(in) /\ in.wa = EarlyAddress(in) THEN None ELSE mem[EarlyAddress(in)]
           ELSE qe
  /\ qr' = IF reader.early /\ Loads(in) THEN qe ELSE qr
  /\ last' = [write |-> Writes(in), load |-> reader.early /\ Loads(in)]
  /\ UNCHANGED <<design, reader>>

Signals == [e : BOOLEAN, f : BOOLEAN, r : BOOLEAN, we : BOOLEAN, wd : BOOLEAN, wa : {0, 1}, ra : {0, 1}]

\* A design whose read is moved never loads on the edge after a write, nor on
\* the first (NeverAfter).
PortNext == \E in \in Signals : (reader.early => ~(last.write /\ Loads(in))) /\ PortEdge(in)

PortSpec == PortInit /\ [][PortNext]_readport

-----------------------------------------------------------------------------
\* The merged reader gives what the registers gave: enables of either sense,
\* a reset inside or outside them, a write read through, an address held
\* (output_register, address_register).
PortSame ==
  /\ reader.output => qm = q
  /\ ~reader.output => qm \in {None, mem[asked]}

\* The read an edge earlier is loaded with the same word (read_early).
EarlySame == reader.early => (qr = q /\ (last.load => qr # None))

-----------------------------------------------------------------------------
(***************************************************************************)
(* Memories collected from their port cells and turned into registers and  *)
(* multiplexers (crates/chipsmith-synth/src/memory.rs: collect, map_mem).  *)
(* Bits of a word are numbered from 1, addresses from 0.                   *)
(***************************************************************************)

CONSTANTS
  Memories,  \* [size, width, start, inits, wr, rd]
  Addresses  \* written to

VARIABLES
  memory,
  words,       \* the registers, one for each word
  rq,          \* a synchronous read port's register
  ra,          \* a transparent one's address register
  port,        \* what the port of the memory gives
  beaten       \* the write ports a port lost to that it wins over

memmap == <<memory, words, rq, ra, port, beaten>>

Bits == 1 .. memory.width
Size == 0 .. memory.size - 1

-----------------------------------------------------------------------------
\* By priority.
Inits == SortSeq(memory.inits, LAMBDA m, n : m.priority < n.priority)

\* One $meminit: words from an address on, of those bits.
Initialised(contents, cell) ==
  [i \in DOMAIN contents |->
     LET k == i - (cell.addr - memory.start) * memory.width
     IN  IF k \in DOMAIN cell.data /\ cell.en[((k - 1) % memory.width) + 1] THEN cell.data[k] ELSE contents[i]]

Flat ==
  FoldLeft(Initialised, [i \in 1 .. memory.size * memory.width |-> None], Inits)

Contents == [a \in Size |-> [k \in Bits |-> Flat[a * memory.width + k]]]

-----------------------------------------------------------------------------
(* map_mem.                                                                *)

\* Wrong on purpose: ports as listed.
PortsAsListed == memory.wr

Ports == SortSeq(memory.wr, LAMBDA p, o : p.id < o.id)

\* The port a bit's multiplexers take: one for each port, the newest in front.
Writers(a, k, in) == {n \in DOMAIN Ports : in.wr[Ports[n].id].addr = a /\ in.wr[Ports[n].id].en[k]}
Taken(a, k, in) == CHOOSE n \in Writers(a, k, in) : \A o \in Writers(a, k, in) : n >= o

Written(word, a, in) ==
  [k \in Bits |-> IF Writers(a, k, in) = {} THEN word[k] ELSE in.wr[Ports[Taken(a, k, in)].id].data[k]]

X == [k \in Bits |-> None]
WordAt(ws, a) == IF a \in Size THEN ws[a] ELSE X

Transparent == memory.rd.transparent = "all"
Mappable ==
  /\ memory.start = 0
  /\ memory.rd.transparent \in {"all", "none"}
  /\ Transparent => ~memory.rd.en /\ memory.rd.reset = "none"

ReadRegister(in) ==
  LET on == memory.rd.en => in.en
      reset == memory.rd.reset # "none" /\ in.reset
  IN  IF reset /\ (memory.rd.reset = "enabled" => on) THEN memory.rd.value
      ELSE IF on THEN WordAt(words, in.addr) ELSE rq

\* What the read port shows after the registers have moved.
Shown == IF Transparent THEN WordAt(words, ra) ELSE rq

-----------------------------------------------------------------------------
\* The port of the memory itself (netlist/src/mem.rs).
Ported(after, in) ==
  LET read == WordAt(IF Transparent THEN after ELSE words, in.addr)
      reset == memory.rd.reset # "none" /\ in.reset
      on == memory.rd.en => in.en
  IN  CASE memory.rd.reset = "enabled" -> IF ~on THEN port ELSE IF reset THEN memory.rd.value ELSE read
        [] OTHER -> IF reset THEN memory.rd.value ELSE IF on THEN read ELSE port

\* Who wrote a bit although another port that wins over it did.
Lost(in) ==
  {o \in DOMAIN Ports : \E a \in Size, k \in Bits :
     /\ o \in Writers(a, k, in)
     /\ Ports[Taken(a, k, in)].id \in Ports[o].wins}

MapInit ==
  /\ memory \in Memories
  /\ words = Contents /\ ra = 0 /\ rq = X
  /\ port = Shown /\ beaten = {}

MapEdge(in) ==
  /\ words' = [a \in Size |-> Written(words[a], a, in)]
  /\ rq' = IF Transparent THEN rq ELSE ReadRegister(in)
  /\ ra' = IF Transparent THEN in.addr ELSE ra
  /\ port' = Ported(words', in)
  /\ beaten' = Lost(in)
  /\ UNCHANGED memory

MapWrites(p) ==
  [en : {[k \in Bits |-> k \in e] : e \in IF p.shared THEN {{}, Bits} ELSE {{}, {1}, Bits}},
   addr : Addresses, data : {p.data}]

MapNext ==
  Mappable /\ \E n, o \in DOMAIN memory.wr, a \in 0 .. 3, e \in BOOLEAN, r \in BOOLEAN :
    /\ memory.wr[n].id = 1 /\ memory.wr[o].id = 2
    /\ e \/ memory.rd.en
    /\ a # 0
    /\ ~r \/ memory.rd.reset # "none"
    /\ \E v \in MapWrites(memory.wr[n]), w \in MapWrites(memory.wr[o]) :
         MapEdge([wr |-> <<v, w>>, addr |-> a, en |-> e, reset |-> r])

MapSpec == MapInit /\ [][MapNext]_memmap

-----------------------------------------------------------------------------
\* The registers and the multiplexer tree give what the port would, before a
\* write on the edge or after it, past the newest word too (map_mem).
MapSame == \A k \in Bits : port[k] # None => Shown[k] = port[k]

\* A write never loses to one it has priority over (collect, map_mem).
PriorityKept == beaten = {}

\* A word starts as the newest of the initialisations left it, by priority,
\* whatever order the cells are in and wherever the array starts (collect).
StartsAsGiven ==
  words = Contents =>
    \A a \in Size, k \in Bits :
      LET of(c) == (a + memory.start - c.addr) * memory.width + k
          cells == {c \in Range(memory.inits) : of(c) \in DOMAIN c.data /\ c.en[k]}
      IN  words[a][k] = IF cells = {} THEN None
                        ELSE LET newest == CHOOSE c \in cells : \A d \in cells : d.priority <= c.priority
                             IN  newest.data[of(newest)]
=============================================================================
