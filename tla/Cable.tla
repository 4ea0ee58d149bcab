-------------------------------- MODULE Cable --------------------------------
(***************************************************************************)
(* What `trait Cable` promises (crates/chipsmith-jtag/src/lib.rs): the TAP *)
(* gets the clocks that were asked for, all of them and in order, and a    *)
(* shift that captures returns what the TAP put out at its own clocks.     *)
(* When the clocks reach the TAP is up to the cable, unless a call says.   *)
(***************************************************************************)
EXTENDS Naturals, Sequences, FiniteSets

CONSTANTS Calls, Nothing

VARIABLES
  asked,  \* the call being made, or Nothing
  due,    \* clocks asked for that the TAP has yet to get
  heard,  \* TDO at the clocks of this call that are read
  reply   \* what the last call returned

cable == <<asked, due, heard, reply>>

Bit == {0, 1}

\* The clocks a call stands for.
Clocks(c) ==
  CASE c.op = "tms"   -> [i \in DOMAIN c.tms |-> [tms |-> c.tms[i], tdi |-> 0, read |-> FALSE]]
    [] c.op = "shift" -> [i \in DOMAIN c.tdi |->
                            [tms |-> c.exit /\ i = Len(c.tdi), tdi |-> c.tdi[i], read |-> c.capture]]
    [] c.op = "idle"  -> [i \in 1 .. c.n |-> [tms |-> FALSE, tdi |-> 0, read |-> FALSE]]
    [] c.op = "flush" -> <<>>

ReadsBack(c) == c.op = "shift" /\ c.capture

\* A cable may start by resetting the TAP, with at least five clocks.
Resets(clocks) ==
  \/ clocks = <<>>
  \/ /\ Len(clocks) >= 5
     /\ \A i \in Len(clocks) - 4 .. Len(clocks) : clocks[i].tms

Init ==
  /\ asked = Nothing /\ heard = <<>> /\ reply = Nothing
  /\ Resets(due)

Ask(c) ==
  /\ asked = Nothing
  /\ asked' = c
  /\ due' = due \o Clocks(c)
  /\ heard' = <<>> /\ reply' = Nothing

\* The TAP gets some of the clocks.
Clock ==
  /\ UNCHANGED <<asked, reply>>
  /\ \E now \in {due}, after \in {due'} :
       LET n    == Len(now) - Len(after)
           read == {i \in 1 .. n : now[i].read}
       IN  /\ n > 0
           /\ after = SubSeq(now, n + 1, Len(now))
           /\ Len(heard') = Len(heard) + Cardinality(read)
           /\ SubSeq(heard', 1, Len(heard)) = heard

Return ==
  /\ asked # Nothing
  /\ ReadsBack(asked) => \A i \in DOMAIN due : ~due[i].read
  /\ reply' = IF ReadsBack(asked) THEN heard ELSE Nothing
  /\ asked' = Nothing
  /\ UNCHANGED <<due, heard>>

Next == (\E c \in Calls : Ask(c)) \/ Clock \/ Return

Spec == Init /\ [][Next]_cable
=============================================================================
