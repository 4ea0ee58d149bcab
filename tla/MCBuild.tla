------------------------------ MODULE MCBuild -------------------------------
(***************************************************************************)
(* The Cyclone II plan (flow.rs, plan_cyclone2) on one design file and one *)
(* header: synthesis, pack, place and route.                               *)
(***************************************************************************)
EXTENDS BuildCache

CONSTANTS top, header, netlist, packed, placed, routed

OneHeader == <<header>>

\* A source holds version 1, version 1 with another comment, or version 2,
\* which `includes a header.
Meaning(c) == IF c = "one commented" THEN "one" ELSE c

Stamped(parts) == [stamped |-> TRUE, parts |-> parts]
Part1(from, to) == [reads |-> {from}, frontend |-> FALSE, writes |-> to]

MCPlan ==
  << Stamped(<< [reads |-> {top}, frontend |-> TRUE, writes |-> netlist] >>),
     Stamped(<< Part1(netlist, packed) >>),
     Stamped(<< Part1(packed, placed), Part1(placed, routed) >>) >>

\* Pin settings are part of place and route's key only; the tool is part of
\* every key.
MCSetting == {"old", "new pins"}
MCStepKey(s, setting) == IF s = 3 THEN setting ELSE "old"

\* Contents written: synthesis loses comments, every later file follows
\* from the one before it.
MCProduce(f, key, in) ==
  <<f, key, [g \in DOMAIN in |-> IF g \in Source THEN Meaning(in[g]) ELSE in[g]]>>

=============================================================================
