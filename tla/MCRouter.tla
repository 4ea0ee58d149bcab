------------------------------ MODULE MCRouter ------------------------------
(***************************************************************************)
(* A small device for the router.                                          *)
(*                                                                         *)
(* Net 1 has two sinks, each over the fast node m or the slow n; net 2     *)
(* goes over m and line c0, or line c1; net 3 has a sink on line c1 or c2  *)
(* and one on c2 or c4.  c0 and c1 are one bank.                           *)
(***************************************************************************)
EXTENDS Router

SharedEdge ==
  {<<"s1", "m">>, <<"s1", "n">>, <<"m", "t1">>, <<"n", "t1">>, <<"m", "u1">>, <<"n", "u1">>,
   <<"s2", "m">>, <<"m", "c0">>, <<"c0", "t2">>, <<"s2", "c1">>, <<"c1", "t2">>,
   <<"s3", "c1">>, <<"c1", "t3">>, <<"s3", "c2">>, <<"c2", "t3">>, <<"c2", "v3">>,
   <<"s3", "c4">>, <<"c4", "v3">>}
SharedNode == {e[1] : e \in SharedEdge} \cup {e[2] : e \in SharedEdge}
SharedFrom == [e \in SharedEdge |-> e[1]]
SharedTo == [e \in SharedEdge |-> e[2]]
SharedDelay == [n \in SharedNode |->
  CASE n \in {"m", "c0"} -> 10 [] n \in {"n", "c2"} -> 40 [] n = "c1" -> 28
    [] n = "c4" -> 20 [] n = "t2" -> 55 [] OTHER -> 0]
SharedSource == <<"s1", "s2", "s3">>
SharedSinks == <<{"t1", "u1"}, {"t2"}, {"t3", "v3"}>>
SharedTrees ==
  <<{{<<"s1", x>>, <<x, "t1">>, <<"s1", y>>, <<y, "u1">>} : x, y \in {"m", "n"}},
    {{<<"s2", "m">>, <<"m", "c0">>, <<"c0", "t2">>}, {<<"s2", "c1">>, <<"c1", "t2">>}},
    {{<<"s3", x>>, <<x, "t3">>, <<"s3", y>>, <<y, "v3">>} :
       x \in {"c1", "c2"}, y \in {"c2", "c4"}}>>
SharedPaths == {{<<1, "t1">>, <<3, "t3">>}, {<<1, "u1">>}, {<<2, "t2">>}, {<<3, "v3">>}}
SharedGroup == [e \in SharedEdge |->
  IF e[1] \in {"c0", "c1", "c2", "c4"}
  THEN CASE e[1] = "c0" -> 0 [] e[1] = "c1" -> 1 [] e[1] = "c2" -> 2 [] e[1] = "c4" -> 4
  ELSE NoGroup]
SharedCapacity == [t \in {0} |-> 2]

\* Each way to route and to reroute; then a router that does not repair, one
\* that may not bring net 3 to t3 over c2, and ones that may not bring it to
\* any line.
SharedModes ==
  LET A(b, k, inc, fix, off) ==
        [batched |-> b, bucketed |-> k, incremental |-> inc, repair |-> fix,
         usable |-> [i \in Net |-> IF i = 3 THEN SharedEdge \ off ELSE SharedEdge]]
      Ways == {<<FALSE, FALSE>>, <<TRUE, FALSE>>, <<TRUE, TRUE>>}
  IN  {A(w[1], w[2], TRUE, TRUE, {}) : w \in Ways}
      \cup {A(FALSE, FALSE, FALSE, TRUE, {}), A(FALSE, FALSE, TRUE, FALSE, {}),
            A(FALSE, FALSE, TRUE, TRUE, {<<"c2", "t3">>})}
      \cup {A(w[1], w[2], TRUE, TRUE, {e \in SharedEdge : e[1] = "s3"}) : w \in Ways}

=============================================================================
