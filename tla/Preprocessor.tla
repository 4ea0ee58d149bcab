----------------------------- MODULE Preprocessor -----------------------------
(***************************************************************************)
(* The preprocessor of the Verilog front end                               *)
(* (crates/chipsmith-verilog/src/pp.rs): conditionals, macros and          *)
(* includes over one stack of texts and one stack of open conditionals.    *)
(*                                                                         *)
(* A text is a sequence of words                                           *)
(*   [op |-> "token", t]                  a token, or a formal in a body   *)
(*   [op |-> "ifdef" | "ifndef" | "elsif", n], [op |-> "else" | "endif"]   *)
(*   [op |-> "define", n, params, body]   params None: takes no arguments; *)
(*                                        else [f, default] each, default  *)
(*                                        None or a text                   *)
(*   [op |-> "undef", n], [op |-> "include", n]                            *)
(*   [op |-> "use", n, args]              args None or texts, <<>> empty   *)
(* Pasting and strings are left out.  MAX_DEPTH is 200 in the code.        *)
(***************************************************************************)
EXTENDS FiniteSets, Integers, Sequences, SequencesExt

CONSTANTS None, Files, Sources, MAX_DEPTH

VARIABLES source, lexers, conds, macros, out, result

pp == <<source, lexers, conds, macros, out, result>>

Active == \A k \in DOMAIN conds : conds[k] = "active"

Here == Last(lexers)
Word == Head(Here)
Rest == Append(Front(lexers), Tail(Here))

Error(e) == result' = e /\ UNCHANGED <<source, lexers, conds, macros, out>>

Defines(n) == macros[n] # None

-----------------------------------------------------------------------------
(* Conditionals: active, waiting for a branch, or done with the chain.     *)

Takes == IF Word.op = "ifndef" THEN ~Defines(Word.n) ELSE Defines(Word.n)

Open ==
  /\ Word.op \in {"ifdef", "ifndef"}
  /\ conds' = Append(conds, IF ~Active THEN "done" ELSE IF Takes THEN "active" ELSE "waiting")
  /\ lexers' = Rest
  /\ UNCHANGED <<source, macros, out, result>>

\* A branch was taken: the chain is done.
Branched(cond, take) ==
  IF cond # "waiting" THEN "done" ELSE IF take THEN "active" ELSE "waiting"

Branch ==
  /\ Word.op \in {"elsif", "else"}
  /\ IF conds = <<>> THEN Error("no ifdef")
     ELSE /\ conds' = Append(Front(conds), Branched(Last(conds), Word.op = "else" \/ Takes))
          /\ lexers' = Rest
          /\ UNCHANGED <<source, macros, out, result>>

Close ==
  /\ Word.op = "endif"
  /\ IF conds = <<>> THEN Error("no ifdef")
     ELSE conds' = Front(conds) /\ lexers' = Rest /\ UNCHANGED <<source, macros, out, result>>

\* Everything else in a region that is skipped.
Skip ==
  /\ ~Active /\ Word.op \notin {"ifdef", "ifndef", "elsif", "else", "endif"}
  /\ lexers' = Rest
  /\ UNCHANGED <<source, conds, macros, out, result>>

-----------------------------------------------------------------------------
(* What an active region holds.                                            *)

Emit ==
  /\ Active /\ Word.op = "token"
  /\ out' = Append(out, Word.t) /\ lexers' = Rest
  /\ UNCHANGED <<source, conds, macros, result>>

Define ==
  /\ Active /\ Word.op \in {"define", "undef"}
  /\ macros' = [macros EXCEPT ![Word.n] =
                  IF Word.op = "undef" THEN None ELSE [params |-> Word.params, body |-> Word.body]]
  /\ lexers' = Rest
  /\ UNCHANGED <<source, conds, out, result>>

Include ==
  /\ Active /\ Word.op = "include"
  /\ IF Word.n \notin DOMAIN Files THEN Error("not found")
     ELSE IF Len(lexers) > MAX_DEPTH THEN Error("too deep")
     ELSE lexers' = Append(Rest, Files[Word.n]) /\ UNCHANGED <<source, conds, macros, out, result>>

\* The value of formal k: what is given, the default, nothing if all were
\* given; None if there is none (expand).
Given(args, k) == IF k <= Len(args) THEN args[k] ELSE <<>>
FormalValue(m, args, k) ==
  CASE Given(args, k) # <<>> -> Given(args, k)
    [] m.params[k].default # None -> m.params[k].default
    [] Len(args) = Len(m.params) -> <<>>
    [] OTHER -> None
\* `M() of a macro without formals.
Arguments(m, args) == IF m.params = <<>> /\ args = <<<<>>>> THEN <<>> ELSE args

\* The body, all formals replaced at once (substitute).
Replaced(m, args, word) ==
  LET at == {k \in DOMAIN m.params : m.params[k].f = word.t}
  IN  IF word.op = "token" /\ at # {} THEN FormalValue(m, args, CHOOSE k \in at : TRUE) ELSE <<word>>
InText(m, args, text) == FlattenSeq([i \in DOMAIN text |-> Replaced(m, args, text[i])])
Substitute(m, args) ==
  FlattenSeq([i \in DOMAIN m.body |->
    LET word == m.body[i]
    IN  IF word.op = "use" /\ word.args # None
        THEN <<[word EXCEPT !.args = [j \in DOMAIN word.args |-> InText(m, args, word.args[j])]]>>
        ELSE Replaced(m, args, word)])

Expand ==
  /\ Active /\ Word.op = "use"
  /\ LET m == macros[Word.n]
         args == IF m = None THEN <<>> ELSE Arguments(m, Word.args)
     IN  CASE m = None -> Error("undefined")
           [] Len(lexers) > MAX_DEPTH -> Error("too deep")
           [] m.params # None /\ Word.args = None -> Error("arguments")
           [] m.params # None /\ Len(args) > Len(m.params) -> Error("arguments")
           [] m.params # None /\ \E k \in DOMAIN m.params : FormalValue(m, args, k) = None -> Error("no value")
           [] OTHER ->
                /\ lexers' = Append(Rest, IF m.params = None THEN m.body ELSE Substitute(m, args))
                /\ UNCHANGED <<source, conds, macros, out, result>>

\* The end of a text; of the last, the end of the file.
End ==
  /\ Here = <<>>
  /\ IF Len(lexers) > 1 THEN lexers' = Front(lexers) /\ UNCHANGED result
     ELSE result' = (IF conds = <<>> THEN "done" ELSE "no endif") /\ UNCHANGED lexers
  /\ UNCHANGED <<source, conds, macros, out>>

-----------------------------------------------------------------------------
Macros == {"A", "B", "M"}

Init ==
  /\ source \in Sources
  /\ lexers = <<source>> /\ conds = <<>> /\ out = <<>> /\ result = None
  /\ macros = [n \in Macros |-> None]

Next ==
  \/ result = None /\ End
  \/ /\ result = None /\ Here # <<>>
     /\ (Open \/ Branch \/ Close \/ Skip \/ Emit \/ Define \/ Include \/ Expand)

Spec == Init /\ [][Next]_pp

-----------------------------------------------------------------------------
(* The reference: a text is a tree of chains of branches, of which the     *)
(* first that holds is read, and a use of a macro is the text it stands    *)
(* for, read in its place.                                                 *)

\* Where the chain that opens at k has its branches and its end.
Depth(text, k) == Cardinality({i \in 1 .. k : text[i].op \in {"ifdef", "ifndef"}})
                    - Cardinality({i \in 1 .. k - 1 : text[i].op = "endif"})
Marks(text, k) ==
  LET end == CHOOSE e \in k .. Len(text) : /\ text[e].op = "endif" /\ Depth(text, e) = Depth(text, k)
                                           /\ \A j \in k .. e - 1 : text[j].op = "endif" => Depth(text, j) # Depth(text, k)
  IN  <<k>> \o SetToSortSeq({j \in k + 1 .. end : Depth(text, j) = Depth(text, k)
                                                    /\ text[j].op \in {"elsif", "else", "endif"}}, <)

Balanced(text) ==
  /\ \A k \in DOMAIN text : Depth(text, k) >= IF text[k].op \in {"elsif", "else", "endif"} THEN 1 ELSE 0
  /\ text # <<>> => LET n == Len(text) IN Depth(text, n) - (IF text[n].op = "endif" THEN 1 ELSE 0) = 0

\* The state <<out, defines, error>> after a text.
RECURSIVE Read(_, _, _)
Read(text, st, depth) ==
  LET w == text[1]
      rest == Tail(text)
      m == st[2][w.n]
      args == Arguments(m, w.args)
      marks == Marks(text, 1)
      holds(k) == CASE text[k].op = "else" -> TRUE
                    [] text[k].op = "ifndef" -> st[2][text[k].n] = None
                    [] OTHER -> st[2][text[k].n] # None
      which == {i \in 1 .. Len(marks) - 1 : holds(marks[i])}
      first == CHOOSE i \in which : \A j \in which : i <= j
      branch == IF which = {} THEN <<>> ELSE SubSeq(text, marks[first] + 1, marks[first + 1] - 1)
      after == SubSeq(text, Last(marks) + 1, Len(text))
  IN  CASE st[3] # None \/ text = <<>> -> st
        [] w.op = "token" -> Read(rest, <<Append(st[1], w.t), st[2], None>>, depth)
        [] w.op = "define" ->
             Read(rest, <<st[1], [st[2] EXCEPT ![w.n] = [params |-> w.params, body |-> w.body]], None>>, depth)
        [] w.op = "undef" -> Read(rest, <<st[1], [st[2] EXCEPT ![w.n] = None], None>>, depth)
        [] w.op \in {"ifdef", "ifndef"} -> Read(after, Read(branch, st, depth), depth)
        [] w.op = "include" ->
             IF w.n \notin DOMAIN Files THEN [st EXCEPT ![3] = "not found"]
             ELSE IF depth > MAX_DEPTH THEN [st EXCEPT ![3] = "too deep"]
             ELSE Read(rest, Read(Files[w.n], st, depth + 1), depth)
        [] w.op = "use" ->
             IF m = None THEN [st EXCEPT ![3] = "undefined"]
             ELSE IF depth > MAX_DEPTH THEN [st EXCEPT ![3] = "too deep"]
             ELSE IF m.params = None THEN Read(rest, Read(m.body, st, depth + 1), depth)
             ELSE IF w.args = None \/ Len(args) > Len(m.params) THEN [st EXCEPT ![3] = "arguments"]
             ELSE IF \E k \in DOMAIN m.params : FormalValue(m, args, k) = None THEN [st EXCEPT ![3] = "no value"]
             ELSE Read(rest, Read(Substitute(m, args), st, depth + 1), depth)

\* The whole of a file whose chains are closed is read as the tree it is,
\* macros and includes in their places; one whose chains are not is
\* rejected (pp.rs).
ReadAsNested ==
  result # None =>
    IF Balanced(source)
    THEN LET end == Read(source, <<<<>>, [n \in Macros |-> None], None>>, 1)
         IN  /\ out = end[1]
             /\ result = IF end[3] = None THEN "done" ELSE end[3]
    ELSE result \in {"no ifdef", "no endif"}
=============================================================================
