------------------------------ MODULE Elaborate ------------------------------
(***************************************************************************)
(* The modules of a Verilog design made into netlist modules, one for each *)
(* module and set of parameters, with their scopes and generate constructs *)
(* (crates/chipsmith-verilog/src/elab: mod.rs, items.rs, expr.rs).         *)
(*                                                                         *)
(* Sources: [module -> items].  An item is                                 *)
(*   [op |-> "param", n, e, local, header, width]   width 0: the value's   *)
(*   [op |-> "net", n]                                                     *)
(*   [op |-> "assign", lhs, path]     path: names, or [n, at] of a loop    *)
(*   [op |-> "inst", n, m, given]     given: [n, e], n None by position    *)
(*   [op |-> "defparam", inst, n, e]                                       *)
(*   [op |-> "if", c, then, els]      blocks [n, items]; els or n None     *)
(*   [op |-> "case", e, arms]         arms [keys, block], keys <<>> default*)
(*   [op |-> "for", n, from, below, block], [op |-> "block", block]        *)
(* An expression is [op |-> "k", k], [op |-> "p", n], or "add", "eq" and   *)
(* "below" of two.  Cells of a library are left out.                       *)
(***************************************************************************)
EXTENDS FiniteSets, Integers, Sequences, SequencesExt, TLC

CONSTANTS None, Designs

VARIABLES design, frames, out, result

elaboration == <<design, frames, out, result>>

Param(v) == [is |-> "param", v |-> v]
Var(path) == [is |-> "var", path |-> path]
Frame == Last(frames)

-----------------------------------------------------------------------------
(* Scopes: [parent, prefix, names, blocks, count], the module's the first. *)

NewScope(parent, prefix) == [parent |-> parent, prefix |-> prefix, names |-> <<>>, blocks |-> <<>>, count |-> 0]

\* Wrong on purpose: the first scope that has the name, whatever block asks.
LookupFirst(scopes, s, n) ==
  LET has == {k \in DOMAIN scopes : n \in DOMAIN scopes[k].names}
  IN  IF has = {} THEN None ELSE scopes[CHOOSE k \in has : \A j \in has : k <= j].names[n]

\* What a name is, here or in an enclosing scope.
RECURSIVE Lookup(_, _, _)
Lookup(scopes, s, n) ==
  CASE s = 0 -> None
    [] n \in DOMAIN scopes[s].names -> scopes[s].names[n]
    [] OTHER -> Lookup(scopes, scopes[s].parent, n)

\* The first block of a path is looked up through enclosing scopes, the
\* others inside it (resolve_hier).
RECURSIVE Block(_, _, _, _), ResolveHier(_, _, _, _)
Block(scopes, s, key, outward) ==
  CASE s = 0 -> 0
    [] key \in DOMAIN scopes[s].blocks -> scopes[s].blocks[key]
    [] OTHER -> IF outward THEN Block(scopes, scopes[s].parent, key, TRUE) ELSE 0
ResolveHier(scopes, s, path, first) ==
  LET b == Block(scopes, s, path[1], first)
  IN  CASE Len(path) = 1 -> IF path[1] \in DOMAIN scopes[s].names THEN scopes[s].names[path[1]] ELSE None
        [] b = 0 -> None
        [] OTHER -> ResolveHier(scopes, b, Tail(path), FALSE)
Resolve(scopes, s, path) ==
  IF Len(path) = 1 THEN Lookup(scopes, s, path[1]) ELSE ResolveHier(scopes, s, path, TRUE)

\* The value of a constant expression; None if it is not one.
RECURSIVE Eval(_, _, _)
Eval(e, scopes, s) ==
  LET sym == Lookup(scopes, s, e.n)
      a == Eval(e.a, scopes, s)
      b == Eval(e.b, scopes, s)
  IN  CASE e.op = "k" -> e.k
        [] e.op = "p" -> IF sym # None /\ sym.is = "param" THEN sym.v ELSE None
        [] None \in {a, b} -> None
        [] e.op = "add" -> a + b
        [] e.op = "eq" -> IF a = b THEN 1 ELSE 0
        [] e.op = "below" -> IF a < b THEN 1 ELSE 0

-----------------------------------------------------------------------------
(* The declarations of a scope, before anything in it is built.            *)

HasHeader(items) == \E k \in DOMAIN items : items[k].op = "param" /\ items[k].header
\* The parameters an instance may give, in order (overridable_params).
Formals(m) ==
  LET items == design.sources[m]
      open(p) == p.op = "param" /\ ~p.local /\ (p.header \/ ~HasHeader(items))
      some == SelectSeq(items, open)
  IN  [k \in DOMAIN some |-> some[k].n]

\* A value in the declared type (param_type).
Typed(p, v) == IF p.width = 0 THEN v ELSE v % 2^p.width

\* Adds a name; twice is an error, told by None (define).
Put(scopes, s, n, sym) ==
  IF scopes = None \/ sym = None \/ n \in DOMAIN scopes[s].names THEN None
  ELSE [scopes EXCEPT ![s].names = @ @@ (n :> sym)]

DeclareOne(scopes, s, item, frame) ==
  LET overridable == s = 1 /\ item.n \in Range(Formals(frame.m))
      v == IF overridable /\ item.n \in DOMAIN frame.given THEN frame.given[item.n] ELSE Eval(item.e, scopes, s)
  IN  CASE scopes = None -> None
        [] item.op = "param" -> Put(scopes, s, item.n, IF v = None THEN None ELSE Param(Typed(item, v)))
        [] item.op = "net" -> Put(scopes, s, item.n, Var(scopes[s].prefix \o <<item.n>>))
        [] OTHER -> scopes

\* An undeclared name on the left of an assignment is a net of this scope.
ImplicitOne(scopes, s, item) ==
  IF scopes = None \/ item.op # "assign" \/ Lookup(scopes, s, item.lhs) # None THEN scopes
  ELSE Put(scopes, s, item.lhs, Var(scopes[s].prefix \o <<item.lhs>>))

Declared(scopes, s, items, frame) ==
  FoldLeft(LAMBDA sc, item : ImplicitOne(sc, s, item),
           FoldLeft(LAMBDA sc, item : DeclareOne(sc, s, item, frame), scopes, items), items)

Defparams(scopes, s, items) ==
  LET some == SelectSeq(items, LAMBDA i : i.op = "defparam")
  IN  [k \in DOMAIN some |-> [inst |-> scopes[s].prefix \o <<some[k].inst>>, n |-> some[k].n,
                              v |-> Eval(some[k].e, scopes, s)]]

Work(items, s) == [k \in DOMAIN items |-> [item |-> items[k], s |-> s, n |-> 0]]

\* A module with the parameters it is given: its scope declared, its items
\* to be built (elaborate_module).
NewFrame(m, given) ==
  LET frame == [m |-> m, given |-> given]
      scopes == Declared(<<NewScope(0, <<>>)>>, 1, design.sources[m], frame)
  IN  IF scopes = None \/ DOMAIN given \ Range(Formals(m)) # {} THEN None
      ELSE [m |-> m, given |-> given, scopes |-> scopes, work |-> Work(design.sources[m], 1),
            defparams |-> Defparams(scopes, 1, design.sources[m]), refs |-> {}, insts |-> {}]

-----------------------------------------------------------------------------
(* Building: the item at the head of the work of the last frame.           *)

Error == result' = "error" /\ UNCHANGED <<design, frames, out>>
Continue(frame) ==
  IF frame = None THEN Error
  ELSE frames' = Append(Front(frames), frame) /\ UNCHANGED <<design, out, result>>
At(op) == Frame.work # <<>> /\ Frame.work[1].item.op = op
Todo == Frame.work[1]
Done == [Frame EXCEPT !.work = Tail(@)]

Declaration ==
  /\ At("param") \/ At("net") \/ At("defparam")
  /\ Continue(Done)

Assign ==
  /\ At("assign")
  /\ LET from == Resolve(Frame.scopes, Todo.s, Todo.item.path)
         to == Lookup(Frame.scopes, Todo.s, Todo.item.lhs)
     IN  Continue(IF from = None \/ to.is # "var" THEN None
                  ELSE [Done EXCEPT !.refs = @ \cup {<<to.path, IF from.is = "param" THEN <<None, from.v>> ELSE from.path>>}])

\* A block in a new scope, found in the scope of its construct (gen_block).
Enter(frame, block, s, owner, n, index, rest) ==
  LET name == (IF block.n = None THEN <<"genblk", n>> ELSE <<block.n>>) \o index
      inner == Len(frame.scopes) + 1
      opened == Append([frame.scopes EXCEPT ![owner].blocks = (name :> inner) @@ @],
                       NewScope(s, frame.scopes[s].prefix \o <<name>>))
      scopes == Declared(opened, inner, block.items, frame)
  IN  IF scopes = None THEN None
      ELSE [frame EXCEPT !.scopes = scopes, !.defparams = @ \o Defparams(scopes, inner, block.items),
                         !.work = Work(block.items, inner) \o rest]

\* Every construct of a scope has a number, a chain of `else if` one.
Number == IF Todo.n # 0 THEN Todo.n ELSE Frame.scopes[Todo.s].count + 1
Counted == [Done EXCEPT !.scopes[Todo.s].count = IF Todo.n # 0 THEN @ ELSE @ + 1]

\* The side of an if that holds: a nested construct alone belongs to it.
Chosen(block) ==
  IF block = None THEN Counted
  ELSE IF block.n = None /\ Len(block.items) = 1 /\ block.items[1].op \in {"if", "case"}
  THEN [Counted EXCEPT !.work = <<[item |-> block.items[1], s |-> Todo.s, n |-> Number]>> \o @]
  ELSE Enter(Counted, block, Todo.s, Todo.s, Number, <<>>, Done.work)

GenIf ==
  /\ At("if")
  /\ LET c == Eval(Todo.item.c, Frame.scopes, Todo.s)
     IN  Continue(IF c = None THEN None ELSE Chosen(IF c # 0 THEN Todo.item.then ELSE Todo.item.els))

GenCase ==
  /\ At("case")
  /\ LET of(e) == Eval(e, Frame.scopes, Todo.s)
         arms == Todo.item.arms
         hit == {k \in DOMAIN arms : of(Todo.item.e) \in {of(arms[k].keys[j]) : j \in DOMAIN arms[k].keys}}
         default == {k \in DOMAIN arms : arms[k].keys = <<>>}
         set == IF hit # {} THEN hit ELSE default
         arm == arms[CHOOSE k \in set : \A j \in set : k <= j]
     IN  Continue(IF of(Todo.item.e) = None THEN None
                  ELSE IF set = {} THEN Counted
                  ELSE Enter(Counted, arm.block, Todo.s, Todo.s, Number, <<>>, Done.work))

GenBlock == At("block") /\ Continue(Enter(Counted, Todo.item.block, Todo.s, Todo.s, Number, <<>>, Done.work))

\* A loop has a scope that holds its genvar; its blocks are found in the
\* scope around it.
GenFor ==
  /\ At("for")
  /\ LET s == Len(Frame.scopes) + 1
         from == Eval(Todo.item.from, Frame.scopes, Todo.s)
         turn == [item |-> [Todo.item EXCEPT !.op = "turn"], s |-> s, n |-> Number, i |-> from]
     IN  Continue(IF from = None THEN None
                  ELSE [Counted EXCEPT !.scopes = Append(@, NewScope(Todo.s, Frame.scopes[Todo.s].prefix)),
                                       !.work = <<turn>> \o @])

Turn ==
  /\ At("turn")
  /\ LET scopes == [Frame.scopes EXCEPT ![Todo.s].names = Todo.item.n :> Param(Todo.i)]
         bound == Eval(Todo.item.below, scopes, Todo.s)
     IN  Continue(CASE bound = None -> None
                    [] Todo.i >= bound -> [Done EXCEPT !.scopes = scopes]
                    [] OTHER -> Enter([Frame EXCEPT !.scopes = scopes], Todo.item.block, Todo.s,
                                      scopes[Todo.s].parent, Todo.n, <<Todo.i>>,
                                      <<[Todo EXCEPT !.i = @ + 1]>> \o Done.work))

-----------------------------------------------------------------------------
(* Instances.                                                              *)

\* What an instance gives: by position or name, defparams last.
Positional(given, k) == Cardinality({j \in 1 .. k : given[j].n = None})
FormalOf(item, k) ==
  IF item.given[k].n # None THEN item.given[k].n
  ELSE IF Positional(item.given, k) <= Len(Formals(item.m)) THEN Formals(item.m)[Positional(item.given, k)] ELSE None
ByDefparam(path, p) == {k \in DOMAIN Frame.defparams : Frame.defparams[k].inst = path /\ Frame.defparams[k].n = p}
ByGiven(item, p) == {k \in DOMAIN item.given : FormalOf(item, k) = p}
Latest(set) == CHOOSE k \in set : \A j \in set : j <= k
Given(item, s, path) ==
  [p \in {p \in Range(Formals(item.m)) : ByDefparam(path, p) # {} \/ ByGiven(item, p) # {}} |->
     IF ByDefparam(path, p) # {} THEN Frame.defparams[Latest(ByDefparam(path, p))].v
     ELSE Eval(item.given[Latest(ByGiven(item, p))].e, Frame.scopes, s)]
BadGiven(item, s, path) ==
  \/ \E k \in DOMAIN item.given : \/ FormalOf(item, k) \notin Range(Formals(item.m))
                                  \/ Eval(item.given[k].e, Frame.scopes, s) = None
  \/ \E k \in DOMAIN Frame.defparams : Frame.defparams[k].inst = path /\ Frame.defparams[k].n \notin Range(Formals(item.m))

\* A netlist module for each module and set of parameters.
Key(m, given) == <<m, given>>

Instance ==
  /\ At("inst")
  /\ LET item == Todo.item
         path == Frame.scopes[Todo.s].prefix \o <<item.n>>
         given == Given(item, Todo.s, path)
         key == Key(item.m, given)
         mine == [Done EXCEPT !.insts = @ \cup {<<path, key>>}]
     IN  CASE item.m \notin DOMAIN design.sources -> Error
           [] BadGiven(item, Todo.s, path) -> Error
           [] key \in DOMAIN out -> Continue(mine)
           [] item.m \in {frames[k].m : k \in DOMAIN frames} -> Error
           [] NewFrame(item.m, given) = None -> Error
           [] OTHER -> /\ frames' = Front(frames) \o <<mine, NewFrame(item.m, given)>>
                       /\ UNCHANGED <<design, out, result>>

Finish ==
  /\ Frame.work = <<>>
  /\ out' = out @@ (Key(Frame.m, Frame.given) :>
                      [m |-> Frame.m, given |-> Frame.given, refs |-> Frame.refs, insts |-> Frame.insts,
                       params |-> [p \in Range(Formals(Frame.m)) |-> Frame.scopes[1].names[p].v]])
  /\ frames' = Front(frames)
  /\ result' = IF Len(frames) = 1 THEN "done" ELSE None
  /\ UNCHANGED design

Init ==
  /\ design \in Designs
  /\ frames = IF NewFrame(design.top, <<>>) = None THEN <<>> ELSE <<NewFrame(design.top, <<>>)>>
  /\ out = <<>>
  /\ result = IF frames = <<>> THEN "error" ELSE None

Next ==
  /\ result = None
  /\ \/ Declaration \/ Assign \/ GenIf \/ GenCase \/ GenBlock \/ GenFor \/ Turn
     \/ Instance \/ Finish

Spec == Init /\ [][Next]_elaboration

-----------------------------------------------------------------------------
(* The reference: every instance elaborated for itself.  A module with the *)
(* values of its parameters is flattened into the set of its blocks,       *)
(*   [path, decls, assigns, insts]                                         *)
(* a name meaning the declaration of the innermost block around it.        *)

With(env, n, v) == (n :> v) @@ env
RECURSIVE Val(_, _)
Val(e, env) ==
  CASE e.op = "k" -> e.k [] e.op = "p" -> env[e.n] [] e.op = "add" -> Val(e.a, env) + Val(e.b, env)
    [] e.op = "eq" -> IF Val(e.a, env) = Val(e.b, env) THEN 1 ELSE 0
    [] e.op = "below" -> IF Val(e.a, env) < Val(e.b, env) THEN 1 ELSE 0
EnvOf(items, env, given) ==
  FoldLeft(LAMBDA acc, i : IF i.op # "param" THEN acc
                           ELSE With(acc, i.n, Typed(i, IF i.n \in DOMAIN given THEN given[i.n] ELSE Val(i.e, acc))),
           env, items)
Constructs == {"if", "case", "for", "block"}
NumberOf(items, k) == Cardinality({j \in 1 .. k : items[j].op \in Constructs})
BlockName(b, n) == IF b.n = None THEN <<"genblk", n>> ELSE <<b.n>>

RECURSIVE Blocks(_, _, _, _), Inside(_, _, _, _)
\* The blocks of construct i, number n, of the block at path.
Inside(i, n, path, env) ==
  LET block(b, index, e) == Blocks(b.items, path \o <<BlockName(b, n) \o index>>, e, <<>>)
      side == IF Val(i.c, env) # 0 THEN i.then ELSE i.els
      hits == {k \in DOMAIN i.arms : \E j \in DOMAIN i.arms[k].keys : Val(i.arms[k].keys[j], env) = Val(i.e, env)}
      arms == IF hits # {} THEN hits ELSE {k \in DOMAIN i.arms : i.arms[k].keys = <<>>}
  IN  CASE i.op = "block" -> block(i.block, <<>>, env)
        [] i.op = "for" -> UNION {block(i.block, <<v>>, With(env, i.n, v)) : v \in Val(i.from, env) .. Val(i.below, env) - 1}
        [] i.op = "case" -> IF arms = {} THEN {}
                            ELSE block(i.arms[CHOOSE k \in arms : \A j \in arms : k <= j].block, <<>>, env)
        [] side = None -> {}
        [] side.n = None /\ Len(side.items) = 1 /\ side.items[1].op \in {"if", "case"} ->
             Inside(side.items[1], n, path, env)
        [] OTHER -> block(side, <<>>, env)
Blocks(items, path, env, given) ==
  LET inner == EnvOf(items, env, given)
      of(op) == {items[k] : k \in {j \in DOMAIN items : items[j].op = op}}
  IN  {[path |-> path, env |-> inner, assigns |-> of("assign"), insts |-> of("inst"), defparams |-> of("defparam"),
        names |-> {i.n : i \in of("net") \cup of("param")}]}
        \cup UNION {Inside(items[k], NumberOf(items, k), path, inner) : k \in {j \in DOMAIN items : items[j].op \in Constructs}}

\* A net that is assigned and declared in no block around is of its block.
Around(blocks, path) == {b \in blocks : IsPrefix(b.path, path)}
Names(blocks, b) ==
  b.names \cup {a.lhs : a \in {a \in b.assigns : \A o \in Around(blocks, b.path) \ {b} :
                                 a.lhs \notin o.names \cup {x.lhs : x \in o.assigns}}}
Innermost(set) == CHOOSE b \in set : \A c \in set : Len(c.path) <= Len(b.path)
HomeOf(blocks, path, n) == LET set == {b \in Around(blocks, path) : n \in Names(blocks, b)}
                           IN  IF set = {} THEN None ELSE Innermost(set)
\* Where the first block of a path is, the rest follow inside it.
Holder(blocks, path, n) ==
  LET set == {b \in Around(blocks, path) : \E c \in blocks : c.path = b.path \o <<n>>}
  IN  IF set = {} THEN None ELSE Innermost(set)
Target(blocks, b, path) ==
  LET n == Last(path)
      home == IF Len(path) = 1 THEN HomeOf(blocks, b.path, n)
              ELSE LET h == Holder(blocks, b.path, path[1])
                       set == {c \in blocks : h # None /\ c.path = h.path \o Front(path) /\ n \in Names(blocks, c)}
                   IN  IF set = {} THEN None ELSE CHOOSE c \in set : TRUE
  IN  CASE home = None /\ Len(path) = 1 /\ n \in DOMAIN b.env -> <<None, b.env[n]>>   \* a genvar
        [] home = None -> None
        [] n \in DOMAIN home.env /\ n \notin {a.lhs : a \in home.assigns} -> <<None, home.env[n]>>
        [] OTHER -> home.path \o <<n>>

Flat(m, given) == Blocks(design.sources[m], <<>>, <<>>, given)
References(m, given) ==
  LET blocks == Flat(m, given)
  IN  UNION {{<<HomeOf(blocks, b.path, a.lhs).path \o <<a.lhs>>, Target(blocks, b, a.path)>> : a \in b.assigns} : b \in blocks}

\* The parameters the instance at a path gets: what it is given, as its
\* own block sees it, or a defparam that names it.
GivenTo(blocks, b, i) ==
  LET named(k) == IF i.given[k].n # None THEN i.given[k].n
                  ELSE Formals(i.m)[Cardinality({j \in 1 .. k : i.given[j].n = None})]
      defs(p) == {d \in UNION {{[v |-> Val(d.e, o.env), n |-> d.n, path |-> o.path \o <<d.inst>>] : d \in o.defparams} : o \in blocks} :
                    d.n = p /\ d.path = b.path \o <<i.n>>}
      given == {named(k) : k \in DOMAIN i.given} \cup {p \in Range(Formals(i.m)) : defs(p) # {}}
  IN  [p \in given |-> IF defs(p) # {} THEN (CHOOSE d \in defs(p) : TRUE).v
                       ELSE Val(i.given[CHOOSE k \in DOMAIN i.given : named(k) = p].e, b.env)]
Subs(m, given) ==
  LET blocks == Flat(m, given)
  IN  UNION {{<<b.path \o <<i.n>>, i.m, GivenTo(blocks, b, i)>> : i \in b.insts} : b \in blocks}

\* Every instance reaches a netlist module that was made with the values
\* its own parameters have where it stands, shared or not, and holds the
\* instances it should (mod.rs: one per module and parameter set).
RECURSIVE Right(_, _, _)
Right(key, m, given) ==
  /\ key \in DOMAIN out
  /\ LET env == EnvOf(design.sources[m], <<>>, given)
     IN  out[key].params = [p \in Range(Formals(m)) |-> env[p]]
  /\ {i[1] : i \in out[key].insts} = {s[1] : s \in Subs(m, given)}
  /\ \A s \in Subs(m, given) : \A i \in out[key].insts : i[1] = s[1] => Right(i[2], s[2], s[3])
SharedAsIfOwn == result = "done" => Right(Key(design.top, <<>>), design.top, <<>>)

\* A name means the declaration of the innermost scope around it, a block
\* of a loop the one with that index, whatever was elaborated before.
NamesAreLexical ==
  \A key \in DOMAIN out : out[key].refs = References(out[key].m, out[key].given)
=============================================================================
