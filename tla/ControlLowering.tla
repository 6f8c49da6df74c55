---------------------------- MODULE ControlLowering ----------------------------
(***************************************************************************)
(* The lowering of patterns to the scheduler's control table               *)
(* (src/control_flow_lowering.rs).  It knows "one" and "zero" by these     *)
(* names only, and takes the other spellings for nodes.                    *)
(***************************************************************************)
EXTENDS Cka

ControlEdge(op, lhs, rhs, order, bound) ==
  [op |-> op, lhs |-> lhs, rhs |-> rhs, order |-> order, bound |-> bound]

Cross(op, lefts, rights, order, bound) ==
  FlattenSeq([i \in DOMAIN lefts |->
    [j \in DOMAIN rights |-> ControlEdge(op, lefts[i], rights[j], order, bound)]])

(* Without the elements whose key is that of the element before.           *)
Dedup(s, key) == Only(s, {i \in DOMAIN s : i = 1 \/ key[i] # key[i - 1]})

Lowered(edges, entries, exits) ==
  [edges |-> edges, entries |-> entries, exits |-> exits]

EdgesOf(parts)   == FlattenSeq([i \in DOMAIN parts |-> parts[i].edges])
EntriesOf(parts) == FlattenSeq([i \in DOMAIN parts |-> parts[i].entries])
ExitsOf(parts)   == FlattenSeq([i \in DOMAIN parts |-> parts[i].exits])

(* Wrong: every element leads to the last one.                             *)
LowerSeqToLast(parts) ==
  IF parts = <<>> THEN Lowered(<<>>, <<>>, <<>>)
  ELSE Lowered(
         EdgesOf(parts) \o
           FlattenSeq([i \in 1 .. Len(parts) - 1 |->
             Cross("seq", parts[i].exits, parts[Len(parts)].entries, i - 1, 0)]),
         Head(parts).entries, Last(parts).exits)

LowerSeq(parts) ==
  IF parts = <<>> THEN Lowered(<<>>, <<>>, <<>>)
  ELSE Lowered(
         EdgesOf(parts) \o
           FlattenSeq([i \in 1 .. Len(parts) - 1 |->
             Cross("seq", parts[i].exits, parts[i + 1].entries, i - 1, 0)]),
         Head(parts).entries, Last(parts).exits)

(* The edges between the entries of two branches; a PAR has them both ways.*)
Link(op, lefts, rights) ==
  IF op = "choice" THEN Cross("choice", lefts, rights, 0, 0)
  ELSE FlattenSeq([i \in DOMAIN lefts |-> FlattenSeq([j \in DOMAIN rights |->
         <<ControlEdge("par", lefts[i], rights[j], 0, 0),
           ControlEdge("par", rights[j], lefts[i], 0, 0)>>])])

(* lower_par and lower_choice: every pair of branches is linked.           *)
LowerBranches(op, parts) ==
  Lowered(
    EdgesOf(parts) \o
      FlattenSeq([i \in DOMAIN parts |-> FlattenSeq([d \in 1 .. Len(parts) - i |->
        Link(op, parts[i].entries, parts[i + d].entries)])]),
    Dedup(EntriesOf(parts), EntriesOf(parts)),
    Dedup(ExitsOf(parts), ExitsOf(parts)))

LowerStar(part, bound) ==
  [part EXCEPT !.edges = @ \o Cross("star", part.exits, part.entries, 0, bound)]

Lower[e \in Expr] ==
  LET parts == [i \in DOMAIN e.items |-> Lower[e.items[i]]]
  IN  CASE e.form = "seq"    -> LowerSeq(parts)
        [] e.form = "choice" -> LowerBranches("choice", parts)
        [] e.form = "par"    -> LowerBranches("par", parts)
        [] e.form = "star"   -> LowerStar(Lower[e.body], e.max_unroll)
        [] e = Name("one")   -> Lowered(<<>>, <<>>, <<>>)
        [] e = Name("zero")  ->
             Lowered(<<ControlEdge("halt", "none", "none", 0, 0)>>, <<>>, <<>>)
        [] OTHER             -> Lowered(<<>>, <<e.name>>, <<e.name>>)

(* No error: all of the names but two are nodes.                           *)
Lowerable(e, known) ==
  \A p \in Within[e] : p.form = "name" => p.name \in known \cup {"one", "zero"}

(* The control table of a list of patterns.                                *)
ControlTable(patterns) ==
  LET edges == EdgesOf([i \in DOMAIN patterns |-> Lower[patterns[i]]])
  IN  Dedup(edges, [i \in DOMAIN edges |-> <<edges[i].op, edges[i].lhs, edges[i].rhs>>])

===============================================================================
