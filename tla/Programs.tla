-------------------------------- MODULE Programs --------------------------------
(***************************************************************************)
(* The compiler of CKA expressions into edges and parallel groups          *)
(* (crates/topology_core/src/programs.rs; src/pattern.rs compiles patterns *)
(* the same way).  An expression that is not Accepted is an error, and so  *)
(* is the whole list of programs it is part of.                            *)
(*                                                                         *)
(* Endpoints and edges are sets here, lists with repetitions in the code,  *)
(* which drops repeated transitions itself and joins repeated tensor       *)
(* edges.                                                                  *)
(***************************************************************************)
EXTENDS Cka

NoPoints      == [starts |-> {}, ends |-> {}, edges |-> {}, groups |-> {}]
PointOf(name) == [starts |-> {name}, ends |-> {name}, edges |-> {}, groups |-> {}]

(* Wrong: an empty element leaves no end for the next one to follow.       *)
FollowedByLosing(first, next) ==
  [starts |-> IF first.starts = {} THEN next.starts ELSE first.starts,
   ends   |-> next.ends,
   edges  |-> first.edges \cup next.edges \cup (first.ends \X next.starts),
   groups |-> first.groups \cup next.groups]

FollowedBy(first, next) ==
  [starts |-> IF first.starts = {} THEN next.starts ELSE first.starts,
   ends   |-> IF next.ends = {} THEN first.ends ELSE next.ends,
   edges  |-> first.edges \cup next.edges \cup (first.ends \X next.starts),
   groups |-> first.groups \cup next.groups]

(* compile_seq, one element after the others.                              *)
InSequence(parts) ==
  LET upto[k \in 0 .. Len(parts)] == IF k = 0 THEN NoPoints ELSE FollowedBy(upto[k - 1], parts[k])
  IN  upto[Len(parts)]

Beside(parts) ==
  [starts |-> UNION {parts[i].starts : i \in DOMAIN parts},
   ends   |-> UNION {parts[i].ends : i \in DOMAIN parts},
   edges  |-> UNION {parts[i].edges : i \in DOMAIN parts},
   groups |-> UNION {parts[i].groups : i \in DOMAIN parts}]

Grouped(points) ==
  IF points.starts = {} THEN points
  ELSE [points EXCEPT !.groups = @ \cup {points.starts}]

Compiled[e \in Expr] ==
  LET parts == [i \in DOMAIN e.items |-> Compiled[e.items[i]]]
  IN  CASE e.form = "seq"    -> InSequence(parts)
        [] e.form = "choice" -> Beside(parts)
        [] e.form = "par"    -> Grouped(Beside(parts))
        [] e.form = "star"   -> InSequence([k \in 1 .. e.max_unroll |-> Compiled[e.body]])
        [] IsNode(e)         -> PointOf(e.name)
        [] OTHER             -> NoPoints

===============================================================================
