---------------------------- MODULE MCOrchestrator ----------------------------
(***************************************************************************)
(* Instances of Orchestrator for TLC.  All of them share six nodes: 0      *)
(* starts, 1 to 3 are external operators of which 1 and 2 conflict, 4      *)
(* halts and 5 runs on the device.                                         *)
(***************************************************************************)
EXTENDS Orchestrator

Edge(op, lhs, rhs, order, bound) ==
  [op |-> op, lhs |-> lhs, rhs |-> rhs, order |-> order, bound |-> bound]

(* The tables of at most n entries out of S.                               *)
TablesOf(S, n) == UNION {[1 .. k -> S] : k \in 0 .. n}

MCNode     == 0 .. 5
MCExternal == 1 .. 3
MCKind     == [n \in MCNode |-> IF n \in MCExternal THEN "external" ELSE "device"]
MCWrites   == [n \in MCNode |-> IF n = 1 THEN {"store"} ELSE {}]
MCReads    == [n \in MCNode |-> IF n = 2 THEN {"store"} ELSE {}]

(* Closed paths 0 -> 1 -> 3 and 0 -> 2, the hop of <<0, 3>> being 1.       *)
MCHop ==
  [p \in {<<0, 1>>, <<0, 2>>, <<0, 3>>, <<1, 3>>} |->
     IF p = <<0, 3>> THEN 1 ELSE p[2]]

(* One-shot control flow: SEQ, CHOICE, PAR and HALT edges.                 *)
OneShotPool ==
  {Edge(op, 0, n, 0, 0) : op \in {"choice", "par"}, n \in MCExternal}
  \cup {Edge("seq", 0, 1, 1, 0), Edge("seq", 0, 2, 0, 0), Edge("seq", 1, 2, 0, 0),
        Edge("par", 2, 3, 0, 0), Edge("par", 1, 3, 0, 0), Edge("par", 0, 5, 0, 0),
        Edge("seq", 2, 4, 0, 0), Edge("seq", 5, 0, 0, 0), Edge("halt", 3, 3, 0, 0)}
OneShotTables == TablesOf(OneShotPool, 3)

(* Loops: STAR edges, with ways in and out, over a graph with a cycle.  5  *)
(* is reentrant, 3 has no dispatch kind, 4 is unsupported and 6 halts.     *)
(* The empty table leaves everything to the singleton scheduler.  There is *)
(* one star counter: a STAR edge in second place has none.                 *)
LoopPool ==
  {Edge("star", 1, 5, 0, 2), Edge("star", 1, 0, 1, 1), Edge("star", 5, 1, 0, 0),
   Edge("seq", 0, 1, 0, 0), Edge("seq", 5, 1, 0, 0), Edge("choice", 1, 6, 0, 0),
   Edge("par", 1, 3, 0, 0)}
LoopTables == TablesOf(LoopPool, 2)
LoopNode == 0 .. 6
LoopKind ==
  [n \in LoopNode |-> CASE n \in {1, 2} -> "external"
                       [] n = 3 -> "none"
                       [] n = 4 -> "unsupported"
                       [] OTHER -> "device"]
LoopHop ==
  [p \in {<<0, 1>>, <<0, 2>>, <<1, 0>>, <<2, 6>>, <<1, 4>>, <<0, 6>>, <<2, 3>>, <<2, 5>>} |->
     IF p = <<0, 6>> THEN 2 ELSE p[2]]
LoopWrites == [n \in LoopNode |-> {}]
LoopEvents == {3}
LoopDeltas == {<<1, 2>>, <<0, 6>>}

(* Tables on which the code departs from what is said of it.               *)
StarWithExit ==
  {<<Edge("seq", 0, 1, 0, 0), Edge("star", 1, 5, 0, 1), Edge("seq", 5, 1, 0, 0),
     Edge("choice", 1, 4, 0, 0)>>}
(* A STAR whose body is the single external node 1.                        *)
SelfLoopTables ==
  {<<Edge("seq", 0, 1, 0, 0), Edge("star", 1, 1, 0, b)>> : b \in {0, 2}}
===============================================================================
