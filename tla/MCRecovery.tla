------------------------------ MODULE MCRecovery ------------------------------
(***************************************************************************)
(* Instances of Recovery for TLC, on the nodes of MCOrchestrator.          *)
(***************************************************************************)
EXTENDS Recovery

Edge(op, lhs, rhs, order, bound) ==
  [op |-> op, lhs |-> lhs, rhs |-> rhs, order |-> order, bound |-> bound]

MCNode   == 0 .. 4
MCKind   == [n \in MCNode |-> IF n \in 1 .. 3 THEN "external" ELSE "device"]
MCNone   == [n \in MCNode |-> {}]
MCHop    == [p \in {<<0, 1>>, <<1, 2>>, <<0, 2>>} |-> IF p = <<0, 2>> THEN 1 ELSE p[2]]

(* Externals in sequence, in parallel, in a loop; a node in a loop; a halt. *)
MCTables ==
  {<<Edge("seq", 0, 1, 0, 0), Edge("seq", 1, 2, 0, 0)>>,
   <<Edge("par", 0, 1, 0, 0), Edge("par", 0, 3, 0, 0), Edge("seq", 1, 2, 0, 0)>>,
   <<Edge("star", 0, 1, 0, 1), Edge("star", 1, 0, 0, 2)>>,
   <<Edge("star", 0, 0, 0, 2)>>,
   <<Edge("choice", 0, 4, 0, 0)>>,
   <<>>}
MCBudgets == {-1, 1}
===============================================================================
