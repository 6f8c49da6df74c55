------------------------------ MODULE Reachability ------------------------------
(***************************************************************************)
(* What paths over a set of arcs reach: the breadth-first searches of the  *)
(* topology checker (crates/topology_core/src/check.rs) and of the fusion  *)
(* partition (fusion.rs).  An arc is a pair of nodes.                      *)
(***************************************************************************)
EXTENDS Integers, FiniteSets

Onward(T, G) == T \cup {a[2] : a \in {b \in G : b[1] \in T}}

(* Paths over G that start in S get to their ends within as many rounds as *)
(* there are arcs.                                                         *)
Reached(S, G) ==
  LET within[k \in 0 .. Cardinality(G)] ==
        IF k = 0 THEN S ELSE UNION {Onward(T, G) : T \in {within[k - 1]}}
  IN  within[Cardinality(G)]

Reversed(G) == {<<a[2], a[1]>> : a \in G}

===============================================================================
