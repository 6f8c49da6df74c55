--------------------------------- MODULE Fusion ---------------------------------
(***************************************************************************)
(* The partition of the transitions into regions of kernels that run fused *)
(* (crates/topology_core/src/fusion.rs): the components of kernels that    *)
(* are chains of two or more.  A region has the sequence of its kernels,   *)
(* the slots it reads from and writes to the outside, and their locks; its *)
(* name is that sequence.  The layers it copies are left out.              *)
(***************************************************************************)
EXTENDS Naturals, SequencesExt, FiniteSetsExt, Reachability

(* Wrong: loses the links into the kernels.                                *)
ComponentAfter(n, arrows) == Reached({n}, arrows)

(* connected_components, along the arrows and against them.                *)
Component(n, arrows) == Reached({n}, arrows \cup Reversed(arrows))

Successors(n, arrows) == {a[2] : a \in {b \in arrows : b[1] = n}}

(* A node without a successor is the last one.  So is one with several, at *)
(* which topo_chain gives up: a linear component has none.                 *)
Extended(chain, arrows) ==
  LET next == Successors(chain[Len(chain)], arrows)
  IN  IF Cardinality(next) = 1 THEN Append(chain, CHOOSE m \in next : TRUE) ELSE chain

(* Follow the single successor; the cycle guard allows most steps.         *)
ChainFrom(n, arrows, most) ==
  LET walk[k \in 0 .. most] == IF k = 0 THEN <<n>> ELSE Extended(walk[k - 1], arrows)
  IN  walk[most]

IsLinear(C, arrows) ==
  \A n \in C : /\ Cardinality({m \in C : <<n, m>> \in arrows}) <= 1
               /\ Cardinality({m \in C : <<m, n>> \in arrows}) <= 1

Roots(C, arrows) == {n \in C : \A m \in C : <<m, n>> \notin arrows}

(* What is written inside and read inside is neither read nor written from *)
(* outside, whoever else reads it.                                         *)
Region(chain, effects) ==
  LET all(field) == UNION {effects[n][field] : n \in Range(chain)}
  IN  [nodes  |-> chain,
       reads  |-> all("reads") \ all("writes"),
       writes |-> all("writes") \ all("reads"),
       locks  |-> all("locks")]

(* topo_chain: from the only root through the whole component.             *)
Chains(kernels, arrows) ==
  LET linear == {C \in {Component(n, arrows) : n \in kernels} :
                   /\ Cardinality(C) >= 2
                   /\ IsLinear(C, arrows)
                   /\ Cardinality(Roots(C, arrows)) = 1}
      chain(C) == ChainFrom(CHOOSE n \in Roots(C, arrows) : TRUE, arrows, Cardinality(C))
  IN  {chain(C) : C \in {D \in linear : Len(chain(D)) = Cardinality(D)}}

FusionRegions(effects, transitions) ==
  LET kernels == DOMAIN effects
      arrows  == {a \in transitions : a[1] \in kernels /\ a[2] \in kernels}
  IN  {Region(chain, effects) : chain \in Chains(kernels, arrows)}

===============================================================================
