----------------------------- MODULE Subsequences -----------------------------
(***************************************************************************)
(* What a loop keeps of a sequence when it skips some of its positions:    *)
(* the filters of the streaming worker, of the par group step and of the   *)
(* exploration.  The library's SelectSeq is recursive; this one numbers    *)
(* the positions that are kept, so that proofs can reason about it.        *)
(***************************************************************************)
EXTENDS Naturals, Sequences, FiniteSets

(* The elements of us at the positions kept, in their order.               *)
Only(us, kept) ==
  [k \in 1 .. Cardinality(kept) |->
     us[CHOOSE i \in kept : Cardinality({j \in kept : j <= i}) = k]]
===============================================================================
