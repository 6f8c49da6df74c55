------------------------------ MODULE MCDecisions ------------------------------
(***************************************************************************)
(* An instance of Decisions for TLC: 0 starts, 3 halts.  Tensors are       *)
(* closed: 0 leads to 1 and 2, and 1 back to 0; in the second, 0 leads to  *)
(* 1 and 3, and the way to 3 has no safety.                                *)
(***************************************************************************)
EXTENDS Decisions, TLC

World(hops, unsafe) ==
  [sure |-> DOMAIN hops, safe |-> DOMAIN hops \ unsafe, hop |-> hops]
MCTensors ==
  {World(<<0, 1>> :> 1 @@ <<0, 2>> :> 2 @@ <<1, 0>> :> 0 @@ <<1, 2>> :> 0, {}),
   World(<<0, 1>> :> 1 @@ <<0, 3>> :> 3 @@ <<1, 0>> :> 0 @@ <<1, 3>> :> 0, {<<0, 3>>, <<1, 3>>})}

Member(n, r, k) == [node |-> n, region |-> r, dispatchable |-> k # "none", kind |-> k]

(* A group too small, one that may not be dispatched, one for the device   *)
(* alone, one that is shared with the host, and one that would halt.       *)
MCGroupTables ==
  {<<<<Member(1, 0, "hf_device")>>,
     <<Member(1, -1, "none"), Member(2, -1, "abstract_device")>>,
     <<Member(1, 0, "hf_device"), Member(2, -1, "abstract_device")>>>>,
   <<<<Member(0, -1, "abstract_device"), Member(3, -1, "abstract_device")>>,
     <<Member(1, 8, "host_fallback"), Member(2, -1, "abstract_device")>>>>}
MCHandled    == 0 .. 7
MCStrategies == <<1, 3>>

(* 2 may not be explored, 1 may although it holds the same lock.           *)
MCLocksOf   == [n \in Node |-> CASE n \in {1, 2} -> {"workspace"} [] n = 3 -> {"none"} [] OTHER -> {}]
MCLockRules == "workspace" :> [deny |-> TRUE, allow |-> {1}] @@ "diff" :> [deny |-> FALSE, allow |-> {}]

MCHotReceipts == {[src |-> 0, dst |-> 2, outcome |-> "safety"]}
MCJitEdges   == {<<2, 1>>}
===============================================================================
