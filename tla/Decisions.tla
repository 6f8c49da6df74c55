------------------------------- MODULE Decisions -------------------------------
(***************************************************************************)
(* Par groups and exploration on one world: both move the same frontier    *)
(* and consume the same edges, and the receipts of the one change what the *)
(* other finds in the tensor.                                              *)
(***************************************************************************)
EXTENDS ParGroups, Exploration

CONSTANT MaxTensorCalls \* bound: JIT scores embedded, decays

ASSUME DecisionsAssumption == MaxTensorCalls \in Nat

VARIABLE tensorCalls

dvars == <<worldVars, groupVars, exploreVars, tensorCalls>>

(* The host may take any of these steps, in any order.                     *)
GroupStep == (ParGroupStep \/ ExecuteMember) /\ UNCHANGED <<exploreVars, tensorCalls>>

ReceiptStep ==
  (DrainDeviceReceipts \/ DispatchRegion) /\ UNCHANGED <<groupVars, exploreVars, tensorCalls>>

TensorStep ==
  /\ tensorCalls < MaxTensorCalls
  /\ EmbedJitChainScores \/ Decay
  /\ tensorCalls' = tensorCalls + 1
  /\ UNCHANGED <<groupVars, exploreVars>>

ExploreStep ==
  /\ \/ SeedExploration \/ ExpandExploration \/ ExpandFails
     \/ ChooseCandidate \/ CommitFails \/ MarkCandidateCommitted
  /\ UNCHANGED <<groupVars, tensorCalls>>

CommitExplorationCandidate ==
  /\ stage = "chosen"
  /\ CommitKernel
  /\ stage' = "committed"
  /\ spent' = spent \cup {<<Start, c.firstHop>> : c \in holding}
  /\ UNCHANGED <<tensor, ring, groups, issued, todo, committed, lastGroup,
                 beam, engine, holding, rounds, faults, fresh, tensorCalls>>

DInit == WorldInit /\ GroupInit /\ ExploreInit /\ tensorCalls = 0

DNext == GroupStep \/ ReceiptStep \/ TensorStep \/ ExploreStep \/ CommitExplorationCandidate

DSpec == DInit /\ [][DNext]_dvars

DTypeOK == WorldTypeOK /\ GroupTypeOK /\ ExploreTypeOK /\ tensorCalls \in 0 .. MaxTensorCalls

(* The types of the three components, and visits below their caps.         *)
DInv == DTypeOK /\ VisitsCapped

===============================================================================
