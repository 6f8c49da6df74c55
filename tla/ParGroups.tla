------------------------------- MODULE ParGroups -------------------------------
(***************************************************************************)
(* The par group step on the device (cuda/quantale/12_par_group.cuh,       *)
(* src/tensor/par_group.rs and par_group_ops.rs): the first group all of   *)
(* whose members are ready is committed at once, the members the device    *)
(* can run are run in the same kernel, and the descriptors of the others   *)
(* go to the host, which runs them and pushes their receipts.              *)
(***************************************************************************)
EXTENDS DeviceWorld, Subsequences

CONSTANTS
  GroupTables, \* the tables ParGroupGpuData::build may have packed
  MaxGroup,    \* MAX_PAR_GROUP_SIZE
  RegionCount, \* region_count: hot regions and generated fusion regions
  Handled      \* the regions the compiled kernel has a case for

DispatchKinds == {"none", "hf_device", "host_fallback", "fusion_entry", "abstract_device"}

(* region -1 is a member without one.                                      *)
GroupMember == [node : Node, region : Int, dispatchable : BOOLEAN, kind : DispatchKinds]

ASSUME GroupAssumption ==
  /\ GroupTables \subseteq Seq(Seq(GroupMember))
  /\ MaxGroup \in Nat
  /\ RegionCount \in Nat
  /\ Handled \subseteq Nat

VARIABLES
  groups,   \* the packed table
  issued,   \* group steps that committed
  todo,     \* committed members left to the host
  committed, \* history: every member of every group that committed
  lastGroup, \* the edges the last par group step took
  spent     \* history: every edge that any decision took

groupVars == <<groups, issued, todo, committed, lastGroup, spent>>

-------------------------------------------------------------------------------
(* Phase 1: the first group that is ready.                                 *)

SizeFits(g) == Len(g) \in 2 .. MaxGroup

(* A member is ready when some edge leads to it; which of the candidates   *)
(* wins is left open, as the score is.                                     *)
MemberReady(m) ==
  /\ m.dispatchable
  /\ m.node # Halt
  /\ CandidatesFor(m.node) # {}

GroupReady(g) == SizeFits(g) /\ \A i \in DOMAIN g : MemberReady(g[i])

FirstReady(k) ==
  /\ k \in DOMAIN groups
  /\ GroupReady(groups[k])
  /\ \A j \in 1 .. k - 1 : ~GroupReady(groups[j])

(* The paths that recommend the members, one each.                         *)
PathChoices(g) ==
  {ps \in [DOMAIN g -> Pair] : \A i \in DOMAIN g : ps[i] \in CandidatesFor(g[i].node)}

-------------------------------------------------------------------------------
(* Phase 3: members run inside the kernel, if there is any region at all.  *)
(* A region id in range may still have no case in the kernel that was      *)
(* compiled.                                                               *)

RegionInRange(m) == m.region \in 0 .. RegionCount - 1

LeavesReceipt(m) ==
  /\ RegionCount > 0
  /\ \/ m.kind = "abstract_device"
     \/ RegionInRange(m) /\ m.region \in Handled

(* Wrong: a member whose region the kernel has no case for is marked too,  *)
(* as if its region had run.                                               *)
RunsOnDeviceInRange(m) == m.kind = "abstract_device" \/ RegionInRange(m)

(* dispatched_on_device, which tells the host to leave the member alone.   *)
RunsOnDevice(m) == LeavesReceipt(m)

(* The receipt of a member run in the kernel names the end of the path     *)
(* that recommended it, not the node that ran.                             *)
KernelReceipt(p, id) ==
  [src |-> p[1], dst |-> p[2], outcome |-> "success", member |-> id]

(* tensor_quantale_par_group_step with its wrapper.                        *)
ParGroupStep ==
  /\ \E k \in DOMAIN groups :
       /\ FirstReady(k)
       /\ \E g \in {groups[k]} : \E ps \in PathChoices(g) :
            LET Edge(i)  == <<ps[i][1], g[i].node>>
                Id(i)    == <<issued + 1, i>>
                members  == [i \in DOMAIN g |-> i]
                inKernel == Only(members, {i \in DOMAIN g : LeavesReceipt(g[i])})
            IN  /\ Take({Edge(i) : i \in DOMAIN g})
                /\ lastGroup' = {Edge(i) : i \in DOMAIN g}
                /\ spent' = spent \cup lastGroup'
                /\ Push([j \in DOMAIN inKernel |->
                           KernelReceipt(ps[inKernel[j]], Id(inKernel[j]))])
                /\ todo' = todo \cup
                     {[id |-> Id(i), src |-> ps[i][1], node |-> g[i].node] :
                        i \in {j \in DOMAIN g : ~RunsOnDevice(g[j])}}
                /\ committed' = committed \cup {Id(i) : i \in DOMAIN g}
  /\ issued' = issued + 1
  /\ UNCHANGED <<tensor, groups>>

(* The host runs a member that is left to it and pushes the receipt, which *)
(* names the edge of the descriptor.                                       *)
ExecuteMember ==
  /\ \E m \in todo, outcome \in ReceiptOutcomes :
       /\ Push(<<[src |-> m.src, dst |-> m.node, outcome |-> outcome, member |-> m.id]>>)
       /\ todo' = todo \ {m}
  /\ UNCHANGED <<tensor, frontier, groups, issued, committed, lastGroup, spent>>

GroupInit ==
  /\ groups \in GroupTables
  /\ issued = 0
  /\ todo = {}
  /\ committed = {}
  /\ lastGroup = {}
  /\ spent = {}

GroupTypeOK ==
  /\ groups \in GroupTables
  /\ issued \in Nat
  /\ todo \subseteq [id : Nat \X Nat, src : Node, node : Node]
  /\ committed \subseteq Nat \X Nat
  /\ lastGroup \subseteq spent
  /\ spent \subseteq Node \X Node

-------------------------------------------------------------------------------
(* Every member of every group that committed is run exactly once: its     *)
(* receipt comes from the kernel or from the host that still has it to do, *)
(* never from both and never from neither, and nothing else is run as a    *)
(* member (par_group_ops.rs:43).                                           *)
MemberRunsOnce ==
  /\ \A id \in committed :
       Cardinality({k \in DOMAIN log : log[k].member = id})
         + Cardinality({m \in todo : m.id = id}) = 1
  /\ \A k \in DOMAIN log : log[k].member \in committed \cup {NoMember}
  /\ \A m \in todo : m.id \in committed

(* A par group never takes an edge that a decision took before, be it an   *)
(* earlier group or the commit of an exploration in between.               *)
ParTakesUnspent ==
  [][issued' # issued => lastGroup' \cap spent = {}]_<<issued, lastGroup, spent>>
===============================================================================
