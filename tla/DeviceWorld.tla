------------------------------ MODULE DeviceWorld ------------------------------
(***************************************************************************)
(* The part of a TensorQuantaleWorld that the decision kernels share: the  *)
(* closed tensor, the frontier with its consumed edges, and the ring of    *)
(* device receipts whose drain reinforces the tensor                       *)
(* (cuda/quantale/01, 03, 05 and 11; src/tensor/hot_dispatch.rs).  The     *)
(* kernels are launched by one host thread and each is one atomic step.    *)
(*                                                                         *)
(* Of a tensor entry only this is kept: whether its confidence and whether *)
(* its safety is above BOTTOM.  Whatever lifts one of them from bottom     *)
(* leaves a finite cost, and nothing makes a finite cost infinite.  The    *)
(* diagonal is the unit.                                                   *)
(*                                                                         *)
(* The ring is kept as the log of all that was ever pushed: a slot holds   *)
(* the last receipt whose position falls on it.                            *)
(***************************************************************************)
EXTENDS Integers, Sequences, FiniteSets

CONSTANTS
  N,           \* number of nodes
  Start, Halt, \* START_NODE, HALT_NODE
  Tensors,     \* closed tensors: pairs sure and safe, hop of the sure ones
  ReceiptSlots, \* DEVICE_RECEIPT_RING_SIZE
  HotReceipts, \* bound: what receipts outside any group say
  JitEdges,    \* bound: edges that JIT chains score
  MaxReceipts  \* bound: receipts pushed

Node == 0 .. N - 1
Pair == {p \in Node \X Node : p[1] # p[2]}

ReceiptOutcomes == {"success", "failure", "timeout", "safety"}

ASSUME WorldAssumption ==
  /\ N \in Nat \ {0}
  /\ Start \in Node
  /\ Halt \in Node
  /\ \A t \in Tensors : /\ t.sure \subseteq Pair
                        /\ t.safe \subseteq Pair
                        /\ t.hop \in [t.sure -> Node]
  /\ ReceiptSlots \in Nat \ {0}
  /\ HotReceipts \subseteq [src : Node, dst : Node, outcome : ReceiptOutcomes]
  /\ JitEdges \subseteq Pair
  /\ MaxReceipts \in Nat

VARIABLES
  sure,     \* pairs whose confidence is above BOTTOM
  safe,     \* pairs whose safety is above BOTTOM
  hop,      \* the confidence witness of the pairs that have one
  active,   \* the frontier
  consumed, \* edges <<src, hop>> already taken
  log,      \* every receipt pushed; ring_tail is its length
  head,     \* ring_head
  applied,  \* history: how often each receipt of log was applied
  lapped    \* history: the producer has overtaken the consumer

tensor    == <<sure, safe, hop>>
frontier  == <<active, consumed>>
ring      == <<log, head, applied, lapped>>
worldVars == <<tensor, frontier, ring>>

NoMember == <<0, 0>>
DeviceReceipt ==
  [src : Node, dst : Node, outcome : ReceiptOutcomes \cup {"drained"}, member : Nat \X Nat]

-------------------------------------------------------------------------------
(* What the two kinds of decision read.                                    *)

(* Both at once, as projection and the par group step ask for.             *)
Live(p) == p \in sure /\ p \in safe

(* One of them is enough for exploration; the diagonal has both.           *)
Open(p) == p[1] = p[2] \/ p \in sure \/ p \in safe

(* The edges that could be taken towards a given first hop, each with the  *)
(* end of the path that recommends it.                                     *)
CandidatesFor(h) ==
  {p \in sure \cap DOMAIN hop :
     /\ p[1] \in active
     /\ Live(p)
     /\ hop[p] = h
     /\ <<p[1], h>> \notin consumed}

(* Wrong: the edges taken are not marked.                                  *)
TakeUnmarked(edges) ==
  /\ consumed' = consumed
  /\ active' = {e[2] : e \in edges}

(* The edges are consumed and their ends are the new frontier.             *)
Take(edges) ==
  /\ consumed' = consumed \cup edges
  /\ active' = {e[2] : e \in edges}

-------------------------------------------------------------------------------
(* The ring of device receipts.                                            *)

(* Receipts are written at the tail, full ring or not.                     *)
Push(rs) ==
  /\ Len(log) + Len(rs) <= MaxReceipts
  /\ log' = log \o rs
  /\ applied' = applied \o [i \in 1 .. Len(rs) |-> 0]
  /\ lapped' = (lapped \/ Len(log) + Len(rs) - head > ReceiptSlots)
  /\ UNCHANGED head

(* What the slot of position i holds now.                                  *)
SlotHolds(i) ==
  CHOOSE k \in i .. Len(log) : /\ (k - i) % ReceiptSlots = 0
                               /\ k + ReceiptSlots > Len(log)

(* Wrong: the consumer index is not written back.                          *)
DrainedToStart == head

DrainedTo == Len(log)

(* A success sets confidence and safety to the unit; a failure scales both *)
(* and a timeout the confidence, which may underflow to bottom ("worn"); a *)
(* violation empties the safety.  r.src = r.dst is skipped.                *)
Reinforce(t, r, worn) ==
  LET p    == {<<r.src, r.dst>>} \cap Pair
      gone == IF worn THEN p ELSE {}
  IN  CASE r.outcome = "success" -> [sure |-> t.sure \cup p, safe |-> t.safe \cup p]
        [] r.outcome = "failure" -> [sure |-> t.sure \ gone, safe |-> t.safe \ gone]
        [] r.outcome = "timeout" -> [sure |-> t.sure \ gone, safe |-> t.safe]
        [] r.outcome = "safety"  -> [sure |-> t.sure \ gone, safe |-> t.safe \ p]

(* The tensor after the receipts from head on, where worn are those that   *)
(* underflow an entry.                                                     *)
Reinforced(worn) ==
  LET after[d \in 0 .. Len(log) - head] ==
        IF d = 0 THEN [sure |-> sure, safe |-> safe]
        ELSE Reinforce(after[d - 1], log[SlotHolds(head + d)], head + d \in worn)
  IN  after[Len(log) - head]

(* tensor_quantale_drain_device_receipts.  What a drained receipt said is  *)
(* never read again, and is forgotten.                                     *)
DrainDeviceReceipts ==
  /\ head < Len(log)
  /\ \E worn \in SUBSET (head + 1 .. Len(log)) :
       \E t \in {Reinforced(worn)} : sure' = t.sure /\ safe' = t.safe
  /\ applied' = [k \in DOMAIN log |->
       applied[k] + Cardinality({i \in head + 1 .. Len(log) : SlotHolds(i) = k})]
  /\ log' = [k \in DOMAIN log |-> [log[k] EXCEPT !.outcome = "drained"]]
  /\ head' = DrainedTo
  /\ UNCHANGED <<hop, frontier, lapped>>

(* gpu_dispatch_region and push_device_receipt outside any group.          *)
DispatchRegion ==
  /\ \E r \in HotReceipts :
       Push(<<[src |-> r.src, dst |-> r.dst, outcome |-> r.outcome, member |-> NoMember]>>)
  /\ UNCHANGED <<tensor, frontier>>

-------------------------------------------------------------------------------
(* Host calls that change the tensor.                                      *)

(* jit_chain_score_embed: a confidence below its cap rises and takes the   *)
(* safety with it; no witness is written.                                  *)
EmbedJitChainScores ==
  /\ \E p \in JitEdges :
       \/ sure' = sure \cup {p} /\ safe' = safe \cup {p}
       \/ p \in sure /\ UNCHANGED <<sure, safe>>
  /\ UNCHANGED <<hop, frontier, ring>>

(* A factor above zero scales every entry off the diagonal, zero empties   *)
(* them.                                                                   *)
Decay ==
  /\ \E zero \in BOOLEAN :
       /\ sure' = IF zero THEN {} ELSE sure
       /\ safe' = IF zero THEN {} ELSE safe
  /\ UNCHANGED <<hop, frontier, ring>>

WorldInit ==
  /\ \E t \in Tensors : sure = t.sure /\ safe = t.safe /\ hop = t.hop
  /\ active = {Start}
  /\ consumed = {}
  /\ log = <<>>
  /\ head = 0
  /\ applied = <<>>
  /\ lapped = FALSE

WorldTypeOK ==
  /\ sure \subseteq Pair
  /\ safe \subseteq Pair
  /\ hop \in [DOMAIN hop -> Node]
  /\ active \subseteq Node
  /\ consumed \subseteq Node \X Node
  /\ log \in Seq(DeviceReceipt)
  /\ Len(log) <= MaxReceipts
  /\ head \in 0 .. Len(log)
  /\ applied \in [DOMAIN log -> Nat]
  /\ lapped \in BOOLEAN

(* k was written to the slot of i, after it.                               *)
Overwrote(k, i) == k > i /\ (k - i) % ReceiptSlots = 0

(* A receipt has been applied once when a drain went past it, and not      *)
(* before, however pushes and drains follow each other, as long as the     *)
(* ring was not lapped.  If it was, the only receipts lost are those that  *)
(* a later one overwrote, and the only ones applied again are those that   *)
(* overwrote one that was lost.                                            *)
ReceiptsAppliedOnce ==
  /\ ~lapped => \A k \in 1 .. head : applied[k] = 1
  /\ \A k \in head + 1 .. Len(log) : applied[k] = 0
  /\ \A i \in 1 .. head : applied[i] = 0 => \E k \in 1 .. head : Overwrote(k, i)
  /\ \A k \in 1 .. head : applied[k] > 1 => \E i \in 1 .. head : applied[i] = 0 /\ Overwrote(k, i)
===============================================================================
