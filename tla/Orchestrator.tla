----------------------------- MODULE Orchestrator -----------------------------
(***************************************************************************)
(* The GPU-resident scheduler (cuda/quantale/06_scheduler.cuh) with its    *)
(* command and receipt rings (01_state_and_rings.cuh), the CPU service     *)
(* that executes external commands (src/orch_service.rs) and the           *)
(* supervisor loop that drives both (src/app/supervisor.rs, src/main.rs).  *)
(*                                                                         *)
(* One host thread launches every kernel, so a kernel is one atomic step   *)
(* and the steps of the host are the places where something may go wrong   *)
(* between two kernels.  A step of the scheduler first drains the receipt  *)
(* ring, then commits the control edge of highest priority that is ready   *)
(* (SEQ, STAR, CHOICE, PAR, HALT), or else a single ready path of the      *)
(* tensor, or else blocks.  Committing an external node pushes a           *)
(* DeviceCommand and yields to the host.                                   *)
(*                                                                         *)
(* Data is abstracted as follows.  A tensor entry matters to control only  *)
(* through being bottom or not: "live" is the set of pairs whose           *)
(* confidence and safety are above BOTTOM and whose cost is finite.  The   *)
(* score that ranks live candidates is left open, so any live candidate    *)
(* may win.  Report-only fields of OrchestrationState (selected_*, epochs, *)
(* failure_count, last_block_reason) and of DecisionReport are left out.   *)
(*                                                                         *)
(* A definition commented "Wrong:" is what a likely bug would make of the  *)
(* one after it.  No action uses it; it shows that a property can fail.    *)
(***************************************************************************)
EXTENDS Integers, Sequences, FiniteSets

CONSTANTS
  Node,            \* node ids, 0 .. N-1 in the code
  Start,           \* START_NODE, initially the only active node
  Halt,            \* HALT_NODE
  Kind,            \* dispatch_kinds: node -> its execution tier
  Reentrant,       \* nodes with reentrant_mask # 0
  Reads, Writes,   \* the effect table: node -> resources
  Hop,             \* confidence witness after closure: <<src, dst>> -> first hop
  Tables,          \* the control tables load_control_table may have uploaded
  EventNodes,      \* nodes that streamed events may activate before a burst
  EventEdges,      \* edges that streamed deltas may embed before a burst
  RingSize,        \* DEVICE_COMMAND_RING_SIZE
  ReceiptRingSize, \* DEVICE_RECEIPT_EXT_RING_SIZE
  MaxPar,          \* MAX_PAR_INLINE_SIZE
  StarTableSize,   \* MAX_CONTROL_EDGES, the cap on the star counter table
  MaxBurst,        \* max_device_steps of the supervisor
  MaxTotal,        \* max_total_steps of the supervisor; 0 = unbounded
  MaxFaults        \* bound: CUDA calls of the service path that may fail

Ops      == {"seq", "star", "choice", "par", "halt"}
Kinds    == {"none", "device", "external", "unsupported"}
Outcomes == {"success", "failure", "timeout"}

Pair        == Node \X Node
OffDiagonal == {p \in Pair : p[1] # p[2]}

ControlEdge == [op : Ops, lhs : Node, rhs : Node, order : Nat, bound : Nat]

ASSUME GraphAssumption ==
  /\ Node \subseteq Nat
  /\ IsFiniteSet(Node)
  /\ Start \in Node
  /\ Halt \in Node
  /\ Kind \in [Node -> Kinds]
  /\ Reentrant \subseteq Node
  /\ DOMAIN Reads = Node
  /\ DOMAIN Writes = Node
  /\ Hop \in [DOMAIN Hop -> Node]
  /\ DOMAIN Hop \subseteq OffDiagonal
  /\ Tables \subseteq Seq(ControlEdge)
  /\ EventNodes \subseteq Node
  /\ EventEdges \subseteq OffDiagonal

ASSUME BoundAssumption ==
  /\ RingSize \in Nat \ {0}
  /\ ReceiptRingSize \in Nat \ {0}
  /\ MaxPar \in Nat \ {0}
  /\ StarTableSize \in Nat
  /\ MaxBurst \in Nat \ {0}
  /\ MaxTotal \in Nat
  /\ MaxFaults \in Nat

VARIABLES
  table,       \* control_edges, loaded before the supervisor starts
  active,      \* the frontier: nodes with active[n] # 0
  consumed,    \* edges with consumed[src * N + dst] # 0
  live,        \* pairs whose tensor entry is not bottom
  witness,     \* first hop of each pair that has one
  starCounter, \* star_counters, indexed like table
  step,        \* OrchestrationState.step
  halted,      \* OrchestrationState.halted
  blocked,     \* OrchestrationState.blocked
  pending,     \* OrchestrationState.pending_external_count
  cmds,        \* the commands between command_head and command_tail
  cmdTail,     \* command_tail
  receipts,    \* the receipts between receipt_ext_head and receipt_ext_tail
  settled,     \* the receipts marked consumed in the ring, their outcome left out
  pc,          \* where the supervisor thread is
  burst,       \* scheduler steps taken in the current burst
  total,       \* total_steps: the step count read after the last burst
  batch,       \* commands drained to the host and not yet executed
  exited,      \* history: STAR edges whose exit has fired
  faults       \* number of CUDA failures so far

device == <<active, consumed, live, witness, starCounter, step, halted, blocked, pending>>
rings  == <<cmds, cmdTail, receipts, settled>>
host   == <<pc, burst, total, batch, faults>>
vars   == <<table, device, rings, host, exited>>

Command == [pos : Nat, id : Nat, src : Node, node : Node]
Receipt == [pos : Nat, id : Nat, src : Node, node : Node, outcome : Outcomes]
Settled == [pos : Nat, id : Nat, node : Node]

-------------------------------------------------------------------------------
(* Receipts.                                                               *)

PairOf(r) == <<r.src, r.node>>

(* The receipts a drain applies: it skips those whose source is their      *)
(* destination, although the ring head moves past them.                    *)
Applied == {r \in receipts : r.src # r.node}

(* A success lifts the entry to the unit; a failure or a timeout scales it *)
(* down, and enough of them underflow it to bottom.                        *)
DrainedLive ==
  LET succeeded == {PairOf(r) : r \in {a \in Applied : a.outcome = "success"}}
      degraded  == {PairOf(r) : r \in {a \in Applied : a.outcome # "success"}}
  IN  {(live \ dead) \cup succeeded : dead \in SUBSET degraded}

(* Wrong: the drain forgets the count of outstanding commands.             *)
DrainedPendingKept == pending

DrainedPending ==
  IF pending >= Cardinality(Applied) THEN pending - Cardinality(Applied) ELSE 0

MarkDrained ==
  /\ receipts' = {}
  /\ settled' = settled \cup
       {[pos |-> r.pos, id |-> r.id, node |-> r.node] : r \in Applied}

-------------------------------------------------------------------------------
(* Selection of a control edge.                                            *)

Edges(op)   == {i \in DOMAIN table : table[i].op = op /\ table[i].lhs \in active}
Arrow(i)    == <<table[i].lhs, table[i].rhs>>
Reusable(e) == e[1] \in Reentrant \/ e[2] \in Reentrant

(* The scans keep the first edge of least (order, rhs), resp. least order. *)
Precedes(i, j) ==
  \/ table[i].order < table[j].order
  \/ table[i].order = table[j].order /\ table[i].rhs < table[j].rhs

(* Wrong: ignores consumption.                                             *)
SeqReadyAgain == Edges("seq")

SeqReady == {i \in Edges("seq") : Reusable(Arrow(i)) \/ Arrow(i) \notin consumed}

IsFirst(i, S) ==
  /\ i \in S
  /\ \A j \in S : Precedes(i, j) \/ (~Precedes(j, i) /\ i <= j)

FirstStar(i) ==
  /\ i \in Edges("star")
  /\ \A j \in Edges("star") :
       \/ table[i].order < table[j].order
       \/ table[i].order = table[j].order /\ i <= j

HasCounter(i)    == i <= StarTableSize

StarExhausted(i) ==
  /\ table[i].bound > 0
  /\ (IF HasCounter(i) THEN starCounter[i] ELSE 0) >= table[i].bound

ChoiceReady == {i \in Edges("choice") : Arrow(i) \notin consumed}

(* The diagonal of the tensor is the unit, so a self-loop branch is live.  *)
LiveChoices(l) ==
  {i \in ChoiceReady : table[i].lhs = table[i].rhs \/ Arrow(i) \in l}

(* A live branch beats every bottom branch.  When all are bottom the scan  *)
(* reads control_edges[-1] and, by what it finds there, takes the first    *)
(* bottom branch or none.                                                  *)
ChoiceWins(i, l) ==
  IF LiveChoices(l) # {} THEN i \in LiveChoices(l) ELSE IsFirst(i, ChoiceReady)

ParReady == {i \in Edges("par") : Arrow(i) \notin consumed}

Independent(a, b) ==
  /\ Writes[a] \cap (Reads[b] \cup Writes[b]) = {}
  /\ Writes[b] \cap (Reads[a] \cup Writes[a]) = {}

Rank(i, S) == Cardinality({j \in S : j < i})

(* Wrong: conflicting edges share a group.                                 *)
IsParGroupConflicting(G) == \A i \in ParReady : i \in G <=> Rank(i, G) < MaxPar

(* The group the greedy scan collects: edges join in table order while     *)
(* there is room and they are independent of all earlier members.          *)
IsParGroup(G) ==
  \A i \in ParReady :
    i \in G <=> /\ Rank(i, G) < MaxPar
                /\ \A j \in G : j < i => Independent(table[i].rhs, table[j].rhs)

SeqIdle       == SeqReady = {}
StarIdle      == SeqIdle /\ Edges("star") = {}
ChoiceIdle(l) == StarIdle /\ LiveChoices(l) = {}
ParIdle(l)    == ChoiceIdle(l) /\ ParReady = {}

(* The singleton scheduler: paths from an active node whose first hop is   *)
(* not yet consumed.                                                       *)
Candidates(l) ==
  {p \in l \cap DOMAIN witness :
     LET e == <<p[1], witness[p]>> IN
     /\ p[1] \in active
     /\ Reusable(e) \/ e \notin consumed
     /\ Kind[witness[p]] # "unsupported"}

-------------------------------------------------------------------------------
(* How the host takes what a scheduler step returns.                       *)

(* The burst ends and the supervisor reads the device's step count.        *)
EndBurst(next) ==
  /\ pc' = next
  /\ burst' = 0
  /\ total' = step'
  /\ UNCHANGED <<batch, faults>>

(* Wrong: the burst is one step too long.                                  *)
ContinueLong ==
  IF burst < MaxBurst
  THEN burst' = burst + 1 /\ UNCHANGED <<pc, total, batch, faults>>
  ELSE EndBurst(IF step' = total THEN "done" ELSE "head")

(* ORCH_CONTINUE, not blocked: another step, unless the burst is spent.    *)
Continue ==
  IF burst + 1 < MaxBurst
  THEN burst' = burst + 1 /\ UNCHANGED <<pc, total, batch, faults>>
  ELSE EndBurst(IF step' = total THEN "done" ELSE "head")

-------------------------------------------------------------------------------
(* Committing an edge: l and p are the live pairs and the pending count    *)
(* that draining the receipts left.                                        *)

(* Wrong: the edge is not consumed.                                        *)
AdvanceUnconsumed(src, dst, l) ==
  /\ live' = l
  /\ consumed' = consumed
  /\ active' = {dst}
  /\ step' = step + 1
  /\ blocked' = FALSE
  /\ halted' = (dst = Halt)

Advance(src, dst, l) ==
  /\ live' = l
  /\ consumed' = IF Reusable(<<src, dst>>) THEN consumed
                 ELSE consumed \cup {<<src, dst>>}
  /\ active' = {dst}
  /\ step' = step + 1
  /\ blocked' = FALSE
  /\ halted' = (dst = Halt)

EmitCommand(src, dst, p) ==
  IF p < RingSize /\ Cardinality(cmds) < RingSize
  THEN /\ cmds' = cmds \cup
            {[pos |-> cmdTail, id |-> step + 1, src |-> src, node |-> dst]}
       /\ cmdTail' = cmdTail + 1
       /\ pending' = p + 1
  ELSE pending' = p /\ UNCHANGED <<cmds, cmdTail>>

CommitHalt(src, dst, l, p) ==
  /\ dst = Halt
  /\ Advance(src, dst, l)
  /\ pending' = p
  /\ EndBurst("done")
  /\ UNCHANGED <<cmds, cmdTail>>

(* Wrong: the step returns ORCH_CONTINUE.                                  *)
CommitExternalContinues(src, dst, l, p) ==
  /\ dst # Halt
  /\ Kind[dst] = "external"
  /\ Advance(src, dst, l)
  /\ EmitCommand(src, dst, p)
  /\ Continue

CommitExternal(src, dst, l, p) ==
  /\ dst # Halt
  /\ Kind[dst] = "external"
  /\ Advance(src, dst, l)
  /\ EmitCommand(src, dst, p)
  /\ EndBurst("service")

(* Every other kind just continues, UNSUPPORTED too.                       *)
CommitLocal(src, dst, l, p) ==
  /\ dst # Halt
  /\ Kind[dst] # "external"
  /\ Advance(src, dst, l)
  /\ pending' = p
  /\ Continue
  /\ UNCHANGED <<cmds, cmdTail>>

Commit(src, dst, l, p) ==
  \/ CommitHalt(src, dst, l, p)
  \/ CommitExternal(src, dst, l, p)
  \/ CommitLocal(src, dst, l, p)

-------------------------------------------------------------------------------
(* tensor_quantale_orchestrate_step, one action per control decision.  The *)
(* kernel's early return on state.halted is never taken here: the          *)
(* supervisor launches no step after ORCH_HALTED.                          *)

(* What every step starts with: the receipt ring is drained.               *)
Stepping == pc = "burst" /\ MarkDrained /\ UNCHANGED <<table, witness>>

SeqStep ==
  /\ Stepping
  /\ \E l \in DrainedLive, i \in SeqReady :
       /\ IsFirst(i, SeqReady)
       /\ Commit(table[i].lhs, table[i].rhs, l, DrainedPending)
  /\ UNCHANGED <<starCounter, exited>>

StarBodyStep ==
  /\ Stepping
  /\ SeqIdle
  /\ \E l \in DrainedLive, i \in Edges("star") :
       /\ FirstStar(i)
       /\ ~StarExhausted(i)
       /\ starCounter' = IF HasCounter(i)
                         THEN [starCounter EXCEPT ![i] = @ + 1]
                         ELSE starCounter
       /\ Commit(table[i].lhs, table[i].rhs, l, DrainedPending)
  /\ UNCHANGED exited

StarExit(i) ==
  /\ Stepping
  /\ SeqIdle
  /\ FirstStar(i)
  /\ StarExhausted(i)
  /\ live' \in DrainedLive
  /\ pending' = DrainedPending
  /\ consumed' = consumed \cup {Arrow(i)}
  /\ active' = {table[i].lhs}
  /\ step' = step + 1
  /\ blocked' = FALSE
  /\ exited' = exited \cup {i}
  /\ Continue
  /\ UNCHANGED <<halted, starCounter, cmds, cmdTail>>

StarExitStep == \E i \in Edges("star") : StarExit(i)

ChoiceStep ==
  /\ Stepping
  /\ StarIdle
  /\ \E l \in DrainedLive, i \in ChoiceReady :
       /\ ChoiceWins(i, l)
       /\ Commit(table[i].lhs, table[i].rhs, l, DrainedPending)
  /\ UNCHANGED <<starCounter, exited>>

(* All members of the group commit together.  The m-th member's command is *)
(* numbered step + m; the ring takes as many as it has room for.           *)
ParCommit(G, l, p) ==
  LET external == {i \in G : Kind[table[i].rhs] = "external"}
      pushed   == {i \in external : Rank(i, external) < RingSize - Cardinality(cmds)}
  IN  /\ live' = l
      /\ consumed' = consumed \cup {Arrow(i) : i \in G}
      /\ active' = {table[i].rhs : i \in G}
      /\ cmds' = cmds \cup
           {[pos |-> cmdTail + Rank(i, pushed), id |-> step + Rank(i, G),
             src |-> table[i].lhs, node |-> table[i].rhs] : i \in pushed}
      /\ cmdTail' = cmdTail + Cardinality(pushed)
      /\ pending' = p + Cardinality(pushed)
      /\ step' = step + 1
      /\ blocked' = FALSE
      /\ \/ external # {} /\ EndBurst("service")
         \/ external = {} /\ Continue

ParStep ==
  /\ Stepping
  /\ ParReady # {}
  /\ \E l \in DrainedLive, G \in SUBSET ParReady :
       /\ ChoiceIdle(l)
       /\ IsParGroup(G)
       /\ ParCommit(G, l, DrainedPending)
  /\ UNCHANGED <<halted, starCounter, exited>>

HaltStep ==
  /\ Stepping
  /\ Edges("halt") # {}
  /\ \E l \in DrainedLive : ParIdle(l) /\ live' = l
  /\ pending' = DrainedPending
  /\ halted' = TRUE
  /\ step' = step + 1
  /\ EndBurst("done")
  /\ UNCHANGED <<active, consumed, starCounter, blocked, cmds, cmdTail, exited>>

SingletonStep ==
  /\ Stepping
  /\ Edges("halt") = {}
  /\ \E l \in DrainedLive : \E path \in Candidates(l) :
       /\ ParIdle(l)
       /\ Kind[witness[path]] # "none"
       /\ Commit(path[1], witness[path], l, DrainedPending)
  /\ UNCHANGED <<starCounter, exited>>

(* Wrong: a blocked scheduler is run again.                                *)
BlockedStepSpins ==
  /\ Stepping
  /\ Edges("halt") = {}
  /\ \E l \in DrainedLive : ParIdle(l) /\ Candidates(l) = {} /\ live' = l
  /\ pending' = DrainedPending
  /\ blocked' = TRUE
  /\ UNCHANGED <<active, consumed, starCounter, step, halted, cmds, cmdTail, exited>>
  /\ EndBurst("head")

(* No candidate, or the best one has no dispatch kind.                     *)
BlockedStep ==
  /\ Stepping
  /\ Edges("halt") = {}
  /\ \E l \in DrainedLive :
       /\ ParIdle(l)
       /\ \/ Candidates(l) = {}
          \/ \E path \in Candidates(l) : Kind[witness[path]] = "none"
       /\ live' = l
  /\ pending' = DrainedPending
  /\ blocked' = TRUE
  /\ UNCHANGED <<active, consumed, starCounter, step, halted, cmds, cmdTail, exited>>
  /\ EndBurst("done")

Step ==
  \/ SeqStep \/ StarBodyStep \/ StarExitStep \/ ChoiceStep \/ ParStep
  \/ HaltStep \/ SingletonStep \/ BlockedStep

(* A CUDA call of the burst fails: the supervisor returns the error.       *)
StepFails ==
  /\ pc = "burst"
  /\ faults < MaxFaults
  /\ faults' = faults + 1
  /\ pc' = "done"
  /\ UNCHANGED <<table, device, rings, burst, total, batch, exited>>

-------------------------------------------------------------------------------
(* The supervisor loop.                                                    *)

OutOfBudget == MaxTotal > 0 /\ total >= MaxTotal

BudgetSpent ==
  /\ pc = "head"
  /\ OutOfBudget
  /\ pc' = "done"
  /\ UNCHANGED <<table, device, rings, burst, total, batch, faults, exited>>

(* pre_burst_fn: applied stream receipts activate event nodes, topology    *)
(* deltas activate nodes and embed edges.  An edge whose confidence beats  *)
(* the tensor's becomes the witness of its pair.                           *)
PreBurst ==
  /\ pc = "head"
  /\ ~OutOfBudget
  /\ \E nodes \in SUBSET EventNodes : active' = active \cup nodes
  /\ \E raised \in SUBSET EventEdges, better \in SUBSET EventEdges :
       /\ raised \subseteq better \cup DOMAIN witness
       /\ live' = live \cup raised
       /\ witness' = [p \in DOMAIN witness \cup better |->
                        IF p \in better THEN p[2] ELSE witness[p]]
  /\ pc' = "burst"
  /\ UNCHANGED <<table, consumed, starCounter, step, halted, blocked, pending,
                 rings, burst, total, batch, faults, exited>>

-------------------------------------------------------------------------------
(* service_fn: drain the commands to the host, execute them one by one,    *)
(* pushing a receipt for each, then drain the receipts.                    *)

(* Wrong: the head of the ring is not advanced.                            *)
DrainCommandsAgain ==
  /\ pc = "service"
  /\ batch' = cmds
  /\ pc' = IF cmds = {} THEN "settle" ELSE "serve"
  /\ UNCHANGED <<table, device, rings, burst, total, faults, exited>>

DrainCommands ==
  /\ pc = "service"
  /\ batch' = cmds
  /\ cmds' = {}
  /\ pc' = IF cmds = {} THEN "settle" ELSE "serve"
  /\ UNCHANGED <<table, device, cmdTail, receipts, settled, burst, total, faults, exited>>

IsOldest(c) == c \in batch /\ \A d \in batch : c.pos <= d.pos

(* Wrong: a command that timed out gets no receipt.                        *)
ServeCommandNoTimeout ==
  /\ pc = "serve"
  /\ \E c \in batch, outcome \in Outcomes :
       /\ IsOldest(c)
       /\ receipts' =
            IF outcome # "timeout"
            THEN receipts \cup
                   {[pos |-> c.pos, id |-> c.id, src |-> c.src, node |-> c.node,
                     outcome |-> outcome]}
            ELSE receipts
       /\ batch' = batch \ {c}
       /\ pc' = IF batch = {c} THEN "settle" ELSE "serve"
  /\ UNCHANGED <<table, device, cmds, cmdTail, settled, burst, total, faults, exited>>

(* The push kernel returns without writing when the receipt ring is full.  *)
ServeCommand ==
  /\ pc = "serve"
  /\ \E c \in batch, outcome \in Outcomes :
       /\ IsOldest(c)
       /\ receipts' =
            IF Cardinality(receipts) < ReceiptRingSize
            THEN receipts \cup
                   {[pos |-> c.pos, id |-> c.id, src |-> c.src, node |-> c.node,
                     outcome |-> outcome]}
            ELSE receipts
       /\ batch' = batch \ {c}
       /\ pc' = IF batch = {c} THEN "settle" ELSE "serve"
  /\ UNCHANGED <<table, device, cmds, cmdTail, settled, burst, total, faults, exited>>

SettleReceipts ==
  /\ pc = "settle"
  /\ live' \in DrainedLive
  /\ pending' = DrainedPending
  /\ MarkDrained
  /\ pc' = "head"
  /\ UNCHANGED <<table, active, consumed, witness, starCounter, step, halted,
                 blocked, cmds, cmdTail, burst, total, batch, faults, exited>>

(* The service function logs an error of any of its CUDA calls and the     *)
(* supervisor goes on: commands not yet executed are lost with the batch,  *)
(* receipts already pushed wait for the next drain.                        *)
Warned(at) ==
  /\ pc = at
  /\ faults < MaxFaults
  /\ faults' = faults + 1
  /\ pc' = "head"
  /\ batch' = {}
  /\ UNCHANGED <<table, device, rings, burst, total, exited>>

DrainCommandsFails == Warned("service")
PushFails          == Warned("serve")
SettleFails        == Warned("settle")

Terminated == pc = "done" /\ UNCHANGED vars

-------------------------------------------------------------------------------

Init ==
  /\ table \in Tables
  /\ active = {Start}
  /\ consumed = {}
  /\ live = DOMAIN Hop
  /\ witness = Hop
  /\ starCounter = [i \in {j \in DOMAIN table : HasCounter(j)} |-> 0]
  /\ step = 0
  /\ halted = FALSE
  /\ blocked = FALSE
  /\ pending = 0
  /\ cmds = {}
  /\ cmdTail = 0
  /\ receipts = {}
  /\ settled = {}
  /\ pc = "head"
  /\ burst = 0
  /\ total = 0
  /\ batch = {}
  /\ exited = {}
  /\ faults = 0

Next ==
  \/ BudgetSpent
  \/ PreBurst
  \/ Step
  \/ StepFails
  \/ DrainCommands
  \/ ServeCommand
  \/ SettleReceipts
  \/ DrainCommandsFails
  \/ PushFails
  \/ SettleFails
  \/ Terminated

Spec == Init /\ [][Next]_vars

(* One thread runs everything: it is never blocked by another, and every   *)
(* external command is assumed to return (egress.rs sets no timeout).      *)
FairSpec == Spec /\ WF_vars(Next)

-------------------------------------------------------------------------------
(* Properties.                                                             *)

(* Every variable keeps its type.                                          *)
TypeOK ==
  /\ table \in Tables
  /\ active \subseteq Node
  /\ consumed \subseteq Pair
  /\ live \subseteq Pair
  /\ DOMAIN witness \subseteq Pair
  /\ witness \in [DOMAIN witness -> Node]
  /\ starCounter \in [{j \in DOMAIN table : HasCounter(j)} -> Nat]
  /\ step \in Nat
  /\ halted \in BOOLEAN
  /\ blocked \in BOOLEAN
  /\ pending \in Nat
  /\ cmds \subseteq Command
  /\ cmdTail \in Nat
  /\ receipts \subseteq Receipt
  /\ settled \subseteq Settled
  /\ pc \in {"head", "burst", "service", "serve", "settle", "done"}
  /\ burst \in 0 .. MaxBurst - 1
  /\ total \in Nat
  /\ batch \subseteq Command
  /\ exited \subseteq DOMAIN table
  /\ faults \in 0 .. MaxFaults

(* A command is in one place at a time, the command ring, the host's       *)
(* batch, the receipt ring or among the settled, and only once, whatever   *)
(* calls of the service path fail and are logged.  A batch taken twice, or *)
(* receipts applied twice after a failed drain, would break it.            *)
Places == <<cmds, batch, receipts, settled>>
Positions(S) == {x.pos : x \in S}

TicketsUnique ==
  /\ \A k \in 1 .. 4 : \A x, y \in Places[k] : x.pos = y.pos => x = y
  /\ \A j, k \in 1 .. 4 : j # k => Positions(Places[j]) \cap Positions(Places[k]) = {}
  /\ \A k \in 1 .. 4 : Positions(Places[k]) \subseteq 0 .. cmdTail - 1

(* pending_external_count is the number of commands issued less the number *)
(* of receipts applied: it never drifts, and the drain's test for zero     *)
(* never hides an underflow.                                               *)
PendingIsDebt == pending = cmdTail - Cardinality(settled)

(* The scheduler never takes a step, and the supervisor never exits, while *)
(* a command it issued is still owed a receipt (calls of the service path  *)
(* succeeding).                                                            *)
Quiescent ==
  faults = 0 /\ pc \in {"head", "burst", "done"} =>
    pending = 0 /\ cmds = {} /\ batch = {} /\ receipts = {}

(* I3 of the control-flow plan: when the scheduler yields to the host,     *)
(* each external node just committed has its command, and nothing else     *)
(* has.  A full command ring would break it by dropping commands.          *)
EveryCommitCommanded ==
  faults = 0 /\ pc = "service" =>
    /\ cmds # {}
    /\ {c.node : c \in cmds} = {n \in active : Kind[n] = "external"}

(* The scheduler and the host take turns, and hand over exactly the work   *)
(* that was committed.                                                     *)
Handover == Quiescent /\ EveryCommitCommanded

(* Commands handed to the host together have no conflicting effects, so    *)
(* executing them in any order, or in parallel, is safe.                   *)
InFlightIndependent ==
  faults = 0 =>
    \A c, d \in cmds \cup batch : c # d => Independent(c.node, d.node)

(* I5: a bounded STAR edge never runs its body more often than its bound.  *)
StarBounded ==
  \A i \in DOMAIN starCounter :
    table[i].op = "star" /\ table[i].bound > 0 => starCounter[i] <= table[i].bound

(* Nothing becomes active by accident: an active node is the start node, a *)
(* streamed event, or the end of an edge that was committed and consumed   *)
(* or leaves a reentrant node.  The frontier is never empty.               *)
Hops ==
  {Arrow(i) : i \in DOMAIN table} \cup {<<p[1], Hop[p]>> : p \in DOMAIN Hop}
  \cup EventEdges

FrontierJustified ==
  /\ active # {}
  /\ \A n \in active :
       \/ n = Start
       \/ n \in EventNodes \cup Reentrant
       \/ \E m \in Node : \/ <<m, n>> \in consumed
                          \/ m \in Reentrant /\ <<m, n>> \in Hops

(* The step budget is tested between bursts only, so it can be overrun,    *)
(* but by less than one burst.                                             *)
BudgetRespected == MaxTotal > 0 => step < MaxTotal + MaxBurst

(* An external operator is not executed twice across an edge that is       *)
(* neither reentrant nor a loop's.                                         *)
StarPairs == {Arrow(i) : i \in {j \in DOMAIN table : table[j].op = "star"}}

IssuedOnce ==
  [][\A c \in cmds' \ cmds :
       PairOf(c) \in consumed => Reusable(PairOf(c)) \/ PairOf(c) \in StarPairs]_vars

(* The supervisor exits.                                                   *)
Termination == <>(pc = "done")

(* The rings and the service loop implement the rounds of ExternalWork: no *)
(* command is issued while one is owed a receipt, every round is settled   *)
(* in one go, and no command is settled twice.  It takes a service path    *)
(* without failures, a receipt ring no smaller than the command ring and   *)
(* no command from a node to itself.                                       *)
Work == INSTANCE ExternalWork WITH
  Ticket <- Nat,
  owed   <- Positions(cmds) \cup Positions(batch) \cup Positions(Applied),
  done   <- Positions(settled)

Rounds == Work!WorkSpec

(* Once commands are owed, all of them are settled in the end, whatever    *)
(* their outcome.                                                          *)
OutstandingSettles == (pending > 0) ~> (pending = 0)

-------------------------------------------------------------------------------
(* What the repository says of the scheduler and the code does not do.     *)

(* 06_scheduler.cuh:450 says that a STAR exit consumes the back-edge "so   *)
(* it cannot re-fire" and lets the other edges of its source take over.    *)
StarExitsOnce == [][\A i \in exited : ~StarExit(i)]_vars

(* 01_state_and_rings.cuh:178 says that draining applies each valid        *)
(* receipt and marks it consumed: once the host has drained, every command *)
(* issued is settled.                                                      *)
DrainSettlesAll ==
  faults = 0 /\ pc = "head" => Positions(settled) = 0 .. cmdTail - 1

===============================================================================
