------------------------------- MODULE Recovery -------------------------------
(***************************************************************************)
(* What a host can do to the world between two bursts of Orchestrator, to  *)
(* recover from failures: the failure policy with its retry budgets and    *)
(* the rollback marker (07_failure_policy.cuh), learned deltas             *)
(* (08_learning.cuh), the replay snapshot, the trace ring and the device's *)
(* own audits (09_trace_replay.cuh), a new control table, and the          *)
(* reset of the tensor to its baseline (src/tensor/mod.rs), through the    *)
(* wrappers of src/tensor/orchestration.rs.                                *)
(*                                                                         *)
(* Each call is one action, taken while the host thread is not inside a    *)
(* burst or the service path; a host may start the supervisor again after  *)
(* it has returned.  No policy ever has repair_on_block or                 *)
(* rollback_on_failure set, so repair commands are left out; nor is        *)
(* block_threshold, zero from the start, ever above zero.                  *)
(***************************************************************************)
EXTENDS Orchestrator

CONSTANTS
  Budgets,       \* default_budget a host may ask for; -1 is no limit
  DeltaRingSize, \* LEARNED_DELTA_RING_SIZE
  TraceRingSize, \* ORCH_TRACE_RING_SIZE
  MaxCalls       \* bound: calls of the host

ASSUME RecoveryAssumption ==
  /\ Budgets \subseteq Int
  /\ DeltaRingSize \in Nat
  /\ TraceRingSize \in Nat
  /\ MaxCalls \in Nat

VARIABLES
  budget,     \* retry_budget of each node's policy
  refusals,   \* OrchestrationState.consecutive_blocks
  resetAsked, \* OrchestrationState.hard_reset_requested
  available,  \* OrchestrationState.rollback_available
  marker,     \* rollback_consumed and rollback_active
  snap,       \* the replay buffers
  deltas,     \* learned_delta_ring, from its head to its tail
  costed,     \* the pairs whose cost in the tensor is finite
  applyDue,   \* the supervisor is about to call learned_delta_apply
  trace,      \* the trace ring: the step of each event
  calls,      \* calls so far
  restored,   \* history: a replay snapshot has been restored
  parLoaded   \* history: a table with a PAR has been in use

policy  == <<budget, refusals, resetAsked, available, marker>>
replay  == <<snap, trace, restored, parLoaded>>
learned == <<deltas, applyDue, costed>>
extra   == <<policy, replay, learned, calls>>
rvars   == <<vars, extra>>

-------------------------------------------------------------------------------
(* Steps of the scheduler and the supervisor.                              *)

(* Wrong: the kernel does not look at state.halted.                        *)
MayStepHalted == TRUE

MayStep == ~halted

(* Receipts are drained before the test for a halt.                        *)
HaltedStep ==
  /\ Stepping
  /\ halted
  /\ live' \in DrainedLive
  /\ pending' = DrainedPending
  /\ UNCHANGED <<active, consumed, starCounter, step, halted, blocked, cmds, cmdTail, exited,
                 policy, replay, deltas, applyDue, calls>>
  /\ costed' = costed \cup live'
  /\ EndBurst("done")

(* A burst that ends with ORCH_CONTINUE is followed by the learned deltas. *)
SchedulerStep ==
  /\ MayStep
  /\ Step
  /\ applyDue' = (pc' \in {"head", "done"} /\ ~halted' /\ deltas # <<>>)
  /\ costed' = costed \cup live'
  /\ UNCHANGED <<policy, replay, deltas, calls>>

Idle == ~applyDue

Supervise ==
  /\ Idle
  /\ \/ BudgetSpent \/ PreBurst \/ StepFails
     \/ DrainCommands \/ ServeCommand \/ SettleReceipts
     \/ DrainCommandsFails \/ PushFails \/ SettleFails
  /\ costed' = costed \cup live'
  /\ UNCHANGED <<policy, replay, deltas, applyDue, calls>>

-------------------------------------------------------------------------------
(* The calls of the host.                                                  *)

Call ==
  /\ Idle
  /\ pc \in {"head", "done"}
  /\ calls < MaxCalls
  /\ calls' = calls + 1

(* gpu_native_supervisor_loop once more: its step count starts at zero.    *)
RunAgain ==
  /\ Call
  /\ pc = "done"
  /\ pc' = "head"
  /\ burst' = 0
  /\ total' = 0
  /\ UNCHANGED <<table, device, rings, batch, faults, exited, policy, replay, learned>>

InitPolicy ==
  /\ Call
  /\ \E b \in Budgets : budget' = [n \in Node |-> b]
  /\ UNCHANGED <<vars, refusals, resetAsked, available, marker, replay, learned>>

(* classify_failure and what follows from the class and the budget.        *)
Verdict(n, outcome) ==
  CASE outcome = "safety"                         -> "halt"
    [] outcome # "safety" /\ budget[n] \in Nat \ {0} -> "retry"
    [] outcome # "safety" /\ budget[n] = -1       -> "retry"
    [] OTHER                                      -> "block"

(* Wrong: an unlimited budget is used up.                                  *)
AfterRetryCounted(b) == b - 1

AfterRetry(b) == IF b > 0 THEN b - 1 ELSE b

(* A host classifies a failure it has a receipt for.                       *)
Classify ==
  /\ Call
  /\ \E r \in settled, outcome \in {"failure", "timeout", "safety"} :
       LET verdict == Verdict(r.node, outcome) IN
       /\ budget' = IF verdict = "retry"
                    THEN [budget EXCEPT ![r.node] = AfterRetry(@)] ELSE budget
       /\ resetAsked' = (resetAsked \/ verdict = "halt")
       /\ halted' = (halted \/ verdict = "halt")
       /\ refusals' = CASE verdict = "halt"  -> refusals
                        [] verdict = "block" -> refusals + 1
                        [] verdict = "retry" -> 0
  /\ UNCHANGED <<table, active, consumed, live, witness, starCounter, step, blocked, pending,
                 rings, host, exited, available, marker, replay, learned>>

SetRollbackMarker ==
  /\ Call
  /\ marker' = [consumed |-> consumed, active |-> active]
  /\ available' = TRUE
  /\ UNCHANGED <<vars, budget, refusals, resetAsked, replay, learned>>

(* Only consumption and frontier go back: a halt stays, and so do the      *)
(* iterations of STAR edges.                                               *)
ApplyRollback ==
  /\ Call
  /\ available
  /\ consumed' = marker.consumed
  /\ active' = marker.active
  /\ available' = FALSE
  /\ refusals' = 0
  /\ UNCHANGED <<table, live, witness, starCounter, step, halted, blocked, pending,
                 rings, host, exited, budget, resetAsked, marker, replay, learned>>

OrchestrationState ==
  [step |-> step, halted |-> halted, blocked |-> blocked, pending |-> pending,
   refusals |-> refusals, resetAsked |-> resetAsked, available |-> available]

ReplaySnapshot ==
  /\ Call
  /\ snap' = [state |-> OrchestrationState, consumed |-> consumed, active |-> active,
              starCounter |-> starCounter]
  /\ UNCHANGED <<vars, policy, trace, restored, parLoaded, learned>>

(* Rings and tensor stay as they are.                                      *)
ReplayRestore ==
  /\ Call
  /\ step' = snap.state.step
  /\ halted' = snap.state.halted
  /\ blocked' = snap.state.blocked
  /\ pending' = snap.state.pending
  /\ refusals' = snap.state.refusals
  /\ resetAsked' = snap.state.resetAsked
  /\ available' = snap.state.available
  /\ consumed' = snap.consumed
  /\ active' = snap.active
  /\ starCounter' = snap.starCounter
  /\ restored' = TRUE
  /\ UNCHANGED <<table, live, witness, rings, host, exited, budget, marker, snap, trace, parLoaded,
                 learned>>

HasPar(t)     == \E i \in DOMAIN t : t[i].op = "par"
NoCounters(t) == [i \in {j \in DOMAIN t : HasCounter(j)} |-> 0]

(* Wrong: a replay would restore the counters of the old table.            *)
LoadControlTableOnly ==
  /\ Call
  /\ table' \in Tables \ {<<>>}
  /\ starCounter' = NoCounters(table')
  /\ snap' = [snap EXCEPT !.starCounter =
                 [i \in DOMAIN NoCounters(table') |-> IF i \in DOMAIN @ THEN @[i] ELSE 0]]
  /\ exited' = {}
  /\ parLoaded' = (parLoaded \/ HasPar(table'))
  /\ UNCHANGED <<active, consumed, live, witness, step, halted, blocked, pending, rings, host,
                 policy, trace, restored, learned>>

(* The counters of the replay buffers are zeroed too, the rest of them is  *)
(* kept.  "exited" is history, of the table in use.                        *)
LoadControlTable ==
  /\ Call
  /\ table' \in Tables \ {<<>>}
  /\ starCounter' = NoCounters(table')
  /\ snap' = [snap EXCEPT !.starCounter = NoCounters(table')]
  /\ exited' = {}
  /\ parLoaded' = (parLoaded \/ HasPar(table'))
  /\ UNCHANGED <<active, consumed, live, witness, step, halted, blocked, pending, rings, host,
                 policy, trace, restored, learned>>

(* learned_delta_fold_receipt: a full ring loses the delta, though not the *)
(* prior (priors are exported only).                                       *)
FoldReceipt ==
  /\ Call
  /\ \E p \in OffDiagonal, good \in BOOLEAN :
       /\ \E r \in settled : r.node = p[2] /\ p \in consumed
       /\ deltas' = IF Len(deltas) < DeltaRingSize
                    THEN Append(deltas, [pair |-> p, good |-> good])
                    ELSE deltas
  /\ UNCHANGED <<vars, policy, replay, applyDue, costed>>

(* Sums are clamped: a good delta may lift an entry from bottom and a bad  *)
(* one may bring it there.                                                 *)
Learning ==
  LET pairs(good) == {deltas[i].pair : i \in {j \in DOMAIN deltas : deltas[j].good = good}}
  IN  /\ live' \in {(live \ dead) \cup born : dead \in SUBSET (pairs(FALSE) \cap live),
                                              born \in SUBSET (pairs(TRUE) \cap costed)}
      /\ deltas' = <<>>
      /\ applyDue' = FALSE
      /\ UNCHANGED <<table, active, consumed, witness, starCounter, step, halted, blocked,
                     pending, rings, host, exited, policy, replay, costed>>

ApplyDeltas == Call /\ Learning

SupervisorAppliesDeltas == applyDue /\ Learning /\ UNCHANGED calls

(* A full ring refuses the event.                                          *)
PushTraceEvent ==
  /\ Call
  /\ trace' = IF Len(trace) < TraceRingSize THEN Append(trace, step) ELSE trace
  /\ UNCHANGED <<vars, policy, snap, restored, parLoaded, learned>>

DrainTraceEvents ==
  /\ Call
  /\ trace # <<>>
  /\ trace' = <<>>
  /\ UNCHANGED <<vars, policy, snap, restored, parLoaded, learned>>

-------------------------------------------------------------------------------
(* The tensor.  Base are the pairs that were embedded, the others follow   *)
(* by closure.                                                             *)

Base == {p \in DOMAIN Hop : Hop[p] = p[2]}

(* All runtime state of the world but the orchestration state and rings.   *)
Cleared == consumed' = {} /\ active' = {Start}

TensorOnly ==
  UNCHANGED <<table, starCounter, step, halted, blocked, pending, rings, host, exited,
              policy, replay, deltas, applyDue>>

Reset ==
  /\ Call
  /\ Cleared
  /\ live' = {}
  /\ costed' = {}
  /\ witness' = <<>>
  /\ TensorOnly

(* restore_base_tensor: reset(), then the tensor of the snapshot.          *)
RestoreBaseTensor ==
  /\ Call
  /\ Cleared
  /\ live' = Base
  /\ costed' = Base
  /\ witness' = <<>>
  /\ TensorOnly

(* An edge becomes the witness of its pair where it beats the tensor, as   *)
(* it does where that is bottom.                                           *)
EmbedTensorEdges ==
  /\ Call
  /\ \E better \in SUBSET Base :
       /\ Base \ live \subseteq better
       /\ witness' = [p \in DOMAIN witness \cup better |->
                        IF p \in better THEN p[2] ELSE witness[p]]
  /\ live' = live \cup Base
  /\ costed' = costed \cup Base
  /\ UNCHANGED <<active, consumed>>
  /\ TensorOnly

(* Floyd-Warshall: after the turn of a node, the paths through it too.     *)
Closed(l) ==
  LET through(T, n) ==
        T \cup {<<p[1], q[2]>> : p \in {r \in T : r[2] = n}, q \in {r \in T : r[1] = n}}
      upTo[k \in 0 .. Cardinality(Node)] ==
        IF k = 0 THEN l ELSE UNION {through(T, k - 1) : T \in {upTo[k - 1]}}
  IN  upTo[Cardinality(Node)] \cap OffDiagonal

(* What a closure may leave as first hop of p: that of a pair on the way.  *)
HopsTo(p, closure) ==
  {witness[q] : q \in {r \in DOMAIN witness \cap live :
                         r[1] = p[1] /\ (r = p \/ <<r[2], p[2]>> \in closure)}}

(* A better path replaces the witness only by that of its first part.      *)
Rehop(closure, hopsTo) ==
  LET open == {p \in closure : Cardinality(hopsTo[p]) > 1}
      sure == {p \in closure : Cardinality(hopsTo[p]) = 1}
  IN  \E pick \in [open -> UNION {hopsTo[p] : p \in open}] :
        /\ \A p \in open : pick[p] \in hopsTo[p]
        /\ witness' = [p \in DOMAIN witness \cup open \cup sure |->
                         IF p \in open THEN pick[p]
                         ELSE IF p \in sure THEN CHOOSE n \in hopsTo[p] : TRUE
                         ELSE witness[p]]

Close ==
  /\ Call
  /\ \E closure \in {Closed(live)} :
       /\ live' = closure
       /\ Rehop(closure, [p \in closure |-> HopsTo(p, closure)])
  /\ costed' = Closed(costed)
  /\ UNCHANGED <<active, consumed>>
  /\ TensorOnly

-------------------------------------------------------------------------------

Policing  == InitPolicy \/ Classify \/ SetRollbackMarker \/ ApplyRollback
Replaying == ReplaySnapshot \/ ReplayRestore \/ PushTraceEvent \/ DrainTraceEvents
Teaching  == FoldReceipt \/ ApplyDeltas \/ SupervisorAppliesDeltas
Resetting == Reset \/ RestoreBaseTensor \/ EmbedTensorEdges \/ Close

(* Before a snapshot the replay buffers are zero.                          *)
RInit ==
  /\ Init
  /\ budget = [n \in Node |-> 0]
  /\ refusals = 0
  /\ resetAsked = FALSE
  /\ available = FALSE
  /\ marker = [consumed |-> {}, active |-> {}]
  /\ snap = [state |-> [OrchestrationState EXCEPT !.step = 0], consumed |-> {}, active |-> {},
             starCounter |-> NoCounters(table)]
  /\ deltas = <<>>
  /\ applyDue = FALSE
  /\ costed = live
  /\ trace = <<>>
  /\ calls = 0
  /\ restored = FALSE
  /\ parLoaded = HasPar(table)

RNext ==
  \/ SchedulerStep
  \/ HaltedStep
  \/ Supervise
  \/ RunAgain
  \/ LoadControlTable
  \/ Policing
  \/ Replaying
  \/ Teaching
  \/ Resetting
  \/ Idle /\ Terminated /\ UNCHANGED extra

RSpec == RInit /\ [][RNext]_rvars

-------------------------------------------------------------------------------
(* Properties.                                                             *)

(* Every variable keeps its type, those of the scheduler too.  A retry     *)
(* budget is what was asked for, or what retries have left of it: never    *)
(* below zero.  The replay buffers fit the table in use.                   *)
PolicyTypeOK ==
  /\ budget \in [Node -> {b - k : b \in Budgets, k \in 0 .. calls} \cup {0}]
  /\ \A n \in Node : budget[n] \in Budgets \/ budget[n] >= 0
  /\ refusals \in 0 .. calls
  /\ resetAsked \in BOOLEAN
  /\ available \in BOOLEAN
  /\ marker \in [consumed : SUBSET Pair, active : SUBSET Node]

SavedState ==
  [step : Nat, halted : BOOLEAN, blocked : BOOLEAN, pending : Nat,
   refusals : 0 .. calls, resetAsked : BOOLEAN, available : BOOLEAN]

ReplayTypeOK ==
  /\ snap \in [state : SavedState, consumed : SUBSET Pair, active : SUBSET Node,
               starCounter : [DOMAIN starCounter -> Nat]]
  /\ trace \in Seq(Nat) /\ Len(trace) <= TraceRingSize
  /\ restored \in BOOLEAN
  /\ parLoaded \in BOOLEAN

LearnedTypeOK ==
  /\ deltas \in Seq([pair : OffDiagonal, good : BOOLEAN]) /\ Len(deltas) <= DeltaRingSize
  /\ applyDue \in BOOLEAN
  /\ applyDue => pc \in {"head", "done"}
  /\ costed \subseteq Pair

RTypeOK ==
  /\ TypeOK
  /\ PolicyTypeOK
  /\ ReplayTypeOK
  /\ LearnedTypeOK
  /\ calls \in 0 .. MaxCalls

(* The pending count is the debt to the host, also after a replay has put  *)
(* back an older count, unless a failed call had leaked commands by then.  *)
DebtSurvivesReplay == (restored /\ faults > 0) \/ PendingIsDebt

(* A halt, of the scheduler's own or for a safety violation, holds: until  *)
(* a replay lifts it no step is counted, no command issued and no edge     *)
(* used up, but for what a marker or a snapshot puts back, whatever else   *)
(* the host calls and however often it starts the supervisor.              *)
HaltHolds ==
  [][halted /\ halted' =>
       /\ cmdTail' = cmdTail
       /\ \/ step' = step /\ consumed' \subseteq consumed \cup marker.consumed
          \/ step' = snap.state.step /\ consumed' = snap.consumed]_rvars

(* orch_check_no_duplicate_receipts and orch_check_no_command_without_     *)
(* receipt, over rings that have not wrapped.                              *)
DuplicateFound ==
  \E r, s \in settled : r # s /\ r.id = s.id /\ r.node = s.node

(* Settled commands stay in the ring of commands, marked valid.            *)
CommandWithoutReceipt == \E pos \in 0 .. cmdTail - 1 : \A r \in settled : r.pos # pos

(* The audits of the device raise no false alarm between bursts: rollback, *)
(* relearning, resets and new tables issue commands again, but under new   *)
(* ids, and settle each.  A replay does not (it sets the step back), nor   *)
(* does a PAR, whose members are numbered from the step before.            *)
AuditsPass ==
  pc = "head" /\ faults = 0 =>
    /\ ~CommandWithoutReceipt
    /\ (~restored /\ ~parLoaded) => ~DuplicateFound

===============================================================================
