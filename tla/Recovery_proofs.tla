--------------------------- MODULE Recovery_proofs ---------------------------
(***************************************************************************)
(* Theorems about Recovery, for every value of its constants: what holds   *)
(* of the scheduler and its rings keeps holding whatever the host does to  *)
(* the world between two bursts.                                           *)
(***************************************************************************)
EXTENDS Recovery, Orchestrator_proofs

RTypeInv == RTypeOK /\ FiniteReceipts

-------------------------------------------------------------------------------
(* The steps, by who takes them.                                           *)

HostCall ==
  RunAgain \/ LoadControlTable \/ Policing \/ Replaying \/ Teaching \/ Resetting

(* The host calls while nobody is in a burst or in the service path.       *)
Between ==
  /\ pc \in {"head", "done"} /\ pc' \in {"head", "done"}
  /\ UNCHANGED <<cmds, cmdTail, receipts, settled, batch, faults>>

LEMMA CallsBetween ==
  ASSUME RTypeInv, HostCall
  PROVE  Between
<1>1. CASE UNCHANGED vars /\ Call
  BY <1>1 DEF Between, Call, vars, rings, host
<1>2. CASE Call /\ UNCHANGED <<rings, host>>
  BY <1>2 DEF Between, Call, rings, host
<1>3. CASE RunAgain
  BY <1>3 DEF Between, RunAgain, Call, rings
<1>4. CASE SupervisorAppliesDeltas
  BY <1>4 DEF Between, SupervisorAppliesDeltas, Learning, RTypeInv, RTypeOK, LearnedTypeOK,
              rings, host
<1>5. CASE LoadControlTable \/ Policing \/ Replaying \/ FoldReceipt \/ ApplyDeltas
  BY <1>1, <1>2, <1>5
     DEF LoadControlTable, Policing, InitPolicy, Classify, SetRollbackMarker, ApplyRollback,
         Replaying, ReplaySnapshot, ReplayRestore, PushTraceEvent, DrainTraceEvents,
         FoldReceipt, ApplyDeltas, Learning
<1>6. CASE Resetting
  BY <1>2, <1>6 DEF Resetting, Reset, RestoreBaseTensor, EmbedTensorEdges, Close, TensorOnly
<1>7. QED
  BY <1>3, <1>4, <1>5, <1>6 DEF HostCall, Teaching

LEMMA SchedulerSteps ==
  ASSUME SchedulerStep \/ Supervise
  PROVE  /\ Next
         /\ UNCHANGED <<policy, replay, deltas, calls>>
         /\ costed' = costed \cup live'
BY DEF SchedulerStep, Supervise, Next

LEMMA RNextCases ==
  ASSUME RTypeInv, [RNext]_rvars
  PROVE  \/ SchedulerStep \/ Supervise
         \/ HaltedStep
         \/ HostCall /\ Between
         \/ UNCHANGED rvars
<1>1. CASE HostCall
  BY <1>1, CallsBetween
<1>2. CASE Idle /\ Terminated /\ UNCHANGED extra
  BY <1>2 DEF Terminated, rvars
<1>3. QED
  BY <1>1, <1>2 DEF RNext, HostCall

LEMMA HaltedDrains ==
  ASSUME TypeInv, HaltedStep
  PROVE  /\ DrainsAndEmits
         /\ pc = "burst" /\ pc' = "done" /\ faults' = faults
         /\ UNCHANGED <<table, witness, active, consumed, starCounter, step, halted, blocked,
                        cmds, cmdTail, exited, policy, replay, deltas, applyDue, calls>>
<1>1. /\ MarkDrained /\ pending' = DrainedPending
      /\ UNCHANGED <<cmds, cmdTail, batch>>
  BY DEF HaltedStep, Stepping, EndBurst
<1>2. DrainedPending \in Nat /\ cmdTail \in Nat
  BY DrainType DEF TypeInv, TypeOK
<1>3. DrainsAndEmits
  BY <1>1, <1>2 DEF DrainsAndEmits, Emits, Distinct
<1>4. QED
  BY <1>3 DEF HaltedStep, Stepping, EndBurst

-------------------------------------------------------------------------------
(* Types.                                                                  *)

(* What a call may have made of the variables of the scheduler.            *)
CallKeeps ==
  /\ active' \subseteq Node /\ consumed' \subseteq Pair /\ live' \subseteq Pair
  /\ DOMAIN witness' \subseteq Pair /\ witness' \in [DOMAIN witness' -> Node]
  /\ table' \in Tables
  /\ starCounter' \in [{j \in DOMAIN table' : HasCounter(j)} -> Nat]
  /\ exited' \subseteq DOMAIN table'
  /\ step' \in Nat /\ pending' \in Nat
  /\ halted' \in BOOLEAN /\ blocked' \in BOOLEAN
  /\ burst' \in 0 .. MaxBurst - 1 /\ total' \in Nat

LEMMA CallKeepsType ==
  ASSUME TypeInv, Between, CallKeeps
  PROVE  TypeInv'
<1>1. /\ pc' \in {"head", "burst", "service", "serve", "settle", "done"}
      /\ cmds' \subseteq Command /\ cmdTail' \in Nat /\ receipts' \subseteq Receipt
      /\ settled' \subseteq Settled /\ batch' \subseteq Command /\ faults' \in 0 .. MaxFaults
      /\ IsFiniteSet(receipts')
  BY DEF Between, TypeInv, TypeOK, FiniteReceipts
<1>2. QED
  BY <1>1, Zenon DEF CallKeeps, TypeInv, TypeOK, FiniteReceipts, HasCounter

(* Pairs known to the model are pairs of nodes, off the diagonal.          *)
LEMMA PairsKnown ==
  /\ Base \subseteq OffDiagonal /\ DOMAIN Hop \subseteq OffDiagonal
  /\ \A l : Closed(l) \subseteq OffDiagonal
  /\ OffDiagonal \subseteq Pair
  /\ \A p \in Pair : p[1] \in Node /\ p[2] \in Node
<1>1. Base \subseteq OffDiagonal /\ DOMAIN Hop \subseteq OffDiagonal
  BY GraphAssumption DEF Base
<1>2. \A l : Closed(l) \subseteq OffDiagonal
  BY DEF Closed
<1>3. OffDiagonal \subseteq Pair /\ \A p \in Pair : p[1] \in Node /\ p[2] \in Node
  BY DEF OffDiagonal, Pair
<1>4. QED
  BY <1>1, <1>2, <1>3

LEMMA PickOne ==
  ASSUME NEW S, Cardinality(S) = 1
  PROVE  (CHOOSE n \in S : TRUE) \in S
<1>1. S # {}
  BY FS_EmptySet
<1>2. QED
  BY <1>1

(* The first hops a closure leaves are first hops it found.                *)
LEMMA CloseHops ==
  ASSUME Close
  PROVE  /\ live' \subseteq OffDiagonal /\ costed' \subseteq OffDiagonal
         /\ DOMAIN witness' \subseteq DOMAIN witness \cup OffDiagonal
         /\ \A p \in DOMAIN witness' :
              \/ p \in DOMAIN witness /\ witness'[p] = witness[p]
              \/ \E q \in DOMAIN witness : q[1] = p[1] /\ witness'[p] = witness[q]
<1>0. PICK closure \in {Closed(live)} :
        /\ live' = closure
        /\ Rehop(closure, [p \in closure |-> HopsTo(p, closure)])
  BY DEF Close
<1> DEFINE hopsTo == [p \in closure |-> HopsTo(p, closure)]
           open   == {p \in closure : Cardinality(hopsTo[p]) > 1}
           sure   == {p \in closure : Cardinality(hopsTo[p]) = 1}
<1>1. live' \subseteq OffDiagonal /\ costed' \subseteq OffDiagonal /\ closure \subseteq OffDiagonal
  BY <1>0, PairsKnown DEF Close
<1>2. PICK pick \in [open -> UNION {hopsTo[p] : p \in open}] :
        /\ \A p \in open : pick[p] \in hopsTo[p]
        /\ witness' = [p \in DOMAIN witness \cup open \cup sure |->
                         IF p \in open THEN pick[p]
                         ELSE IF p \in sure THEN CHOOSE n \in hopsTo[p] : TRUE
                         ELSE witness[p]]
  BY <1>0 DEF Rehop
<1>3. /\ open \subseteq closure /\ sure \subseteq closure
      /\ DOMAIN witness' = DOMAIN witness \cup open \cup sure
  BY <1>2
<1>4. ASSUME NEW p \in closure, NEW n \in hopsTo[p]
      PROVE  \E q \in DOMAIN witness : q[1] = p[1] /\ n = witness[q]
  BY <1>4 DEF HopsTo
<1>5. ASSUME NEW p \in DOMAIN witness'
      PROVE  \/ p \in DOMAIN witness /\ witness'[p] = witness[p]
             \/ p \in closure /\ witness'[p] \in hopsTo[p]
  <2>1. CASE p \in open
    <3>1. witness'[p] = pick[p]
      BY <1>2, <1>3, <2>1
    <3>2. QED
      BY <1>2, <1>3, <2>1, <3>1
  <2>2. CASE p \in sure /\ p \notin open
    <3>1. witness'[p] = CHOOSE n \in hopsTo[p] : TRUE
      BY <1>2, <1>3, <2>2
    <3>2. QED
      BY <1>3, <2>2, <3>1, PickOne
  <2>3. CASE p \notin sure /\ p \notin open
    BY <1>2, <1>3, <2>3
  <2>4. QED
    BY <2>1, <2>2, <2>3
<1>6. QED
  BY <1>1, <1>3, <1>4, <1>5

LEMMA CallType ==
  ASSUME RTypeInv, HostCall
  PROVE  TypeInv'
<1> USE DEF RTypeInv, RTypeOK
<1>0. Between /\ TypeInv
  BY CallsBetween DEF TypeInv
<1> SUFFICES CallKeeps
  BY <1>0, CallKeepsType
<1>1. /\ active \subseteq Node /\ consumed \subseteq Pair /\ live \subseteq Pair
      /\ DOMAIN witness \subseteq Pair /\ witness \in [DOMAIN witness -> Node]
      /\ table \in Tables /\ exited \subseteq DOMAIN table
      /\ starCounter \in [{j \in DOMAIN table : HasCounter(j)} -> Nat]
      /\ step \in Nat /\ pending \in Nat /\ burst \in 0 .. MaxBurst - 1 /\ total \in Nat
  BY DEF TypeOK
<1>2. halted \in BOOLEAN /\ blocked \in BOOLEAN
  BY DEF TypeOK
<1>3. /\ snap.state.step \in Nat /\ snap.state.pending \in Nat
      /\ snap.consumed \subseteq Pair /\ snap.active \subseteq Node
      /\ snap.starCounter \in [DOMAIN starCounter -> Nat]
      /\ marker.consumed \subseteq Pair /\ marker.active \subseteq Node
  BY DEF ReplayTypeOK, PolicyTypeOK, SavedState
<1>4. snap.state.halted \in BOOLEAN /\ snap.state.blocked \in BOOLEAN
  BY DEF ReplayTypeOK, SavedState
<1>5. CASE UNCHANGED vars
  <2>1. /\ UNCHANGED <<active, consumed, live, witness, table, starCounter, exited>>
        /\ UNCHANGED <<step, pending, burst, total, halted, blocked>>
    BY <1>5 DEF vars, device, host
  <2>2. QED
    BY <1>1, <1>2, <2>1 DEF CallKeeps, HasCounter
<1>6. CASE RunAgain
  <2>1. /\ UNCHANGED <<active, consumed, live, witness, table, starCounter, exited>>
        /\ UNCHANGED <<step, pending, halted, blocked>>
        /\ burst' = 0 /\ total' = 0
    BY <1>6 DEF RunAgain, device
  <2>2. QED
    BY <1>1, <1>2, <2>1, BoundAssumption DEF CallKeeps, HasCounter
<1>7. CASE LoadControlTable
  <2>1. /\ UNCHANGED <<active, consumed, live, witness, step, pending, burst, total, halted, blocked>>
        /\ table' \in Tables /\ starCounter' = NoCounters(table') /\ exited' = {}
    BY <1>7 DEF LoadControlTable, host
  <2>2. starCounter' \in [{j \in DOMAIN table' : HasCounter(j)} -> Nat]
    BY <2>1 DEF NoCounters
  <2>3. QED
    BY <1>1, <1>2, <2>1, <2>2 DEF CallKeeps
<1>8. CASE Classify
  <2>1. /\ UNCHANGED <<active, consumed, live, witness, table, starCounter, exited>>
        /\ UNCHANGED <<step, pending, burst, total, blocked>>
    BY <1>8 DEF Classify, host
  <2>2. halted' \in BOOLEAN
    BY <1>8, Zenon DEF Classify
  <2>3. QED
    BY <1>1, <1>2, <2>1, <2>2 DEF CallKeeps, HasCounter
<1>9. CASE ApplyRollback
  <2>1. /\ UNCHANGED <<live, witness, table, starCounter, exited>>
        /\ UNCHANGED <<step, pending, burst, total, halted, blocked>>
        /\ consumed' = marker.consumed /\ active' = marker.active
    BY <1>9 DEF ApplyRollback, host
  <2>2. QED
    BY <1>1, <1>2, <1>3, <2>1 DEF CallKeeps, HasCounter
<1>10. CASE ReplayRestore
  <2>1. /\ UNCHANGED <<live, witness, table, exited, burst, total>>
        /\ consumed' = snap.consumed /\ active' = snap.active
        /\ step' = snap.state.step /\ pending' = snap.state.pending
        /\ halted' = snap.state.halted /\ blocked' = snap.state.blocked
        /\ starCounter' = snap.starCounter
    BY <1>10 DEF ReplayRestore, host
  <2>2. QED
    BY <1>1, <1>3, <1>4, <2>1 DEF CallKeeps, HasCounter
<1>11. CASE Learning
  <2>1. /\ UNCHANGED <<active, consumed, witness, table, starCounter, exited>>
        /\ UNCHANGED <<step, pending, burst, total, halted, blocked>>
        /\ live' \subseteq live \cup costed
    BY <1>11 DEF Learning, host
  <2>2. live' \subseteq Pair
    BY <1>1, <2>1 DEF LearnedTypeOK
  <2>3. QED
    BY <1>1, <1>2, <2>1, <2>2 DEF CallKeeps, HasCounter
<1>12. CASE Resetting
  <2>1. /\ UNCHANGED <<table, starCounter, exited>>
        /\ UNCHANGED <<step, pending, burst, total, halted, blocked>>
    BY <1>12 DEF Resetting, Reset, RestoreBaseTensor, EmbedTensorEdges, Close, TensorOnly, host
  <2>2. active' \subseteq Node /\ consumed' \subseteq Pair
    BY <1>1, <1>12, GraphAssumption
       DEF Resetting, Reset, RestoreBaseTensor, EmbedTensorEdges, Close, Cleared
  <2>3. /\ live' \subseteq Pair
        /\ DOMAIN witness' \subseteq Pair /\ witness' \in [DOMAIN witness' -> Node]
    <3>1. CASE Reset \/ RestoreBaseTensor
      <4>1. live' \subseteq Pair /\ witness' = <<>>
        BY <3>1, PairsKnown DEF Reset, RestoreBaseTensor
      <4>2. <<>> \in Seq(Node) /\ Len(<<>>) = 0
        OBVIOUS
      <4>3. DOMAIN witness' = {} /\ witness' \in [DOMAIN witness' -> Node]
        BY <4>1, <4>2
      <4>4. QED
        BY <4>1, <4>3
    <3>2. CASE EmbedTensorEdges
      <4>1. PICK better \in SUBSET Base :
              witness' = [p \in DOMAIN witness \cup better |->
                            IF p \in better THEN p[2] ELSE witness[p]]
        BY <3>2 DEF EmbedTensorEdges
      <4>2. better \subseteq Pair /\ \A p \in better : p[2] \in Node
        BY PairsKnown
      <4>3. QED
        BY <1>1, <3>2, <4>1, <4>2, PairsKnown DEF EmbedTensorEdges
    <3>3. CASE Close
      <4>1. \A p \in DOMAIN witness' : witness'[p] \in Node
        BY <1>1, <3>3, CloseHops
      <4>2. DOMAIN witness' \subseteq Pair /\ live' \subseteq Pair
        BY <1>1, <3>3, CloseHops, PairsKnown
      <4>3. witness' = [p \in DOMAIN witness' |-> witness'[p]]
        BY <3>3 DEF Close, Rehop
      <4>4. QED
        BY <4>1, <4>2, <4>3
    <3>4. QED
      BY <1>12, <3>1, <3>2, <3>3 DEF Resetting
  <2>4. QED
    BY <1>1, <1>2, <2>1, <2>2, <2>3 DEF CallKeeps, HasCounter
<1>13. CASE InitPolicy \/ SetRollbackMarker \/ ReplaySnapshot \/ FoldReceipt \/ PushTraceEvent
             \/ DrainTraceEvents
  BY <1>5, <1>13
     DEF InitPolicy, SetRollbackMarker, ReplaySnapshot, FoldReceipt, PushTraceEvent, DrainTraceEvents
<1>14. QED
  BY <1>6, <1>7, <1>8, <1>9, <1>10, <1>11, <1>12, <1>13
     DEF HostCall, Policing, Replaying, Teaching, ApplyDeltas, SupervisorAppliesDeltas

(* The policy and what is saved keep their type when later calls count.    *)
LEMMA PolicyStays ==
  ASSUME PolicyTypeOK, UNCHANGED policy, calls \in Nat, calls' \in Nat, calls' >= calls
  PROVE  PolicyTypeOK'
<1>1. 0 .. calls \subseteq 0 .. calls'
  OBVIOUS
<1>2. /\ budget' \in [Node -> {b - k : b \in Budgets, k \in 0 .. calls'} \cup {0}]
      /\ \A n \in Node : budget'[n] \in Budgets \/ budget'[n] >= 0
  BY <1>1 DEF PolicyTypeOK, policy
<1>3. refusals' \in 0 .. calls' /\ marker' \in [consumed : SUBSET Pair, active : SUBSET Node]
  BY <1>1 DEF PolicyTypeOK, policy
<1>4. resetAsked' \in BOOLEAN /\ available' \in BOOLEAN
  BY DEF PolicyTypeOK, policy
<1>5. QED
  BY <1>2, <1>3, <1>4 DEF PolicyTypeOK

LEMMA ClassifyPolicy ==
  ASSUME PolicyTypeOK, Classify, settled \subseteq Settled, calls \in Nat, RecoveryAssumption
  PROVE  PolicyTypeOK'
<1>0. PICK r \in settled, outcome \in {"failure", "timeout", "safety"} :
      LET verdict == Verdict(r.node, outcome) IN
      /\ budget' = IF verdict = "retry"
                   THEN [budget EXCEPT ![r.node] = AfterRetry(@)] ELSE budget
      /\ resetAsked' = (resetAsked \/ verdict = "halt")
      /\ halted' = (halted \/ verdict = "halt")
      /\ refusals' = CASE verdict = "halt"  -> refusals
                       [] verdict = "block" -> refusals + 1
                       [] verdict = "retry" -> 0
  BY DEF Classify
<1> DEFINE left(c) == {b - k : b \in Budgets, k \in 0 .. c} \cup {0}
<1>1. calls' = calls + 1 /\ 0 .. calls \subseteq 0 .. calls' /\ r.node \in Node
  BY DEF Classify, Call, Settled
<1>2. left(calls) \subseteq left(calls')
  BY <1>1
<1>3. ASSUME NEW b \in left(calls)
      PROVE  AfterRetry(b) \in left(calls') /\ (b \in Int => AfterRetry(b) = b \/ AfterRetry(b) >= 0)
  <2>1. CASE b > 0 /\ b # 0
    <3>1. PICK d \in Budgets, k \in 0 .. calls : b = d - k
      BY <1>3, <2>1
    <3>2. d \in Int /\ k + 1 \in 0 .. calls' /\ b \in Int /\ b - 1 = d - (k + 1) /\ b - 1 >= 0
      BY <1>1, <2>1, <3>1 DEF RecoveryAssumption
    <3>3. AfterRetry(b) = b - 1
      BY <2>1 DEF AfterRetry
    <3>4. QED
      BY <3>2, <3>3
  <2>2. CASE ~(b > 0)
    BY <1>2, <2>2 DEF AfterRetry
  <2>3. QED
    BY <2>1, <2>2
<1>4. /\ budget \in [Node -> left(calls)] /\ \A n \in Node : budget[n] \in Budgets \/ budget[n] >= 0
      /\ refusals \in 0 .. calls /\ marker \in [consumed : SUBSET Pair, active : SUBSET Node]
  BY DEF PolicyTypeOK
<1>5. left(calls) \subseteq Int
  BY DEF RecoveryAssumption
<1>6. budget' \in [Node -> left(calls')]
  <2> HIDE DEF left
  <2>1. CASE budget' = budget
    BY <1>2, <1>4, <2>1
  <2>2. CASE budget' = [budget EXCEPT ![r.node] = AfterRetry(@)]
    BY <1>1, <1>2, <1>3, <1>4, <2>2
  <2>3. QED
    BY <1>0, <2>1, <2>2
<1>7. \A n \in Node : budget'[n] \in Budgets \/ budget'[n] >= 0
  <2> HIDE DEF left
  <2>1. CASE budget' = budget
    BY <1>4, <2>1
  <2>2. CASE budget' = [budget EXCEPT ![r.node] = AfterRetry(@)]
    <3> SUFFICES ASSUME NEW n \in Node
                 PROVE  budget'[n] \in Budgets \/ budget'[n] >= 0
      OBVIOUS
    <3>1. budget[n] \in left(calls) /\ budget[n] \in Int
      BY <1>4, <1>5
    <3>2. budget'[n] = budget[n] \/ budget'[n] = AfterRetry(budget[n])
      BY <1>4, <2>2
    <3>3. QED
      BY <1>3, <1>4, <3>1, <3>2
  <2>3. QED
    BY <1>0, <2>1, <2>2
<1>8. refusals' \in 0 .. calls'
  <2>1. Verdict(r.node, outcome) \in {"halt", "retry", "block"}
    BY DEF Verdict
  <2>2. refusals' \in {refusals, refusals + 1, 0}
    BY <1>0, <2>1
  <2>3. QED
    BY <1>1, <1>4, <2>2
<1>9. resetAsked' \in BOOLEAN
  BY <1>0, Zenon
<1>10. available' \in BOOLEAN /\ marker' \in [consumed : SUBSET Pair, active : SUBSET Node]
  BY DEF Classify, PolicyTypeOK
<1>11. budget' \in [Node -> {b - k : b \in Budgets, k \in 0 .. calls'} \cup {0}]
  BY <1>6
<1> HIDE DEF left
<1>12. QED
  BY <1>7, <1>8, <1>9, <1>10, <1>11 DEF PolicyTypeOK

LEMMA ReplayStays ==
  ASSUME ReplayTypeOK, UNCHANGED replay, UNCHANGED DOMAIN starCounter,
         calls \in Nat, calls' \in Nat, calls' >= calls
  PROVE  ReplayTypeOK'
<1>1. 0 .. calls \subseteq 0 .. calls'
  OBVIOUS
<1>2. SavedState \subseteq SavedState'
  BY <1>1 DEF SavedState
<1>3. snap' \in [state : SavedState', consumed : SUBSET Pair, active : SUBSET Node,
                 starCounter : [DOMAIN starCounter' -> Nat]]
  BY <1>2 DEF ReplayTypeOK, replay
<1>4. trace' \in Seq(Nat) /\ Len(trace') <= TraceRingSize
  BY DEF ReplayTypeOK, replay
<1>5. restored' \in BOOLEAN /\ parLoaded' \in BOOLEAN
  BY DEF ReplayTypeOK, replay
<1>6. QED
  BY <1>3, <1>4, <1>5 DEF ReplayTypeOK

LEMMA LearnedStays ==
  ASSUME LearnedTypeOK, UNCHANGED learned, pc' \in {"head", "done"}
  PROVE  LearnedTypeOK'
<1>1. applyDue' \in BOOLEAN
  BY DEF LearnedTypeOK, learned
<1>2. QED
  BY <1>1 DEF LearnedTypeOK, learned

(* A call takes its count, unless the supervisor makes it.                 *)
LEMMA CallsCounted ==
  ASSUME RTypeInv, HostCall
  PROVE  calls \in Nat /\ calls' \in 0 .. MaxCalls /\ calls' >= calls
<1>1. calls \in 0 .. MaxCalls /\ MaxCalls \in Nat
  BY RecoveryAssumption DEF RTypeInv, RTypeOK
<1>2. CASE Call
  BY <1>1, <1>2 DEF Call
<1>3. CASE SupervisorAppliesDeltas
  BY <1>1, <1>3 DEF SupervisorAppliesDeltas
<1>4. QED
  BY <1>2, <1>3
     DEF HostCall, RunAgain, LoadControlTable, Policing, InitPolicy, Classify, SetRollbackMarker,
         ApplyRollback, Replaying, ReplaySnapshot, ReplayRestore, PushTraceEvent, DrainTraceEvents,
         Teaching, FoldReceipt, ApplyDeltas, Resetting, Reset, RestoreBaseTensor,
         EmbedTensorEdges, Close

LEMMA CallPolicyType ==
  ASSUME RTypeInv, HostCall
  PROVE  PolicyTypeOK'
<1>1. PolicyTypeOK /\ settled \subseteq Settled
  BY DEF RTypeInv, RTypeOK, TypeOK
<1>2. calls \in Nat /\ calls' \in Nat /\ calls' >= calls
  BY CallsCounted
<1>3. CASE UNCHANGED policy
  BY <1>1, <1>2, <1>3, PolicyStays
<1>4. CASE InitPolicy
  <2>1. PICK b \in Budgets : budget' = [n \in Node |-> b]
    BY <1>4 DEF InitPolicy
  <2>2. b \in {d - k : d \in Budgets, k \in 0 .. calls'}
    BY <1>2, RecoveryAssumption
  <2>3. /\ budget' \in [Node -> {d - k : d \in Budgets, k \in 0 .. calls'} \cup {0}]
        /\ \A n \in Node : budget'[n] \in Budgets \/ budget'[n] >= 0
    BY <2>1, <2>2
  <2>4. UNCHANGED <<refusals, resetAsked, available, marker>>
    BY <1>4 DEF InitPolicy
  <2>5. refusals' \in 0 .. calls' /\ marker' \in [consumed : SUBSET Pair, active : SUBSET Node]
    BY <1>1, <1>2, <2>4 DEF PolicyTypeOK
  <2>6. resetAsked' \in BOOLEAN /\ available' \in BOOLEAN
    BY <1>1, <2>4 DEF PolicyTypeOK
  <2>7. QED
    BY <2>3, <2>5, <2>6 DEF PolicyTypeOK
<1>5. ASSUME UNCHANGED budget, refusals' \in 0 .. calls',
             resetAsked' \in BOOLEAN, available' \in BOOLEAN,
             marker' \in [consumed : SUBSET Pair, active : SUBSET Node]
      PROVE  PolicyTypeOK'
  <2>1. 0 .. calls \subseteq 0 .. calls'
    BY <1>2
  <2>2. /\ budget' \in [Node -> {d - k : d \in Budgets, k \in 0 .. calls'} \cup {0}]
        /\ \A n \in Node : budget'[n] \in Budgets \/ budget'[n] >= 0
    BY <1>1, <1>5, <2>1 DEF PolicyTypeOK
  <2>3. QED
    BY <1>5, <2>2 DEF PolicyTypeOK
<1>6. CASE SetRollbackMarker
  <2>1. UNCHANGED <<budget, refusals, resetAsked>> /\ available' = TRUE
        /\ marker' = [consumed |-> consumed, active |-> active]
    BY <1>6 DEF SetRollbackMarker
  <2>2. marker' \in [consumed : SUBSET Pair, active : SUBSET Node] /\ refusals' \in 0 .. calls'
    BY <1>1, <1>2, <2>1 DEF RTypeInv, RTypeOK, TypeOK, PolicyTypeOK
  <2>3. resetAsked' \in BOOLEAN
    BY <1>1, <2>1 DEF PolicyTypeOK
  <2>4. available' \in BOOLEAN
    BY <2>1
  <2>5. QED
    BY <1>5, <2>1, <2>2, <2>3, <2>4
<1>7. CASE ApplyRollback
  <2>1. UNCHANGED <<budget, resetAsked, marker>> /\ available' = FALSE /\ refusals' = 0
    BY <1>7 DEF ApplyRollback
  <2>2. marker' \in [consumed : SUBSET Pair, active : SUBSET Node] /\ refusals' \in 0 .. calls'
    BY <1>1, <1>2, <2>1 DEF PolicyTypeOK
  <2>3. resetAsked' \in BOOLEAN
    BY <1>1, <2>1 DEF PolicyTypeOK
  <2>4. available' \in BOOLEAN
    BY <2>1
  <2>5. QED
    BY <1>5, <2>1, <2>2, <2>3, <2>4
<1>8. CASE ReplayRestore
  <2>1. /\ UNCHANGED <<budget, marker>> /\ resetAsked' = snap.state.resetAsked
        /\ available' = snap.state.available /\ refusals' = snap.state.refusals
    BY <1>8 DEF ReplayRestore
  <2>2. snap.state \in SavedState
    BY DEF RTypeInv, RTypeOK, ReplayTypeOK
  <2>3. marker' \in [consumed : SUBSET Pair, active : SUBSET Node] /\ refusals' \in 0 .. calls'
    BY <1>1, <1>2, <2>1, <2>2 DEF PolicyTypeOK, SavedState
  <2>4. resetAsked' \in BOOLEAN /\ available' \in BOOLEAN
    BY <2>1, <2>2 DEF SavedState
  <2>5. QED
    BY <1>5, <2>1, <2>3, <2>4
<1>9. CASE Classify
  BY <1>1, <1>2, <1>9, ClassifyPolicy, RecoveryAssumption
<1>10. QED
  BY <1>3, <1>4, <1>6, <1>7, <1>8, <1>9
     DEF HostCall, RunAgain, LoadControlTable, Policing, Replaying, ReplaySnapshot, PushTraceEvent,
         DrainTraceEvents, Teaching, FoldReceipt, ApplyDeltas, SupervisorAppliesDeltas, Learning,
         Resetting, Reset, RestoreBaseTensor, EmbedTensorEdges, Close, TensorOnly, policy

LEMMA StateSaved ==
  ASSUME RTypeInv
  PROVE  OrchestrationState \in SavedState
<1>1. /\ step \in Nat /\ pending \in Nat /\ refusals \in 0 .. calls
  BY DEF RTypeInv, RTypeOK, TypeOK, PolicyTypeOK
<1>2. halted \in BOOLEAN /\ blocked \in BOOLEAN /\ resetAsked \in BOOLEAN /\ available \in BOOLEAN
  BY DEF RTypeInv, RTypeOK, TypeOK, PolicyTypeOK
<1>3. QED
  BY <1>1, <1>2 DEF OrchestrationState, SavedState

LEMMA CallReplayType ==
  ASSUME RTypeInv, HostCall
  PROVE  ReplayTypeOK'
<1>1. ReplayTypeOK
  BY DEF RTypeInv, RTypeOK
<1>2. calls \in Nat /\ calls' \in Nat /\ calls' >= calls
  BY CallsCounted
<1>3. 0 .. calls \subseteq 0 .. calls'
  BY <1>2
<1>4. SavedState \subseteq SavedState'
  BY <1>3 DEF SavedState
<1>5. DOMAIN starCounter = {j \in DOMAIN table : HasCounter(j)}
  BY DEF RTypeInv, RTypeOK, TypeOK
<1>6. CASE UNCHANGED replay /\ UNCHANGED starCounter
  BY <1>1, <1>2, <1>6, ReplayStays
<1>7. snap \in [state : SavedState', consumed : SUBSET Pair, active : SUBSET Node,
                starCounter : [DOMAIN starCounter -> Nat]]
  BY <1>1, <1>4 DEF ReplayTypeOK
<1>8. CASE ReplaySnapshot
  <2>1. /\ snap' = [state |-> OrchestrationState, consumed |-> consumed, active |-> active,
                    starCounter |-> starCounter]
        /\ UNCHANGED <<starCounter, trace, restored, parLoaded>>
    BY <1>8 DEF ReplaySnapshot, vars, device
  <2>2. /\ OrchestrationState \in SavedState' /\ consumed \subseteq Pair /\ active \subseteq Node
        /\ starCounter \in [DOMAIN starCounter -> Nat]
    BY <1>4, StateSaved DEF RTypeInv, RTypeOK, TypeOK
  <2>3. snap' \in [state : SavedState', consumed : SUBSET Pair, active : SUBSET Node,
                   starCounter : [DOMAIN starCounter' -> Nat]]
    BY <2>1, <2>2
  <2>4. trace' \in Seq(Nat) /\ Len(trace') <= TraceRingSize
    BY <1>1, <2>1 DEF ReplayTypeOK
  <2>5. restored' \in BOOLEAN /\ parLoaded' \in BOOLEAN
    BY <1>1, <2>1 DEF ReplayTypeOK
  <2>6. QED
    BY <2>3, <2>4, <2>5 DEF ReplayTypeOK
<1>9. CASE ReplayRestore
  <2>1. starCounter' = snap.starCounter /\ restored' = TRUE /\ UNCHANGED <<snap, trace, parLoaded>>
    BY <1>9 DEF ReplayRestore
  <2>2. DOMAIN starCounter' = DOMAIN starCounter
    BY <1>7, <2>1
  <2>3. snap' \in [state : SavedState', consumed : SUBSET Pair, active : SUBSET Node,
                   starCounter : [DOMAIN starCounter' -> Nat]]
    BY <1>7, <2>1, <2>2
  <2>4. trace' \in Seq(Nat) /\ Len(trace') <= TraceRingSize
    BY <1>1, <2>1 DEF ReplayTypeOK
  <2>5. restored' \in BOOLEAN
    BY <2>1
  <2>6. parLoaded' \in BOOLEAN
    BY <1>1, <2>1 DEF ReplayTypeOK
  <2>7. QED
    BY <2>3, <2>4, <2>5, <2>6 DEF ReplayTypeOK
<1>10. CASE LoadControlTable
  <2>1. /\ starCounter' = NoCounters(table')
        /\ snap' = [snap EXCEPT !.starCounter = NoCounters(table')]
        /\ UNCHANGED <<trace, restored>>
    BY <1>10 DEF LoadControlTable
  <2>2. starCounter' \in [DOMAIN starCounter' -> Nat]
    BY <2>1 DEF NoCounters
  <2>3. snap' = [snap EXCEPT !.starCounter = starCounter']
    BY <2>1
  <2>4. snap' \in [state : SavedState', consumed : SUBSET Pair, active : SUBSET Node,
                   starCounter : [DOMAIN starCounter' -> Nat]]
    BY <1>7, <2>2, <2>3
  <2>5. trace' \in Seq(Nat) /\ Len(trace') <= TraceRingSize
    BY <1>1, <2>1 DEF ReplayTypeOK
  <2>6. restored' \in BOOLEAN
    BY <1>1, <2>1 DEF ReplayTypeOK
  <2>7. parLoaded' \in BOOLEAN
    BY <1>10, Zenon DEF LoadControlTable
  <2>8. QED
    BY <2>4, <2>5, <2>6, <2>7 DEF ReplayTypeOK
<1>11. CASE PushTraceEvent \/ DrainTraceEvents
  <2>1. UNCHANGED <<starCounter, snap, restored, parLoaded>>
    BY <1>11 DEF PushTraceEvent, DrainTraceEvents, vars, device
  <2>2. step \in Nat /\ TraceRingSize \in Nat
    BY RecoveryAssumption DEF RTypeInv, RTypeOK, TypeOK
  <2>3. trace' \in Seq(Nat) /\ Len(trace') <= TraceRingSize
    <3>1. trace \in Seq(Nat) /\ Len(trace) <= TraceRingSize
      BY <1>1 DEF ReplayTypeOK
    <3>2. \/ Len(trace) < TraceRingSize /\ trace' = Append(trace, step)
          \/ trace' = trace
          \/ trace' = <<>>
      BY <1>11 DEF PushTraceEvent, DrainTraceEvents
    <3>3. CASE Len(trace) < TraceRingSize /\ trace' = Append(trace, step)
      BY <2>2, <3>1, <3>3
    <3>4. CASE trace' = trace
      BY <3>1, <3>4
    <3>5. CASE trace' = <<>>
      BY <2>2, <3>5
    <3>6. QED
      BY <3>2, <3>3, <3>4, <3>5
  <2>4. snap' \in [state : SavedState', consumed : SUBSET Pair, active : SUBSET Node,
                   starCounter : [DOMAIN starCounter' -> Nat]]
    BY <1>7, <2>1
  <2>5. restored' \in BOOLEAN /\ parLoaded' \in BOOLEAN
    BY <1>1, <2>1 DEF ReplayTypeOK
  <2>6. QED
    BY <2>3, <2>4, <2>5 DEF ReplayTypeOK
<1>12. CASE RunAgain \/ Policing \/ Teaching \/ Resetting
  BY <1>6, <1>12
     DEF RunAgain, Policing, InitPolicy, Classify, SetRollbackMarker, ApplyRollback, Teaching,
         FoldReceipt, ApplyDeltas, SupervisorAppliesDeltas, Learning, Resetting, Reset,
         RestoreBaseTensor, EmbedTensorEdges, Close, TensorOnly, vars, device
<1>13. QED
  BY <1>8, <1>9, <1>10, <1>11, <1>12 DEF HostCall, Replaying

LEMMA CallLearnedType ==
  ASSUME RTypeInv, HostCall
  PROVE  LearnedTypeOK'
<1>1. LearnedTypeOK /\ pc' \in {"head", "done"} /\ live \subseteq Pair
  BY CallsBetween DEF RTypeInv, RTypeOK, TypeOK, Between
<1>2. CASE UNCHANGED learned
  BY <1>1, <1>2, LearnedStays
<1>3. CASE FoldReceipt
  <2>1. PICK p \in OffDiagonal, good \in BOOLEAN :
          deltas' = IF Len(deltas) < DeltaRingSize
                    THEN Append(deltas, [pair |-> p, good |-> good])
                    ELSE deltas
    BY <1>3 DEF FoldReceipt
  <2>2. [pair |-> p, good |-> good] \in [pair : OffDiagonal, good : BOOLEAN]
    OBVIOUS
  <2> DEFINE new   == [pair |-> p, good |-> good]
             Delta == [pair : OffDiagonal, good : BOOLEAN]
  <2>3. deltas' = (IF Len(deltas) < DeltaRingSize THEN Append(deltas, new) ELSE deltas)
        /\ new \in Delta /\ deltas \in Seq(Delta) /\ Len(deltas) <= DeltaRingSize
    BY <1>1, <2>1, <2>2 DEF LearnedTypeOK
  <2> HIDE DEF new, Delta
  <2>4. deltas' \in Seq(Delta) /\ Len(deltas') <= DeltaRingSize
    BY <2>3, RecoveryAssumption
  <2>5. UNCHANGED <<applyDue, costed>>
    BY <1>3 DEF FoldReceipt
  <2>6. applyDue' \in BOOLEAN
    BY <1>1, <2>5 DEF LearnedTypeOK
  <2>7. QED
    BY <1>1, <2>4, <2>5, <2>6 DEF LearnedTypeOK, Delta
<1>4. CASE Learning
  <2>1. deltas' = <<>> /\ applyDue' = FALSE /\ costed' = costed
    BY <1>4 DEF Learning
  <2>2. deltas' \in Seq([pair : OffDiagonal, good : BOOLEAN]) /\ Len(deltas') <= DeltaRingSize
    BY <2>1, RecoveryAssumption
  <2>3. applyDue' \in BOOLEAN
    BY <2>1
  <2>4. QED
    BY <1>1, <2>1, <2>2, <2>3 DEF LearnedTypeOK
<1>5. CASE Resetting
  <2>1. UNCHANGED <<deltas, applyDue>>
    BY <1>5 DEF Resetting, Reset, RestoreBaseTensor, EmbedTensorEdges, Close, TensorOnly
  <2>2. costed' \subseteq Pair
    BY <1>1, <1>5, CloseHops, PairsKnown
       DEF Resetting, Reset, RestoreBaseTensor, EmbedTensorEdges, LearnedTypeOK
  <2>3. applyDue' \in BOOLEAN
    BY <1>1, <2>1 DEF LearnedTypeOK
  <2>4. QED
    BY <1>1, <2>1, <2>2, <2>3 DEF LearnedTypeOK
<1>6. CASE RunAgain \/ LoadControlTable \/ Policing \/ Replaying
  BY <1>2, <1>6
     DEF RunAgain, LoadControlTable, Policing, InitPolicy, Classify, SetRollbackMarker, ApplyRollback,
         Replaying, ReplaySnapshot, ReplayRestore, PushTraceEvent, DrainTraceEvents, learned
<1>7. QED
  BY <1>3, <1>4, <1>5, <1>6
     DEF HostCall, Teaching, ApplyDeltas, SupervisorAppliesDeltas

LEMMA RNextType ==
  ASSUME RTypeInv, [RNext]_rvars
  PROVE  RTypeInv'
<1>1. TypeInv /\ PolicyTypeOK /\ ReplayTypeOK /\ LearnedTypeOK /\ calls \in 0 .. MaxCalls
  BY DEF RTypeInv, RTypeOK, TypeInv
<1>2. calls \in Nat
  BY <1>1
<1>3. /\ DOMAIN starCounter = {j \in DOMAIN table : HasCounter(j)}
      /\ TypeInv' => DOMAIN starCounter' = {j \in DOMAIN table' : HasCounter(j)}
  BY <1>1 DEF TypeInv, TypeOK, HasCounter
<1>4. CASE SchedulerStep \/ Supervise
  <2>1. /\ Next /\ UNCHANGED <<policy, replay, deltas, calls>>
        /\ costed' = costed \cup live'
    BY <1>4, SchedulerSteps
  <2>2. TypeInv'
    BY <1>1, <2>1, NextType
  <2>3. UNCHANGED table
    BY <2>1 DEF Next, Step, SeqStep, StarBodyStep, StarExitStep, StarExit, ChoiceStep, ParStep,
         HaltStep, SingletonStep, BlockedStep, Stepping, StepFails, BudgetSpent, PreBurst,
         DrainCommands, ServeCommand, SettleReceipts, DrainCommandsFails, PushFails, SettleFails,
         Warned, Terminated, vars
  <2>4. PolicyTypeOK' /\ ReplayTypeOK'
    BY <1>1, <1>2, <1>3, <2>1, <2>2, <2>3, PolicyStays, ReplayStays
  <2>5. costed' \subseteq Pair /\ deltas' = deltas
    BY <1>1, <2>1, <2>2 DEF TypeInv, TypeOK, LearnedTypeOK
  <2>6. applyDue' \in BOOLEAN
    BY <1>1, <1>4, Zenon DEF SchedulerStep, Supervise, LearnedTypeOK
  <2>7. applyDue' => pc' \in {"head", "done"}
    BY <1>4 DEF SchedulerStep, Supervise, Idle
  <2>8. LearnedTypeOK'
    BY <1>1, <2>5, <2>6, <2>7 DEF LearnedTypeOK
  <2>9. QED
    BY <1>1, <2>1, <2>2, <2>4, <2>8 DEF RTypeInv, RTypeOK, TypeInv
<1>5. CASE HaltedStep
  <2>1. UNCHANGED <<table, witness, active, consumed, starCounter, step, halted, blocked,
                    cmds, cmdTail, exited, policy, replay, deltas, applyDue, calls>>
    BY <1>1, <1>5, HaltedDrains
  <2>2. /\ Stepping /\ live' \in DrainedLive /\ pending' = DrainedPending
        /\ EndBurst("done") /\ costed' = costed \cup live'
    BY <1>5 DEF HaltedStep
  <2>3. step \in Nat /\ TypeOK /\ pc = "burst" /\ live' \subseteq Pair /\ pending' \in Nat
    BY <1>1, <2>2, DrainType, SteppingType DEF TypeInv, TypeOK
  <2>4. HostTypeOK'
    BY <2>1, <2>2, <2>3, BurstType
  <2>5. halted' \in BOOLEAN /\ blocked' \in BOOLEAN
    BY <2>1, <2>3 DEF TypeOK
  <2>6. CommitTypeOK'
    BY <2>1, <2>3, <2>5 DEF TypeOK, CommitTypeOK
  <2>7. starCounter' \in [{j \in DOMAIN table : HasCounter(j)} -> Nat] /\ exited' \subseteq DOMAIN table
    BY <2>1, <2>3 DEF TypeOK
  <2>8. TypeInv'
    BY <1>1, <2>2, <2>4, <2>6, <2>7, StepKeepsType DEF StepKeeps
  <2>9. PolicyTypeOK' /\ ReplayTypeOK'
    BY <1>1, <1>2, <2>1, PolicyStays, ReplayStays
  <2>10. pc' = "done" /\ costed' \subseteq Pair /\ deltas' = deltas
    BY <1>1, <2>2, <2>3 , <2>1 DEF EndBurst, LearnedTypeOK
  <2>11. applyDue' \in BOOLEAN
    BY <1>1, <2>1 DEF LearnedTypeOK
  <2>12. LearnedTypeOK'
    BY <1>1, <2>10, <2>11 DEF LearnedTypeOK
  <2>13. QED
    BY <1>1, <2>1, <2>8, <2>9, <2>12 DEF RTypeInv, RTypeOK, TypeInv
<1>6. CASE HostCall
  BY <1>6, CallType, CallPolicyType, CallReplayType, CallLearnedType, CallsCounted
     DEF RTypeInv, RTypeOK, TypeInv
<1>7. CASE UNCHANGED rvars
  <2>1. UNCHANGED vars /\ UNCHANGED <<policy, replay, learned, calls>>
    BY <1>7 DEF rvars, extra
  <2>2. TypeInv'
    BY <1>1, <2>1, NextType
  <2>3. UNCHANGED <<starCounter, pc>>
    BY <2>1 DEF vars, device, host
  <2>4. PolicyTypeOK' /\ ReplayTypeOK'
    BY <1>1, <1>2, <2>1, <2>3, PolicyStays, ReplayStays
  <2>5. applyDue' \in BOOLEAN
    BY <1>1, <2>1 DEF LearnedTypeOK, learned
  <2>6. LearnedTypeOK'
    BY <1>1, <2>1, <2>3, <2>5 DEF LearnedTypeOK, learned
  <2>7. QED
    BY <1>1, <2>1, <2>2, <2>4, <2>6 DEF RTypeInv, RTypeOK, TypeInv
<1>8. QED
  BY <1>4, <1>5, <1>6, <1>7, RNextCases

LEMMA RInitType ==
  ASSUME RInit
  PROVE  RTypeInv
<1>1. TypeInv /\ Init
  BY InitType DEF RInit
<1>2. calls = 0 /\ 0 \in 0 .. calls /\ MaxCalls \in Nat /\ DeltaRingSize \in Nat /\ TraceRingSize \in Nat
  BY RecoveryAssumption DEF RInit
<1>3. resetAsked = FALSE /\ available = FALSE /\ applyDue = FALSE /\ restored = FALSE
  BY DEF RInit
<1>4. resetAsked \in BOOLEAN /\ available \in BOOLEAN /\ applyDue \in BOOLEAN /\ restored \in BOOLEAN
  BY <1>3
<1>5. parLoaded \in BOOLEAN
  BY Zenon DEF RInit, HasPar
<1>6. PolicyTypeOK
  BY <1>2, <1>4 DEF RInit, PolicyTypeOK
<1>7. ReplayTypeOK
  <2>1. step = 0 /\ halted = FALSE /\ blocked = FALSE /\ pending = 0 /\ refusals = 0
    BY DEF RInit, Init
  <2>2. halted \in BOOLEAN /\ blocked \in BOOLEAN
    BY <2>1
  <2>3. [OrchestrationState EXCEPT !.step = 0] \in SavedState
    BY <1>2, <1>4, <2>1, <2>2 DEF OrchestrationState, SavedState
  <2>4. NoCounters(table) \in [DOMAIN starCounter -> Nat]
    BY <1>1 DEF NoCounters, TypeInv, TypeOK
  <2>5. snap \in [state : SavedState, consumed : SUBSET Pair, active : SUBSET Node,
                  starCounter : [DOMAIN starCounter -> Nat]]
    BY <2>3, <2>4 DEF RInit
  <2>6. trace \in Seq(Nat) /\ Len(trace) <= TraceRingSize
    BY <1>2 DEF RInit
  <2>7. QED
    BY <1>4, <1>5, <2>5, <2>6 DEF ReplayTypeOK
<1>8. LearnedTypeOK
  <2>1. deltas \in Seq([pair : OffDiagonal, good : BOOLEAN]) /\ Len(deltas) <= DeltaRingSize
    BY <1>2 DEF RInit
  <2>2. costed \subseteq Pair
    BY <1>1 DEF RInit, TypeInv, TypeOK
  <2>3. QED
    BY <1>3, <1>4, <2>1, <2>2 DEF LearnedTypeOK
<1>9. QED
  BY <1>1, <1>2, <1>6, <1>7, <1>8 DEF RTypeInv, RTypeOK, TypeInv

(* The scheduler, the replay buffers, the policies and the rings of deltas *)
(* and trace events keep their types, whatever calls the host makes and in *)
(* whatever order: no retry budget falls below zero, and a replay restores *)
(* counters that fit the table in use.                                     *)
THEOREM RecoveryTypeCorrect == RSpec => []RTypeOK
<1>1. RTypeInv => RTypeOK
  BY DEF RTypeInv
<1>2. QED
  BY <1>1, RInitType, RNextType, PTL DEF RSpec

-------------------------------------------------------------------------------
(* Tickets, halts and STAR counters.                                       *)

LEMMA RNextTickets ==
  ASSUME RTypeInv, Tickets, [RNext]_rvars
  PROVE  Tickets'
<1>0. TypeInv
  BY DEF RTypeInv, RTypeOK, TypeInv
<1>1. CASE SchedulerStep \/ Supervise
  BY <1>0, <1>1, SchedulerSteps, NextTickets
<1>2. CASE HaltedStep
  BY <1>0, <1>2, HaltedDrains, DrainTickets
<1>3. CASE HostCall /\ Between
  BY <1>3 DEF Between, Tickets, Issued, Distinct, Apart, Positions
<1>4. CASE UNCHANGED rvars
  BY <1>4 DEF rvars, vars, rings, host, Tickets, Issued, Distinct, Apart, Positions
<1>5. QED
  BY <1>1, <1>2, <1>3, <1>4, RNextCases

(* Rollbacks, replays, resets and new tables never put a command in two    *)
(* places, nor into one twice.                                             *)
THEOREM RecoveryKeepsTickets == RSpec => []TicketsUnique
<1>1. RInit => Tickets
  BY InitTickets DEF RInit
<1>2. RSpec => [](RTypeInv /\ Tickets)
  BY <1>1, RInitType, RNextType, RNextTickets, PTL DEF RSpec
<1>3. QED
  BY <1>2, TicketsByPlace, PTL

(* A bounded loop stays bounded, with the counters a replay would restore. *)
SavedStarBounded ==
  \A i \in DOMAIN snap.starCounter :
    table[i].op = "star" /\ table[i].bound > 0 => snap.starCounter[i] <= table[i].bound

LEMMA FreshCounters ==
  ASSUME NEW t \in Tables, NEW i \in DOMAIN NoCounters(t)
  PROVE  NoCounters(t)[i] = 0 /\ t[i].bound \in Nat
<1>1. i \in DOMAIN t /\ NoCounters(t)[i] = 0
  BY DEF NoCounters
<1>2. t \in Seq(ControlEdge)
  BY GraphAssumption
<1>3. t[i] \in ControlEdge
  BY <1>1, <1>2
<1>4. QED
  BY <1>1, <1>3 DEF ControlEdge

LEMMA RNextStarBounded ==
  ASSUME RTypeInv, StarBounded, SavedStarBounded, [RNext]_rvars
  PROVE  StarBounded' /\ SavedStarBounded'
<1>0. TypeInv /\ ReplayTypeOK
  BY DEF RTypeInv, RTypeOK, TypeInv
<1>1. CASE SchedulerStep \/ Supervise
  <2>1. Next /\ UNCHANGED snap
    BY <1>1, SchedulerSteps DEF replay
  <2>2. UNCHANGED table
    BY <2>1 DEF Next, Step, SeqStep, StarBodyStep, StarExitStep, StarExit, ChoiceStep, ParStep,
         HaltStep, SingletonStep, BlockedStep, Stepping, StepFails, BudgetSpent, PreBurst,
         DrainCommands, ServeCommand, SettleReceipts, DrainCommandsFails, PushFails, SettleFails,
         Warned, Terminated, vars
  <2>3. StarBounded'
    BY <1>0, <2>1, StarBoundedStep
  <2>4. QED
    BY <2>1, <2>2, <2>3 DEF SavedStarBounded
<1>2. CASE UNCHANGED <<table, starCounter, snap>>
  BY <1>2 DEF StarBounded, SavedStarBounded
<1>3. CASE HaltedStep
  BY <1>0, <1>2, <1>3, HaltedDrains DEF replay
<1>4. CASE LoadControlTable
  <2>1. /\ table' \in Tables /\ starCounter' = NoCounters(table')
        /\ snap' = [snap EXCEPT !.starCounter = starCounter']
    BY <1>4 DEF LoadControlTable
  <2>2. snap'.starCounter = starCounter'
    BY <1>0, <2>1 DEF ReplayTypeOK
  <2>3. \A i \in DOMAIN starCounter' : starCounter'[i] = 0 /\ table'[i].bound \in Nat
    BY <2>1, FreshCounters
  <2>4. QED
    BY <2>2, <2>3 DEF StarBounded, SavedStarBounded
<1>5. CASE ReplaySnapshot
  BY <1>5 DEF ReplaySnapshot, vars, device, StarBounded, SavedStarBounded
<1>6. CASE ReplayRestore
  BY <1>6 DEF ReplayRestore, StarBounded, SavedStarBounded
<1>7. CASE HostCall /\ ~LoadControlTable /\ ~ReplaySnapshot /\ ~ReplayRestore
  BY <1>2, <1>7
     DEF HostCall, RunAgain, Policing, InitPolicy, Classify, SetRollbackMarker, ApplyRollback,
         Replaying, PushTraceEvent, DrainTraceEvents, Teaching, FoldReceipt, ApplyDeltas,
         SupervisorAppliesDeltas, Learning, Resetting, Reset, RestoreBaseTensor, EmbedTensorEdges,
         Close, TensorOnly, vars, device, replay
<1>8. CASE UNCHANGED rvars
  BY <1>2, <1>8 DEF rvars, vars, device, extra, replay
<1>9. QED
  BY <1>1, <1>3, <1>4, <1>5, <1>6, <1>7, <1>8, RNextCases

(* No bounded STAR edge of the table in use runs its body more often than  *)
(* its bound, though a rollback keeps its counter, a replay sets it back   *)
(* and a new table clears it.                                              *)
THEOREM RecoveryBoundsStars == RSpec => []StarBounded
<1>1. RInit => StarBounded /\ SavedStarBounded
  <2> SUFFICES ASSUME RInit
               PROVE  StarBounded /\ SavedStarBounded
    OBVIOUS
  <2>1. /\ table \in Tables /\ snap.starCounter = NoCounters(table)
        /\ starCounter = NoCounters(table)
    BY DEF RInit, Init, NoCounters
  <2>2. \A i \in DOMAIN starCounter : starCounter[i] = 0 /\ table[i].bound \in Nat
    BY <2>1, FreshCounters
  <2>3. QED
    BY <2>1, <2>2 DEF StarBounded, SavedStarBounded
<1>2. QED
  BY <1>1, RInitType, RNextType, RNextStarBounded, PTL DEF RSpec

(* Only a replay touches the step count and the pending count.             *)
KeepsProgress ==
  /\ UNCHANGED <<step, pending, restored>>
  /\ consumed' \in {consumed, marker.consumed, {}}

LEMMA CallKeepsProgress ==
  ASSUME HostCall
  PROVE  ReplayRestore \/ KeepsProgress
<1>1. CASE RunAgain
  BY <1>1 DEF RunAgain, KeepsProgress, device, replay
<1>2. CASE LoadControlTable
  BY <1>2 DEF LoadControlTable, KeepsProgress
<1>3. CASE Policing
  BY <1>3 DEF Policing, InitPolicy, Classify, SetRollbackMarker, ApplyRollback, KeepsProgress,
              vars, device, replay
<1>4. CASE Replaying /\ ~ReplayRestore
  BY <1>4 DEF Replaying, ReplaySnapshot, PushTraceEvent, DrainTraceEvents, KeepsProgress,
              vars, device
<1>5. CASE Teaching
  BY <1>5 DEF Teaching, FoldReceipt, ApplyDeltas, SupervisorAppliesDeltas, Learning, KeepsProgress,
              vars, device, replay
<1>6. CASE Resetting
  BY <1>6 DEF Resetting, Reset, RestoreBaseTensor, EmbedTensorEdges, Close, Cleared, TensorOnly,
              KeepsProgress, replay
<1>7. QED
  BY <1>1, <1>2, <1>3, <1>4, <1>5, <1>6 DEF HostCall

(* A halt holds: until a replay lifts it no step is counted, no command    *)
(* issued and no edge used up, but for what a marker or a snapshot puts    *)
(* back, whatever the host calls and however often it runs the supervisor. *)
THEOREM HaltsHold == RSpec => HaltHolds
<1> DEFINE Held ==
      halted /\ halted' =>
        /\ cmdTail' = cmdTail
        /\ \/ step' = step /\ consumed' \subseteq consumed \cup marker.consumed
           \/ step' = snap.state.step /\ consumed' = snap.consumed
<1>1. ASSUME RTypeInv, [RNext]_rvars
      PROVE  Held
  <2>1. CASE UNCHANGED <<cmdTail, step, consumed>>
    BY <2>1
  <2>2. CASE SchedulerStep
    BY <2>2 DEF SchedulerStep, MayStep
  <2>3. CASE Supervise
    BY <2>1, <2>3
       DEF Supervise, BudgetSpent, PreBurst, StepFails, DrainCommands, ServeCommand, SettleReceipts,
           DrainCommandsFails, PushFails, SettleFails, Warned, device, rings
  <2>4. CASE HaltedStep
    BY <2>1, <2>4 DEF HaltedStep
  <2>5. CASE HostCall /\ Between
    <3>1. cmdTail' = cmdTail
      BY <2>5 DEF Between
    <3>2. CASE ReplayRestore
      BY <3>1, <3>2 DEF ReplayRestore
    <3>3. CASE KeepsProgress
      BY <3>1, <3>3 DEF KeepsProgress
    <3>4. QED
      BY <2>5, <3>2, <3>3, CallKeepsProgress
  <2>6. CASE UNCHANGED rvars
    BY <2>1, <2>6 DEF rvars, vars, device, rings
  <2>7. QED
    BY <1>1, <2>2, <2>3, <2>4, <2>5, <2>6, RNextCases
<1>2. RTypeInv /\ [RNext]_rvars => [Held]_rvars
  BY <1>1
<1>3. QED
  BY <1>2, RInitType, RNextType, PTL DEF RSpec, HaltHolds

-------------------------------------------------------------------------------
(* The debt of the rings, across replays.                                  *)

LEMMA RNextSelfFree ==
  ASSUME NoSelfWork, RTypeInv, HopsOut, SelfFree, [RNext]_rvars
  PROVE  HopsOut' /\ SelfFree'
<1>0. TypeInv
  BY DEF RTypeInv, RTypeOK, TypeInv
<1>1. CASE SchedulerStep \/ Supervise
  BY <1>0, <1>1, SchedulerSteps, NextSelfFree
<1>2. CASE HaltedStep
  <2>1. UNCHANGED <<witness, cmds>>
    BY <1>0, <1>2, HaltedDrains
  <2>2. batch' = batch /\ receipts' = {}
    BY <1>2 DEF HaltedStep, Stepping, MarkDrained, EndBurst
  <2>3. QED
    BY <2>1, <2>2 DEF HopsOut, SelfFree
<1>3. CASE HostCall /\ Between
  <2>1. SelfFree'
    BY <1>3 DEF Between, SelfFree
  <2>2. CASE Close
    BY <2>1, <2>2, CloseHops DEF HopsOut
  <2>3. CASE EmbedTensorEdges
    <3>1. PICK better \in SUBSET Base :
            witness' = [p \in DOMAIN witness \cup better |->
                          IF p \in better THEN p[2] ELSE witness[p]]
      BY <2>3 DEF EmbedTensorEdges
    <3>2. \A p \in better : p[1] # p[2]
      BY PairsKnown DEF OffDiagonal
    <3>3. QED
      BY <2>1, <3>1, <3>2 DEF HopsOut
  <2>4. CASE Reset \/ RestoreBaseTensor
    <3>1. witness' = <<>>
      BY <2>4 DEF Reset, RestoreBaseTensor
    <3>2. <<>> \in Seq(Node) /\ Len(<<>>) = 0
      OBVIOUS
    <3>3. DOMAIN witness' = {}
      BY <3>1, <3>2
    <3>4. QED
      BY <2>1, <3>3 DEF HopsOut
  <2>5. CASE UNCHANGED witness
    BY <2>1, <2>5 DEF HopsOut
  <2>6. CASE RunAgain \/ LoadControlTable \/ Policing
    BY <2>5, <2>6 DEF RunAgain, LoadControlTable, Policing, InitPolicy, Classify, SetRollbackMarker,
                      ApplyRollback, vars, device
  <2>7. CASE Replaying \/ Teaching
    BY <2>5, <2>7 DEF Replaying, ReplaySnapshot, ReplayRestore, PushTraceEvent, DrainTraceEvents,
                      Teaching, FoldReceipt, ApplyDeltas, SupervisorAppliesDeltas, Learning,
                      vars, device
  <2>8. QED
    BY <1>3, <2>2, <2>3, <2>4, <2>6, <2>7 DEF HostCall, Resetting
<1>4. CASE UNCHANGED rvars
  BY <1>4 DEF rvars, vars, device, rings, host, HopsOut, SelfFree
<1>5. QED
  BY <1>1, <1>2, <1>3, <1>4, RNextCases

LEMMA RNextTurns ==
  ASSUME RTypeInv, Turns, [RNext]_rvars
  PROVE  Turns'
<1>0. TypeInv
  BY DEF RTypeInv, RTypeOK, TypeInv
<1>1. CASE SchedulerStep \/ Supervise
  BY <1>0, <1>1, SchedulerSteps, NextTurns
<1>2. CASE HaltedStep
  <2>1. pc = "burst" /\ pc' = "done" /\ faults' = faults /\ UNCHANGED cmds
    BY <1>0, <1>2, HaltedDrains
  <2>2. batch' = batch
    BY <1>2 DEF HaltedStep, EndBurst
  <2>3. QED
    BY <2>1, <2>2 DEF Turns
<1>3. CASE HostCall /\ Between
  BY <1>3 DEF Between, Turns
<1>4. CASE UNCHANGED rvars
  BY <1>4 DEF rvars, vars, rings, host, Turns
<1>5. QED
  BY <1>1, <1>2, <1>3, <1>4, RNextCases

(* Nothing is owed when a snapshot is taken.                               *)
SavedQuiet == faults = 0 => snap.state.pending = 0

LEMMA QuietBetween ==
  ASSUME TypeInv, Turns, Debts, faults = 0, pc \in {"head", "burst", "done"}
  PROVE  cmds = {} /\ batch = {} /\ receipts = {} /\ pending = 0
<1>1. cmds = {} /\ batch = {} /\ receipts = {}
  BY DEF Turns, Debts
<1>2. QED
  BY <1>1, FS_EmptySet DEF Debts

LEMMA RNextDebts ==
  ASSUME Roomy, RTypeInv, Tickets, SelfFree, Turns, Debts, SavedQuiet, [RNext]_rvars
  PROVE  Debts' /\ SavedQuiet'
<1>0. TypeInv /\ faults \in Nat
  BY DEF RTypeInv, RTypeOK, TypeInv, TypeOK
<1>1. ASSUME faults' = 0, faults = 0, pc \in {"head", "burst", "done"}, pc' \in {"head", "done"},
             UNCHANGED <<cmds, batch>>, receipts' = {}, pending' = 0
      PROVE  Debts'
  <2>1. cmds' = {} /\ batch' = {}
    BY <1>0, <1>1, QuietBetween
  <2>2. QED
    BY <1>1, <2>1, FS_EmptySet, BoundAssumption DEF Debts, EveryCommitCommanded
<1>2. CASE SchedulerStep \/ Supervise
  <2>1. Next /\ UNCHANGED snap
    BY <1>2, SchedulerSteps DEF replay
  <2>2. faults' = 0 => faults = 0
    BY <1>0, <2>1, StepKeepsHost
       DEF Next, StepFails, BudgetSpent, PreBurst, DrainCommands, ServeCommand, SettleReceipts,
           DrainCommandsFails, PushFails, SettleFails, Warned, Terminated, vars, host
  <2>3. QED
    BY <1>0, <2>1, <2>2, NextDebts DEF SavedQuiet
<1>3. CASE HaltedStep
  <2>1. /\ pc = "burst" /\ pc' = "done" /\ faults' = faults /\ UNCHANGED <<cmds, snap>>
    BY <1>0, <1>3, HaltedDrains DEF replay
  <2>2. batch' = batch /\ pending' = DrainedPending /\ receipts' = {}
    BY <1>3 DEF HaltedStep, Stepping, MarkDrained, EndBurst
  <2>3. SavedQuiet'
    BY <2>1 DEF SavedQuiet
  <2>4. ASSUME faults = 0
        PROVE  pending' = 0
    <3>1. receipts = {} /\ pending = 0
      BY <1>0, <2>1, <2>4, QuietBetween
    <3>2. Applied = {}
      BY <3>1 DEF Applied
    <3>3. QED
      BY <2>2, <3>1, <3>2, FS_EmptySet DEF DrainedPending
  <2>5. CASE faults' = 0
    BY <1>1, <2>1, <2>2, <2>3, <2>4, <2>5
  <2>6. QED
    BY <2>3, <2>5 DEF Debts
<1>4. CASE HostCall /\ Between
  <2>1. /\ pc \in {"head", "done"} /\ pc' \in {"head", "done"}
        /\ UNCHANGED <<cmds, batch, receipts, faults>>
    BY <1>4 DEF Between
  <2>2. CASE faults' # 0
    BY <2>2 DEF Debts, SavedQuiet
  <2>3. CASE faults' = 0
    <3>1. faults = 0 /\ receipts = {} /\ pending = 0 /\ snap.state.pending = 0
      BY <1>0, <2>1, <2>3, QuietBetween DEF SavedQuiet
    <3>2. pending' = 0
      BY <1>4, <3>1, CallKeepsProgress DEF ReplayRestore, KeepsProgress
    <3>3. Debts'
      BY <1>1, <2>1, <2>3, <3>1, <3>2
    <3>4. snap'.state.pending = 0
      <4>1. CASE ReplaySnapshot
        BY <3>1, <4>1 DEF ReplaySnapshot, OrchestrationState
      <4>2. CASE LoadControlTable
        BY <3>1, <4>2 DEF LoadControlTable, RTypeInv, RTypeOK, ReplayTypeOK
      <4>3. CASE HostCall /\ ~ReplaySnapshot /\ ~LoadControlTable
        <5>1. UNCHANGED snap
          BY <4>3 DEF HostCall, RunAgain, Policing, InitPolicy, Classify, SetRollbackMarker,
             ApplyRollback, Replaying, ReplayRestore, PushTraceEvent, DrainTraceEvents, Teaching,
             FoldReceipt, ApplyDeltas, SupervisorAppliesDeltas, Learning, Resetting, Reset,
             RestoreBaseTensor, EmbedTensorEdges, Close, TensorOnly, replay
        <5>2. QED
          BY <3>1, <5>1
      <4>4. QED
        BY <1>4, <4>1, <4>2, <4>3
    <3>5. QED
      BY <3>3, <3>4 DEF SavedQuiet
  <2>4. QED
    BY <2>2, <2>3
<1>5. CASE UNCHANGED rvars
  BY <1>5 DEF rvars, vars, device, rings, host, extra, replay, Debts, SavedQuiet,
              EveryCommitCommanded
<1>6. QED
  BY <1>2, <1>3, <1>4, <1>5, RNextCases

LEMMA RNextDebtSurvives ==
  ASSUME RTypeInv, Tickets, Turns, Debts, SavedQuiet, DebtSurvivesReplay, [RNext]_rvars
  PROVE  DebtSurvivesReplay'
<1>0. TypeInv /\ faults \in Nat
  BY DEF RTypeInv, RTypeOK, TypeInv, TypeOK
<1>1. CASE SchedulerStep \/ Supervise
  <2>1. Next /\ UNCHANGED restored
    BY <1>1, SchedulerSteps DEF replay
  <2>2. faults' = 0 => faults = 0
    BY <1>0, <2>1, StepKeepsHost
       DEF Next, StepFails, BudgetSpent, PreBurst, DrainCommands, ServeCommand, SettleReceipts,
           DrainCommandsFails, PushFails, SettleFails, Warned, Terminated, vars, host
  <2>3. faults' \in Nat
    BY <1>0, <2>1, NextType DEF TypeInv, TypeOK
  <2>4. CASE PendingIsDebt
    BY <1>0, <2>1, <2>4, NextDebt DEF DebtSurvivesReplay
  <2>5. CASE restored /\ faults > 0
    BY <2>1, <2>2, <2>3, <2>5 DEF DebtSurvivesReplay
  <2>6. QED
    BY <2>4, <2>5 DEF DebtSurvivesReplay
<1>2. CASE HaltedStep
  <2>1. DrainsAndEmits /\ UNCHANGED <<faults, restored>>
    BY <1>0, <1>2, HaltedDrains DEF replay
  <2>2. QED
    BY <1>0, <2>1, DrainDebt DEF DebtSurvivesReplay
<1>3. CASE HostCall /\ Between
  <2>1. UNCHANGED <<cmdTail, settled, faults>>
    BY <1>3 DEF Between
  <2>2. CASE ReplayRestore
    <3>1. pending' = snap.state.pending /\ restored' = TRUE
      BY <2>2 DEF ReplayRestore
    <3>2. CASE faults = 0
      <4>1. pending = 0 /\ pending' = 0
        BY <1>0, <1>3, <3>1, <3>2, QuietBetween DEF SavedQuiet, Between
      <4>2. PendingIsDebt
        BY <3>2 DEF DebtSurvivesReplay
      <4>3. QED
        BY <2>1, <4>1, <4>2 DEF DebtSurvivesReplay, PendingIsDebt
    <3>3. CASE faults > 0
      BY <2>1, <3>1, <3>3 DEF DebtSurvivesReplay
    <3>4. QED
      BY <1>0, <3>2, <3>3
  <2>3. CASE KeepsProgress
    BY <2>1, <2>3 DEF KeepsProgress, DebtSurvivesReplay, PendingIsDebt
  <2>4. QED
    BY <1>3, <2>2, <2>3, CallKeepsProgress
<1>4. CASE UNCHANGED rvars
  BY <1>4 DEF rvars, vars, device, rings, host, extra, replay, DebtSurvivesReplay, PendingIsDebt
<1>5. QED
  BY <1>1, <1>2, <1>3, <1>4, RNextCases

(* The invariant of the rings under the calls of the host.                 *)
RRingInv ==
  /\ RTypeInv /\ Tickets /\ HopsOut /\ SelfFree /\ Turns /\ Debts
  /\ SavedQuiet /\ DebtSurvivesReplay

LEMMA RRingsInvariant ==
  ASSUME Roomy, NoSelfWork
  PROVE  RSpec => []RRingInv
<1>1. RInit => RRingInv
  <2> SUFFICES ASSUME RInit
               PROVE  RRingInv
    OBVIOUS
  <2>1. Init /\ RTypeInv
    BY RInitType DEF RInit
  <2>2. SavedQuiet
    BY <2>1 DEF RInit, Init, OrchestrationState, SavedQuiet
  <2>3. QED
    BY <2>1, <2>2, InitTickets, InitSelfFree, InitTurns, InitDebts, InitDebt
       DEF RRingInv, DebtSurvivesReplay
<1>2. RRingInv /\ [RNext]_rvars => RRingInv'
  BY RNextType, RNextTickets, RNextSelfFree, RNextTurns, RNextDebts, RNextDebtSurvives
     DEF RRingInv
<1>3. QED
  BY <1>1, <1>2, PTL DEF RSpec

(* A replay puts back an older pending count, yet the count remains the    *)
(* debt to the host, unless a failed call had leaked commands by then.     *)
THEOREM ReplayKeepsDebt ==
  ASSUME Roomy, NoSelfWork
  PROVE  RSpec => []DebtSurvivesReplay
<1>1. RRingInv => DebtSurvivesReplay
  BY DEF RRingInv
<1>2. QED
  BY <1>1, RRingsInvariant, PTL

-------------------------------------------------------------------------------
(* The audits of the device.                                               *)

Everywhere == cmds \cup batch \cup receipts \cup settled

(* Ids number commands like their positions do, as long as the step count  *)
(* is never set back and no group shares a step.                           *)
Numbered ==
  ~restored /\ ~parLoaded =>
    /\ \A x \in Everywhere : x.id <= step
    /\ \A x, y \in Everywhere : x.id = y.id => x.pos = y.pos

ParNoticed == ~parLoaded => ~HasPar(table)

(* A step of the scheduler that commits no group gives the next id.        *)
LEMMA StepNumbers ==
  ASSUME TypeInv, Step, ~HasPar(table)
  PROVE  /\ step' >= step
         /\ \A c \in cmds' \ cmds : c.id = step + 1 /\ c.pos = cmdTail /\ step' = step + 1
<1>0. step \in Nat
  BY DEF TypeInv, TypeOK
<1>1. ASSUME NEW src, NEW dst, NEW l, NEW p, Commit(src, dst, l, p)
      PROVE  /\ step' = step + 1
             /\ \A c \in cmds' \ cmds : c.id = step + 1 /\ c.pos = cmdTail
  BY <1>1 DEF Commit, CommitHalt, CommitExternal, CommitLocal, Advance, EmitCommand
<1>2. CASE SeqStep \/ StarBodyStep \/ ChoiceStep \/ SingletonStep
  BY <1>0, <1>1, <1>2 DEF SeqStep, StarBodyStep, ChoiceStep, SingletonStep
<1>3. CASE StarExitStep \/ HaltStep \/ BlockedStep
  <2>1. cmds' = cmds /\ step' \in {step, step + 1}
    BY <1>3 DEF StarExitStep, StarExit, HaltStep, BlockedStep
  <2>2. QED
    BY <1>0, <2>1
<1>4. ~ParStep
  BY DEF ParStep, ParReady, Edges, HasPar
<1>5. QED
  BY <1>2, <1>3, <1>4 DEF Step

LEMMA RNextParNoticed ==
  ASSUME RTypeInv, ParNoticed, [RNext]_rvars
  PROVE  ParNoticed'
<1>1. CASE UNCHANGED <<table, parLoaded>>
  BY <1>1 DEF ParNoticed, HasPar
<1>2. CASE LoadControlTable
  BY <1>2 DEF LoadControlTable, ParNoticed, HasPar
<1>3. CASE SchedulerStep \/ Supervise
  <2>1. Next /\ UNCHANGED parLoaded
    BY <1>3, SchedulerSteps DEF replay
  <2>2. UNCHANGED table
    BY <2>1 DEF Next, Step, SeqStep, StarBodyStep, StarExitStep, StarExit, ChoiceStep, ParStep,
         HaltStep, SingletonStep, BlockedStep, Stepping, StepFails, BudgetSpent, PreBurst,
         DrainCommands, ServeCommand, SettleReceipts, DrainCommandsFails, PushFails, SettleFails,
         Warned, Terminated, vars
  <2>3. QED
    BY <1>1, <2>1, <2>2
<1>4. CASE HaltedStep
  BY <1>1, <1>4 DEF HaltedStep, Stepping, replay
<1>5. CASE HostCall /\ ~LoadControlTable
  <2>1. CASE RunAgain
    BY <1>1, <2>1 DEF RunAgain, replay
  <2>2. CASE Policing
    BY <1>1, <2>2 DEF Policing, InitPolicy, Classify, SetRollbackMarker, ApplyRollback, vars, replay
  <2>3. CASE Replaying
    BY <1>1, <2>3 DEF Replaying, ReplaySnapshot, ReplayRestore, PushTraceEvent, DrainTraceEvents, vars
  <2>4. CASE Teaching
    BY <1>1, <2>4 DEF Teaching, FoldReceipt, ApplyDeltas, SupervisorAppliesDeltas, Learning,
                      vars, replay
  <2>5. CASE Resetting
    BY <1>1, <2>5 DEF Resetting, Reset, RestoreBaseTensor, EmbedTensorEdges, Close, TensorOnly, replay
  <2>6. QED
    BY <1>5, <2>1, <2>2, <2>3, <2>4, <2>5 DEF HostCall
<1>6. CASE UNCHANGED rvars
  BY <1>1, <1>6 DEF rvars, vars, extra, replay
<1>7. QED
  BY <1>2, <1>3, <1>4, <1>5, <1>6, RNextCases

(* Tickets that only move from place to place keep their numbers.          *)
LEMMA NumbersMove ==
  ASSUME TypeInv, Numbered, UNCHANGED parLoaded, restored' \/ UNCHANGED restored,
         step' \in Nat, step' >= step,
         \A x \in Everywhere' : \E y \in Everywhere : x.id = y.id /\ x.pos = y.pos
  PROVE  Numbered'
<1> SUFFICES ASSUME ~restored', ~parLoaded'
             PROVE  /\ \A x \in Everywhere' : x.id <= step'
                    /\ \A x, y \in Everywhere' : x.id = y.id => x.pos = y.pos
  BY DEF Numbered
<1>1. /\ \A x \in Everywhere : x.id <= step
      /\ \A x, y \in Everywhere : x.id = y.id => x.pos = y.pos
  BY DEF Numbered
<1>2. \A x \in Everywhere : x.id \in Nat
  BY DEF Everywhere, TypeInv, TypeOK, Command, Receipt, Settled
<1>3. step \in Nat
  BY DEF TypeInv, TypeOK
<1>4. QED
  BY <1>1, <1>2, <1>3

LEMMA DrainMoves ==
  ASSUME MarkDrained, UNCHANGED <<cmds, batch>>
  PROVE  \A x \in Everywhere' : \E y \in Everywhere : x.id = y.id /\ x.pos = y.pos
<1>1. receipts' = {} /\ settled' = settled \cup Slips(Applied) /\ Applied \subseteq receipts
  BY DEF MarkDrained, Slips, Slip, Applied
<1>2. \A x \in Slips(Applied) : \E y \in Applied : x.id = y.id /\ x.pos = y.pos
  BY DEF Slips, Slip
<1>3. QED
  BY <1>1, <1>2 DEF Everywhere

LEMMA StepNumbered ==
  ASSUME TypeInv, Step, Numbered, ParNoticed, UNCHANGED <<restored, parLoaded>>
  PROVE  Numbered'
<1> SUFFICES ASSUME ~restored, ~parLoaded
             PROVE  /\ \A x \in Everywhere' : x.id <= step'
                    /\ \A x, y \in Everywhere' : x.id = y.id => x.pos = y.pos
  BY DEF Numbered
<1>1. /\ \A x \in Everywhere : x.id <= step
      /\ \A x, y \in Everywhere : x.id = y.id => x.pos = y.pos
  BY DEF Numbered
<1>2. /\ step \in Nat /\ cmdTail \in Nat
      /\ \A x \in Everywhere : x.id \in Nat
  BY DEF Everywhere, TypeInv, TypeOK, Command, Receipt, Settled
<1>3. /\ step' >= step
      /\ \A c \in cmds' \ cmds : c.id = step + 1 /\ c.pos = cmdTail /\ step' = step + 1
  BY StepNumbers DEF ParNoticed
<1>4. MarkDrained /\ batch' = batch
  BY StepDrainsAndEmits DEF DrainsAndEmits, Emits
<1>5. receipts' = {} /\ settled' = settled \cup Slips(Applied) /\ Applied \subseteq receipts
  BY <1>4 DEF MarkDrained, Slips, Slip, Applied
<1>6. \A x \in Slips(Applied) : \E y \in Applied : x.id = y.id /\ x.pos = y.pos
  BY DEF Slips, Slip
<1> DEFINE Old(x) == \E y \in Everywhere : x.id = y.id /\ x.pos = y.pos
           New(x) == x.id = step + 1 /\ x.pos = cmdTail /\ step' = step + 1
<1>7. ASSUME NEW x \in Everywhere'
      PROVE  Old(x) \/ New(x)
  <2>1. x \in cmds' \ cmds \/ x \in Everywhere \/ x \in Slips(Applied)
    BY <1>4, <1>5 DEF Everywhere
  <2>2. CASE x \in cmds' \ cmds
    BY <1>3, <2>2
  <2>3. CASE x \in Slips(Applied)
    BY <1>5, <1>6, <2>3 DEF Everywhere
  <2>4. QED
    BY <2>1, <2>2, <2>3
<1>8. \A x \in Everywhere' : Old(x) => x.id <= step /\ x.id \in Nat
  BY <1>1, <1>2
<1>9. \A x \in Everywhere' : x.id <= step'
  <2>1. step' \in Nat
    BY NextType DEF Next, TypeInv, TypeOK
  <2> SUFFICES ASSUME NEW x \in Everywhere'
               PROVE  x.id <= step'
    OBVIOUS
  <2>2. CASE Old(x)
    <3>1. x.id <= step /\ x.id \in Nat
      BY <1>8, <2>2
    <3>2. QED
      BY <1>2, <1>3, <2>1, <3>1
  <2>3. CASE New(x)
    BY <1>2, <2>3
  <2>4. QED
    BY <1>7, <2>2, <2>3
<1>10. ASSUME NEW x \in Everywhere', NEW y \in Everywhere', x.id = y.id
       PROVE  x.pos = y.pos
  <2>1. CASE Old(x) /\ Old(y)
    BY <1>1, <1>10, <2>1
  <2>2. CASE New(x) /\ New(y)
    BY <2>2
  <2>3. ~(Old(x) /\ New(y)) /\ ~(Old(y) /\ New(x))
    BY <1>2, <1>8, <1>10
  <2>4. QED
    BY <1>7, <2>1, <2>2, <2>3
<1>11. QED
  BY <1>9, <1>10

LEMMA RNextNumbered ==
  ASSUME RTypeInv, ParNoticed, Numbered, [RNext]_rvars
  PROVE  Numbered'
<1>0. TypeInv /\ step \in Nat
  BY DEF RTypeInv, RTypeOK, TypeInv, TypeOK
<1>1. CASE SchedulerStep
  BY <1>0, <1>1, StepNumbered DEF SchedulerStep, replay
<1>2. CASE Supervise
  <2>1. UNCHANGED <<restored, parLoaded, step>>
    BY <1>2
       DEF Supervise, BudgetSpent, PreBurst, StepFails, DrainCommands, ServeCommand, SettleReceipts,
           DrainCommandsFails, PushFails, SettleFails, Warned, device, replay
  <2>2. CASE SettleReceipts
    BY <1>0, <2>1, <2>2, DrainMoves, NumbersMove DEF SettleReceipts
  <2>3. CASE ServeCommand
    <3>1. PICK c \in batch, outcome \in Outcomes :
            /\ receipts' =
                 IF Cardinality(receipts) < ReceiptRingSize
                 THEN receipts \cup
                        {[pos |-> c.pos, id |-> c.id, src |-> c.src, node |-> c.node,
                          outcome |-> outcome]}
                 ELSE receipts
            /\ batch' = batch \ {c}
      BY <2>3 DEF ServeCommand
    <3>2. UNCHANGED <<cmds, settled>>
      BY <2>3 DEF ServeCommand
    <3>3. \A x \in Everywhere' : \E y \in Everywhere : x.id = y.id /\ x.pos = y.pos
      BY <3>1, <3>2 DEF Everywhere
    <3>4. QED
      BY <1>0, <2>1, <3>3, NumbersMove
  <2>4. CASE ~SettleReceipts /\ ~ServeCommand
    <3>1. Everywhere' \subseteq Everywhere
      BY <1>2, <2>4
         DEF Supervise, BudgetSpent, PreBurst, StepFails, DrainCommands,
             DrainCommandsFails, PushFails, SettleFails, Warned, rings, Everywhere
    <3>2. QED
      BY <1>0, <2>1, <3>1, NumbersMove
  <2>5. QED
    BY <2>2, <2>3, <2>4
<1>3. CASE HaltedStep
  <2>1. UNCHANGED <<restored, parLoaded, step, cmds>>
    BY <1>0, <1>3, HaltedDrains DEF replay
  <2>2. MarkDrained /\ batch' = batch
    BY <1>3 DEF HaltedStep, Stepping, EndBurst
  <2>3. QED
    BY <1>0, <2>1, <2>2, DrainMoves, NumbersMove
<1>4. CASE HostCall /\ Between
  <2>1. UNCHANGED Everywhere
    BY <1>4 DEF Between, Everywhere
  <2>2. CASE ReplayRestore
    BY <2>2 DEF ReplayRestore, Numbered
  <2>3. CASE LoadControlTable
    BY <2>1, <2>3 DEF LoadControlTable, Numbered
  <2>4. CASE KeepsProgress /\ ~LoadControlTable
    <3>1. UNCHANGED parLoaded
      BY <1>4, <2>4
         DEF HostCall, RunAgain, Policing, InitPolicy, Classify, SetRollbackMarker, ApplyRollback,
             Replaying, ReplaySnapshot, ReplayRestore, PushTraceEvent, DrainTraceEvents, Teaching,
             FoldReceipt, ApplyDeltas, SupervisorAppliesDeltas, Learning, Resetting, Reset,
             RestoreBaseTensor, EmbedTensorEdges, Close, TensorOnly, replay
    <3>2. QED
      BY <1>0, <2>1, <2>4, <3>1, NumbersMove DEF KeepsProgress
  <2>5. QED
    BY <1>4, <2>2, <2>3, <2>4, CallKeepsProgress
<1>5. CASE UNCHANGED rvars
  BY <1>5 DEF rvars, vars, device, rings, host, extra, replay, Numbered, Everywhere
<1>6. QED
  BY <1>1, <1>2, <1>3, <1>4, <1>5, RNextCases

(* When nothing is owed, the settled stand for every position.             *)
LEMMA AllSettled ==
  ASSUME TypeInv, Tickets, PendingIsDebt, pending = 0
  PROVE  Positions(settled) = 0 .. cmdTail - 1
<1>1. /\ cmdTail \in Nat /\ Distinct(settled) /\ Positions(settled) \subseteq 0 .. cmdTail - 1
      /\ settled \subseteq Settled
  BY DEF TypeInv, TypeOK, Tickets, Issued
<1>2. IsFiniteSet(settled) /\ Cardinality(settled) \in 0 .. cmdTail
  BY <1>1, CountByPosition
<1>3. Cardinality(settled) = cmdTail
  BY <1>1, <1>2 DEF PendingIsDebt
<1> DEFINE f == [x \in settled |-> x.pos]
<1>4. /\ f \in [settled -> Positions(settled)]
      /\ \A x, y \in settled : f[x] = f[y] => x = y
      /\ \A t \in Positions(settled) : \E x \in settled : f[x] = t
  BY <1>1 DEF Positions, Distinct
<1> HIDE DEF f
<1>5. Cardinality(Positions(settled)) = cmdTail
  BY <1>2, <1>3, <1>4, SameCount
<1>6. IsFiniteSet(0 .. cmdTail - 1) /\ Cardinality(0 .. cmdTail - 1) = cmdTail
  <2>1. 0 \in Int /\ cmdTail - 1 \in Int
    BY <1>1
  <2>2. IsFiniteSet(0 .. cmdTail - 1)
       /\ Cardinality(0 .. cmdTail - 1) = IF 0 > cmdTail - 1 THEN 0 ELSE cmdTail - 1 - 0 + 1
    BY <2>1, FS_Interval
  <2>3. QED
    BY <1>1, <2>2
<1>7. QED
  BY <1>1, <1>5, <1>6, FS_Subset

(* Between bursts the audits of the device raise no false alarm: every     *)
(* command issued is settled, under whatever calls of the host, and no two *)
(* receipts share id and node unless a replay or a group put them there.   *)
THEOREM AuditsHold ==
  ASSUME Roomy, NoSelfWork
  PROVE  RSpec => []AuditsPass
<1>1. RInit => ParNoticed /\ Numbered
  BY DEF RInit, Init, ParNoticed, Numbered, Everywhere
<1>2. ASSUME RRingInv, ParNoticed, Numbered
      PROVE  AuditsPass
  <2> SUFFICES ASSUME pc = "head", faults = 0
               PROVE  /\ ~CommandWithoutReceipt
                      /\ ~restored /\ ~parLoaded => ~DuplicateFound
    BY DEF AuditsPass
  <2>1. TypeInv /\ Tickets /\ Turns /\ Debts /\ PendingIsDebt
    BY <1>2 DEF RRingInv, RTypeInv, RTypeOK, TypeInv, DebtSurvivesReplay
  <2>2. Positions(settled) = 0 .. cmdTail - 1
    BY <2>1, QuietBetween, AllSettled
  <2>3. ~CommandWithoutReceipt
    BY <2>2 DEF CommandWithoutReceipt, Positions
  <2>4. ASSUME ~restored, ~parLoaded, DuplicateFound
        PROVE  FALSE
    BY <1>2, <2>1, <2>4 DEF DuplicateFound, Numbered, Everywhere, Tickets, Issued, Distinct
  <2>5. QED
    BY <2>3, <2>4
<1>3. RRingInv /\ ParNoticed /\ Numbered /\ [RNext]_rvars => ParNoticed' /\ Numbered'
  BY RNextParNoticed, RNextNumbered DEF RRingInv
<1>4. RSpec => [](RRingInv /\ ParNoticed /\ Numbered)
  BY <1>1, <1>3, RRingsInvariant, PTL DEF RSpec
<1>5. RRingInv /\ ParNoticed /\ Numbered => AuditsPass
  BY <1>2
<1>6. QED
  BY <1>4, <1>5, PTL

===============================================================================
