-------------------------- MODULE Orchestrator_proofs --------------------------
(***************************************************************************)
(* Theorems about Orchestrator, for every value of its constants: its      *)
(* types, bounds and frontier, then its command and receipt rings: tickets *)
(* are unique, the pending count is the debt, the scheduler and the host   *)
(* take turns, and the rings implement the rounds of ExternalWork.         *)
(***************************************************************************)
EXTENDS Orchestrator, FiniteSetTheorems, FunctionTheorems, TLAPS

(* The receipts in flight are finite, so they can be counted.              *)
FiniteReceipts == IsFiniteSet(receipts)

TypeInv == TypeOK /\ FiniteReceipts

(* Table entries are control edges.                                        *)
LEMMA TableEntry ==
  ASSUME TypeOK, NEW i \in DOMAIN table
  PROVE  table[i] \in ControlEdge
BY GraphAssumption DEF TypeOK

(* What draining the receipts leaves is well typed.                        *)
LEMMA DrainType ==
  ASSUME TypeInv
  PROVE  /\ IsFiniteSet(Applied) /\ Cardinality(Applied) \in Nat
         /\ DrainedPending \in Nat
         /\ \A l \in DrainedLive : l \subseteq Pair
         /\ MarkDrained => /\ receipts' \subseteq Receipt
                           /\ IsFiniteSet(receipts')
                           /\ settled' \subseteq Settled
<1>1. IsFiniteSet(Applied) /\ Cardinality(Applied) \in Nat
  <2>1. Applied \subseteq receipts
    BY DEF Applied
  <2>2. QED
    BY <2>1, FS_Subset, FS_CardinalityType DEF TypeInv, FiniteReceipts
<1>2. DrainedPending \in Nat
  BY <1>1 DEF DrainedPending, TypeInv, TypeOK
<1>3. \A l \in DrainedLive : l \subseteq Pair
  <2>1. \A r \in Applied : PairOf(r) \in Pair
    BY DEF Applied, PairOf, Pair, TypeInv, TypeOK, Receipt
  <2>2. QED
    BY <2>1 DEF DrainedLive, TypeInv, TypeOK
<1>4. ASSUME MarkDrained
      PROVE  /\ receipts' \subseteq Receipt
             /\ IsFiniteSet(receipts')
             /\ settled' \subseteq Settled
  <2>1. receipts' = {}
    BY <1>4 DEF MarkDrained
  <2>2. \A r \in Applied : [pos |-> r.pos, id |-> r.id, node |-> r.node] \in Settled
    BY DEF Applied, TypeInv, TypeOK, Receipt, Settled
  <2>3. settled' \subseteq Settled
    BY <1>4, <2>2 DEF MarkDrained, TypeInv, TypeOK
  <2>4. QED
    BY <2>1, <2>3, FS_EmptySet
<1>5. QED
  BY <1>1, <1>2, <1>3, <1>4

(* Ending or continuing a burst keeps the host's variables well typed.     *)
HostTypeOK ==
  /\ pc \in {"head", "burst", "service", "serve", "settle", "done"}
  /\ burst \in 0 .. MaxBurst - 1
  /\ total \in Nat
  /\ batch \subseteq Command
  /\ faults \in 0 .. MaxFaults

LEMMA BurstType ==
  ASSUME TypeOK, step' \in Nat, pc = "burst"
  PROVE  /\ \A next \in {"head", "service", "done"} : EndBurst(next) => HostTypeOK'
         /\ Continue => HostTypeOK'
<1>1. ASSUME NEW next \in {"head", "service", "done"}, EndBurst(next)
      PROVE  HostTypeOK'
  BY <1>1, BoundAssumption DEF EndBurst, HostTypeOK, TypeOK
<1>2. ASSUME Continue
      PROVE  HostTypeOK'
  <2>1. CASE burst + 1 < MaxBurst
    BY <1>2, <2>1, BoundAssumption DEF Continue, HostTypeOK, TypeOK
  <2>2. CASE ~(burst + 1 < MaxBurst)
    BY <1>1, <1>2, <2>2 DEF Continue
  <2>3. QED
    BY <2>1, <2>2
<1>3. QED
  BY <1>1, <1>2

(* Committing an edge keeps every variable it touches well typed.          *)
CommitTypeOK ==
  /\ active \subseteq Node
  /\ consumed \subseteq Pair
  /\ live \subseteq Pair
  /\ step \in Nat
  /\ halted \in BOOLEAN
  /\ blocked \in BOOLEAN
  /\ pending \in Nat
  /\ cmds \subseteq Command
  /\ cmdTail \in Nat

LEMMA CommitType ==
  ASSUME TypeOK, pc = "burst",
         NEW src \in Node, NEW dst \in Node, NEW l \in SUBSET Pair, NEW p \in Nat,
         Commit(src, dst, l, p)
  PROVE  CommitTypeOK' /\ HostTypeOK'
<1>1. ASSUME Advance(src, dst, l)
      PROVE  /\ active' \subseteq Node /\ consumed' \subseteq Pair /\ live' \subseteq Pair
             /\ step' \in Nat /\ halted' \in BOOLEAN /\ blocked' \in BOOLEAN
  <2>1. active' \subseteq Node /\ consumed' \subseteq Pair /\ live' \subseteq Pair
    BY <1>1 DEF Advance, TypeOK, Pair
  <2>2. step' \in Nat
    BY <1>1 DEF Advance, TypeOK
  <2>3. halted' \in BOOLEAN /\ blocked' \in BOOLEAN
    BY <1>1, Zenon DEF Advance
  <2>4. QED
    BY <2>1, <2>2, <2>3
<1>2. ASSUME EmitCommand(src, dst, p)
      PROVE  pending' \in Nat /\ cmds' \subseteq Command /\ cmdTail' \in Nat
  <2>1. [pos |-> cmdTail, id |-> step + 1, src |-> src, node |-> dst] \in Command
    BY DEF TypeOK, Command
  <2>2. QED
    BY <1>2, <2>1 DEF EmitCommand, TypeOK
<1>3. CASE CommitHalt(src, dst, l, p)
  BY <1>1, <1>3, BurstType DEF CommitHalt, CommitTypeOK, TypeOK
<1>4. CASE CommitExternal(src, dst, l, p)
  BY <1>1, <1>2, <1>4, BurstType DEF CommitExternal, CommitTypeOK
<1>5. CASE CommitLocal(src, dst, l, p)
  BY <1>1, <1>5, BurstType DEF CommitLocal, CommitTypeOK, TypeOK
<1>6. QED
  BY <1>3, <1>4, <1>5 DEF Commit

(* Sets of table entries are finite, and a rank in one is a number.        *)
LEMMA RankType ==
  ASSUME TypeOK, NEW S \in SUBSET DOMAIN table
  PROVE  /\ IsFiniteSet(S) /\ Cardinality(S) \in Nat
         /\ \A i \in S : Rank(i, S) \in Nat
<1>1. DOMAIN table = 1 .. Len(table) /\ Len(table) \in Nat
  BY GraphAssumption DEF TypeOK
<1>2. IsFiniteSet(S)
  <2>1. IsFiniteSet(1 .. Len(table))
    BY <1>1, FS_Interval
  <2>2. QED
    BY <1>1, <2>1, FS_Subset
<1>3. ASSUME NEW i \in S
      PROVE  Rank(i, S) \in Nat
  <2>1. {j \in S : j < i} \subseteq S
    OBVIOUS
  <2>2. QED
    BY <1>2, <2>1, FS_Subset, FS_CardinalityType DEF Rank
<1>4. QED
  BY <1>2, <1>3, FS_CardinalityType

LEMMA ParCommitType ==
  ASSUME TypeOK, pc = "burst",
         NEW G \in SUBSET DOMAIN table, NEW l \in SUBSET Pair, NEW p \in Nat,
         ParCommit(G, l, p)
  PROVE  /\ HostTypeOK'
         /\ active' \subseteq Node /\ consumed' \subseteq Pair /\ live' \subseteq Pair
         /\ step' \in Nat /\ blocked' \in BOOLEAN
         /\ pending' \in Nat /\ cmds' \subseteq Command /\ cmdTail' \in Nat
<1> DEFINE external == {i \in G : Kind[table[i].rhs] = "external"}
           pushed   == {i \in external : Rank(i, external) < RingSize - Cardinality(cmds)}
           command(i) == [pos |-> cmdTail + Rank(i, pushed), id |-> step + Rank(i, G),
                          src |-> table[i].lhs, node |-> table[i].rhs]
<1>1. \A i \in G : table[i].lhs \in Node /\ table[i].rhs \in Node
  BY TableEntry DEF ControlEdge
<1>2. active' \subseteq Node /\ consumed' \subseteq Pair /\ live' \subseteq Pair
  BY <1>1 DEF ParCommit, TypeOK, Pair, Arrow
<1>3. step' \in Nat /\ blocked' \in BOOLEAN
  <2>1. step' = step + 1 /\ blocked' = FALSE
    BY Zenon DEF ParCommit
  <2>2. step' \in Nat
    BY <2>1 DEF TypeOK
  <2>3. blocked' \in BOOLEAN
    BY <2>1, Zenon
  <2>4. QED
    BY <2>2, <2>3
<1>4. HostTypeOK'
  BY <1>3, BurstType DEF ParCommit
<1>5. Cardinality(pushed) \in Nat /\ \A i \in pushed : Rank(i, pushed) \in Nat
  BY RankType
<1>6. \A i \in pushed : Rank(i, G) \in Nat
  BY RankType
<1>7. \A i \in pushed : command(i) \in Command
  BY <1>1, <1>5, <1>6 DEF TypeOK, Command
<1>8. cmds' \subseteq Command
  <2>1. cmds' = cmds \cup {command(i) : i \in pushed}
    BY DEF ParCommit
  <2>2. QED
    BY <1>7, <2>1 DEF TypeOK
<1>9. pending' \in Nat /\ cmdTail' \in Nat
  BY <1>5 DEF ParCommit, TypeOK
<1>10. QED
  BY <1>2, <1>3, <1>4, <1>8, <1>9

(* What a step of the scheduler leaves alone or drains stays well typed.   *)
LEMMA SteppingType ==
  ASSUME TypeInv, Stepping
  PROVE  /\ pc = "burst"
         /\ table' = table /\ table' \in Tables
         /\ DOMAIN witness' \subseteq Pair /\ witness' \in [DOMAIN witness' -> Node]
         /\ receipts' \subseteq Receipt /\ IsFiniteSet(receipts')
         /\ settled' \subseteq Settled
BY DrainType DEF TypeInv, TypeOK, Stepping

StepKeeps ==
  /\ CommitTypeOK'
  /\ HostTypeOK'
  /\ starCounter' \in [{j \in DOMAIN table : HasCounter(j)} -> Nat]
  /\ exited' \subseteq DOMAIN table

LEMMA StepKeepsType ==
  ASSUME TypeInv, Stepping, StepKeeps
  PROVE  TypeInv'
BY SteppingType, Zenon
   DEF StepKeeps, TypeInv, TypeOK, FiniteReceipts, CommitTypeOK, HostTypeOK, HasCounter

LEMMA CommitStepType ==
  ASSUME TypeInv, Stepping, NEW i \in DOMAIN table, NEW l \in DrainedLive,
         Commit(table[i].lhs, table[i].rhs, l, DrainedPending)
  PROVE  CommitTypeOK' /\ HostTypeOK'
<1>1. table[i].lhs \in Node /\ table[i].rhs \in Node
  BY TableEntry DEF TypeInv, ControlEdge
<1>2. QED
  BY <1>1, DrainType, SteppingType, CommitType DEF TypeInv

LEMMA StepType ==
  ASSUME TypeInv, Step
  PROVE  TypeInv'
<1>1. Stepping
  BY DEF Step, SeqStep, StarBodyStep, StarExitStep, StarExit, ChoiceStep, ParStep,
         HaltStep, SingletonStep, BlockedStep
<1>2. StepKeeps
  <2> USE DEF StepKeeps
  <2>1. /\ starCounter \in [{j \in DOMAIN table : HasCounter(j)} -> Nat]
        /\ exited \subseteq DOMAIN table
        /\ active \subseteq Node /\ consumed \subseteq Pair
        /\ step \in Nat /\ cmds \subseteq Command /\ cmdTail \in Nat
    BY DEF TypeInv, TypeOK
  <2>2. halted \in BOOLEAN /\ blocked \in BOOLEAN
    BY DEF TypeInv, TypeOK
  <2>3. CASE SeqStep
    <3>1. PICK l \in DrainedLive, i \in SeqReady :
            Commit(table[i].lhs, table[i].rhs, l, DrainedPending)
      BY <2>3 DEF SeqStep
    <3>2. i \in DOMAIN table
      BY DEF SeqReady, Edges
    <3>3. QED
      BY <1>1, <2>1, <2>3, <3>1, <3>2, CommitStepType DEF SeqStep
  <2>4. CASE StarBodyStep
    <3>1. PICK l \in DrainedLive, i \in Edges("star") :
            /\ Commit(table[i].lhs, table[i].rhs, l, DrainedPending)
            /\ starCounter' = IF HasCounter(i)
                              THEN [starCounter EXCEPT ![i] = @ + 1]
                              ELSE starCounter
      BY <2>4 DEF StarBodyStep
    <3>2. i \in DOMAIN table
      BY DEF Edges
    <3>3. starCounter' \in [{j \in DOMAIN table : HasCounter(j)} -> Nat]
      BY <2>1, <3>1, <3>2
    <3>4. QED
      BY <1>1, <2>1, <2>4, <3>1, <3>2, <3>3, CommitStepType DEF StarBodyStep
  <2>5. CASE StarExitStep
    <3>1. PICK i \in Edges("star") : StarExit(i)
      BY <2>5 DEF StarExitStep
    <3>2. i \in DOMAIN table /\ table[i].lhs \in Node /\ table[i].rhs \in Node
      BY TableEntry DEF Edges, ControlEdge, TypeInv
    <3>3. step' \in Nat /\ Continue
      BY <2>1, <3>1 DEF StarExit
    <3>4. HostTypeOK'
      BY <1>1, <3>3, SteppingType, BurstType DEF TypeInv
    <3>5. /\ active' \subseteq Node /\ consumed' \subseteq Pair /\ live' \subseteq Pair
          /\ pending' \in Nat /\ cmds' \subseteq Command /\ cmdTail' \in Nat
          /\ exited' \subseteq DOMAIN table
          /\ starCounter' \in [{j \in DOMAIN table : HasCounter(j)} -> Nat]
      BY <2>1, <3>1, <3>2, DrainType DEF StarExit, Pair, Arrow
    <3>6. halted' \in BOOLEAN /\ blocked' \in BOOLEAN
      BY <2>2, <3>1, Zenon DEF StarExit
    <3>7. QED
      BY <3>3, <3>4, <3>5, <3>6 DEF CommitTypeOK
  <2>6. CASE ChoiceStep
    <3>1. PICK l \in DrainedLive, i \in ChoiceReady :
            Commit(table[i].lhs, table[i].rhs, l, DrainedPending)
      BY <2>6 DEF ChoiceStep
    <3>2. i \in DOMAIN table
      BY DEF ChoiceReady, Edges
    <3>3. QED
      BY <1>1, <2>1, <2>6, <3>1, <3>2, CommitStepType DEF ChoiceStep
  <2>7. CASE ParStep
    <3>1. PICK l \in DrainedLive, G \in SUBSET ParReady : ParCommit(G, l, DrainedPending)
      BY <2>7 DEF ParStep
    <3>2. G \in SUBSET DOMAIN table
      BY DEF ParReady, Edges
    <3>3. l \in SUBSET Pair /\ DrainedPending \in Nat /\ pc = "burst" /\ TypeOK
      BY <1>1, DrainType, SteppingType DEF TypeInv
    <3>4. /\ HostTypeOK'
          /\ active' \subseteq Node /\ consumed' \subseteq Pair /\ live' \subseteq Pair
          /\ step' \in Nat /\ blocked' \in BOOLEAN
          /\ pending' \in Nat /\ cmds' \subseteq Command /\ cmdTail' \in Nat
      BY <3>1, <3>2, <3>3, ParCommitType
    <3>5. halted' \in BOOLEAN /\ UNCHANGED <<starCounter, exited>>
      BY <2>2, <2>7, Zenon DEF ParStep
    <3>6. QED
      BY <2>1, <3>4, <3>5 DEF CommitTypeOK
  <2>8. CASE HaltStep
    <3>1. step' \in Nat /\ EndBurst("done")
      BY <2>1, <2>8 DEF HaltStep
    <3>2. HostTypeOK'
      BY <1>1, <3>1, SteppingType, BurstType DEF TypeInv
    <3>3. halted' \in BOOLEAN /\ blocked' \in BOOLEAN
      BY <2>2, <2>8, Zenon DEF HaltStep
    <3>4. live' \subseteq Pair /\ pending' \in Nat
      BY <2>8, DrainType DEF HaltStep
    <3>5. QED
      BY <2>1, <2>8, <3>1, <3>2, <3>3, <3>4 DEF HaltStep, CommitTypeOK
  <2>9. CASE SingletonStep
    <3>0. PICK l \in DrainedLive :
            \E path \in Candidates(l) :
              Commit(path[1], witness[path], l, DrainedPending)
      BY <2>9 DEF SingletonStep
    <3>1. PICK path \in Candidates(l) : Commit(path[1], witness[path], l, DrainedPending)
      BY <3>0
    <3>2. path[1] \in Node /\ witness[path] \in Node
      BY DEF Candidates, TypeInv, TypeOK
    <3>3. l \in SUBSET Pair /\ DrainedPending \in Nat /\ pc = "burst" /\ TypeOK
      BY <1>1, DrainType, SteppingType DEF TypeInv
    <3>4. CommitTypeOK' /\ HostTypeOK'
      BY <3>1, <3>2, <3>3, CommitType
    <3>5. QED
      BY <2>1, <2>9, <3>4 DEF SingletonStep
  <2>10. CASE BlockedStep
    <3>1. step' \in Nat /\ EndBurst("done")
      BY <2>1, <2>10 DEF BlockedStep
    <3>2. HostTypeOK'
      BY <1>1, <3>1, SteppingType, BurstType DEF TypeInv
    <3>3. halted' \in BOOLEAN /\ blocked' \in BOOLEAN
      BY <2>2, <2>10, Zenon DEF BlockedStep
    <3>4. live' \subseteq Pair /\ pending' \in Nat
      BY <2>10, DrainType DEF BlockedStep
    <3>5. QED
      BY <2>1, <2>10, <3>1, <3>2, <3>3, <3>4 DEF BlockedStep, CommitTypeOK
  <2>11. QED
    BY <2>3, <2>4, <2>5, <2>6, <2>7, <2>8, <2>9, <2>10 DEF Step
<1>3. QED
  BY <1>1, <1>2, StepKeepsType

-------------------------------------------------------------------------------
(* The actions of the host.                                                *)

LEMMA InitType ==
  ASSUME Init
  PROVE  TypeInv
<1>1. table \in Tables /\ active \subseteq Node /\ consumed \subseteq Pair
  BY GraphAssumption DEF Init
<1>2. live \subseteq Pair /\ DOMAIN witness \subseteq Pair /\ witness \in [DOMAIN witness -> Node]
  BY GraphAssumption DEF Init, OffDiagonal, Pair
<1>3. starCounter \in [{j \in DOMAIN table : HasCounter(j)} -> Nat]
  BY DEF Init
<1>4. halted \in BOOLEAN /\ blocked \in BOOLEAN
  BY Zenon DEF Init
<1>5. /\ step \in Nat /\ pending \in Nat /\ cmds \subseteq Command /\ cmdTail \in Nat
      /\ receipts \subseteq Receipt /\ settled \subseteq Settled
      /\ pc \in {"head", "burst", "service", "serve", "settle", "done"}
      /\ burst \in 0 .. MaxBurst - 1 /\ total \in Nat /\ batch \subseteq Command
      /\ exited \subseteq DOMAIN table /\ faults \in 0 .. MaxFaults
  BY BoundAssumption DEF Init
<1>6. IsFiniteSet(receipts)
  BY FS_EmptySet DEF Init
<1>7. QED
  BY <1>1, <1>2, <1>3, <1>4, <1>5, <1>6 DEF TypeInv, TypeOK, FiniteReceipts

LEMMA PreBurstType ==
  ASSUME TypeInv, PreBurst
  PROVE  TypeInv'
<1>1. active' \subseteq Node
  BY GraphAssumption DEF PreBurst, TypeInv, TypeOK
<1>2. /\ live' \subseteq Pair
      /\ DOMAIN witness' \subseteq Pair
      /\ witness' \in [DOMAIN witness' -> Node]
  <2>1. PICK raised \in SUBSET EventEdges, better \in SUBSET EventEdges :
          /\ live' = live \cup raised
          /\ witness' = [p \in DOMAIN witness \cup better |->
                           IF p \in better THEN p[2] ELSE witness[p]]
    BY DEF PreBurst
  <2>2. EventEdges \subseteq Pair /\ \A p \in EventEdges : p[2] \in Node
    BY GraphAssumption DEF OffDiagonal, Pair
  <2>3. QED
    BY <2>1, <2>2 DEF TypeInv, TypeOK
<1>3. /\ table' = table /\ consumed' = consumed /\ starCounter' = starCounter
      /\ step' = step /\ halted' = halted /\ blocked' = blocked /\ pending' = pending
      /\ cmds' = cmds /\ cmdTail' = cmdTail /\ receipts' = receipts
      /\ settled' = settled /\ pc' = "burst" /\ burst' = burst /\ total' = total
      /\ batch' = batch /\ faults' = faults /\ exited' = exited
  BY DEF PreBurst, rings
<1>4. halted' \in BOOLEAN /\ blocked' \in BOOLEAN
  BY <1>3, Zenon DEF TypeInv, TypeOK
<1>5. QED
  BY <1>1, <1>2, <1>3, <1>4 DEF TypeInv, TypeOK, FiniteReceipts, HasCounter

(* The other host actions leave the scheduler's own variables alone, and   *)
(* the pending count and the tensor too, except for SettleReceipts.        *)
HostKeeps ==
  /\ UNCHANGED <<table, active, consumed, witness, starCounter, step, halted,
                 blocked, cmdTail, exited>>
  /\ live' \subseteq Pair
  /\ pending' \in Nat
  /\ cmds' \subseteq Command
  /\ receipts' \subseteq Receipt
  /\ IsFiniteSet(receipts')
  /\ settled' \subseteq Settled
  /\ HostTypeOK'

LEMMA HostKeepsType ==
  ASSUME TypeInv, HostKeeps
  PROVE  TypeInv'
<1>1. halted' \in BOOLEAN /\ blocked' \in BOOLEAN
  BY Zenon DEF HostKeeps, TypeInv, TypeOK
<1>2. QED
  BY <1>1 DEF HostKeeps, HostTypeOK, TypeInv, TypeOK, FiniteReceipts, HasCounter

LEMMA ServeType ==
  ASSUME TypeInv, ServeCommand
  PROVE  TypeInv'
<1>1. PICK c \in batch, outcome \in Outcomes :
        /\ receipts' = IF Cardinality(receipts) < ReceiptRingSize
                       THEN receipts \cup
                              {[pos |-> c.pos, id |-> c.id, src |-> c.src,
                                node |-> c.node, outcome |-> outcome]}
                       ELSE receipts
        /\ batch' = batch \ {c}
  BY DEF ServeCommand
<1>2. c \in Command
  BY DEF TypeInv, TypeOK
<1>3. [pos |-> c.pos, id |-> c.id, src |-> c.src, node |-> c.node,
       outcome |-> outcome] \in Receipt
  BY <1>2 DEF Command, Receipt
<1>4. receipts' \subseteq Receipt /\ IsFiniteSet(receipts')
  BY <1>1, <1>3, FS_AddElement DEF TypeInv, TypeOK, FiniteReceipts
<1>5. /\ UNCHANGED <<table, active, consumed, live, witness, starCounter, step, halted,
                     blocked, pending, cmds, cmdTail, settled, burst, total, faults, exited>>
      /\ pc' \in {"settle", "serve"}
  BY DEF ServeCommand, device
<1>6. HostTypeOK'
  BY <1>1, <1>5 DEF HostTypeOK, TypeInv, TypeOK
<1>7. HostKeeps
  BY <1>4, <1>5, <1>6 DEF HostKeeps, TypeInv, TypeOK
<1>8. QED
  BY <1>7, HostKeepsType

LEMMA SettleType ==
  ASSUME TypeInv, SettleReceipts
  PROVE  TypeInv'
<1>1. /\ UNCHANGED <<table, active, consumed, witness, starCounter, step, halted,
                     blocked, cmds, cmdTail, burst, total, batch, faults, exited>>
      /\ live' \in DrainedLive /\ pending' = DrainedPending
      /\ MarkDrained /\ pc' = "head"
  BY DEF SettleReceipts
<1>2. HostTypeOK'
  BY <1>1 DEF HostTypeOK, TypeInv, TypeOK
<1>3. HostKeeps
  BY <1>1, <1>2, DrainType DEF HostKeeps, TypeInv, TypeOK
<1>4. QED
  BY <1>3, HostKeepsType

LEMMA WarnedType ==
  ASSUME TypeInv, NEW at, Warned(at)
  PROVE  TypeInv'
<1>1. HostTypeOK'
  BY BoundAssumption DEF Warned, HostTypeOK, TypeInv, TypeOK
<1>2. HostKeeps
  BY <1>1 DEF Warned, device, rings, HostKeeps, TypeInv, TypeOK, FiniteReceipts
<1>3. QED
  BY <1>2, HostKeepsType

LEMMA NextType ==
  ASSUME TypeInv, [Next]_vars
  PROVE  TypeInv'
<1>1. CASE BudgetSpent
  <2>1. HostTypeOK'
    BY <1>1 DEF BudgetSpent, HostTypeOK, TypeInv, TypeOK
  <2>2. HostKeeps
    BY <1>1, <2>1 DEF BudgetSpent, device, rings, HostKeeps, TypeInv, TypeOK, FiniteReceipts
  <2>3. QED
    BY <2>2, HostKeepsType
<1>2. CASE StepFails
  <2>1. HostTypeOK'
    BY <1>2, BoundAssumption DEF StepFails, HostTypeOK, TypeInv, TypeOK
  <2>2. HostKeeps
    BY <1>2, <2>1 DEF StepFails, device, rings, HostKeeps, TypeInv, TypeOK, FiniteReceipts
  <2>3. QED
    BY <2>2, HostKeepsType
<1>3. CASE DrainCommands
  <2>1. HostTypeOK'
    BY <1>3 DEF DrainCommands, HostTypeOK, TypeInv, TypeOK
  <2>2. HostKeeps
    BY <1>3, <2>1 DEF DrainCommands, device, HostKeeps, TypeInv, TypeOK, FiniteReceipts
  <2>3. QED
    BY <2>2, HostKeepsType
<1>4. CASE UNCHANGED vars
  <2>1. HostTypeOK'
    BY <1>4 DEF vars, host, HostTypeOK, TypeInv, TypeOK
  <2>2. HostKeeps
    BY <1>4, <2>1 DEF vars, device, rings, HostKeeps, TypeInv, TypeOK, FiniteReceipts
  <2>3. QED
    BY <2>2, HostKeepsType
<1>5. QED
  BY <1>1, <1>2, <1>3, <1>4, PreBurstType, StepType, ServeType, SettleType, WarnedType
     DEF Next, DrainCommandsFails, PushFails, SettleFails, Terminated

(* Every variable of the scheduler, its rings and its host keeps its type, *)
(* whatever control table was loaded, however large the rings are and      *)
(* whichever CUDA calls fail.                                              *)
THEOREM TypeCorrect == Spec => []TypeOK
<1>1. Spec => []TypeInv
  BY InitType, NextType, PTL DEF Spec
<1>2. QED
  BY <1>1, PTL DEF TypeInv

-------------------------------------------------------------------------------
(* Loops.                                                                  *)

LEMMA StarBoundedStep ==
  ASSUME TypeInv, StarBounded, [Next]_vars
  PROVE  StarBounded'
<1>1. CASE StarBodyStep
  <2>1. PICK i \in Edges("star") :
          /\ ~StarExhausted(i)
          /\ starCounter' = IF HasCounter(i)
                            THEN [starCounter EXCEPT ![i] = @ + 1]
                            ELSE starCounter
    BY <1>1 DEF StarBodyStep
  <2>2. table' = table
    BY <1>1 DEF StarBodyStep, Stepping
  <2>3. i \in DOMAIN table
    BY DEF Edges
  <2>4. CASE HasCounter(i)
    <3>1. i \in DOMAIN starCounter /\ starCounter[i] \in Nat /\ table[i].bound \in Nat
      BY <2>3, <2>4, TableEntry DEF TypeInv, TypeOK, ControlEdge
    <3>2. table[i].bound > 0 => starCounter[i] < table[i].bound
      BY <2>1, <2>4, <3>1 DEF StarExhausted
    <3>3. starCounter' = [starCounter EXCEPT ![i] = @ + 1]
      BY <2>1, <2>4
    <3>4. ASSUME NEW j \in DOMAIN starCounter',
                 table[j].op = "star", table[j].bound > 0
          PROVE  starCounter'[j] <= table[j].bound
      <4>1. CASE j = i
        BY <3>1, <3>2, <3>3, <3>4, <4>1
      <4>2. CASE j # i
        BY <3>3, <3>4, <4>2 DEF StarBounded
      <4>3. QED
        BY <4>1, <4>2
    <3>5. QED
      BY <2>2, <3>4 DEF StarBounded
  <2>5. CASE ~HasCounter(i)
    BY <2>1, <2>2, <2>5 DEF StarBounded
  <2>6. QED
    BY <2>4, <2>5
<1>2. CASE ~StarBodyStep
  <2>1. UNCHANGED <<table, starCounter>>
    BY <1>2 DEF Next, Step, SeqStep, StarExitStep, StarExit, ChoiceStep, ParStep, HaltStep,
                SingletonStep, BlockedStep, Stepping, StepFails, BudgetSpent, PreBurst,
                DrainCommands, ServeCommand, SettleReceipts, DrainCommandsFails, PushFails,
                SettleFails, Warned, Terminated, vars, device
  <2>2. QED
    BY <2>1 DEF StarBounded
<1>3. QED
  BY <1>1, <1>2

(* No STAR edge with a bound and a counter runs its body more often than   *)
(* its bound, in any control table and under any interleaving with the     *)
(* host.  The guard alone does not give it: the counter is only ever       *)
(* raised by the step that tested it.                                      *)
THEOREM StarsBounded == Spec => []StarBounded
<1>1. Init => StarBounded
  <2> SUFFICES ASSUME Init
               PROVE  StarBounded
    OBVIOUS
  <2>2. \A i \in DOMAIN starCounter : starCounter[i] = 0 /\ i \in DOMAIN table
    <3>1. starCounter = [i \in {j \in DOMAIN table : HasCounter(j)} |-> 0]
      BY DEF Init
    <3>2. QED
      BY <3>1
  <2>3. TypeOK
    BY InitType DEF TypeInv
  <2>4. QED
    BY <2>2, <2>3, TableEntry DEF StarBounded, ControlEdge
<1>2. QED
  BY <1>1, InitType, NextType, StarBoundedStep, PTL DEF Spec

-------------------------------------------------------------------------------
(* The step budget.                                                        *)

(* Since the count was last read, the scheduler has taken at most the      *)
(* steps of the current burst; a burst starts within the budget.           *)
BudgetInv ==
  /\ step <= total + burst
  /\ pc = "burst" /\ MaxTotal > 0 => total < MaxTotal
  /\ BudgetRespected

(* What a step of the scheduler does to the variables of the budget.       *)
BudgetStep ==
  /\ pc = "burst"
  /\ step' \in {step, step + 1}
  /\ Continue \/ \E next \in {"service", "done"} : EndBurst(next)

LEMMA StepIsBudgetStep ==
  ASSUME Step
  PROVE  BudgetStep
<1>1. \A src, dst, l, p : Commit(src, dst, l, p) =>
        /\ step' = step + 1
        /\ Continue \/ \E next \in {"service", "done"} : EndBurst(next)
  BY DEF Commit, CommitHalt, CommitExternal, CommitLocal, Advance
<1>2. \A G, l, p : ParCommit(G, l, p) =>
        /\ step' = step + 1
        /\ Continue \/ \E next \in {"service", "done"} : EndBurst(next)
  BY DEF ParCommit
<1>3. QED
  BY <1>1, <1>2
     DEF BudgetStep, Step, SeqStep, StarBodyStep, StarExitStep, StarExit, ChoiceStep,
         ParStep, HaltStep, SingletonStep, BlockedStep, Stepping

LEMMA NatSum == \A m, n \in Nat : m <= m + n
OBVIOUS

LEMMA BudgetInvStep ==
  ASSUME TypeInv, BudgetInv, [Next]_vars
  PROVE  BudgetInv'
<1>0. step \in Nat /\ total \in Nat /\ burst \in 0 .. MaxBurst - 1
  BY DEF TypeInv, TypeOK
<1>1. CASE Step
  <2>1. BudgetStep
    BY <1>1, StepIsBudgetStep
  <2>2. step' <= total + burst + 1 /\ step' \in Nat
    BY <1>0, <2>1 DEF BudgetStep, BudgetInv
  <2>3. BudgetRespected'
    BY <1>0, <2>1, <2>2, BoundAssumption DEF BudgetStep, BudgetInv, BudgetRespected
  <2>4. CASE Continue /\ burst + 1 < MaxBurst
    BY <1>0, <2>1, <2>2, <2>3, <2>4, BoundAssumption DEF BudgetStep, BudgetInv, Continue
  <2>5. CASE \E next \in {"head", "service", "done"} : EndBurst(next)
    <3>0. step' \in Nat
      BY <2>2
    <3>1. burst' \in Nat /\ total' = step'
      BY <2>5 DEF EndBurst
    <3>2. step' <= total' + burst'
      BY <3>0, <3>1, NatSum
    <3>3. pc' # "burst"
      BY <2>5 DEF EndBurst
    <3>4. QED
      BY <2>3, <3>2, <3>3 DEF BudgetInv
  <2>6. QED
    BY <2>1, <2>4, <2>5 DEF BudgetStep, Continue
<1>2. CASE PreBurst
  BY <1>0, <1>2, BoundAssumption DEF PreBurst, BudgetInv, BudgetRespected, OutOfBudget
<1>3. CASE ~Step /\ ~PreBurst
  <2>1. UNCHANGED <<step, total, burst>> /\ (pc' = "burst" => pc = "burst")
    BY <1>3 DEF Next, StepFails, BudgetSpent, DrainCommands, ServeCommand, SettleReceipts,
                DrainCommandsFails, PushFails, SettleFails, Warned, Terminated, vars, device, host
  <2>2. QED
    BY <2>1 DEF BudgetInv, BudgetRespected
<1>4. QED
  BY <1>1, <1>2, <1>3

(* With a step budget the scheduler overruns it by less than one burst,    *)
(* wherever bursts end and whatever fails.                                 *)
THEOREM BudgetBounded == Spec => []BudgetRespected
<1>1. Init => BudgetInv
  BY BoundAssumption DEF Init, BudgetInv, BudgetRespected
<1>2. BudgetInv => BudgetRespected
  BY DEF BudgetInv
<1>3. QED
  BY <1>1, <1>2, InitType, NextType, BudgetInvStep, PTL DEF Spec

-------------------------------------------------------------------------------
(* The frontier.                                                           *)

Justified(n) ==
  \/ n = Start
  \/ n \in EventNodes \cup Reentrant
  \/ \E m \in Node : \/ <<m, n>> \in consumed
                     \/ m \in Reentrant /\ <<m, n>> \in Hops

(* The first hops of the tensor are edges of the graph or of the stream.   *)
HopsKnown == \A p \in DOMAIN witness : <<p[1], witness[p]>> \in Hops

FrontierInv == FrontierJustified /\ HopsKnown

LEMMA JustifiedStays ==
  ASSUME UNCHANGED table, consumed \subseteq consumed', NEW n, Justified(n)
  PROVE  Justified(n)'
BY DEF Justified, Hops, Arrow

LEMMA AdvanceJustifies ==
  ASSUME UNCHANGED table, NEW src \in Node, NEW dst, NEW l, Advance(src, dst, l),
         <<src, dst>> \in Hops
  PROVE  /\ consumed \subseteq consumed'
         /\ active' = {dst} /\ Justified(dst)'
<1>1. active' = {dst} /\ consumed \subseteq consumed'
  BY DEF Advance
<1>2. Hops' = Hops
  BY DEF Hops, Arrow
<1>3. CASE Reusable(<<src, dst>>)
  <2>1. src \in Reentrant \/ dst \in Reentrant
    BY <1>3 DEF Reusable
  <2>2. QED
    BY <1>1, <1>2, <2>1 DEF Justified
<1>4. CASE ~Reusable(<<src, dst>>)
  <2>1. <<src, dst>> \in consumed'
    BY <1>4 DEF Advance
  <2>2. QED
    BY <1>1, <2>1 DEF Justified
<1>5. QED
  BY <1>3, <1>4

LEMMA StepJustifies ==
  ASSUME TypeInv, FrontierInv, Step
  PROVE  active' # {} /\ \A n \in active' : Justified(n)'
<1>1. Stepping /\ TypeOK /\ UNCHANGED table
  BY DEF Step, SeqStep, StarBodyStep, StarExitStep, StarExit, ChoiceStep, ParStep, HaltStep,
         SingletonStep, BlockedStep, Stepping, TypeInv
<1>2. active # {} /\ \A n \in active : Justified(n)
  BY DEF FrontierInv, FrontierJustified, Justified
<1>3. CASE \E src \in Node : \E dst, l : <<src, dst>> \in Hops /\ Commit(src, dst, l, DrainedPending)
  BY <1>1, <1>3, AdvanceJustifies DEF Commit, CommitHalt, CommitExternal, CommitLocal
<1>4. CASE SeqStep \/ StarBodyStep \/ ChoiceStep
  <2>1. PICK i \in DOMAIN table, l \in DrainedLive :
          Commit(table[i].lhs, table[i].rhs, l, DrainedPending)
    BY <1>4 DEF SeqStep, StarBodyStep, ChoiceStep, SeqReady, ChoiceReady, Edges
  <2>2. table[i].lhs \in Node /\ <<table[i].lhs, table[i].rhs>> \in Hops
    BY <1>1, TableEntry DEF ControlEdge, Hops, Arrow
  <2>3. QED
    BY <1>3, <2>1, <2>2
<1>5. CASE SingletonStep
  <2>1. PICK l \in DrainedLive : \E path \in Candidates(l) :
               Commit(path[1], witness[path], l, DrainedPending)
    BY <1>5 DEF SingletonStep
  <2> PICK p \in Candidates(l) : Commit(p[1], witness[p], l, DrainedPending)
    BY <2>1
  <2>2. p \in DOMAIN witness /\ p[1] \in active
    BY DEF Candidates
  <2>3. p[1] \in Node /\ <<p[1], witness[p]>> \in Hops
    BY <1>1, <2>2 DEF TypeOK, FrontierInv, HopsKnown
  <2>4. QED
    BY <1>3, <2>3
<1>6. CASE StarExitStep
  <2>1. PICK i \in Edges("star") :
          active' = {table[i].lhs} /\ consumed \subseteq consumed'
    BY <1>6 DEF StarExitStep, StarExit
  <2>2. table[i].lhs \in active
    BY DEF Edges
  <2>3. QED
    BY <1>1, <1>2, <2>1, <2>2, JustifiedStays
<1>7. CASE ParStep
  <2>1. PICK l \in DrainedLive, G \in SUBSET ParReady :
          /\ ParReady # {} /\ IsParGroup(G)
          /\ active' = {table[i].rhs : i \in G}
          /\ consumed' = consumed \cup {Arrow(i) : i \in G}
    BY <1>7 DEF ParStep, ParCommit
  <2>2. G # {}
    <3>1. PICK i : i \in ParReady
      BY <2>1
    <3>2. CASE G = {}
      <4>1. Rank(i, G) = 0
        BY <3>2, FS_EmptySet DEF Rank
      <4>2. i \in G
        BY <2>1, <3>1, <3>2, <4>1, BoundAssumption DEF IsParGroup
      <4>3. QED
        BY <3>2, <4>2
    <3>3. QED
      BY <3>2
  <2>3. ASSUME NEW n \in active'
        PROVE  Justified(n)'
    <3> PICK i \in G : n = table[i].rhs
      BY <2>1
    <3>1. i \in DOMAIN table
      BY DEF ParReady, Edges
    <3>2. table[i].lhs \in Node /\ <<table[i].lhs, n>> \in consumed'
      BY <1>1, <2>1, <3>1, TableEntry DEF ControlEdge, Arrow
    <3>3. QED
      BY <3>2 DEF Justified
  <2>4. active' # {}
    BY <2>1, <2>2
  <2>5. QED
    BY <2>3, <2>4
<1>8. CASE HaltStep \/ BlockedStep
  <2>1. active' = active /\ consumed' = consumed
    BY <1>8 DEF HaltStep, BlockedStep
  <2>2. QED
    BY <1>1, <1>2, <2>1, JustifiedStays
<1>9. QED
  BY <1>4, <1>5, <1>6, <1>7, <1>8 DEF Step

LEMMA FrontierStep ==
  ASSUME TypeInv, FrontierInv, [Next]_vars
  PROVE  FrontierInv'
<1>1. UNCHANGED table
  BY DEF Next, Step, SeqStep, StarBodyStep, StarExitStep, StarExit, ChoiceStep, ParStep, HaltStep,
         SingletonStep, BlockedStep, Stepping, StepFails, BudgetSpent, PreBurst, DrainCommands,
         ServeCommand, SettleReceipts, DrainCommandsFails, PushFails, SettleFails, Warned,
         Terminated, vars
<1>2. Hops' = Hops
  BY <1>1 DEF Hops, Arrow
<1>3. active # {} /\ \A n \in active : Justified(n)
  BY DEF FrontierInv, FrontierJustified, Justified
<1>4. CASE Step
  <2>1. UNCHANGED witness
    BY <1>4 DEF Step, SeqStep, StarBodyStep, StarExitStep, StarExit, ChoiceStep, ParStep, HaltStep,
         SingletonStep, BlockedStep, Stepping
  <2>2. QED
    BY <1>2, <1>4, <2>1, StepJustifies DEF FrontierInv, FrontierJustified, HopsKnown, Justified
<1>5. CASE PreBurst
  <2>1. PICK nodes \in SUBSET EventNodes : active' = active \cup nodes
    BY <1>5 DEF PreBurst
  <2>2. consumed' = consumed
    BY <1>5 DEF PreBurst
  <2>3. \A n \in active' : Justified(n)'
    BY <1>1, <1>3, <2>1, <2>2, JustifiedStays DEF Justified
  <2>4. HopsKnown'
    <3>1. PICK better \in SUBSET EventEdges :
            witness' = [p \in DOMAIN witness \cup better |->
                          IF p \in better THEN p[2] ELSE witness[p]]
      BY <1>5 DEF PreBurst
    <3>2. \A p \in better : <<p[1], p[2]>> \in Hops
      <4>1. \A p \in Pair : <<p[1], p[2]>> = p
        BY DEF Pair
      <4>2. better \subseteq Hops /\ better \subseteq Pair
        BY GraphAssumption DEF Hops, OffDiagonal
      <4>3. QED
        BY <4>1, <4>2
    <3>3. QED
      BY <1>2, <3>1, <3>2 DEF FrontierInv, HopsKnown
  <2>5. QED
    BY <1>3, <2>1, <2>3, <2>4 DEF FrontierInv, FrontierJustified, Justified
<1>6. CASE ~Step /\ ~PreBurst
  <2>1. UNCHANGED <<active, consumed, witness>>
    BY <1>6 DEF Next, StepFails, BudgetSpent, DrainCommands, ServeCommand, SettleReceipts,
         DrainCommandsFails, PushFails, SettleFails, Warned, Terminated, vars, device
  <2>2. QED
    BY <1>2, <2>1 DEF FrontierInv, FrontierJustified, HopsKnown
<1>7. QED
  BY <1>4, <1>5, <1>6

(* Nothing becomes active by accident, and the frontier is never empty.    *)
THEOREM FrontierIsJustified == Spec => []FrontierJustified
<1>1. Init => FrontierInv
  BY DEF Init, FrontierInv, FrontierJustified, HopsKnown, Hops
<1>2. FrontierInv => FrontierJustified
  BY DEF FrontierInv
<1>3. QED
  BY <1>1, <1>2, FrontierStep, InitType, NextType, PTL DEF Spec

-------------------------------------------------------------------------------
(* Counting.                                                               *)

Distinct(S) == \A x, y \in S : x.pos = y.pos => x = y

(* Records with different positions below n are at most n.                 *)
LEMMA CountByPosition ==
  ASSUME NEW S, NEW n \in Nat, Distinct(S), Positions(S) \subseteq 0 .. n - 1
  PROVE  IsFiniteSet(S) /\ Cardinality(S) \in 0 .. n
<1> DEFINE f == [x \in S |-> x.pos]
<1>1. f \in [S -> 0 .. n - 1]
  BY DEF Positions
<1>2. \A x, y \in S : f[x] = f[y] => x = y
  BY DEF Distinct
<1>3. f \in Injection(S, 0 .. n - 1)
  BY <1>1, <1>2, Fun_IsInj
<1>4. IsFiniteSet(0 .. n - 1) /\ Cardinality(0 .. n - 1) = n
  BY FS_Interval
<1>5. IsFiniteSet(S) /\ Cardinality(S) <= n
  BY <1>3, <1>4, FS_Injection
<1>6. QED
  BY <1>5, FS_CardinalityType

LEMMA SumCancels == \A m \in Nat, a, b \in Int : m + a = m + b => a = b
OBVIOUS

(* A one-to-one image of a finite set has as many elements.                *)
LEMMA SameCount ==
  ASSUME NEW S, NEW T, NEW f \in [S -> T], IsFiniteSet(S),
         \A x, y \in S : f[x] = f[y] => x = y,
         \A t \in T : \E x \in S : f[x] = t
  PROVE  IsFiniteSet(T) /\ Cardinality(T) = Cardinality(S)
<1>1. f \in Bijection(S, T)
  BY Fun_IsBij
<1>2. QED
  BY <1>1, Fun_ExistsBij, FS_Bijection

(* Ranks in a set of table entries number its elements from zero.          *)
LEMMA RanksDistinct ==
  ASSUME TypeOK, NEW S \in SUBSET DOMAIN table
  PROVE  /\ IsFiniteSet(S) /\ Cardinality(S) \in Nat
         /\ \A i \in S : Rank(i, S) \in 0 .. Cardinality(S) - 1
         /\ \A i, j \in S : Rank(i, S) = Rank(j, S) => i = j
<1>1. IsFiniteSet(S) /\ Cardinality(S) \in Nat /\ \A i \in S : Rank(i, S) \in Nat
  BY RankType
<1>2. \A i \in S : i \in Nat
  BY GraphAssumption DEF TypeOK
<1>3. ASSUME NEW i \in S
      PROVE  Rank(i, S) < Cardinality(S)
  <2>1. {j \in S : j < i} \subseteq S \ {i}
    BY <1>2
  <2>2. IsFiniteSet(S \ {i}) /\ Cardinality(S \ {i}) = Cardinality(S) - 1
    BY <1>1, FS_RemoveElement
  <2>3. Rank(i, S) <= Cardinality(S) - 1
    BY <2>1, <2>2, FS_Subset DEF Rank
  <2>4. QED
    BY <1>1, <2>3
<1>4. ASSUME NEW i \in S, NEW j \in S, i < j
      PROVE  Rank(i, S) < Rank(j, S)
  <2> DEFINE below(k) == {m \in S : m < k}
  <2>1. below(i) \subseteq below(j) \ {i} /\ i \in below(j)
    BY <1>2, <1>4
  <2>2. IsFiniteSet(below(j))
    BY <1>1, FS_Subset
  <2>3. /\ IsFiniteSet(below(j) \ {i})
        /\ Cardinality(below(j) \ {i}) = Cardinality(below(j)) - 1
    BY <2>1, <2>2, FS_RemoveElement
  <2>4. Cardinality(below(i)) <= Cardinality(below(j)) - 1
    BY <2>1, <2>3, FS_Subset
  <2>5. QED
    BY <1>1, <2>4 DEF Rank
<1>5. QED
  BY <1>1, <1>2, <1>3, <1>4

-------------------------------------------------------------------------------
(* What a step of the scheduler does to the rings, whatever it commits.    *)

(* New commands take the next positions, and all of them are owed.         *)
Emits(p) ==
  /\ cmds \subseteq cmds'
  /\ \A c \in cmds' \ cmds : c.pos \in cmdTail .. cmdTail' - 1
  /\ Distinct(cmds' \ cmds)
  /\ cmdTail' \in Nat /\ cmdTail' >= cmdTail
  /\ pending' = p + (cmdTail' - cmdTail)
  /\ batch' = batch

LEMMA CommitEmits ==
  ASSUME TypeOK, NEW src, NEW dst, NEW l, NEW p \in Nat, Commit(src, dst, l, p)
  PROVE  Emits(p)
<1>1. cmdTail \in Nat
  BY DEF TypeOK
<1>2. CASE UNCHANGED <<cmds, cmdTail>> /\ pending' = p /\ batch' = batch
  BY <1>1, <1>2 DEF Emits, Distinct
<1>3. CASE CommitExternal(src, dst, l, p)
  <2>1. batch' = batch
    BY <1>3 DEF CommitExternal, EndBurst
  <2>2. CASE p < RingSize /\ Cardinality(cmds) < RingSize
    <3> DEFINE new == [pos |-> cmdTail, id |-> step + 1, src |-> src, node |-> dst]
    <3>1. cmds' = cmds \cup {new} /\ cmdTail' = cmdTail + 1 /\ pending' = p + 1
      BY <1>3, <2>2 DEF CommitExternal, EmitCommand
    <3>2. new.pos = cmdTail
      OBVIOUS
    <3>3. cmds' \ cmds \subseteq {new}
      BY <3>1
    <3> HIDE DEF new
    <3>4. QED
      BY <1>1, <2>1, <3>1, <3>2, <3>3 DEF Emits, Distinct
  <2>3. CASE ~(p < RingSize /\ Cardinality(cmds) < RingSize)
    BY <1>2, <1>3, <2>1, <2>3 DEF CommitExternal, EmitCommand
  <2>4. QED
    BY <2>2, <2>3
<1>4. CASE CommitHalt(src, dst, l, p)
  BY <1>2, <1>4 DEF CommitHalt, EndBurst
<1>5. CASE CommitLocal(src, dst, l, p)
  BY <1>2, <1>5 DEF CommitLocal, Continue, EndBurst
<1>6. QED
  BY <1>3, <1>4, <1>5 DEF Commit

LEMMA ParEmits ==
  ASSUME TypeOK, NEW G \in SUBSET DOMAIN table, NEW l, NEW p \in Nat, ParCommit(G, l, p)
  PROVE  Emits(p)
<1> DEFINE external == {i \in G : Kind[table[i].rhs] = "external"}
           pushed   == {i \in external : Rank(i, external) < RingSize - Cardinality(cmds)}
           command(i) == [pos |-> cmdTail + Rank(i, pushed), id |-> step + Rank(i, G),
                          src |-> table[i].lhs, node |-> table[i].rhs]
<1>1. /\ cmds' = cmds \cup {command(i) : i \in pushed}
      /\ cmdTail' = cmdTail + Cardinality(pushed)
      /\ pending' = p + Cardinality(pushed)
  BY DEF ParCommit
<1>2. /\ Cardinality(pushed) \in Nat
      /\ \A i \in pushed : Rank(i, pushed) \in 0 .. Cardinality(pushed) - 1
      /\ \A i, j \in pushed : Rank(i, pushed) = Rank(j, pushed) => i = j
  BY RanksDistinct
<1>3. cmdTail \in Nat
  BY DEF TypeOK
<1>4. \A i \in pushed : command(i).pos = cmdTail + Rank(i, pushed)
  OBVIOUS
<1>5. batch' = batch
  BY DEF ParCommit, EndBurst, Continue
<1> HIDE DEF pushed, command
<1>6. \A c \in cmds' \ cmds : \E i \in pushed : c = command(i)
  BY <1>1
<1>7. \A c \in cmds' \ cmds : c.pos \in cmdTail .. cmdTail' - 1
  BY <1>1, <1>2, <1>3, <1>4, <1>6
<1>8. Distinct(cmds' \ cmds)
  <2> SUFFICES ASSUME NEW c \in cmds' \ cmds, NEW d \in cmds' \ cmds, c.pos = d.pos
               PROVE  c = d
    BY DEF Distinct
  <2>1. PICK i \in pushed, j \in pushed : c = command(i) /\ d = command(j)
    BY <1>6
  <2>2. cmdTail + Rank(i, pushed) = cmdTail + Rank(j, pushed)
    BY <1>4, <2>1
  <2>3. Rank(i, pushed) \in Int /\ Rank(j, pushed) \in Int
    BY <1>2
  <2>4. Rank(i, pushed) = Rank(j, pushed)
    BY <1>3, <2>2, <2>3, SumCancels, Zenon
  <2>5. QED
    BY <1>2, <2>1, <2>4
<1>9. QED
  BY <1>1, <1>2, <1>3, <1>5, <1>7, <1>8 DEF Emits

(* A drain settles what it applies; then new commands may be emitted.      *)
DrainsAndEmits ==
  /\ MarkDrained
  /\ Emits(DrainedPending)

LEMMA StepDrainsAndEmits ==
  ASSUME TypeInv, Step
  PROVE  DrainsAndEmits
<1>1. DrainedPending \in Nat /\ TypeOK /\ cmdTail \in Nat
  BY DrainType DEF TypeInv, TypeOK
<1>2. Stepping
  BY DEF Step, SeqStep, StarBodyStep, StarExitStep, StarExit, ChoiceStep, ParStep,
         HaltStep, SingletonStep, BlockedStep
<1>3. CASE \E src, dst, l : Commit(src, dst, l, DrainedPending)
  BY <1>1, <1>2, <1>3, CommitEmits DEF DrainsAndEmits, Stepping
<1>4. CASE ParStep
  <2>1. PICK l \in DrainedLive, G \in SUBSET ParReady : ParCommit(G, l, DrainedPending)
    BY <1>4 DEF ParStep
  <2>2. G \in SUBSET DOMAIN table
    BY DEF ParReady, Edges
  <2>3. QED
    BY <1>1, <1>2, <2>1, <2>2, ParEmits DEF DrainsAndEmits, Stepping
<1>5. CASE StarExitStep \/ HaltStep \/ BlockedStep
  <2>1. UNCHANGED <<cmds, cmdTail, batch>> /\ pending' = DrainedPending
    BY <1>5 DEF StarExitStep, StarExit, HaltStep, BlockedStep, Continue, EndBurst
  <2>2. QED
    BY <1>1, <1>2, <2>1 DEF DrainsAndEmits, Stepping, Emits, Distinct
<1>6. CASE SeqStep \/ StarBodyStep \/ ChoiceStep \/ SingletonStep
  BY <1>3, <1>6 DEF SeqStep, StarBodyStep, ChoiceStep, SingletonStep
<1>7. QED
  BY <1>4, <1>5, <1>6 DEF Step

-------------------------------------------------------------------------------
(* Tickets.                                                                *)

Apart(S, T) == Positions(S) \cap Positions(T) = {}
Issued(S)   == Distinct(S) /\ Positions(S) \subseteq 0 .. cmdTail - 1

(* TicketsUnique, place by place.                                          *)
Tickets ==
  /\ Issued(cmds) /\ Issued(batch) /\ Issued(receipts) /\ Issued(settled)
  /\ Apart(cmds, batch) /\ Apart(cmds, receipts) /\ Apart(cmds, settled)
  /\ Apart(batch, receipts) /\ Apart(batch, settled) /\ Apart(receipts, settled)

LEMMA TicketsByPlace == TicketsUnique <=> Tickets
<1>1. Places[1] = cmds /\ Places[2] = batch /\ Places[3] = receipts /\ Places[4] = settled
  BY DEF Places
<1>2. 1 .. 4 = {1, 2, 3, 4}
  OBVIOUS
<1>3. ASSUME TicketsUnique
      PROVE  Tickets
  <2>1. ASSUME NEW k \in {1, 2, 3, 4}
        PROVE  Issued(Places[k])
    BY <1>2, <1>3 DEF TicketsUnique, Issued, Distinct
  <2>2. ASSUME NEW j \in {1, 2, 3, 4}, NEW k \in {1, 2, 3, 4}, j # k
        PROVE  Apart(Places[j], Places[k])
    BY <1>2, <1>3, <2>2 DEF TicketsUnique, Apart
  <2>3. Issued(Places[1]) /\ Issued(Places[2]) /\ Issued(Places[3]) /\ Issued(Places[4])
    BY <2>1
  <2>4. /\ Apart(Places[1], Places[2]) /\ Apart(Places[1], Places[3]) /\ Apart(Places[1], Places[4])
        /\ Apart(Places[2], Places[3]) /\ Apart(Places[2], Places[4])
        /\ Apart(Places[3], Places[4])
    BY <2>2
  <2>5. QED
    BY <1>1, <2>3, <2>4 DEF Tickets
<1>4. ASSUME Tickets
      PROVE  TicketsUnique
  <2>1. \A k \in {1, 2, 3, 4} : Issued(Places[k])
    BY <1>1, <1>4 DEF Tickets
  <2>2. \A j, k \in {1, 2, 3, 4} : j # k => Apart(Places[j], Places[k])
    BY <1>1, <1>4 DEF Tickets, Apart
  <2>3. QED
    BY <1>2, <2>1, <2>2 DEF TicketsUnique, Issued, Distinct, Apart
<1>5. QED
  BY <1>3, <1>4

(* What a drain has settled since: the receipts it applied.                *)
Slip(r)  == [pos |-> r.pos, id |-> r.id, node |-> r.node]
Slips(S) == {Slip(r) : r \in S}

LEMMA SlipsCount ==
  ASSUME NEW S, IsFiniteSet(S), Distinct(S)
  PROVE  /\ Positions(Slips(S)) = Positions(S) /\ Distinct(Slips(S))
         /\ IsFiniteSet(Slips(S)) /\ Cardinality(Slips(S)) = Cardinality(S)
<1> DEFINE f == [r \in S |-> Slip(r)]
<1>0. \A r \in S : Slip(r).pos = r.pos
  BY DEF Slip
<1>1. f \in [S -> Slips(S)] /\ \A t \in Slips(S) : \E r \in S : f[r] = t
  BY DEF Slips
<1>2. \A x, y \in S : f[x] = f[y] => x = y
  BY <1>0 DEF Distinct
<1>3. IsFiniteSet(Slips(S)) /\ Cardinality(Slips(S)) = Cardinality(S)
  <2> HIDE DEF f
  <2> QED
    BY <1>1, <1>2, SameCount
<1>4. Positions(Slips(S)) = Positions(S) /\ Distinct(Slips(S))
  BY <1>0 DEF Slips, Positions, Distinct
<1>5. QED
  BY <1>3, <1>4

LEMMA DrainTickets ==
  ASSUME TypeInv, Tickets, DrainsAndEmits
  PROVE  Tickets'
<1>1. cmdTail \in Nat /\ cmdTail' \in Nat /\ cmdTail' >= cmdTail
  BY DEF TypeInv, TypeOK, DrainsAndEmits, Emits
<1>2. receipts' = {} /\ settled' = settled \cup Slips(Applied)
  BY DEF DrainsAndEmits, MarkDrained, Slips, Slip
<1>3. /\ Applied \subseteq receipts
      /\ \A s \in settled' \ settled : \E r \in receipts : s = Slip(r) /\ s.pos = r.pos
  BY <1>2 DEF Applied, Slips, Slip
<1>4. /\ batch' = batch /\ cmds \subseteq cmds' /\ Distinct(cmds' \ cmds)
      /\ \A c \in cmds' \ cmds : c.pos \in cmdTail .. cmdTail' - 1
  BY DEF DrainsAndEmits, Emits
<1>5. Issued(cmds)'
  <2>1. Positions(cmds') \subseteq 0 .. cmdTail' - 1
    BY <1>1, <1>4 DEF Tickets, Issued, Positions
  <2>2. \A c \in cmds, d \in cmds' \ cmds : c.pos # d.pos
    BY <1>1, <1>4 DEF Tickets, Issued, Positions
  <2>3. Distinct(cmds')
    BY <1>4, <2>2 DEF Tickets, Issued, Distinct
  <2>4. QED
    BY <2>1, <2>3 DEF Issued
<1>6. Issued(batch)'
  BY <1>1, <1>4 DEF Tickets, Issued
<1>7. Issued(receipts)'
  BY <1>2 DEF Issued, Distinct, Positions
<1>8. Issued(settled)'
  <2>1. Positions(settled') \subseteq Positions(settled) \cup Positions(receipts)
    BY <1>3 DEF Positions
  <2>2. Distinct(settled')
    BY <1>3 DEF Tickets, Issued, Distinct, Apart, Positions
  <2>3. QED
    BY <1>1, <2>1, <2>2 DEF Tickets, Issued
<1>9. Positions(settled') \subseteq Positions(settled) \cup Positions(receipts)
  BY <1>3 DEF Positions
<1>10. \A S : Positions(S) \subseteq 0 .. cmdTail - 1 /\ Apart(cmds, S) => Positions(cmds') \cap Positions(S) = {}
  BY <1>1, <1>4 DEF Apart, Positions
<1>11. Positions(cmds') \cap Positions(batch) = {} /\ Positions(cmds') \cap Positions(receipts) = {}
       /\ Positions(cmds') \cap Positions(settled) = {}
  BY <1>10 DEF Tickets, Issued
<1>12. /\ Apart(cmds, batch)' /\ Apart(cmds, settled)' /\ Apart(batch, settled)'
  BY <1>4, <1>9, <1>11 DEF Tickets, Apart
<1>13. /\ Apart(cmds, receipts)' /\ Apart(batch, receipts)' /\ Apart(receipts, settled)'
  BY <1>2 DEF Apart, Positions
<1>14. QED
  BY <1>5, <1>6, <1>7, <1>8, <1>12, <1>13 DEF Tickets

(* The host passes tickets on, or loses them.                              *)
LEMMA HostTickets ==
  ASSUME TypeInv, Tickets,
         BudgetSpent \/ PreBurst \/ StepFails \/ DrainCommands \/ ServeCommand
           \/ (\E at : Warned(at)) \/ UNCHANGED vars
  PROVE  Tickets'
<1>1. CASE UNCHANGED <<cmds, cmdTail, receipts, settled>> /\ batch' \in {batch, {}}
  BY <1>1 DEF Tickets, Issued, Distinct, Apart, Positions
<1>2. CASE DrainCommands
  BY <1>2 DEF DrainCommands, Tickets, Issued, Distinct, Apart, Positions
<1>3. CASE ServeCommand
  <2>1. PICK c \in batch, outcome \in Outcomes :
          /\ receipts' = IF Cardinality(receipts) < ReceiptRingSize
                         THEN receipts \cup
                                {[pos |-> c.pos, id |-> c.id, src |-> c.src,
                                  node |-> c.node, outcome |-> outcome]}
                         ELSE receipts
          /\ batch' = batch \ {c}
    BY <1>3 DEF ServeCommand
  <2>2. UNCHANGED <<cmds, cmdTail, settled>>
    BY <1>3 DEF ServeCommand
  <2>3. \A r \in receipts' \ receipts : r.pos = c.pos
    BY <2>1
  <2>4. receipts' \ receipts = {} \/ \E r : receipts' \ receipts = {r}
    BY <2>1
  <2>5. c.pos \notin Positions(receipts) /\ c.pos \notin Positions(settled)
        /\ c.pos \notin Positions(cmds) /\ c.pos \notin Positions(batch')
    BY <2>1 DEF Tickets, Issued, Distinct, Apart, Positions
  <2>6. Positions(receipts') \subseteq Positions(receipts) \cup {c.pos} /\ c.pos \in Positions(batch)
    BY <2>3 DEF Positions
  <2>7. Positions(batch') \subseteq Positions(batch) /\ Distinct(batch')
    BY <2>1 DEF Positions, Tickets, Issued, Distinct
  <2>8. Distinct(receipts')
    BY <2>3, <2>4, <2>5 DEF Tickets, Issued, Distinct, Positions
  <2>9. QED
    BY <2>2, <2>5, <2>6, <2>7, <2>8 DEF Tickets, Issued, Apart
<1>4. QED
  BY <1>1, <1>2, <1>3
     DEF BudgetSpent, PreBurst, StepFails, Warned, vars, rings, host

LEMMA SettleDrains ==
  ASSUME TypeInv, SettleReceipts
  PROVE  DrainsAndEmits
<1>1. /\ MarkDrained /\ pending' = DrainedPending
      /\ UNCHANGED <<cmds, cmdTail, batch>>
  BY DEF SettleReceipts
<1>2. DrainedPending \in Nat /\ cmdTail \in Nat
  BY DrainType DEF TypeInv, TypeOK
<1>3. QED
  BY <1>1, <1>2 DEF DrainsAndEmits, Emits, Distinct

LEMMA NextTickets ==
  ASSUME TypeInv, Tickets, [Next]_vars
  PROVE  Tickets'
BY StepDrainsAndEmits, SettleDrains, DrainTickets, HostTickets
   DEF Next, DrainCommandsFails, PushFails, SettleFails, Terminated

LEMMA InitTickets ==
  ASSUME Init
  PROVE  Tickets
BY DEF Init, Tickets, Issued, Distinct, Apart, Positions

(* Whatever calls of the service path fail, a command is in one place at a *)
(* time, and only once: ring, batch, receipts and settled never share one. *)
THEOREM OnePlacePerTicket == Spec => []TicketsUnique
<1>1. Spec => [](TypeInv /\ Tickets)
  BY InitType, NextType, InitTickets, NextTickets, PTL DEF Spec
<1>2. QED
  BY <1>1, TicketsByPlace, PTL

-------------------------------------------------------------------------------
(* The pending count.                                                      *)

(* The receipts a drain applies are no more than the debt, and move from   *)
(* it to the settled.                                                      *)
LEMMA DrainCounts ==
  ASSUME TypeInv, Tickets, PendingIsDebt, MarkDrained
  PROVE  /\ Cardinality(settled) \in Nat /\ Cardinality(settled') \in Nat
         /\ DrainedPending = cmdTail - Cardinality(settled')
<1>1. cmdTail \in Nat /\ pending \in Nat
  BY DEF TypeInv, TypeOK
<1>2. settled' = settled \cup Slips(Applied) /\ Applied \subseteq receipts
  BY DEF MarkDrained, Slips, Slip, Applied
<1>3. IsFiniteSet(Applied) /\ Distinct(Applied) /\ Positions(Applied) \subseteq Positions(receipts)
  BY <1>2, DrainType DEF Tickets, Issued, Distinct, Positions
<1>4. /\ Positions(Slips(Applied)) \subseteq Positions(receipts) /\ Distinct(Slips(Applied))
      /\ IsFiniteSet(Slips(Applied)) /\ Cardinality(Slips(Applied)) = Cardinality(Applied)
  BY <1>3, SlipsCount
<1>5. settled \cap Slips(Applied) = {}
  BY <1>4 DEF Tickets, Apart, Positions
<1>6. IsFiniteSet(settled) /\ Cardinality(settled) \in Nat
  BY <1>1, CountByPosition DEF Tickets, Issued
<1>7. Cardinality(settled') = Cardinality(settled) + Cardinality(Applied)
  <2>1. Cardinality(settled \cap Slips(Applied)) = 0
    BY <1>5, FS_EmptySet
  <2>2. Cardinality(settled') =
          Cardinality(settled) + Cardinality(Slips(Applied)) - Cardinality(settled \cap Slips(Applied))
    BY <1>2, <1>4, <1>6, FS_Union
  <2>3. QED
    BY <1>3, <1>4, <1>6, <2>1, <2>2, FS_CardinalityType
<1>8. Cardinality(settled') \in 0 .. cmdTail
  <2>1. Positions(settled') \subseteq 0 .. cmdTail - 1
    BY <1>2, <1>4 DEF Tickets, Issued, Positions
  <2>2. Distinct(settled')
    BY <1>2, <1>4 DEF Tickets, Issued, Distinct, Apart, Positions
  <2>3. QED
    BY <1>1, <2>1, <2>2, CountByPosition
<1>9. Cardinality(Applied) \in Nat
  BY DrainType
<1>10. QED
  BY <1>1, <1>6, <1>7, <1>8, <1>9 DEF PendingIsDebt, DrainedPending

LEMMA DrainDebt ==
  ASSUME TypeInv, Tickets, PendingIsDebt, DrainsAndEmits
  PROVE  PendingIsDebt'
<1>1. DrainedPending = cmdTail - Cardinality(settled') /\ Cardinality(settled') \in Nat
  BY DrainCounts DEF DrainsAndEmits
<1>2. /\ pending' = DrainedPending + (cmdTail' - cmdTail)
      /\ cmdTail \in Nat /\ cmdTail' \in Nat
  BY DEF DrainsAndEmits, Emits, TypeInv, TypeOK
<1>3. QED
  BY <1>1, <1>2 DEF PendingIsDebt

LEMMA NextDebt ==
  ASSUME TypeInv, Tickets, PendingIsDebt, [Next]_vars
  PROVE  PendingIsDebt'
<1>1. CASE Step \/ SettleReceipts
  BY <1>1, StepDrainsAndEmits, SettleDrains, DrainDebt
<1>2. CASE ~(Step \/ SettleReceipts)
  <2>1. UNCHANGED <<pending, cmdTail, settled>>
    BY <1>2 DEF Next, StepFails, BudgetSpent, PreBurst, DrainCommands, ServeCommand,
                DrainCommandsFails, PushFails, SettleFails, Warned, Terminated, vars, device, rings
  <2>2. QED
    BY <2>1 DEF PendingIsDebt
<1>3. QED
  BY <1>1, <1>2

LEMMA InitDebt ==
  ASSUME Init
  PROVE  PendingIsDebt
BY FS_EmptySet DEF Init, PendingIsDebt

(* pending_external_count is always the number of commands issued less the *)
(* receipts applied: the drain's test for zero never hides an underflow,   *)
(* whatever is lost on the way and whatever calls fail.                    *)
THEOREM PendingCountsDebt == Spec => []PendingIsDebt
BY InitType, NextType, InitTickets, NextTickets, InitDebt, NextDebt, PTL DEF Spec

-------------------------------------------------------------------------------
(* Turns.  A drained receipt ring has room for every command of the next   *)
(* round (256 to 64 in the code), and no command goes from a node to       *)
(* itself, whose receipt a drain would skip.                               *)
Roomy == RingSize <= ReceiptRingSize

NoSelfWork ==
  /\ \A t \in Tables : \A i \in DOMAIN t : Kind[t[i].rhs] = "external" => t[i].lhs # t[i].rhs
  /\ \A p \in DOMAIN Hop : Hop[p] # p[1]

(* No command names its own source.                                        *)
HopsOut  == \A p \in DOMAIN witness : witness[p] # p[1]
SelfFree == \A c \in cmds \cup batch \cup receipts : c.src # c.node

(* What a step that found the command ring empty and p receipts still owed *)
(* leaves in it.                                                           *)
HandsOver(p) ==
  /\ IsFiniteSet(cmds')
  /\ Cardinality(cmds') = cmdTail' - cmdTail
  /\ Cardinality(cmds') <= RingSize
  /\ \/ pc' \in {"burst", "head", "done"} /\ cmds' = {}
     \/ pc' = "service"
  /\ \A c, d \in cmds' : c # d => Independent(c.node, d.node)
  /\ pc' = "service" /\ p = 0 /\ MaxPar <= RingSize =>
       /\ cmds' # {}
       /\ {c.node : c \in cmds'} = {n \in active' : Kind[n] = "external"}

LEMMA NothingHandsOver ==
  ASSUME TypeOK, cmds = {}, NEW p \in Nat, UNCHANGED <<cmds, cmdTail>>,
         pc' \in {"burst", "head", "done", "service"}, pc' = "service" => p # 0
  PROVE  HandsOver(p)
<1>1. Cardinality(cmds') = 0 /\ IsFiniteSet(cmds') /\ cmds' = {}
  BY FS_EmptySet
<1>2. cmdTail' - cmdTail = 0 /\ 0 <= RingSize
  BY BoundAssumption DEF TypeOK
<1>3. QED
  BY <1>1, <1>2 DEF HandsOver

LEMMA CommitHandsOver ==
  ASSUME TypeOK, pc = "burst", cmds = {}, NEW src, NEW dst, NEW l, NEW p \in Nat,
         Commit(src, dst, l, p)
  PROVE  HandsOver(p)
<1>1. CASE CommitExternal(src, dst, l, p) /\ p < RingSize
  <2> DEFINE new == [pos |-> cmdTail, id |-> step + 1, src |-> src, node |-> dst]
  <2>1. 0 < RingSize /\ Cardinality(cmds) < RingSize /\ 1 <= RingSize
    BY BoundAssumption, FS_EmptySet
  <2>2. cmds' = {new} /\ cmdTail' = cmdTail + 1 /\ pc' = "service" /\ active' = {dst}
    BY <1>1, <2>1 DEF CommitExternal, EmitCommand, EndBurst, Advance
  <2>3. new.node = dst /\ Kind[dst] = "external"
    BY <1>1 DEF CommitExternal
  <2> HIDE DEF new
  <2>4. IsFiniteSet(cmds') /\ Cardinality(cmds') = 1
    BY <2>2, FS_Singleton
  <2>5. Cardinality(cmds') = cmdTail' - cmdTail /\ Cardinality(cmds') <= RingSize
    BY <2>1, <2>2, <2>4 DEF TypeOK
  <2>6. {c.node : c \in cmds'} = {n \in active' : Kind[n] = "external"}
    BY <2>2, <2>3
  <2>7. QED
    BY <2>2, <2>4, <2>5, <2>6 DEF HandsOver
<1>2. CASE CommitHalt(src, dst, l, p) \/ CommitLocal(src, dst, l, p)
  <2>1. UNCHANGED <<cmds, cmdTail>> /\ pc' \in {"burst", "head", "done"}
    BY <1>2 DEF CommitHalt, CommitLocal, EndBurst, Continue
  <2>2. QED
    BY <2>1, NothingHandsOver
<1>3. CASE CommitExternal(src, dst, l, p) /\ ~(p < RingSize)
  <2>1. UNCHANGED <<cmds, cmdTail>> /\ pc' = "service" /\ p # 0
    BY <1>3, BoundAssumption DEF CommitExternal, EmitCommand, EndBurst
  <2>2. QED
    BY <2>1, NothingHandsOver
<1>4. QED
  BY <1>1, <1>2, <1>3 DEF Commit

(* The members of a group do not conflict with each other.                 *)
LEMMA GroupIndependent ==
  ASSUME TypeOK, NEW G \in SUBSET ParReady, IsParGroup(G),
         NEW i \in G, NEW j \in G, i # j
  PROVE  Independent(table[i].rhs, table[j].rhs)
<1>1. i \in Nat /\ j \in Nat /\ i \in ParReady /\ j \in ParReady
  BY GraphAssumption DEF ParReady, Edges, TypeOK
<1>2. CASE i < j
  BY <1>1, <1>2 DEF IsParGroup, Independent
<1>3. CASE j < i
  BY <1>1, <1>3 DEF IsParGroup
<1>4. QED
  BY <1>1, <1>2, <1>3

LEMMA RankMonotone ==
  ASSUME TypeOK, NEW S \in SUBSET DOMAIN table, NEW T \in SUBSET S, NEW i \in S
  PROVE  Rank(i, T) \in Nat /\ Rank(i, T) <= Rank(i, S)
<1>1. {j \in T : j < i} \subseteq {j \in S : j < i} /\ {j \in S : j < i} \subseteq S
  OBVIOUS
<1>2. IsFiniteSet({j \in S : j < i}) /\ IsFiniteSet({j \in T : j < i})
  BY <1>1, RanksDistinct, FS_Subset
<1>3. QED
  BY <1>1, <1>2, FS_Subset, FS_CardinalityType DEF Rank

LEMMA ParHandsOver ==
  ASSUME TypeOK, pc = "burst", cmds = {}, NEW G \in SUBSET ParReady, IsParGroup(G),
         NEW l, NEW p \in Nat, ParCommit(G, l, p)
  PROVE  HandsOver(p)
<1> DEFINE external == {i \in G : Kind[table[i].rhs] = "external"}
           pushed   == {i \in external : Rank(i, external) < RingSize - Cardinality(cmds)}
           command(i) == [pos |-> cmdTail + Rank(i, pushed), id |-> step + Rank(i, G),
                          src |-> table[i].lhs, node |-> table[i].rhs]
<1>0. G \in SUBSET DOMAIN table /\ RingSize \in Nat /\ cmdTail \in Nat
  BY BoundAssumption DEF ParReady, Edges, TypeOK
<1>1. /\ cmds' = {command(i) : i \in pushed}
      /\ cmdTail' = cmdTail + Cardinality(pushed)
      /\ active' = {table[i].rhs : i \in G}
      /\ \/ external # {} /\ pc' = "service"
         \/ external = {} /\ pc' \in {"burst", "head", "done"}
  BY DEF ParCommit, EndBurst, Continue
<1>2. /\ IsFiniteSet(pushed) /\ Cardinality(pushed) \in Nat
      /\ \A i \in pushed : Rank(i, pushed) \in 0 .. Cardinality(pushed) - 1
      /\ \A i, j \in pushed : Rank(i, pushed) = Rank(j, pushed) => i = j
  BY <1>0, RanksDistinct
<1>3. \A i \in external : Rank(i, external) \in Nat /\ Rank(i, external) <= Rank(i, G) /\ Rank(i, G) \in Nat
  BY <1>0, RankMonotone, RankType
<1>4. \A i \in pushed : Rank(i, external) < RingSize /\ Rank(i, pushed) <= Rank(i, external)
  <2>1. Cardinality(cmds) = 0 /\ pushed \in SUBSET external
    BY FS_EmptySet
  <2>2. \A i \in pushed : Rank(i, pushed) <= Rank(i, external)
    BY <1>0, <2>1, RankMonotone
  <2>3. ASSUME NEW i \in pushed
        PROVE  Rank(i, external) < RingSize
    <3>1. Rank(i, external) < RingSize - Cardinality(cmds) /\ Rank(i, external) \in Nat
      BY <1>3
    <3> HIDE DEF pushed, external
    <3>2. QED
      BY <1>0, <2>1, <3>1
  <2>4. QED
    BY <2>2, <2>3
<1>5. /\ \A i \in pushed : command(i).node = table[i].rhs
      /\ \A i, j \in pushed : command(i) = command(j) => i = j
  <2>1. \A i \in pushed : command(i).node = table[i].rhs /\ command(i).pos = cmdTail + Rank(i, pushed)
    OBVIOUS
  <2>2. ASSUME NEW i \in pushed, NEW j \in pushed, command(i) = command(j)
        PROVE  i = j
    <3>1. cmdTail + Rank(i, pushed) = cmdTail + Rank(j, pushed)
      BY <2>1, <2>2
    <3>2. Rank(i, pushed) \in Int /\ Rank(j, pushed) \in Int
      BY <1>2
    <3>3. Rank(i, pushed) = Rank(j, pushed)
      BY <1>0, <3>1, <3>2, SumCancels, Zenon
    <3>4. QED
      BY <1>2, <3>3
  <2>3. QED
    BY <2>1, <2>2
<1> HIDE DEF command
<1>6. IsFiniteSet(cmds') /\ Cardinality(cmds') = cmdTail' - cmdTail
  <2> DEFINE f == [i \in pushed |-> command(i)]
  <2>1. f \in [pushed -> cmds'] /\ \A c \in cmds' : \E i \in pushed : f[i] = c
    BY <1>1
  <2>2. \A i, j \in pushed : f[i] = f[j] => i = j
    BY <1>5
  <2>3. IsFiniteSet(pushed)
    BY <1>2
  <2> HIDE DEF f, pushed
  <2>4. IsFiniteSet(cmds') /\ Cardinality(cmds') = Cardinality(pushed)
    BY <2>1, <2>2, <2>3, SameCount
  <2>5. QED
    BY <1>0, <1>1, <1>2, <2>4
<1>7. Cardinality(cmds') <= RingSize
  <2> DEFINE f == [i \in pushed |-> Rank(i, pushed)]
  <2>1. f \in [pushed -> 0 .. RingSize - 1]
    <3>1. \A i \in pushed : Rank(i, pushed) \in 0 .. RingSize - 1
      <4> SUFFICES ASSUME NEW i \in pushed
                   PROVE  Rank(i, pushed) \in 0 .. RingSize - 1
        OBVIOUS
      <4>1. Rank(i, pushed) \in Nat
        BY <1>2
      <4>2. Rank(i, external) \in Nat
        BY <1>3
      <4>3. Rank(i, external) < RingSize /\ Rank(i, pushed) <= Rank(i, external)
        BY <1>4
      <4> HIDE DEF pushed, external
      <4>4. QED
        BY <1>0, <4>1, <4>2, <4>3
    <3>2. QED
      BY <3>1
  <2>2. \A i, j \in pushed : f[i] = f[j] => i = j
    BY <1>2
  <2>3. f \in Injection(pushed, 0 .. RingSize - 1)
    BY <2>1, <2>2, Fun_IsInj
  <2>4. IsFiniteSet(0 .. RingSize - 1) /\ Cardinality(0 .. RingSize - 1) = RingSize
    BY <1>0, FS_Interval
  <2>5. Cardinality(pushed) <= RingSize
    BY <2>3, <2>4, FS_Injection
  <2> HIDE DEF pushed
  <2>6. QED
    BY <1>0, <1>1, <1>2, <1>6, <2>5
<1>8. \A c, d \in cmds' : c # d => Independent(c.node, d.node)
  <2> SUFFICES ASSUME NEW c \in cmds', NEW d \in cmds', c # d
               PROVE  Independent(c.node, d.node)
    OBVIOUS
  <2>1. PICK i \in pushed, j \in pushed : c = command(i) /\ d = command(j)
    BY <1>1
  <2>2. i \in G /\ j \in G /\ i # j
    BY <2>1
  <2>3. Independent(table[i].rhs, table[j].rhs)
    BY <2>2, GroupIndependent
  <2>4. c.node = table[i].rhs /\ d.node = table[j].rhs
    BY <1>5, <2>1
  <2>5. QED
    BY <2>3, <2>4
<1>9. ASSUME pc' = "service", MaxPar <= RingSize
      PROVE  cmds' # {} /\ {c.node : c \in cmds'} = {n \in active' : Kind[n] = "external"}
  <2>1. pushed = external /\ external # {}
    <3>1. ASSUME NEW i \in external
          PROVE  Rank(i, external) < RingSize - Cardinality(cmds)
      <4>1. Rank(i, G) < MaxPar
        BY DEF IsParGroup
      <4>2. Rank(i, external) \in Nat /\ Rank(i, G) \in Nat /\ Rank(i, external) <= Rank(i, G)
        BY <1>3
      <4>3. Cardinality(cmds) = 0
        BY FS_EmptySet
      <4> HIDE DEF external
      <4>4. QED
        BY <1>0, <1>9, <4>1, <4>2, <4>3, BoundAssumption
    <3>2. QED
      BY <1>1, <1>9, <3>1
  <2>2. external \subseteq G /\ \A i \in G : i \in external <=> Kind[table[i].rhs] = "external"
    OBVIOUS
  <2>3. cmds' = {command(i) : i \in external} /\ \A i \in external : command(i).node = table[i].rhs
    BY <1>1, <1>5, <2>1
  <2> HIDE DEF pushed, external
  <2>4. cmds' # {}
    BY <2>1, <2>3
  <2>5. \A n : n \in {c.node : c \in cmds'} <=> \E i \in external : n = table[i].rhs
    BY <2>3
  <2>6. \A n : n \in {m \in active' : Kind[m] = "external"} <=> \E i \in external : n = table[i].rhs
    BY <1>1, <2>2
  <2>7. QED
    BY <2>4, <2>5, <2>6
<1>10. external = {} => cmds' = {}
  BY <1>1
<1>11. QED
  BY <1>1, <1>6, <1>7, <1>8, <1>9, <1>10 DEF HandsOver

LEMMA StepHandsOver ==
  ASSUME TypeInv, cmds = {}, Step
  PROVE  HandsOver(DrainedPending)
<1>1. Stepping /\ pc = "burst" /\ TypeOK /\ DrainedPending \in Nat
  BY DrainType DEF Step, SeqStep, StarBodyStep, StarExitStep, StarExit, ChoiceStep, ParStep,
         HaltStep, SingletonStep, BlockedStep, Stepping, TypeInv
<1>2. CASE \E src, dst, l : Commit(src, dst, l, DrainedPending)
  BY <1>1, <1>2, CommitHandsOver
<1>3. CASE ParStep
  <2>1. PICK l \in DrainedLive, G \in SUBSET ParReady :
          IsParGroup(G) /\ ParCommit(G, l, DrainedPending)
    BY <1>3 DEF ParStep
  <2>2. QED
    BY <1>1, <2>1, ParHandsOver
<1>4. CASE StarExitStep \/ HaltStep \/ BlockedStep
  <2>1. UNCHANGED <<cmds, cmdTail>> /\ pc' \in {"burst", "head", "done"}
    BY <1>1, <1>4 DEF StarExitStep, StarExit, HaltStep, BlockedStep, Continue, EndBurst
  <2>2. QED
    BY <1>1, <2>1, NothingHandsOver
<1>5. CASE SeqStep \/ StarBodyStep \/ ChoiceStep \/ SingletonStep
  BY <1>2, <1>5 DEF SeqStep, StarBodyStep, ChoiceStep, SingletonStep
<1>6. QED
  BY <1>3, <1>4, <1>5 DEF Step

-------------------------------------------------------------------------------
(* Where commands come from.                                               *)

(* The edge of a new command was free to be taken, or closes a loop.       *)
Free(e) == Reusable(e) \/ e \notin consumed

FromTable(c) ==
  \E i \in DOMAIN table : PairOf(c) = Arrow(i) /\ (table[i].op = "star" \/ Free(Arrow(i)))

FromTensor(c) ==
  \E p \in DOMAIN witness : PairOf(c) = <<p[1], witness[p]>> /\ Free(PairOf(c))

Originates(c) == Kind[c.node] = "external" /\ (FromTable(c) \/ FromTensor(c))

LEMMA CommitOrigin ==
  ASSUME NEW src, NEW dst, NEW l, NEW p, Commit(src, dst, l, p), NEW c \in cmds' \ cmds
  PROVE  PairOf(c) = <<src, dst>> /\ c.node = dst /\ Kind[dst] = "external"
BY DEF Commit, CommitHalt, CommitExternal, CommitLocal, EmitCommand, PairOf

LEMMA ParOrigin ==
  ASSUME NEW G, NEW l, NEW p, ParCommit(G, l, p), NEW c \in cmds' \ cmds
  PROVE  \E i \in G : PairOf(c) = Arrow(i) /\ Kind[c.node] = "external"
<1> DEFINE external == {i \in G : Kind[table[i].rhs] = "external"}
           pushed   == {i \in external : Rank(i, external) < RingSize - Cardinality(cmds)}
           command(i) == [pos |-> cmdTail + Rank(i, pushed), id |-> step + Rank(i, G),
                          src |-> table[i].lhs, node |-> table[i].rhs]
<1>1. cmds' = cmds \cup {command(i) : i \in pushed}
  BY DEF ParCommit
<1>2. PICK i \in pushed : c = command(i)
  BY <1>1
<1>3. c.src = table[i].lhs /\ c.node = table[i].rhs
  BY <1>2
<1>4. i \in G /\ Kind[table[i].rhs] = "external"
  OBVIOUS
<1>5. QED
  BY <1>3, <1>4 DEF PairOf, Arrow

LEMMA StepOrigin ==
  ASSUME TypeInv, Step, NEW c \in cmds' \ cmds
  PROVE  Originates(c)
<1>1. CASE \E i \in DOMAIN table :
             /\ table[i].op = "star" \/ Free(Arrow(i))
             /\ \E l : Commit(table[i].lhs, table[i].rhs, l, DrainedPending)
  <2>1. PICK i \in DOMAIN table :
          /\ table[i].op = "star" \/ Free(Arrow(i))
          /\ \E l : Commit(table[i].lhs, table[i].rhs, l, DrainedPending)
    BY <1>1
  <2>2. PairOf(c) = Arrow(i) /\ c.node = table[i].rhs /\ Kind[c.node] = "external"
    BY <2>1, CommitOrigin DEF Arrow
  <2>3. QED
    BY <2>1, <2>2 DEF Originates, FromTable
<1>2. CASE SeqStep
  BY <1>1, <1>2 DEF SeqStep, SeqReady, Edges, Free
<1>3. CASE StarBodyStep
  BY <1>1, <1>3 DEF StarBodyStep, Edges
<1>4. CASE ChoiceStep
  BY <1>1, <1>4 DEF ChoiceStep, ChoiceReady, Edges, Free
<1>5. CASE ParStep
  <2>1. PICK l \in DrainedLive, G \in SUBSET ParReady : ParCommit(G, l, DrainedPending)
    BY <1>5 DEF ParStep
  <2>2. PICK i \in G : PairOf(c) = Arrow(i) /\ Kind[c.node] = "external"
    BY <2>1, ParOrigin
  <2>3. i \in DOMAIN table /\ Free(Arrow(i))
    BY DEF ParReady, Edges, Free
  <2>4. QED
    BY <2>2, <2>3 DEF Originates, FromTable
<1>6. CASE SingletonStep
  <2>1. PICK l \in DrainedLive : \E path \in Candidates(l) :
               Commit(path[1], witness[path], l, DrainedPending)
    BY <1>6 DEF SingletonStep
  <2> PICK p \in Candidates(l) : Commit(p[1], witness[p], l, DrainedPending)
    BY <2>1
  <2>2. p \in DOMAIN witness /\ Free(<<p[1], witness[p]>>)
    BY DEF Candidates, Free
  <2>3. PairOf(c) = <<p[1], witness[p]>> /\ Kind[c.node] = "external"
    BY CommitOrigin
  <2>4. QED
    BY <2>2, <2>3 DEF Originates, FromTensor
<1>7. CASE StarExitStep \/ HaltStep \/ BlockedStep
  BY <1>7 DEF StarExitStep, StarExit, HaltStep, BlockedStep
<1>8. QED
  BY <1>2, <1>3, <1>4, <1>5, <1>6, <1>7 DEF Step

(* No command is issued over an edge that was consumed before, unless one  *)
(* of its ends is reentrant or it closes a loop.                           *)
THEOREM CommandsIssuedOnce == Spec => IssuedOnce
<1>1. ASSUME TypeInv, [Next]_vars, NEW c \in cmds' \ cmds, PairOf(c) \in consumed
      PROVE  Reusable(PairOf(c)) \/ PairOf(c) \in StarPairs
  <2>1. CASE Step
    BY <1>1, <2>1, StepOrigin DEF Originates, FromTable, FromTensor, Free, StarPairs
  <2>2. CASE ~Step
    BY <1>1, <2>2
       DEF Next, StepFails, BudgetSpent, PreBurst, DrainCommands, ServeCommand, SettleReceipts,
           DrainCommandsFails, PushFails, SettleFails, Warned, Terminated, vars, rings
  <2>3. QED
    BY <2>1, <2>2
<1>2. TypeInv /\ [Next]_vars =>
        [\A c \in cmds' \ cmds :
           PairOf(c) \in consumed => Reusable(PairOf(c)) \/ PairOf(c) \in StarPairs]_vars
  BY <1>1
<1>3. QED
  BY <1>2, InitType, NextType, PTL DEF Spec, IssuedOnce

LEMMA NextSelfFree ==
  ASSUME NoSelfWork, TypeInv, HopsOut, SelfFree, [Next]_vars
  PROVE  HopsOut' /\ SelfFree'
<1>1. HopsOut'
  <2>1. CASE PreBurst
    BY <2>1, GraphAssumption DEF PreBurst, HopsOut, OffDiagonal
  <2>2. CASE ~PreBurst
    BY <2>2 DEF HopsOut, Next, Step, SeqStep, StarBodyStep, StarExitStep, StarExit, ChoiceStep,
         ParStep, HaltStep, SingletonStep, BlockedStep, Stepping, StepFails, BudgetSpent,
         DrainCommands, ServeCommand, SettleReceipts,
         DrainCommandsFails, PushFails, SettleFails, Warned, Terminated, vars, device
  <2>3. QED
    BY <2>1, <2>2
<1>2. SelfFree'
  <2>1. CASE Step
    <3>1. receipts' = {} /\ batch' = batch
      BY <2>1, StepDrainsAndEmits DEF DrainsAndEmits, MarkDrained, Emits
    <3>2. ASSUME NEW c \in cmds' \ cmds
          PROVE  c.src # c.node
      <4>1. Originates(c)
        BY <2>1, StepOrigin
      <4>2. CASE FromTable(c)
        BY <4>1, <4>2 DEF Originates, FromTable, NoSelfWork, PairOf, Arrow, TypeInv, TypeOK
      <4>3. CASE FromTensor(c)
        BY <4>3 DEF FromTensor, HopsOut, PairOf
      <4>4. QED
        BY <4>1, <4>2, <4>3 DEF Originates
    <3>3. QED
      BY <3>1, <3>2 DEF SelfFree
  <2>2. CASE ServeCommand
    BY <2>2 DEF ServeCommand, SelfFree
  <2>3. CASE ~Step /\ ~ServeCommand
    BY <2>3 DEF SelfFree, Next, StepFails, BudgetSpent, PreBurst, DrainCommands, SettleReceipts,
         MarkDrained, DrainCommandsFails, PushFails, SettleFails, Warned, Terminated, vars, rings, host
  <2>4. QED
    BY <2>1, <2>2, <2>3
<1>3. QED
  BY <1>1, <1>2

LEMMA InitSelfFree ==
  ASSUME NoSelfWork, Init
  PROVE  HopsOut /\ SelfFree
BY DEF Init, NoSelfWork, HopsOut, SelfFree

-------------------------------------------------------------------------------
(* Whose turn it is, as long as no call of the service path has failed.    *)

Turns ==
  faults = 0 =>
    /\ pc \in {"head", "burst", "done", "settle"} => cmds = {} /\ batch = {}
    /\ pc = "service" => batch = {}
    /\ pc = "serve" => cmds = {}
    /\ \A c, d \in cmds \cup batch : c # d => Independent(c.node, d.node)

LEMMA StepKeepsHost ==
  ASSUME Step
  PROVE  pc = "burst" /\ batch' = batch /\ faults' = faults
BY DEF Step, SeqStep, StarBodyStep, StarExitStep, StarExit, ChoiceStep, ParStep, HaltStep,
   SingletonStep, BlockedStep, Stepping, Commit, CommitHalt, CommitExternal, CommitLocal,
   ParCommit, EndBurst, Continue

LEMMA WarnedFaults ==
  ASSUME TypeInv, StepFails \/ \E at : Warned(at)
  PROVE  faults' # 0
BY DEF TypeInv, TypeOK, StepFails, Warned

LEMMA NextTurns ==
  ASSUME TypeInv, Turns, [Next]_vars
  PROVE  Turns'
<1> SUFFICES ASSUME faults' = 0
             PROVE  Turns'
  BY DEF Turns
<1>1. CASE Step
  <2>1. cmds = {} /\ batch' = {}
    BY <1>1, StepKeepsHost DEF Turns
  <2>2. HandsOver(DrainedPending)
    BY <1>1, <2>1, StepHandsOver
  <2>3. QED
    BY <2>1, <2>2 DEF Turns, HandsOver
<1>2. CASE PreBurst \/ BudgetSpent \/ UNCHANGED vars
  <2>1. UNCHANGED <<cmds, batch, faults>> /\ (pc' = pc \/ (pc = "head" /\ pc' \in {"burst", "done"}))
    BY <1>2 DEF PreBurst, BudgetSpent, vars, rings, host
  <2>2. QED
    BY <2>1 DEF Turns
<1>3. CASE DrainCommands
  BY <1>3 DEF DrainCommands, Turns
<1>4. CASE ServeCommand
  <2>1. cmds' = {} /\ batch' \subseteq batch /\ (pc' = "settle" => batch' = {})
        /\ pc' \in {"settle", "serve"} /\ faults = 0
    BY <1>4 DEF ServeCommand, Turns
  <2>2. QED
    BY <1>4, <2>1 DEF Turns, ServeCommand
<1>5. CASE SettleReceipts
  BY <1>5 DEF SettleReceipts, Turns
<1>6. CASE StepFails \/ \E at : Warned(at)
  BY <1>6, WarnedFaults
<1>7. QED
  BY <1>1, <1>2, <1>3, <1>4, <1>5, <1>6
     DEF Next, DrainCommandsFails, PushFails, SettleFails, Terminated

LEMMA InitTurns ==
  ASSUME Init
  PROVE  Turns
BY DEF Init, Turns

(* As long as no call of the service path fails, the commands the host     *)
(* holds together have no conflicting effects, for every size of the rings *)
(* and of the groups.                                                      *)
THEOREM HostMayReorder == Spec => []InFlightIndependent
<1>1. Spec => []Turns
  BY InitType, NextType, InitTurns, NextTurns, PTL DEF Spec
<1>2. Turns => InFlightIndependent
  BY DEF Turns, InFlightIndependent
<1>3. QED
  BY <1>1, <1>2, PTL

(* What is owed is in a ring or with the host, and fits into the rings.    *)
Debts ==
  faults = 0 =>
    /\ pc \in {"head", "burst", "done", "service"} => receipts = {}
    /\ pending = Cardinality(cmds) + Cardinality(batch) + Cardinality(receipts)
    /\ pending <= RingSize
    /\ MaxPar <= RingSize => EveryCommitCommanded

LEMMA Finite ==
  ASSUME TypeInv, Tickets
  PROVE  /\ IsFiniteSet(cmds) /\ IsFiniteSet(batch) /\ IsFiniteSet(receipts)
         /\ Cardinality(cmds) \in Nat /\ Cardinality(batch) \in Nat
         /\ Cardinality(receipts) \in Nat
<1>1. cmdTail \in Nat
  BY DEF TypeInv, TypeOK
<1>2. QED
  BY <1>1, CountByPosition DEF Tickets, Issued

LEMMA AllApplied ==
  ASSUME SelfFree
  PROVE  Applied = receipts
BY DEF SelfFree, Applied

(* A step of the scheduler finds nothing owed and settles nothing.         *)
LEMMA StepOwesNothing ==
  ASSUME TypeInv, Tickets, Turns, Debts, faults = 0, Step
  PROVE  /\ cmds = {} /\ batch = {} /\ batch' = {} /\ receipts = {} /\ receipts' = {}
         /\ pending = 0 /\ DrainedPending = 0 /\ Applied = {} /\ settled' = settled
         /\ HandsOver(0) /\ pending' = cmdTail' - cmdTail
<1>1. cmds = {} /\ batch = {} /\ batch' = {} /\ receipts = {}
  BY StepKeepsHost DEF Turns, Debts
<1>2. Applied = {} /\ receipts' = {} /\ settled' = settled
  BY <1>1, StepDrainsAndEmits DEF DrainsAndEmits, MarkDrained, Applied
<1>3. pending = 0
  BY <1>1, FS_EmptySet DEF Debts
<1>4. DrainedPending = 0
  BY <1>2, <1>3, FS_EmptySet DEF DrainedPending
<1>5. HandsOver(0)
  BY <1>1, <1>4, StepHandsOver
<1>6. pending' = cmdTail' - cmdTail
  <2>1. pending' = 0 + (cmdTail' - cmdTail) /\ cmdTail' \in Nat /\ cmdTail \in Nat
    BY <1>4, StepDrainsAndEmits DEF DrainsAndEmits, Emits, TypeInv, TypeOK
  <2>2. QED
    BY <2>1
<1>7. QED
  BY <1>1, <1>2, <1>3, <1>4, <1>5, <1>6

(* Serving a command moves it to the receipt ring, which has room for it.  *)
Moves(c) ==
  /\ c \in batch
  /\ batch' = batch \ {c}
  /\ \E r : /\ receipts' = receipts \cup {r}
            /\ r.pos = c.pos /\ r.src = c.src /\ r.node = c.node
  /\ UNCHANGED <<cmds, pending, settled>>

LEMMA ServeMoves ==
  ASSUME Roomy, TypeInv, Tickets, Debts, faults = 0, ServeCommand
  PROVE  /\ \E c : Moves(c)
         /\ Cardinality(batch') \in Nat /\ Cardinality(receipts') \in Nat
         /\ Cardinality(batch') + Cardinality(receipts')
              = Cardinality(batch) + Cardinality(receipts)
<1>1. PICK c \in batch, outcome \in Outcomes :
        /\ receipts' =
             IF Cardinality(receipts) < ReceiptRingSize
             THEN receipts \cup
                    {[pos |-> c.pos, id |-> c.id, src |-> c.src, node |-> c.node,
                      outcome |-> outcome]}
             ELSE receipts
        /\ batch' = batch \ {c}
  BY DEF ServeCommand
<1>2. /\ IsFiniteSet(batch) /\ IsFiniteSet(receipts) /\ Cardinality(cmds) \in Nat
      /\ Cardinality(batch) \in Nat /\ Cardinality(receipts) \in Nat
  BY Finite
<1>3. IsFiniteSet(batch') /\ Cardinality(batch') = Cardinality(batch) - 1 /\ Cardinality(batch') \in Nat
  BY <1>1, <1>2, FS_RemoveElement, FS_CardinalityType
<1>4. Cardinality(receipts) < ReceiptRingSize
  <2>1. Cardinality(cmds) + Cardinality(batch) + Cardinality(receipts) <= RingSize
    BY DEF Debts
  <2>2. QED
    BY <1>2, <1>3, <2>1, BoundAssumption DEF Roomy
<1> DEFINE r == [pos |-> c.pos, id |-> c.id, src |-> c.src, node |-> c.node, outcome |-> outcome]
<1>5. receipts' = receipts \cup {r} /\ r.pos = c.pos /\ r.src = c.src /\ r.node = c.node
  BY <1>1, <1>4
<1> HIDE DEF r
<1>6. r \notin receipts
  BY <1>5 DEF Tickets, Apart, Positions
<1>7. Cardinality(receipts') = Cardinality(receipts) + 1
  BY <1>2, <1>5, <1>6, FS_AddElement
<1>8. UNCHANGED <<cmds, pending, settled>>
  BY DEF ServeCommand, device
<1>9. \E d : Moves(d)
  BY <1>1, <1>5, <1>8 DEF Moves
<1>10. QED
  BY <1>2, <1>3, <1>7, <1>9

LEMMA NextDebts ==
  ASSUME Roomy, TypeInv, Tickets, SelfFree, Turns, Debts, [Next]_vars
  PROVE  Debts'
<1> SUFFICES ASSUME faults' = 0
             PROVE  Debts'
  BY DEF Debts
<1>0. /\ Cardinality(cmds) \in Nat /\ Cardinality(batch) \in Nat
      /\ Cardinality(receipts) \in Nat /\ Cardinality({}) = 0 /\ pending \in Nat /\ RingSize \in Nat
  BY Finite, FS_EmptySet, BoundAssumption DEF TypeInv, TypeOK
<1>1. CASE Step
  <2>1. faults = 0
    BY <1>1, StepKeepsHost
  <2>2. /\ batch' = {} /\ receipts' = {} /\ HandsOver(0)
        /\ pending' = cmdTail' - cmdTail
    BY <1>1, <2>1, StepOwesNothing
  <2>3. pending' = Cardinality(cmds') /\ Cardinality(cmds') \in Nat /\ pending' <= RingSize
    BY <2>2, FS_CardinalityType DEF HandsOver
  <2>4. MaxPar <= RingSize => EveryCommitCommanded'
    BY <2>2 DEF EveryCommitCommanded, HandsOver
  <2>5. QED
    BY <1>0, <2>2, <2>3, <2>4 DEF Debts
<1>2. CASE PreBurst \/ BudgetSpent
  <2>1. /\ UNCHANGED <<cmds, batch, receipts, pending, faults>>
        /\ pc = "head" /\ pc' \in {"burst", "done"}
    BY <1>2 DEF PreBurst, BudgetSpent, rings, device
  <2>2. QED
    BY <2>1 DEF Debts, EveryCommitCommanded
<1>3. CASE UNCHANGED vars
  BY <1>3 DEF Debts, EveryCommitCommanded, vars, rings, device, host
<1>4. CASE DrainCommands
  <2>1. /\ batch = {} /\ batch' = cmds /\ cmds' = {} /\ UNCHANGED <<receipts, pending, faults>>
        /\ pc' \in {"settle", "serve"}
    BY <1>4 DEF DrainCommands, Turns, device
  <2>2. QED
    BY <1>0, <2>1 DEF Debts, EveryCommitCommanded
<1>5. CASE ServeCommand
  <2>1. faults = 0 /\ pc' \in {"settle", "serve"}
    BY <1>5 DEF ServeCommand
  <2>2. UNCHANGED <<cmds, pending>> /\
        Cardinality(batch') + Cardinality(receipts') = Cardinality(batch) + Cardinality(receipts)
    BY <1>5, <2>1, ServeMoves DEF Moves
  <2>3. pending' <= RingSize
    BY <2>1, <2>2 DEF Debts
  <2>4. pending' = Cardinality(cmds') + Cardinality(batch') + Cardinality(receipts')
    <3>1. cmds = {} /\ pending = Cardinality(cmds) + Cardinality(batch) + Cardinality(receipts)
      BY <1>5, <2>1 DEF Turns, Debts, ServeCommand
    <3>2. pending = Cardinality(batch) + Cardinality(receipts)
      BY <1>0, <3>1
    <3>3. Cardinality(batch') \in Nat /\ Cardinality(receipts') \in Nat
      BY <1>5, <2>1, ServeMoves
    <3>4. QED
      BY <1>0, <2>2, <3>1, <3>2, <3>3
  <2>5. QED
    BY <2>1, <2>3, <2>4 DEF Debts, EveryCommitCommanded
<1>6. CASE SettleReceipts
  <2>1. /\ cmds = {} /\ batch = {} /\ cmds' = {} /\ batch' = {} /\ receipts' = {}
        /\ pending' = DrainedPending /\ pc' = "head" /\ faults = 0
    BY <1>6 DEF SettleReceipts, Turns, MarkDrained
  <2>2. pending = Cardinality(receipts) /\ Applied = receipts
    BY <1>0, <2>1, AllApplied DEF Debts
  <2>3. pending' = 0
    BY <1>0, <2>1, <2>2 DEF DrainedPending
  <2>4. QED
    BY <1>0, <2>1, <2>3 DEF Debts, EveryCommitCommanded
<1>7. CASE StepFails \/ \E at : Warned(at)
  BY <1>7, WarnedFaults
<1>8. QED
  BY <1>1, <1>2, <1>3, <1>4, <1>5, <1>6, <1>7
     DEF Next, DrainCommandsFails, PushFails, SettleFails, Terminated

LEMMA InitDebts ==
  ASSUME Init
  PROVE  Debts
BY FS_EmptySet, BoundAssumption DEF Init, Debts, EveryCommitCommanded

(* The invariant of the rings.                                             *)
RingInv == TypeInv /\ Tickets /\ HopsOut /\ SelfFree /\ Turns /\ Debts

LEMMA RingsInvariant ==
  ASSUME Roomy, NoSelfWork
  PROVE  Spec => []RingInv
<1>1. Init => RingInv
  BY InitType, InitTickets, InitSelfFree, InitTurns, InitDebts DEF RingInv
<1>2. RingInv /\ [Next]_vars => RingInv'
  BY NextType, NextTickets, NextSelfFree, NextTurns, NextDebts DEF RingInv
<1>3. QED
  BY <1>1, <1>2, PTL DEF Spec

(* The scheduler and the host take turns: no step is taken, and the        *)
(* supervisor does not return, while a command is owed a receipt; and each *)
(* external node just committed has its command, and nothing else has, for *)
(* a command ring that holds a whole group (64 to 8 in the code).          *)
THEOREM HandoverHolds ==
  ASSUME Roomy, NoSelfWork, MaxPar <= RingSize
  PROVE  Spec => []Handover
<1>1. RingInv => Handover
  <2> SUFFICES ASSUME RingInv
               PROVE  Handover
    OBVIOUS
  <2>1. Quiescent
    <3> SUFFICES ASSUME faults = 0, pc \in {"head", "burst", "done"}
                 PROVE  pending = 0 /\ cmds = {} /\ batch = {} /\ receipts = {}
      BY DEF Quiescent
    <3>1. cmds = {} /\ batch = {} /\ receipts = {}
      BY DEF RingInv, Turns, Debts
    <3>2. pending = 0
      BY <3>1, FS_EmptySet DEF RingInv, Debts
    <3>3. QED
      BY <3>1, <3>2
  <2>2. EveryCommitCommanded
    BY DEF RingInv, Debts, EveryCommitCommanded
  <2>3. QED
    BY <2>1, <2>2 DEF Handover
<1>2. QED
  BY <1>1, RingsInvariant, PTL

-------------------------------------------------------------------------------
(* The rings implement the rounds of ExternalWork.                         *)

Owed == Positions(cmds) \cup Positions(batch) \cup Positions(Applied)

LEMMA NextRounds ==
  ASSUME Roomy, RingInv, RingInv', faults = 0, faults' = 0, [Next]_vars
  PROVE  \/ Owed = {} /\ Owed' \subseteq Nat \ Positions(settled) /\ UNCHANGED Positions(settled)
         \/ Positions(settled') = Positions(settled) \cup Owed /\ Owed' = {}
         \/ UNCHANGED <<Owed, Positions(settled)>>
<1>0. Applied = receipts /\ Applied' = receipts'
  BY DEF RingInv, SelfFree, Applied
<1>1. CASE Step
  <2>1. /\ cmds = {} /\ batch = {} /\ batch' = {} /\ receipts = {} /\ receipts' = {}
        /\ settled' = settled
    BY <1>1, StepOwesNothing DEF RingInv
  <2>2. Owed = {} /\ Owed' = Positions(cmds')
    BY <1>0, <2>1 DEF Owed, Positions
  <2>3. Positions(cmds') \subseteq Nat /\ Positions(cmds') \cap Positions(settled') = {}
    BY DEF RingInv, Tickets, Apart, Positions, TypeInv, TypeOK, Command
  <2>4. QED
    BY <2>1, <2>2, <2>3
<1>2. CASE DrainCommands
  <2>1. batch = {} /\ batch' = cmds /\ cmds' = {} /\ UNCHANGED <<receipts, settled>>
    BY <1>2 DEF DrainCommands, RingInv, Turns
  <2>2. QED
    BY <1>0, <2>1 DEF Owed, Positions
<1>3. CASE ServeCommand
  <2>1. PICK c : Moves(c)
    BY <1>3, ServeMoves DEF RingInv
  <2>2. /\ Positions(batch) = Positions(batch') \cup {c.pos}
        /\ Positions(receipts') = Positions(receipts) \cup {c.pos}
    BY <2>1 DEF Moves, Positions
  <2>3. QED
    BY <1>0, <2>1, <2>2 DEF Owed, Moves
<1>4. CASE SettleReceipts
  <2>1. /\ cmds = {} /\ batch = {} /\ cmds' = {} /\ batch' = {} /\ receipts' = {}
        /\ settled' = settled \cup Slips(Applied)
    BY <1>4 DEF SettleReceipts, RingInv, Turns, MarkDrained, Slips, Slip
  <2>2. Positions(Slips(Applied)) = Positions(Applied)
    <3>1. \A r : Slip(r).pos = r.pos
      BY DEF Slip
    <3>2. QED
      BY <3>1 DEF Slips, Positions
  <2>3. QED
    BY <1>0, <2>1, <2>2 DEF Owed, Positions
<1>5. CASE PreBurst \/ BudgetSpent \/ UNCHANGED vars
  <2>1. CASE UNCHANGED <<cmds, batch, receipts, settled>>
    BY <1>0, <2>1 DEF Owed
  <2>2. QED
    BY <1>5, <2>1 DEF PreBurst, BudgetSpent, vars, rings, host
<1>6. CASE StepFails \/ \E at : Warned(at)
  BY <1>6, WarnedFaults DEF RingInv
<1>7. QED
  BY <1>1, <1>2, <1>3, <1>4, <1>5, <1>6
     DEF Next, DrainCommandsFails, PushFails, SettleFails, Terminated

(* When no call of the service path can fail, what goes through the rings  *)
(* is issued and settled in rounds: each step of the scheduler and of the  *)
(* service loop is a step of ExternalWork, or changes nothing it sees.     *)
THEOREM RingsImplementRounds ==
  ASSUME Roomy, NoSelfWork, MaxFaults = 0
  PROVE  Spec => Rounds
<1>1. RingInv => faults = 0
  BY DEF RingInv, TypeInv, TypeOK
<1>2. Init => Work!WorkInit
  BY DEF Init, Work!WorkInit, Positions, Applied
<1>3. RingInv /\ RingInv' /\ [Next]_vars =>
        [Work!Issue \/ Work!Settle]_<<Owed, Positions(settled)>>
  <2> SUFFICES ASSUME RingInv, RingInv', [Next]_vars
               PROVE  [Work!Issue \/ Work!Settle]_<<Owed, Positions(settled)>>
    OBVIOUS
  <2>1. faults = 0 /\ faults' = 0
    BY DEF RingInv, TypeInv, TypeOK
  <2>2. CASE UNCHANGED <<Owed, Positions(settled)>>
    BY <2>2
  <2>3. CASE Owed = {} /\ Owed' \subseteq Nat \ Positions(settled) /\ UNCHANGED Positions(settled)
    BY <2>3 DEF Work!Issue, Owed
  <2>4. CASE Positions(settled') = Positions(settled) \cup Owed /\ Owed' = {}
    BY <2>4 DEF Work!Settle, Owed
  <2>5. QED
    BY <2>1, <2>2, <2>3, <2>4, NextRounds
<1>4. QED
  BY <1>2, <1>3, RingsInvariant, PTL DEF Spec, Rounds, Work!WorkSpec, Owed

===============================================================================
