--------------------------- MODULE Decisions_proofs ---------------------------
(***************************************************************************)
(* Proofs about Decisions.  The inductive invariant DecisionsInv joins one *)
(* part for each component: the ring of receipts (how far the consumer may *)
(* be behind while it is not lapped), the members of groups (each in one   *)
(* place, numbered by its group step), the spent edges (all consumed), and *)
(* the exploration (its tokens form a forest whose roots are the           *)
(* strategies, and the candidate that is held is within the limits).       *)
(***************************************************************************)
EXTENDS Decisions, Numbers_proofs

Entries == [sure : SUBSET Pair, safe : SUBSET Pair]

LEMMA ReinforceType ==
  ASSUME NEW t \in Entries, NEW r, r.outcome \in ReceiptOutcomes, NEW worn
  PROVE  Reinforce(t, r, worn) \in Entries
<1> DEFINE p    == {<<r.src, r.dst>>} \cap Pair
           gone == IF worn THEN p ELSE {}
<1>1. p \in SUBSET Pair /\ gone \in SUBSET Pair /\ t.sure \in SUBSET Pair /\ t.safe \in SUBSET Pair
  BY DEF Entries
<1>2. r.outcome \in {"success", "failure", "timeout", "safety"}
  BY DEF ReceiptOutcomes
<1> HIDE DEF p, gone
<1>3. CASE r.outcome = "success"
  <2>1. Reinforce(t, r, worn) = [sure |-> t.sure \cup p, safe |-> t.safe \cup p]
    BY <1>3 DEF Reinforce, p, gone
  <2>2. QED
    BY <1>1, <2>1 DEF Entries
<1>4. CASE r.outcome = "failure"
  <2>1. Reinforce(t, r, worn) = [sure |-> t.sure \ gone, safe |-> t.safe \ gone]
    BY <1>4 DEF Reinforce, p, gone
  <2>2. QED
    BY <1>1, <2>1 DEF Entries
<1>5. CASE r.outcome = "timeout"
  <2>1. Reinforce(t, r, worn) = [sure |-> t.sure \ gone, safe |-> t.safe]
    BY <1>5 DEF Reinforce, p, gone
  <2>2. QED
    BY <1>1, <2>1 DEF Entries
<1>6. CASE r.outcome = "safety"
  <2>1. Reinforce(t, r, worn) = [sure |-> t.sure \ gone, safe |-> t.safe \ p]
    BY <1>6 DEF Reinforce, p, gone
  <2>2. QED
    BY <1>1, <2>1 DEF Entries
<1>7. QED
  BY <1>2, <1>3, <1>4, <1>5, <1>6

LEMMA ReinforcedType ==
  ASSUME Len(log) \in Nat, head \in 0 .. Len(log), sure \subseteq Pair, safe \subseteq Pair,
         \A i \in head + 1 .. Len(log) : log[SlotHolds(i)].outcome \in ReceiptOutcomes,
         NEW worn
  PROVE  Reinforced(worn) \in Entries
<1> DEFINE n    == Len(log) - head
           now  == [sure |-> sure, safe |-> safe]
           step == [d \in 1 .. n |->
                      [t \in Entries |->
                         Reinforce(t, log[SlotHolds(head + d)], head + d \in worn)]]
           after[d \in 0 .. n] ==
             IF d = 0 THEN now
             ELSE Reinforce(after[d - 1], log[SlotHolds(head + d)], head + d \in worn)
<1>1. n \in Nat /\ now \in Entries
  BY DEF Entries
<1>2. step \in [1 .. n -> [Entries -> Entries]]
  <2> SUFFICES ASSUME NEW d \in 1 .. n, NEW t \in Entries
               PROVE  Reinforce(t, log[SlotHolds(head + d)], head + d \in worn) \in Entries
    OBVIOUS
  <2>1. head + d \in head + 1 .. Len(log)
    OBVIOUS
  <2>2. QED
    BY <2>1, ReinforceType
<1>3. PICK f \in [0 .. n -> Entries] : \A d \in 0 .. n : f[d] = IF d = 0 THEN now ELSE step[d][f[d - 1]]
  <2> HIDE DEF n, now, step
  <2>1. Iterates(Entries, n, now, step)
    BY <1>1, <1>2, Iteration
  <2>2. QED
    BY <2>1 DEF Iterates
<1>4. f = [d \in 0 .. n |->
             IF d = 0 THEN now
             ELSE Reinforce(f[d - 1], log[SlotHolds(head + d)], head + d \in worn)]
  <2>1. ASSUME NEW d \in 0 .. n, d # 0
        PROVE  step[d][f[d - 1]] = Reinforce(f[d - 1], log[SlotHolds(head + d)], head + d \in worn)
    <3>1. d - 1 \in 0 .. n /\ d \in 1 .. n
      BY <1>1, <2>1
    <3>2. f[d - 1] \in Entries
      BY <3>1
    <3>3. QED
      BY <3>1, <3>2
  <2> HIDE DEF step, n, now
  <2>2. QED
    BY <1>3, <2>1
<1>5. after = [d \in 0 .. n |->
             IF d = 0 THEN now
             ELSE Reinforce(after[d - 1], log[SlotHolds(head + d)], head + d \in worn)]
  <2> HIDE DEF n, now
  <2>1. QED
    BY <1>4, Zenon DEF after
<1>6. ASSUME NEW d \in Nat, d <= n => after[d] \in Entries, d + 1 <= n
      PROVE  after[d + 1] \in Entries
  <2>1. d + 1 \in 0 .. n /\ d + 1 # 0 /\ (d + 1) - 1 = d /\ d <= n
    BY <1>1, <1>6
  <2>2. after[d] \in Entries
    BY <1>6, <2>1
  <2>3. after[d + 1] = Reinforce(after[d], log[SlotHolds(head + (d + 1))], head + (d + 1) \in worn)
    <3> HIDE DEF after, n
    <3>1. QED
      BY <1>5, <2>1
  <2>4. head + (d + 1) \in head + 1 .. Len(log)
    BY <2>1
  <2> HIDE DEF after, n
  <2>5. QED
    BY <2>2, <2>3, <2>4, ReinforceType
<1>7. after[0] \in Entries
  <2>1. 0 \in 0 .. n
    BY <1>1
  <2> HIDE DEF after, n, now
  <2>2. QED
    BY <1>1, <1>5, <2>1
<1> DEFINE good == {d \in Nat : d <= n => after[d] \in Entries}
<1>8. Nat \subseteq good
  <2> HIDE DEF after, n
  <2>1. 0 \in good /\ \A d \in Nat : d \in good => d + 1 \in good
    BY <1>6, <1>7
  <2> HIDE DEF good
  <2>2. QED
    BY <2>1, SetInduction
<1>9. n \in good /\ n <= n
  BY <1>1, <1>8
<1>10. after[n] \in Entries
  <2> HIDE DEF after, n
  <2>1. QED
    BY <1>9
<1>11. QED
  BY <1>10 DEF Reinforced

-------------------------------------------------------------------------------
(* The ring of receipts.                                                   *)

TensorOK == sure \subseteq Pair /\ safe \subseteq Pair /\ hop \in [DOMAIN hop -> Node]

FrontierOK == active \subseteq Node /\ consumed \subseteq Node \X Node

RingTypeOK ==
  /\ log \in Seq(DeviceReceipt)
  /\ Len(log) <= MaxReceipts
  /\ head \in 0 .. Len(log)
  /\ applied \in [DOMAIN log -> Nat]
  /\ lapped \in BOOLEAN

LEMMA WorldTypes == WorldTypeOK <=> TensorOK /\ FrontierOK /\ RingTypeOK
BY DEF WorldTypeOK, TensorOK, FrontierOK, RingTypeOK

(* A receipt that was not drained yet still says what happened, and unless *)
(* the ring was lapped, those fit in it.                                   *)
RingInv ==
  /\ RingTypeOK
  /\ ~lapped => Len(log) - head <= ReceiptSlots
  /\ \A k \in head + 1 .. Len(log) : log[k].outcome \in ReceiptOutcomes
  /\ ReceiptsAppliedOnce

LEMMA LogIs ==
  ASSUME RingTypeOK
  PROVE  /\ Len(log) \in Nat /\ DOMAIN log = 1 .. Len(log)
         /\ head \in Nat /\ head <= Len(log)
         /\ applied \in Seq(Nat) /\ Len(applied) = Len(log)
         /\ \A k \in 1 .. Len(log) : log[k] \in DeviceReceipt /\ applied[k] \in Nat
<1>1. Len(log) \in Nat /\ DOMAIN log = 1 .. Len(log)
  BY DEF RingTypeOK
<1>2. applied \in [1 .. Len(log) -> Nat]
  BY <1>1 DEF RingTypeOK
<1>3. applied \in Seq(Nat) /\ Len(applied) = Len(log)
  BY <1>1, <1>2
<1>4. \A k \in 1 .. Len(log) : log[k] \in DeviceReceipt
  BY DEF RingTypeOK
<1>5. QED
  BY <1>1, <1>2, <1>3, <1>4 DEF RingTypeOK

(* The slot of a position that was pushed holds a receipt that is not      *)
(* older; its own, unless the ring was lapped.                             *)
LEMMA SlotIs ==
  ASSUME RingTypeOK, NEW i \in head + 1 .. Len(log)
  PROVE  /\ SlotHolds(i) \in i .. Len(log)
         /\ (SlotHolds(i) - i) % ReceiptSlots = 0 /\ SlotHolds(i) + ReceiptSlots > Len(log)
         /\ Len(log) - head <= ReceiptSlots => SlotHolds(i) = i
<1> DEFINE R == ReceiptSlots
<1>1. R \in Nat \ {0}
  BY WorldAssumption
<1>2. i \in Nat /\ Len(log) \in Nat /\ head \in Nat /\ i <= Len(log) /\ head < i
  BY LogIs
<1> HIDE DEF R
<1> DEFINE good == {d \in Nat : \E m \in 0 .. d : m % R = 0 /\ m + R > d}
<1>3. 0 \in good
  <2>1. 0 % R = 0 /\ 0 + R > 0 /\ 0 \in 0 .. 0
    BY <1>1
  <2>2. QED
    BY <2>1
<1>4. ASSUME NEW d \in Nat, d \in good
      PROVE  d + 1 \in good
  <2>1. PICK m \in 0 .. d : m % R = 0 /\ m + R > d
    BY <1>4
  <2>2. CASE m + R > d + 1
    BY <2>1, <2>2
  <2>3. CASE ~(m + R > d + 1)
    <3>1. m + R = d + 1 /\ m \in Nat
      BY <1>1, <2>1, <2>3
    <3>2. (m + R) % R = 0
      BY <1>1, <2>1, <3>1, ModOwn
    <3>3. (d + 1) % R = 0 /\ (d + 1) + R > d + 1
      BY <1>1, <3>1, <3>2
    <3>4. QED
      BY <3>3
  <2>4. QED
    BY <2>2, <2>3
<1>5. Len(log) - i \in good
  <2>1. Len(log) - i \in Nat
    BY <1>2
  <2> HIDE DEF good
  <2>2. QED
    BY <1>3, <1>4, <2>1, SetInduction
<1>6. PICK m \in 0 .. Len(log) - i : m % R = 0 /\ m + R > Len(log) - i
  BY <1>5
<1>7. \E k \in i .. Len(log) : (k - i) % R = 0 /\ k + R > Len(log)
  <2>1. i + m \in i .. Len(log) /\ (i + m) - i = m /\ (i + m) + R > Len(log)
    BY <1>1, <1>2, <1>6
  <2>2. QED
    BY <1>6, <2>1
<1>8. SlotHolds(i) \in i .. Len(log) /\ (SlotHolds(i) - i) % R = 0 /\ SlotHolds(i) + R > Len(log)
  BY <1>7 DEF SlotHolds, R
<1>9. ASSUME Len(log) - head <= R
      PROVE  SlotHolds(i) = i
  <2>1. SlotHolds(i) - i \in 0 .. R - 1
    BY <1>1, <1>2, <1>8, <1>9
  <2>2. \A x \in 0 .. R - 1 : x % R = 0 => x = 0
    BY <1>1
  <2>3. SlotHolds(i) - i = 0
    BY <1>8, <2>1, <2>2
  <2>4. QED
    BY <1>2, <1>8, <2>3
<1>10. QED
  BY <1>8, <1>9 DEF R

(* The receipts rs stand after the old ones, and those are still there.    *)
Follow(rs) ==
  /\ Len(log') = Len(log) + Len(rs)
  /\ \A k \in 1 .. Len(log) : log'[k] = log[k]
  /\ \A j \in 1 .. Len(rs) : log'[Len(log) + j] = rs[j]

LEMMA PushRing ==
  ASSUME RingInv, NEW rs \in Seq(DeviceReceipt), \A j \in DOMAIN rs : rs[j].outcome \in ReceiptOutcomes,
         Push(rs)
  PROVE  RingInv' /\ Follow(rs)
<1> DEFINE zeros == [i \in 1 .. Len(rs) |-> 0]
<1>1. RingTypeOK
  BY DEF RingInv
<1>2. /\ Len(log) \in Nat /\ Len(rs) \in Nat /\ head \in Nat /\ head <= Len(log)
      /\ DOMAIN rs = 1 .. Len(rs) /\ MaxReceipts \in Nat /\ ReceiptSlots \in Nat
  BY <1>1, LogIs, WorldAssumption
<1>3. log \in Seq(DeviceReceipt) /\ log' \in Seq(DeviceReceipt)
  BY <1>1 DEF RingTypeOK, Push
<1>4. /\ Len(log') = Len(log) + Len(rs)
      /\ \A k \in 1 .. Len(log) : log'[k] = log[k]
      /\ \A j \in 1 .. Len(rs) : log'[Len(log) + j] = rs[j]
  <2>1. log' = log \o rs
    BY DEF Push
  <2>2. Len(log') = Len(log) + Len(rs)
    BY <1>3, <2>1
  <2>3. ASSUME NEW k \in 1 .. Len(log)
        PROVE  log'[k] = log[k]
    BY <1>2, <1>3, <2>1, <2>3
  <2>4. ASSUME NEW j \in 1 .. Len(rs)
        PROVE  log'[Len(log) + j] = rs[j]
    BY <1>2, <1>3, <2>1, <2>4
  <2>5. QED
    BY <2>2, <2>3, <2>4
<1>5. zeros \in Seq(Nat) /\ Len(zeros) = Len(rs) /\ \A j \in 1 .. Len(rs) : zeros[j] = 0
  BY <1>2
<1>6. /\ applied' \in Seq(Nat) /\ Len(applied') = Len(log')
      /\ \A k \in 1 .. Len(log) : applied'[k] = applied[k]
      /\ \A j \in 1 .. Len(rs) : applied'[Len(log) + j] = 0
  <2>1. applied \in Seq(Nat) /\ Len(applied) = Len(log) /\ applied' = applied \o zeros
    BY <1>1, LogIs DEF Push
  <2> HIDE DEF zeros
  <2>2. applied' \in Seq(Nat) /\ Len(applied') = Len(log')
    <3>1. applied' \in Seq(Nat)
      BY <1>5, <2>1
    <3>2. Len(applied') = Len(applied) + Len(zeros)
      BY <1>5, <2>1, ConcatProperties
    <3>3. QED
      BY <1>4, <1>5, <2>1, <3>1, <3>2
  <2>3. ASSUME NEW k \in 1 .. Len(log)
        PROVE  applied'[k] = applied[k]
    BY <1>2, <1>5, <2>1, <2>3
  <2>4. ASSUME NEW j \in 1 .. Len(rs)
        PROVE  applied'[Len(log) + j] = 0
    BY <1>2, <1>5, <2>1, <2>4
  <2>5. QED
    BY <2>2, <2>3, <2>4
<1>7. \A k \in 1 .. Len(log') : k \in 1 .. Len(log) \/ \E j \in 1 .. Len(rs) : k = Len(log) + j
  <2>1. ASSUME NEW k \in 1 .. Len(log'), k \notin 1 .. Len(log)
        PROVE  k - Len(log) \in 1 .. Len(rs) /\ k = Len(log) + (k - Len(log))
    BY <1>2, <1>4, <2>1
  <2>2. QED
    BY <2>1
<1>8. head' = head /\ lapped' = (lapped \/ Len(log) + Len(rs) - head > ReceiptSlots)
      /\ Len(log) + Len(rs) <= MaxReceipts
  BY DEF Push
<1>9. lapped' \in BOOLEAN
  BY <1>8, Zenon
<1>10. RingTypeOK'
  <2>1. head' \in 0 .. Len(log')
    BY <1>2, <1>4, <1>8
  <2>2. applied' \in [DOMAIN log' -> Nat]
    BY <1>3, <1>6
  <2>3. QED
    BY <1>3, <1>4, <1>8, <1>9, <2>1, <2>2 DEF RingTypeOK
<1>11. ASSUME ~lapped'
       PROVE  ~lapped /\ Len(log') - head' <= ReceiptSlots
  <2>1. ~lapped /\ ~(Len(log) + Len(rs) - head > ReceiptSlots)
    BY <1>8, <1>11, Zenon
  <2>2. QED
    BY <1>2, <1>4, <1>8, <2>1
<1>12. (\A k \in head + 1 .. Len(log) : log[k].outcome \in ReceiptOutcomes)'
  <2> SUFFICES ASSUME NEW k \in head' + 1 .. Len(log')
               PROVE  log'[k].outcome \in ReceiptOutcomes
    BY Zenon
  <2>1. CASE k \in 1 .. Len(log)
    BY <1>2, <1>4, <1>8, <2>1 DEF RingInv
  <2>2. CASE k \notin 1 .. Len(log)
    <3>1. k \in 1 .. Len(log')
      BY <1>2, <1>4, <1>8
    <3>2. QED
      BY <1>2, <1>4, <1>7, <2>2, <3>1
  <2>3. QED
    BY <2>1, <2>2
<1>13. ReceiptsAppliedOnce'
  <2>1. \A k \in 1 .. head : k \in 1 .. Len(log) /\ applied'[k] = applied[k]
    BY <1>2, <1>6
  <2>2. lapped' \/ \A k \in 1 .. head : applied'[k] = 1
    BY <1>11, <2>1 DEF RingInv, ReceiptsAppliedOnce
  <2>3. ASSUME NEW k \in head + 1 .. Len(log')
        PROVE  applied'[k] = 0
    <3>1. CASE k \in 1 .. Len(log)
      <4>1. k \in head + 1 .. Len(log)
        BY <1>2, <3>1
      <4>2. QED
        BY <1>6, <3>1, <4>1 DEF RingInv, ReceiptsAppliedOnce
    <3>2. CASE k \notin 1 .. Len(log)
      <4>1. k \in 1 .. Len(log')
        BY <1>2, <1>4
      <4>2. k - Len(log) \in 1 .. Len(rs) /\ k = Len(log) + (k - Len(log))
        BY <1>7, <3>2, <4>1
      <4>3. QED
        BY <1>6, <4>2
    <3>3. QED
      BY <3>1, <3>2
  <2>4. \A i \in 1 .. head : applied'[i] = 0 => \E k \in 1 .. head : Overwrote(k, i)
    BY <2>1 DEF RingInv, ReceiptsAppliedOnce
  <2>5. \A k \in 1 .. head : applied'[k] > 1 =>
          \E i \in 1 .. head : applied'[i] = 0 /\ Overwrote(k, i)
    BY <2>1 DEF RingInv, ReceiptsAppliedOnce
  <2>6. QED
    BY <1>8, <2>2, <2>3, <2>4, <2>5 DEF ReceiptsAppliedOnce, Overwrote
<1>14. QED
  BY <1>4, <1>10, <1>11, <1>12, <1>13 DEF RingInv, Follow

LEMMA DrainRing ==
  ASSUME RingInv, TensorOK, DrainDeviceReceipts
  PROVE  /\ RingInv' /\ TensorOK' /\ Len(log') = Len(log)
         /\ \A k \in 1 .. Len(log) : log'[k].member = log[k].member
<1>1. RingTypeOK
  BY DEF RingInv
<1>2. /\ Len(log) \in Nat /\ head \in Nat /\ head <= Len(log) /\ DOMAIN log = 1 .. Len(log)
      /\ ReceiptSlots \in Nat
      /\ \A k \in 1 .. Len(log) : log[k] \in DeviceReceipt /\ applied[k] \in Nat
  BY <1>1, LogIs, WorldAssumption
<1> DEFINE given(k) == {i \in head + 1 .. Len(log) : SlotHolds(i) = k}
<1>3. /\ log' = [k \in DOMAIN log |-> [log[k] EXCEPT !.outcome = "drained"]]
      /\ applied' = [k \in DOMAIN log |-> applied[k] + Cardinality(given(k))]
      /\ head' = Len(log) /\ lapped' = lapped /\ hop' = hop
  BY DEF DrainDeviceReceipts, DrainedTo
<1>4. log' \in Seq(DeviceReceipt) /\ Len(log') = Len(log)
      /\ \A k \in 1 .. Len(log) : log'[k].member = log[k].member
  <2>1. \A k \in 1 .. Len(log) : [log[k] EXCEPT !.outcome = "drained"] \in DeviceReceipt
                                 /\ [log[k] EXCEPT !.outcome = "drained"].member = log[k].member
    BY <1>2 DEF DeviceReceipt
  <2>2. log' \in [1 .. Len(log) -> DeviceReceipt]
    BY <1>2, <1>3, <2>1
  <2>3. log' \in Seq(DeviceReceipt) /\ Len(log') = Len(log)
    BY <1>2, <2>2
  <2>4. \A k \in 1 .. Len(log) : log'[k].member = log[k].member
    BY <1>2, <1>3, <2>1
  <2>5. QED
    BY <2>3, <2>4
<1>5. \A k : Cardinality(given(k)) \in Nat
  <2> SUFFICES ASSUME NEW k
               PROVE  Cardinality(given(k)) \in Nat
    OBVIOUS
  <2>1. IsFiniteSet(head + 1 .. Len(log))
    BY <1>2, FS_Interval
  <2>2. given(k) \in SUBSET (head + 1 .. Len(log))
    OBVIOUS
  <2> HIDE DEF given
  <2>3. IsFiniteSet(given(k))
    BY <2>1, <2>2, FS_Subset
  <2>4. QED
    BY <2>3, FS_CardinalityType
<1>6. RingTypeOK'
  <2> HIDE DEF given
  <2>1. \A k \in 1 .. Len(log) : applied[k] + Cardinality(given(k)) \in Nat
    BY <1>2, <1>5
  <2>2. applied' \in [DOMAIN log' -> Nat]
    BY <1>2, <1>3, <1>4, <2>1
  <2>3. head' \in 0 .. Len(log')
    BY <1>2, <1>3, <1>4
  <2>4. QED
    BY <1>1, <1>3, <1>4, <2>2, <2>3 DEF RingTypeOK
<1>7. (~lapped => Len(log) - head <= ReceiptSlots)'
  BY <1>2, <1>3, <1>4
<1>8. (\A k \in head + 1 .. Len(log) : log[k].outcome \in ReceiptOutcomes)'
  BY <1>2, <1>3, <1>4
<1>9. ReceiptsAppliedOnce'
  <2>1. \A k \in 1 .. Len(log) : applied'[k] = applied[k] + Cardinality(given(k))
    BY <1>2, <1>3
  <2>2. \A i \in head + 1 .. Len(log) :
          /\ i \in Nat /\ SlotHolds(i) \in i .. Len(log) /\ (SlotHolds(i) - i) % ReceiptSlots = 0
          /\ SlotHolds(i) + ReceiptSlots > Len(log)
    BY <1>1, <1>2, SlotIs
  <2>3. ASSUME NEW k \in 1 .. head
        PROVE  k \in 1 .. Len(log) /\ applied'[k] = applied[k]
    <3>1. k \in 1 .. Len(log) /\ given(k) = {}
      BY <1>2, <2>2
    <3> HIDE DEF given
    <3> DEFINE n == Cardinality(given(k))
    <3>2. n = 0
      BY <3>1, FS_EmptySet
    <3>3. applied'[k] = applied[k] + n
      BY <2>1, <3>1
    <3> HIDE DEF n
    <3>4. QED
      BY <1>2, <3>1, <3>2, <3>3
  <2>4. ASSUME NEW k \in head + 1 .. Len(log)
        PROVE  k \in 1 .. Len(log) /\ applied'[k] = Cardinality(given(k)) /\ Cardinality(given(k)) \in Nat
    <3>1. k \in 1 .. Len(log) /\ applied[k] = 0
      BY <1>2 DEF RingInv, ReceiptsAppliedOnce
    <3> HIDE DEF given
    <3>2. QED
      BY <1>5, <2>1, <3>1
  <2>5. ASSUME ~lapped, NEW k \in 1 .. Len(log)
        PROVE  applied'[k] = 1
    <3>1. CASE k <= head
      BY <2>3, <2>5, <3>1 DEF RingInv, ReceiptsAppliedOnce
    <3>2. CASE ~(k <= head)
      <4>1. \A i \in head + 1 .. Len(log) : SlotHolds(i) = i
        BY <1>1, <2>5, SlotIs DEF RingInv
      <4>2. given(k) = {k} /\ k \in head + 1 .. Len(log)
        BY <1>2, <3>2, <4>1
      <4> HIDE DEF given
      <4>3. QED
        BY <2>4, <4>2, FS_Singleton
    <3>3. QED
      BY <3>1, <3>2
  <2>6. ASSUME NEW i \in 1 .. Len(log), applied'[i] = 0
        PROVE  \E k \in 1 .. Len(log) : Overwrote(k, i)
    <3>1. CASE i <= head
      <4>1. \E k \in 1 .. head : Overwrote(k, i)
        BY <2>3, <2>6, <3>1 DEF RingInv, ReceiptsAppliedOnce
      <4>2. QED
        BY <1>2, <4>1
    <3>2. CASE ~(i <= head)
      <4>1. i \in head + 1 .. Len(log)
        BY <1>2, <3>2
      <4>2. given(i) = {}
        <5> HIDE DEF given
        <5>1. IsFiniteSet(given(i)) /\ Cardinality(given(i)) = 0
          <6>1. given(i) \in SUBSET (head + 1 .. Len(log))
            BY DEF given
          <6>2. IsFiniteSet(head + 1 .. Len(log))
            BY <1>2, FS_Interval
          <6>3. QED
            BY <2>4, <2>6, <4>1, <6>1, <6>2, FS_Subset
        <5>2. QED
          BY <5>1, FS_EmptySet
      <4>3. SlotHolds(i) # i
        BY <4>1, <4>2
      <4>4. SlotHolds(i) \in 1 .. Len(log) /\ SlotHolds(i) > i
        BY <1>2, <2>2, <4>1, <4>3
      <4>5. QED
        BY <2>2, <4>1, <4>4 DEF Overwrote
    <3>3. QED
      BY <3>1, <3>2
  <2>7. ASSUME NEW k \in 1 .. Len(log), applied'[k] > 1
        PROVE  \E i \in 1 .. Len(log) : applied'[i] = 0 /\ Overwrote(k, i)
    <3>1. CASE k <= head
      <4>1. PICK i \in 1 .. head : applied[i] = 0 /\ Overwrote(k, i)
        BY <2>3, <2>7, <3>1 DEF RingInv, ReceiptsAppliedOnce
      <4>2. QED
        BY <2>3, <4>1
    <3>2. CASE ~(k <= head)
      <4>1. k \in head + 1 .. Len(log)
        BY <1>2, <3>2
      <4>2. given(k) \notin {{}, {k}}
        <5>1. Cardinality({}) = 0 /\ Cardinality({k}) = 1
          BY FS_EmptySet, FS_Singleton
        <5> DEFINE S == given(k)
        <5>2. applied'[k] = Cardinality(S)
          BY <2>4, <4>1
        <5> HIDE DEF S
        <5>3. Cardinality(S) # 0 /\ Cardinality(S) # 1
          BY <2>7, <5>2
        <5>4. S # {} /\ S # {k}
          BY <5>1, <5>3
        <5>5. QED
          BY <5>4 DEF S
      <4>3. PICK i \in head + 1 .. Len(log) : SlotHolds(i) = k /\ i # k
        BY <4>2
      <4>4. i < k /\ i \in 1 .. Len(log) /\ (k - i) % ReceiptSlots = 0
        BY <1>2, <2>2, <4>3
      <4>5. i + ReceiptSlots <= k
        <5> DEFINE R == ReceiptSlots
                   d == k - i
        <5>1. R \in Nat \ {0} /\ k \in Nat /\ i \in Nat /\ d \in Nat \ {0} /\ d % R = 0
          BY <1>2, <4>4, WorldAssumption
        <5>2. i + d = k
          BY <5>1
        <5> HIDE DEF R, d
        <5>3. R <= d
          <6>1. \A x \in 1 .. R - 1 : x % R # 0
            BY <5>1
          <6>2. QED
            BY <5>1, <6>1
        <5>4. i + R <= k
          BY <5>1, <5>2, <5>3
        <5>5. QED
          BY <5>4 DEF R
      <4>6. given(i) = {}
        BY <1>2, <2>2, <4>4, <4>5
      <4> HIDE DEF given
      <4>7. Cardinality(given(i)) = 0
        BY <4>6, FS_EmptySet
      <4>8. QED
        BY <2>4, <4>3, <4>4, <4>7 DEF Overwrote
    <3>3. QED
      BY <3>1, <3>2
  <2>8. head' = Len(log) /\ Len(log') = Len(log) /\ lapped' = lapped
    BY <1>3, <1>4
  <2>9. head' + 1 .. Len(log') = {}
    BY <1>2, <2>8
  <2>10. QED
    BY <2>5, <2>6, <2>7, <2>8, <2>9 DEF ReceiptsAppliedOnce, Overwrote
<1>10. TensorOK'
  <2>1. PICK worn : sure' = Reinforced(worn).sure /\ safe' = Reinforced(worn).safe
    BY DEF DrainDeviceReceipts
  <2>2. \A i \in head + 1 .. Len(log) : log[SlotHolds(i)].outcome \in ReceiptOutcomes
    <3>1. \A i \in head + 1 .. Len(log) : SlotHolds(i) \in i .. Len(log)
      BY <1>1, SlotIs
    <3>2. \A i \in head + 1 .. Len(log) : SlotHolds(i) \in head + 1 .. Len(log)
      BY <1>2, <3>1
    <3>3. QED
      BY <3>2 DEF RingInv
  <2>3. head \in 0 .. Len(log) /\ sure \subseteq Pair /\ safe \subseteq Pair
    BY <1>2 DEF TensorOK
  <2>4. Reinforced(worn) \in Entries
    BY <1>2, <2>2, <2>3, ReinforcedType
  <2>5. QED
    BY <1>3, <2>1, <2>4 DEF TensorOK, Entries
<1>11. QED
  BY <1>4, <1>6, <1>7, <1>8, <1>9, <1>10 DEF RingInv

-------------------------------------------------------------------------------
(* The members of groups.                                                  *)

(* Every committed member is in one place and nothing else is in any, and  *)
(* its number tells the group step that committed it.                      *)
MembersInv ==
  /\ groups \in GroupTables
  /\ issued \in Nat
  /\ todo \subseteq [id : Nat \X Nat, src : Node, node : Node]
  /\ committed \subseteq Nat \X Nat
  /\ \A id \in committed : id[1] \in 1 .. issued
  /\ \A id \in committed : \/ \E k \in 1 .. Len(log) : log[k].member = id
                           \/ \E m \in todo : m.id = id
  /\ \A k \in 1 .. Len(log) : log[k].member = NoMember \/ log[k].member \in committed
  /\ \A m \in todo : m.id \in committed
  /\ \A k, l \in 1 .. Len(log) : log[k].member = log[l].member => k = l \/ log[k].member = NoMember
  /\ \A m, n \in todo : m.id = n.id => m = n
  /\ \A k \in 1 .. Len(log), m \in todo : log[k].member # m.id

LEMMA MembersRunOnce ==
  ASSUME RingTypeOK, MembersInv
  PROVE  MemberRunsOnce
<1>1. DOMAIN log = 1 .. Len(log)
  BY LogIs
<1>2. ASSUME NEW id \in committed
      PROVE  Cardinality({k \in DOMAIN log : log[k].member = id})
               + Cardinality({m \in todo : m.id = id}) = 1
  <2> DEFINE receipts == {k \in DOMAIN log : log[k].member = id}
             tasks    == {m \in todo : m.id = id}
  <2>1. id # NoMember
    BY <1>2 DEF MembersInv, NoMember
  <2>2. CASE \E k \in DOMAIN log : id = log[k].member
    <3>1. PICK k \in DOMAIN log : id = log[k].member
      BY <2>2
    <3>2. receipts = {k}
      BY <1>1, <2>1, <3>1 DEF MembersInv
    <3>3. tasks = {}
      BY <1>1, <3>1 DEF MembersInv
    <3> HIDE DEF receipts, tasks
    <3>4. Cardinality(receipts) = 1 /\ Cardinality(tasks) = 0
      BY <3>2, <3>3, FS_Singleton, FS_EmptySet
    <3>5. QED
      BY <3>4 DEF receipts, tasks
  <2>3. CASE \E m \in todo : id = m.id
    <3>1. PICK m \in todo : id = m.id
      BY <2>3
    <3>2. receipts = {}
      BY <1>1, <3>1 DEF MembersInv
    <3>3. tasks = {m}
      BY <3>1 DEF MembersInv
    <3> HIDE DEF receipts, tasks
    <3>4. Cardinality(receipts) = 0 /\ Cardinality(tasks) = 1
      BY <3>2, <3>3, FS_Singleton, FS_EmptySet
    <3>5. QED
      BY <3>4 DEF receipts, tasks
  <2>4. (\E k \in DOMAIN log : id = log[k].member) \/ \E m \in todo : id = m.id
    BY <1>1, <1>2 DEF MembersInv
  <2>5. QED
    BY <2>2, <2>3, <2>4
<1>3. ASSUME NEW k \in DOMAIN log
      PROVE  log[k].member \in committed \cup {NoMember}
  BY <1>1, <1>3 DEF MembersInv
<1>4. \A m \in todo : m.id \in committed
  BY DEF MembersInv
<1>5. QED
  BY <1>2, <1>3, <1>4 DEF MemberRunsOnce

(* The receipts that follow the old ones are the only new ones.            *)
LEMMA PushedSplit ==
  ASSUME RingInv, NEW rs \in Seq(DeviceReceipt), Follow(rs),
         NEW k \in 1 .. Len(log')
  PROVE  k \in 1 .. Len(log) \/ \E j \in 1 .. Len(rs) : k = Len(log) + j
<1>1. Len(log) \in Nat /\ Len(rs) \in Nat
  BY LogIs DEF RingInv
<1>11. Len(log') = Len(log) + Len(rs)
  BY DEF Follow
<1>2. ASSUME k \notin 1 .. Len(log)
      PROVE  k - Len(log) \in 1 .. Len(rs) /\ k = Len(log) + (k - Len(log))
  BY <1>1, <1>11, <1>2
<1>3. QED
  BY <1>2

LEMMA PushedKept ==
  ASSUME RingInv, NEW rs \in Seq(DeviceReceipt), Follow(rs)
  PROVE  /\ \A k \in 1 .. Len(log) : k \in 1 .. Len(log') /\ log'[k] = log[k]
         /\ \A j \in 1 .. Len(rs) : /\ Len(log) + j \in 1 .. Len(log')
                                  /\ log'[Len(log) + j] = rs[j]
<1>1. Len(log) \in Nat /\ Len(rs) \in Nat
  BY LogIs DEF RingInv
<1>2. Len(log') = Len(log) + Len(rs)
  BY DEF Follow
<1>3. QED
  BY <1>1, <1>2 DEF Follow

LEMMA DispatchMembers ==
  ASSUME RingInv, MembersInv, DispatchRegion, UNCHANGED groupVars
  PROVE  RingInv' /\ MembersInv'
<1>1. PICK r \in HotReceipts :
        Push(<<[src |-> r.src, dst |-> r.dst, outcome |-> r.outcome, member |-> NoMember]>>)
  BY DEF DispatchRegion
<1> DEFINE new == [src |-> r.src, dst |-> r.dst, outcome |-> r.outcome, member |-> NoMember]
           rs  == <<new>>
<1>2. new \in DeviceReceipt /\ new.outcome \in ReceiptOutcomes /\ new.member = NoMember
  BY WorldAssumption DEF DeviceReceipt, NoMember
<1> HIDE DEF new
<1>3. /\ rs \in Seq(DeviceReceipt) /\ Len(rs) = 1 /\ rs[1] = new
      /\ \A j \in 1 .. Len(rs) : j = 1 /\ rs[j] = new
      /\ \A j \in DOMAIN rs : rs[j].outcome \in ReceiptOutcomes
  BY <1>2
<1>4. Push(rs)
  BY <1>1 DEF new
<1> HIDE DEF rs
<1>5. RingInv' /\ Follow(rs)
  BY <1>3, <1>4, PushRing
<1>6. ASSUME NEW k \in 1 .. Len(log')
      PROVE  \/ k \in 1 .. Len(log) /\ log'[k] = log[k]
             \/ log'[k].member = NoMember
  BY <1>2, <1>3, <1>5, PushedSplit DEF Follow
<1>7. NoMember \notin {m.id : m \in todo}
  BY DEF MembersInv, NoMember
<1>8. \A k \in 1 .. Len(log) : k \in 1 .. Len(log') /\ log'[k] = log[k]
  BY <1>3, <1>5, PushedKept
<1>9. ASSUME NEW id \in committed'
      PROVE  \/ \E k \in 1 .. Len(log') : log'[k].member = id
             \/ \E m \in todo' : m.id = id
  BY <1>8 DEF MembersInv, groupVars
<1>10. ASSUME NEW k \in 1 .. Len(log')
       PROVE  log'[k].member = NoMember \/ log'[k].member \in committed'
  BY <1>6 DEF MembersInv, groupVars
<1>11. MembersInv'
  BY <1>6, <1>7, <1>9, <1>10 DEF MembersInv, groupVars
<1>12. QED
  BY <1>5, <1>11

LEMMA DrainMembers ==
  ASSUME RingInv, TensorOK, MembersInv, DrainDeviceReceipts, UNCHANGED groupVars
  PROVE  RingInv' /\ TensorOK' /\ MembersInv'
<1>1. /\ RingInv' /\ TensorOK' /\ Len(log') = Len(log)
      /\ \A k \in 1 .. Len(log) : log'[k].member = log[k].member
  BY DrainRing
<1>2. /\ 1 .. Len(log') = 1 .. Len(log)
      /\ groups' = groups /\ issued' = issued /\ todo' = todo /\ committed' = committed
  BY <1>1 DEF groupVars
<1>3. ASSUME NEW id \in committed
      PROVE  (\E k \in 1 .. Len(log) : log'[k].member = id) \/ \E m \in todo : m.id = id
  BY <1>1 DEF MembersInv
<1>4. ASSUME NEW k \in 1 .. Len(log)
      PROVE  /\ log'[k].member = NoMember \/ log'[k].member \in committed
             /\ \A l \in 1 .. Len(log) :
                  log'[k].member = log'[l].member => k = l \/ log'[k].member = NoMember
             /\ \A m \in todo : log'[k].member # m.id
  BY <1>1 DEF MembersInv
<1>5. MembersInv'
  BY <1>2, <1>3, <1>4 DEF MembersInv
<1>6. QED
  BY <1>1, <1>5

LEMMA ExecuteMembers ==
  ASSUME RingInv, MembersInv, ExecuteMember
  PROVE  RingInv' /\ MembersInv'
<1>1. PICK m \in todo, outcome \in ReceiptOutcomes :
        /\ Push(<<[src |-> m.src, dst |-> m.node, outcome |-> outcome, member |-> m.id]>>)
        /\ todo' = todo \ {m}
  BY DEF ExecuteMember
<1> DEFINE new == [src |-> m.src, dst |-> m.node, outcome |-> outcome, member |-> m.id]
           rs  == <<new>>
<1>2. new \in DeviceReceipt /\ new.outcome \in ReceiptOutcomes /\ new.member = m.id
  BY DEF DeviceReceipt, MembersInv
<1> HIDE DEF new
<1>3. /\ rs \in Seq(DeviceReceipt) /\ Len(rs) = 1 /\ rs[1] = new
      /\ \A j \in 1 .. Len(rs) : j = 1 /\ rs[j] = new
      /\ \A j \in DOMAIN rs : rs[j].outcome \in ReceiptOutcomes
  BY <1>2
<1>4. Push(rs)
  BY <1>1 DEF new
<1> HIDE DEF rs
<1>5. RingInv' /\ Follow(rs)
  BY <1>3, <1>4, PushRing
<1>6. ASSUME NEW k \in 1 .. Len(log')
      PROVE  \/ k \in 1 .. Len(log) /\ log'[k] = log[k]
             \/ k = Len(log) + 1 /\ log'[k].member = m.id
  BY <1>2, <1>3, <1>5, PushedSplit DEF Follow
<1>7. UNCHANGED <<groups, issued, committed>>
  BY DEF ExecuteMember
<1>8. \A n \in todo' : n \in todo /\ n # m
  BY <1>1
<1>9. ASSUME NEW k \in 1 .. Len(log')
      PROVE  log'[k].member = NoMember \/ log'[k].member \in committed
  BY <1>6, <1>9 DEF MembersInv
<1>10. ASSUME NEW k \in 1 .. Len(log'), NEW l \in 1 .. Len(log'), log'[k].member = log'[l].member
       PROVE  k = l \/ log'[k].member = NoMember
  BY <1>6, <1>10 DEF MembersInv
<1>11. ASSUME NEW k \in 1 .. Len(log'), NEW n \in todo'
       PROVE  log'[k].member # n.id
  <2>1. n \in todo /\ n.id # m.id
    BY <1>8 DEF MembersInv
  <2>2. QED
    BY <1>6, <2>1 DEF MembersInv
<1>12. /\ \A k \in 1 .. Len(log) : k \in 1 .. Len(log') /\ log'[k] = log[k]
       /\ \E k \in 1 .. Len(log') : log'[k].member = m.id
  <2>1. Len(log) + 1 \in 1 .. Len(log') /\ log'[Len(log) + 1] = new
    BY <1>3, <1>5, PushedKept
  <2>2. QED
    BY <1>2, <1>3, <1>5, <2>1, PushedKept
<1>13. ASSUME NEW id \in committed
       PROVE  \/ \E k \in 1 .. Len(log') : log'[k].member = id
              \/ \E n \in todo' : n.id = id
  <2>1. CASE \E k \in 1 .. Len(log) : log[k].member = id
    BY <1>12, <2>1
  <2>2. CASE \E n \in todo : n.id = id
    BY <1>1, <1>12, <2>2
  <2>3. QED
    BY <2>1, <2>2 DEF MembersInv
<1>14. MembersInv'
  BY <1>7, <1>8, <1>9, <1>10, <1>11, <1>13 DEF MembersInv
<1>15. QED
  BY <1>5, <1>14

(* What a group step does for the group g, along the paths ps.             *)
EdgesOf(g, ps) == {<<ps[i][1], g[i].node>> : i \in DOMAIN g}

KernelIds(g) == Only([i \in DOMAIN g |-> i], {i \in DOMAIN g : LeavesReceipt(g[i])})

KernelReceipts(g, ps) ==
  [j \in DOMAIN KernelIds(g) |-> KernelReceipt(ps[KernelIds(g)[j]], <<issued + 1, KernelIds(g)[j]>>)]

LeftToHost(g, ps) ==
  {[id |-> <<issued + 1, i>>, src |-> ps[i][1], node |-> g[i].node] :
     i \in {j \in DOMAIN g : ~RunsOnDevice(g[j])}}

Commits(g, ps) ==
  /\ g \in Seq(GroupMember)
  /\ ps \in PathChoices(g)
  /\ Take(EdgesOf(g, ps))
  /\ lastGroup' = EdgesOf(g, ps)
  /\ spent' = spent \cup lastGroup'
  /\ Push(KernelReceipts(g, ps))
  /\ todo' = todo \cup LeftToHost(g, ps)
  /\ committed' = committed \cup {<<issued + 1, i>> : i \in DOMAIN g}
  /\ issued' = issued + 1
  /\ UNCHANGED <<tensor, groups>>

LEMMA ParGroupStepIs ==
  ASSUME MembersInv, ParGroupStep
  PROVE  \E g, ps : Commits(g, ps)
<1> DEFINE Does(g, ps) ==
             /\ Take(EdgesOf(g, ps))
             /\ lastGroup' = EdgesOf(g, ps)
             /\ spent' = spent \cup lastGroup'
             /\ Push(KernelReceipts(g, ps))
             /\ todo' = todo \cup LeftToHost(g, ps)
             /\ committed' = committed \cup {<<issued + 1, i>> : i \in DOMAIN g}
<1>1. PICK k \in DOMAIN groups : \E g \in {groups[k]} : \E ps \in PathChoices(g) : Does(g, ps)
  BY DEF ParGroupStep, EdgesOf, KernelReceipts, KernelIds, LeftToHost
<1> HIDE DEF Does
<1>2. PICK ps \in PathChoices(groups[k]) : Does(groups[k], ps)
  BY <1>1
<1>3. groups[k] \in Seq(GroupMember)
  <2>1. groups \in Seq(Seq(GroupMember))
    BY GroupAssumption DEF MembersInv
  <2>2. QED
    BY <2>1
<1>4. issued' = issued + 1 /\ UNCHANGED <<tensor, groups>>
  BY DEF ParGroupStep
<1>5. Commits(groups[k], ps)
  BY <1>2, <1>3, <1>4 DEF Commits, Does
<1>6. QED
  BY <1>5

LEMMA PathIs ==
  ASSUME TensorOK, NEW g \in Seq(GroupMember), NEW ps \in PathChoices(g), NEW i \in DOMAIN g
  PROVE  /\ ps[i] \in Pair /\ ps[i][1] \in Node /\ ps[i][2] \in Node /\ g[i].node \in Node
         /\ <<ps[i][1], g[i].node>> \notin consumed
<1>1. g[i].node \in Node
  <2>1. g[i] \in GroupMember
    OBVIOUS
  <2>2. QED
    BY <2>1 DEF GroupMember
<1>2. ps[i] \in CandidatesFor(g[i].node)
  BY DEF PathChoices
<1>3. ps[i] \in sure /\ <<ps[i][1], g[i].node>> \notin consumed
  BY <1>2 DEF CandidatesFor
<1>4. QED
  BY <1>1, <1>3 DEF TensorOK, Pair

LEMMA KernelIdsAre ==
  ASSUME NEW g \in Seq(GroupMember)
  PROVE  /\ KernelIds(g) \in Seq(DOMAIN g) /\ DOMAIN KernelIds(g) = 1 .. Len(KernelIds(g))
         /\ \A j \in DOMAIN KernelIds(g) : LeavesReceipt(g[KernelIds(g)[j]])
         /\ \A j, l \in DOMAIN KernelIds(g) : KernelIds(g)[j] = KernelIds(g)[l] => j = l
         /\ \A i \in DOMAIN g : LeavesReceipt(g[i]) => \E j \in DOMAIN KernelIds(g) : KernelIds(g)[j] = i
<1> DEFINE us   == [i \in DOMAIN g |-> i]
           kept == {i \in DOMAIN g : LeavesReceipt(g[i])}
<1>1. us \in Seq(DOMAIN g) /\ kept \in SUBSET (DOMAIN us) /\ KernelIds(g) = Only(us, kept)
  <2>1. DOMAIN g = 1 .. Len(g) /\ Len(g) \in Nat
    OBVIOUS
  <2>2. us \in Seq(DOMAIN g)
    BY <2>1
  <2>3. QED
    BY <2>2 DEF KernelIds
<1>2. /\ KernelIds(g) \in Seq(DOMAIN g)
      /\ \A j \in DOMAIN KernelIds(g) : \E i \in kept : Rank(kept, i) = j /\ KernelIds(g)[j] = us[i]
      /\ \A i \in kept : \E j \in DOMAIN KernelIds(g) : KernelIds(g)[j] = us[i]
  <2> HIDE DEF us, kept
  <2>1. QED
    BY <1>1, OnlyIs
<1>3. /\ \A i \in kept : us[i] = i /\ LeavesReceipt(g[i])
      /\ \A i \in DOMAIN g : LeavesReceipt(g[i]) => i \in kept
  OBVIOUS
<1> HIDE DEF us, kept
<1>4. \A j \in DOMAIN KernelIds(g) : KernelIds(g)[j] \in kept /\ Rank(kept, KernelIds(g)[j]) = j
  BY <1>2, <1>3
<1>5. DOMAIN KernelIds(g) = 1 .. Len(KernelIds(g))
  BY <1>2, LenProperties
<1>6. QED
  BY <1>2, <1>3, <1>4, <1>5

LEMMA KernelReceiptsAre ==
  ASSUME TensorOK, MembersInv, NEW g \in Seq(GroupMember), NEW ps \in PathChoices(g)
  PROVE  /\ KernelReceipts(g, ps) \in Seq(DeviceReceipt)
         /\ DOMAIN KernelReceipts(g, ps) = DOMAIN KernelIds(g)
         /\ Len(KernelReceipts(g, ps)) = Len(KernelIds(g))
         /\ \A j \in DOMAIN KernelIds(g) :
              /\ KernelReceipts(g, ps)[j].outcome \in ReceiptOutcomes
              /\ KernelReceipts(g, ps)[j].member = <<issued + 1, KernelIds(g)[j]>>
<1> DEFINE ids == KernelIds(g)
           rs  == KernelReceipts(g, ps)
<1>1. /\ ids \in Seq(DOMAIN g) /\ DOMAIN ids = 1 .. Len(ids) /\ Len(ids) \in Nat
      /\ \A j \in DOMAIN ids : ids[j] \in DOMAIN g
  BY KernelIdsAre, LenProperties
<1>2. \A i \in DOMAIN g : i \in Nat
  OBVIOUS
<1>3. rs = [j \in DOMAIN ids |-> KernelReceipt(ps[ids[j]], <<issued + 1, ids[j]>>)]
  BY DEF KernelReceipts
<1> HIDE DEF ids, rs
<1>4. ASSUME NEW j \in DOMAIN ids
      PROVE  /\ KernelReceipt(ps[ids[j]], <<issued + 1, ids[j]>>) \in DeviceReceipt
             /\ KernelReceipt(ps[ids[j]], <<issued + 1, ids[j]>>).outcome \in ReceiptOutcomes
             /\ KernelReceipt(ps[ids[j]], <<issued + 1, ids[j]>>).member = <<issued + 1, ids[j]>>
  <2>1. ids[j] \in DOMAIN g /\ ids[j] \in Nat
    BY <1>1, <1>2
  <2>2. ps[ids[j]][1] \in Node /\ ps[ids[j]][2] \in Node
    BY <2>1, PathIs
  <2>3. <<issued + 1, ids[j]>> \in Nat \X Nat
    BY <2>1 DEF MembersInv
  <2>4. QED
    BY <2>2, <2>3 DEF KernelReceipt, DeviceReceipt, ReceiptOutcomes
<1>5. rs \in [1 .. Len(ids) -> DeviceReceipt]
  BY <1>1, <1>3, <1>4
<1>6. rs \in Seq(DeviceReceipt) /\ Len(rs) = Len(ids) /\ DOMAIN rs = DOMAIN ids
  BY <1>1, <1>5
<1>7. QED
  BY <1>3, <1>4, <1>6 DEF ids, rs

LEMMA ParGroupMembers ==
  ASSUME RingInv, TensorOK, MembersInv, NEW g, NEW ps, Commits(g, ps)
  PROVE  RingInv' /\ MembersInv'
<1> DEFINE rs   == KernelReceipts(g, ps)
           ids  == KernelIds(g)
           left == LeftToHost(g, ps)
<1>1. g \in Seq(GroupMember) /\ ps \in PathChoices(g) /\ Push(rs)
      /\ todo' = todo \cup left /\ issued' = issued + 1 /\ groups' = groups
      /\ committed' = committed \cup {<<issued + 1, i>> : i \in DOMAIN g}
  BY DEF Commits
<1>2. /\ rs \in Seq(DeviceReceipt) /\ DOMAIN rs = DOMAIN ids /\ Len(rs) = Len(ids)
      /\ DOMAIN ids = 1 .. Len(ids)
      /\ \A j \in DOMAIN ids : rs[j].outcome \in ReceiptOutcomes /\ rs[j].member = <<issued + 1, ids[j]>>
      /\ \A j \in DOMAIN ids : ids[j] \in DOMAIN g /\ LeavesReceipt(g[ids[j]])
      /\ \A j, l \in DOMAIN ids : ids[j] = ids[l] => j = l
      /\ \A i \in DOMAIN g : LeavesReceipt(g[i]) => \E j \in DOMAIN ids : ids[j] = i
  BY <1>1, KernelReceiptsAre, KernelIdsAre
<1>3. ASSUME NEW m \in left
      PROVE  /\ m \in [id : Nat \X Nat, src : Node, node : Node]
             /\ \E i \in DOMAIN g : m.id = <<issued + 1, i>> /\ ~LeavesReceipt(g[i])
             /\ \A n \in left : n.id = m.id => n = m
  <2>1. PICK i \in {j \in DOMAIN g : ~RunsOnDevice(g[j])} :
          m = [id |-> <<issued + 1, i>>, src |-> ps[i][1], node |-> g[i].node]
    BY DEF LeftToHost
  <2>2. i \in Nat /\ ps[i][1] \in Node /\ g[i].node \in Node /\ issued + 1 \in Nat
    <3>1. i \in DOMAIN g /\ i \in Nat /\ issued + 1 \in Nat
      BY <1>1, <2>1 DEF MembersInv
    <3> HIDE DEF left, rs, ids
    <3>2. QED
      BY <1>1, <3>1, PathIs
  <2>3. m \in [id : Nat \X Nat, src : Node, node : Node]
    BY <2>1, <2>2
  <2>4. m.id = <<issued + 1, i>> /\ ~LeavesReceipt(g[i])
    BY <2>1 DEF RunsOnDevice
  <2>5. ASSUME NEW n \in left, n.id = m.id
        PROVE  n = m
    <3>1. PICK l \in {j \in DOMAIN g : ~RunsOnDevice(g[j])} :
            n = [id |-> <<issued + 1, l>>, src |-> ps[l][1], node |-> g[l].node]
      BY DEF LeftToHost
    <3>2. l = i
      BY <2>4, <2>5, <3>1
    <3>3. QED
      BY <2>1, <3>1, <3>2
  <2> HIDE DEF left
  <2>6. QED
    BY <2>1, <2>3, <2>4, <2>5
<1>4. ASSUME NEW i \in DOMAIN g, ~LeavesReceipt(g[i])
       PROVE  \E m \in left : m.id = <<issued + 1, i>>
  <2>1. [id |-> <<issued + 1, i>>, src |-> ps[i][1], node |-> g[i].node] \in left
    BY <1>4 DEF LeftToHost, RunsOnDevice
  <2> HIDE DEF left
  <2>2. QED
    BY <2>1
<1> HIDE DEF rs, ids, left
<1>5. RingInv' /\ Follow(rs)
  <2>1. \A j \in DOMAIN rs : rs[j].outcome \in ReceiptOutcomes
    BY <1>2
  <2>2. QED
    BY <1>1, <1>2, <2>1, PushRing
<1>6. ASSUME NEW k \in 1 .. Len(log')
      PROVE  \/ k \in 1 .. Len(log) /\ log'[k] = log[k]
             \/ \E j \in DOMAIN ids : k = Len(log) + j /\ log'[k].member = <<issued + 1, ids[j]>>
  <2>1. k \in 1 .. Len(log) \/ \E j \in 1 .. Len(rs) : k = Len(log) + j
    BY <1>2, <1>5, PushedSplit
  <2>2. CASE k \in 1 .. Len(log)
    BY <1>5, <2>2 DEF Follow
  <2>3. CASE \E j \in 1 .. Len(rs) : k = Len(log) + j
    <3>1. PICK j \in 1 .. Len(rs) : k = Len(log) + j
      BY <2>3
    <3>2. log'[k] = rs[j] /\ j \in DOMAIN ids
      BY <1>2, <1>5, <3>1 DEF Follow
    <3>3. QED
      BY <1>2, <3>1, <3>2
  <2>4. QED
    BY <2>1, <2>2, <2>3
<1>7. issued \in Nat /\ issued + 1 \in Nat /\ issued + 1 > issued /\ issued + 1 # 0
  BY DEF MembersInv
<1>8. ASSUME NEW k \in 1 .. Len(log')
      PROVE  log'[k].member = NoMember \/ log'[k].member \in committed'
  <2>1. CASE k \in 1 .. Len(log) /\ log'[k] = log[k]
    BY <1>1, <2>1 DEF MembersInv
  <2>2. CASE \E j \in DOMAIN ids : k = Len(log) + j /\ log'[k].member = <<issued + 1, ids[j]>>
    BY <1>1, <1>2, <2>2
  <2>3. QED
    BY <1>6, <2>1, <2>2
<1>9. ASSUME NEW m \in todo'
      PROVE  m \in [id : Nat \X Nat, src : Node, node : Node] /\ m.id \in committed'
  BY <1>1, <1>3 DEF MembersInv
<1>10. ASSUME NEW id \in committed'
       PROVE  id \in Nat \X Nat /\ id[1] \in 1 .. issued'
  <2>1. CASE id \in committed
    BY <1>1, <1>7, <2>1 DEF MembersInv
  <2>2. CASE \E i \in DOMAIN g : id = <<issued + 1, i>>
    <3>1. \A i \in DOMAIN g : i \in Nat
      BY <1>1
    <3>2. QED
      BY <1>1, <1>7, <2>2, <3>1
  <2>3. QED
    BY <1>1, <2>1, <2>2
<1>11. ASSUME NEW id \in committed'
       PROVE  \/ \E k \in 1 .. Len(log') : log'[k].member = id
              \/ \E m \in todo' : m.id = id
  <2>1. CASE id \in committed
    <3>1. CASE \E k \in 1 .. Len(log) : log[k].member = id
      BY <1>2, <1>5, <3>1, PushedKept
    <3>2. CASE \E m \in todo : m.id = id
      BY <1>1, <3>2
    <3>3. QED
      BY <2>1, <3>1, <3>2 DEF MembersInv
  <2>2. CASE \E i \in DOMAIN g : id = <<issued + 1, i>>
    <3>1. PICK i \in DOMAIN g : id = <<issued + 1, i>>
      BY <2>2
    <3>2. CASE LeavesReceipt(g[i])
      <4>1. PICK j \in DOMAIN ids : ids[j] = i
        BY <1>2, <3>2
      <4>2. Len(log) + j \in 1 .. Len(log') /\ log'[Len(log) + j] = rs[j]
        BY <1>2, <1>5, PushedKept
      <4>3. QED
        BY <1>2, <3>1, <4>1, <4>2
    <3>3. CASE ~LeavesReceipt(g[i])
      BY <1>1, <1>4, <3>1, <3>3
    <3>4. QED
      BY <3>2, <3>3
  <2>3. QED
    BY <1>1, <2>1, <2>2
<1>12. ASSUME NEW k \in 1 .. Len(log), NEW i
      PROVE  log[k].member # <<issued + 1, i>>
  BY <1>7 DEF MembersInv, NoMember
<1>13. ASSUME NEW k \in 1 .. Len(log'), NEW l \in 1 .. Len(log'), log'[k].member = log'[l].member
       PROVE  k = l \/ log'[k].member = NoMember
  <2>1. CASE k \in 1 .. Len(log) /\ log'[k] = log[k]
    BY <1>6, <1>12, <1>13, <2>1 DEF MembersInv
  <2>2. CASE \E j \in DOMAIN ids : k = Len(log) + j /\ log'[k].member = <<issued + 1, ids[j]>>
    <3>1. PICK j \in DOMAIN ids : k = Len(log) + j /\ log'[k].member = <<issued + 1, ids[j]>>
      BY <2>2
    <3>2. PICK h \in DOMAIN ids : l = Len(log) + h /\ log'[l].member = <<issued + 1, ids[h]>>
      BY <1>6, <1>12, <1>13, <3>1
    <3>3. ids[j] = ids[h]
      BY <1>13, <3>1, <3>2
    <3>4. j = h
      BY <1>2, <3>3
    <3>5. QED
      BY <3>1, <3>2, <3>4
  <2>3. QED
    BY <1>6, <2>1, <2>2
<1>14. \A m \in todo, i \in DOMAIN g : m.id # <<issued + 1, i>>
  BY <1>7 DEF MembersInv
<1>15. ASSUME NEW m \in todo', NEW n \in todo', m.id = n.id
       PROVE  m = n
  BY <1>1, <1>3, <1>14, <1>15 DEF MembersInv
<1>16. ASSUME NEW k \in 1 .. Len(log'), NEW m \in todo', log'[k].member = m.id
       PROVE  FALSE
  <2>1. CASE m \in todo
    <3>1. CASE k \in 1 .. Len(log) /\ log'[k] = log[k]
      BY <1>16, <2>1, <3>1 DEF MembersInv
    <3>2. CASE \E j \in DOMAIN ids : k = Len(log) + j /\ log'[k].member = <<issued + 1, ids[j]>>
      BY <1>2, <1>14, <1>16, <2>1, <3>2
    <3>3. QED
      BY <1>6, <3>1, <3>2
  <2>2. CASE m \in left
    <3>1. PICK i \in DOMAIN g : m.id = <<issued + 1, i>> /\ ~LeavesReceipt(g[i])
      BY <1>3, <2>2
    <3>2. PICK j \in DOMAIN ids : log'[k].member = <<issued + 1, ids[j]>>
      BY <1>6, <1>12, <1>16, <3>1
    <3>3. ids[j] = i
      BY <1>16, <3>1, <3>2
    <3>4. QED
      BY <1>2, <3>1, <3>3
  <2>3. QED
    BY <1>1, <2>1, <2>2
<1>17. MembersInv'
  <2>1. todo' \subseteq [id : Nat \X Nat, src : Node, node : Node]
    BY <1>9
  <2>2. issued' \in Nat /\ (groups \in GroupTables)'
    BY <1>1, <1>7 DEF MembersInv
  <2>3. QED
    BY <1>8, <1>9, <1>13, <1>15, <1>16, <1>10, <1>11, <2>1, <2>2 DEF MembersInv
<1>18. QED
  BY <1>5, <1>17

(* What any decision took is marked as consumed, so that the readiness of  *)
(* a member, which asks for an edge that is not, never finds it again.     *)
SpentInv == lastGroup \subseteq spent /\ spent \subseteq consumed

LEMMA ParGroupTakes ==
  ASSUME TensorOK, FrontierOK, SpentInv, NEW g, NEW ps, Commits(g, ps)
  PROVE  TensorOK' /\ FrontierOK' /\ SpentInv' /\ lastGroup' \cap spent = {}
<1> DEFINE edges == EdgesOf(g, ps)
<1>1. g \in Seq(GroupMember) /\ ps \in PathChoices(g)
  BY DEF Commits
<1>2. ASSUME NEW e \in edges
      PROVE  e \in Node \X Node /\ e[2] \in Node /\ e \notin consumed
  <2>1. PICK i \in DOMAIN g : e = <<ps[i][1], g[i].node>>
    BY DEF EdgesOf
  <2> HIDE DEF edges
  <2>2. ps[i][1] \in Node /\ g[i].node \in Node /\ <<ps[i][1], g[i].node>> \notin consumed
    BY <1>1, PathIs
  <2>3. QED
    BY <2>1, <2>2
<1>3. /\ consumed' = consumed \cup edges /\ active' = {e[2] : e \in edges}
      /\ lastGroup' = edges /\ spent' = spent \cup edges /\ UNCHANGED tensor
  BY DEF Commits, Take
<1> HIDE DEF edges
<1>4. TensorOK'
  BY <1>3 DEF TensorOK, tensor
<1>5. FrontierOK'
  BY <1>2, <1>3 DEF FrontierOK
<1>6. SpentInv'
  BY <1>3 DEF SpentInv
<1>7. lastGroup' \cap spent = {}
  BY <1>2, <1>3 DEF SpentInv
<1>8. QED
  BY <1>4, <1>5, <1>6, <1>7

-------------------------------------------------------------------------------
(* Tokens.  Their parents stand before them, the tokens of one tree are    *)
(* those of one strategy, and its root is where that strategy starts.      *)

Rooted(ts) ==
  /\ ts \in Seq(Token)
  /\ \A i \in DOMAIN ts :
       /\ ts[i].parent < i
       /\ ts[i].parent = 0 => ts[i].node = Strategies[ts[i].strategy]
       /\ ts[i].parent # 0 => ts[i].strategy = ts[ts[i].parent].strategy

Forest(ts) == Rooted(ts) /\ Len(ts) <= MaxTokens

(* A forest that ts is the beginning of.                                   *)
GrowsFrom(s, ts) ==
  /\ Forest(s)
  /\ Len(ts) <= Len(s)
  /\ \A i \in DOMAIN ts : s[i] = ts[i]

LEMMA TokenIn ==
  ASSUME NEW ts \in Seq(Token), NEW i \in DOMAIN ts
  PROVE  /\ ts[i] \in Token /\ ts[i].strategy \in DOMAIN Strategies /\ ts[i].node \in Node
         /\ ts[i].depth \in 0 .. MaxDepth /\ ts[i].parent \in Nat /\ i \in Nat /\ i > 0
<1>1. ts[i] \in Token /\ i \in Nat /\ i > 0
  OBVIOUS
<1>2. QED
  BY <1>1 DEF Token

LEMMA CutIs ==
  ASSUME NEW ts \in Seq(Token)
  PROVE  /\ Cut(ts) \in Seq(Token) /\ Len(Cut(ts)) <= MaxTokens /\ Len(Cut(ts)) <= Len(ts)
         /\ Len(ts) <= MaxTokens => Len(Cut(ts)) = Len(ts)
         /\ \A k \in Nat : k <= Len(ts) /\ k <= MaxTokens => k <= Len(Cut(ts))
         /\ \A i \in DOMAIN Cut(ts) : i \in DOMAIN ts /\ Cut(ts)[i] = ts[i]
<1> DEFINE n == IF Len(ts) < MaxTokens THEN Len(ts) ELSE MaxTokens
<1>1. Len(ts) \in Nat /\ MaxTokens \in Nat /\ n \in 0 .. Len(ts) /\ n <= MaxTokens
      /\ (Len(ts) <= MaxTokens => n = Len(ts))
      /\ \A k \in Nat : k <= Len(ts) /\ k <= MaxTokens => k <= n
  BY ExplorationAssumption
<1>2. Cut(ts) = SubSeq(ts, 1, n)
  BY DEF Cut
<1> HIDE DEF n
<1>3. \A i \in 1 .. n : i \in DOMAIN ts /\ ts[i] \in Token
  BY <1>1
<1>4. SubSeq(ts, 1, n) = [i \in 1 .. n |-> ts[i]]
  BY <1>1
<1>5. Cut(ts) \in Seq(Token) /\ Len(Cut(ts)) = n /\ DOMAIN Cut(ts) = 1 .. n
  BY <1>1, <1>2, <1>3, <1>4
<1>6. QED
  BY <1>1, <1>2, <1>3, <1>4, <1>5

LEMMA CutRooted ==
  ASSUME NEW ts, Rooted(ts)
  PROVE  Forest(Cut(ts))
<1>1. ts \in Seq(Token)
  BY DEF Rooted
<1>2. /\ Cut(ts) \in Seq(Token) /\ Len(Cut(ts)) <= MaxTokens
      /\ \A i \in DOMAIN Cut(ts) : i \in DOMAIN ts /\ Cut(ts)[i] = ts[i]
  BY <1>1, CutIs
<1>3. ASSUME NEW i \in DOMAIN Cut(ts), Cut(ts)[i].parent # 0
      PROVE  Cut(ts)[i].parent \in DOMAIN Cut(ts)
  <2>1. Cut(ts)[i] = ts[i] /\ ts[i].parent < i /\ ts[i].parent \in Nat
    BY <1>1, <1>2, TokenIn DEF Rooted
  <2>2. DOMAIN Cut(ts) = 1 .. Len(Cut(ts)) /\ Len(Cut(ts)) \in Nat
    BY <1>2, LenProperties
  <2>3. QED
    BY <1>3, <2>1, <2>2
<1>4. QED
  BY <1>2, <1>3 DEF Forest, Rooted

LEMMA SeedsForest == Forest(Seeds)
<1> DEFINE us      == [s \in DOMAIN Strategies |-> s]
           kept    == {s \in DOMAIN Strategies : Open(<<Start, Strategies[s]>>)}
           reached == Only(us, kept)
           roots   == [k \in DOMAIN reached |->
                         [strategy |-> reached[k], node |-> Strategies[reached[k]],
                          depth |-> 0, parent |-> 0]]
<1>1. Strategies \in Seq(Node) /\ MaxDepth \in Nat
  BY ExplorationAssumption
<1>2. us \in Seq(DOMAIN Strategies) /\ kept \in SUBSET (DOMAIN us)
  <2>1. DOMAIN Strategies = 1 .. Len(Strategies) /\ Len(Strategies) \in Nat
    BY <1>1
  <2>2. QED
    BY <2>1
<1>3. reached \in Seq(DOMAIN Strategies)
  <2> HIDE DEF us, kept
  <2>1. QED
    BY <1>2, OnlyIs
<1> HIDE DEF reached
<1>4. DOMAIN reached = 1 .. Len(reached) /\ Len(reached) \in Nat
      /\ \A k \in DOMAIN reached : reached[k] \in DOMAIN Strategies /\ Strategies[reached[k]] \in Node
  BY <1>1, <1>3
<1>5. roots \in Seq(Token) /\ DOMAIN roots = DOMAIN reached
  <2>1. \A k \in DOMAIN reached :
          [strategy |-> reached[k], node |-> Strategies[reached[k]], depth |-> 0, parent |-> 0] \in Token
    BY <1>1, <1>4 DEF Token
  <2>2. roots \in [1 .. Len(reached) -> Token]
    BY <1>4, <2>1
  <2>3. QED
    BY <1>4, <2>2
<1>6. Rooted(roots)
  <2>1. \A k \in DOMAIN roots : /\ k \in Nat /\ k > 0 /\ roots[k].parent = 0
                                /\ roots[k].node = Strategies[roots[k].strategy]
    BY <1>4, <1>5
  <2> HIDE DEF roots
  <2>2. QED
    BY <1>5, <2>1 DEF Rooted
<1>7. Seeds = Cut(roots)
  BY DEF Seeds, reached
<1> HIDE DEF roots
<1>8. QED
  BY <1>6, <1>7, CutRooted

LEMMA ChildrenAre ==
  ASSUME NEW t \in Token, NEW id \in Nat, t.depth < MaxDepth
  PROVE  /\ Children(t, id) \in Seq(Token)
         /\ \A k \in DOMAIN Children(t, id) :
              Children(t, id)[k].parent = id /\ Children(t, id)[k].strategy = t.strategy
<1> DEFINE us   == [d \in 1 .. N |-> d - 1]
           kept == {d \in 1 .. N : d - 1 # t.node /\ Open(<<t.node, d - 1>>)}
           ends == Only(us, kept)
           cs   == [k \in DOMAIN ends |->
                      [strategy |-> t.strategy, node |-> ends[k], depth |-> t.depth + 1, parent |-> id]]
<1>1. N \in Nat /\ MaxDepth \in Nat
  BY WorldAssumption, ExplorationAssumption
<1>2. us \in Seq(Node) /\ kept \in SUBSET (DOMAIN us)
  BY <1>1 DEF Node
<1>3. ends \in Seq(Node)
  <2> HIDE DEF us, kept
  <2>1. QED
    BY <1>2, OnlyIs
<1> HIDE DEF ends
<1>4. DOMAIN ends = 1 .. Len(ends) /\ Len(ends) \in Nat /\ \A k \in DOMAIN ends : ends[k] \in Node
  BY <1>3
<1>5. t.strategy \in DOMAIN Strategies /\ t.depth + 1 \in 0 .. MaxDepth
  BY <1>1 DEF Token
<1>6. \A k \in DOMAIN ends :
        [strategy |-> t.strategy, node |-> ends[k], depth |-> t.depth + 1, parent |-> id] \in Token
  BY <1>4, <1>5 DEF Token
<1>7. cs \in [1 .. Len(ends) -> Token]
  BY <1>4, <1>6
<1>8. cs \in Seq(Token)
  BY <1>4, <1>7
<1>9. \A k \in DOMAIN cs : cs[k].parent = id /\ cs[k].strategy = t.strategy
  BY <1>4
<1>10. Children(t, id) = cs
  BY DEF Children, ends
<1> HIDE DEF cs
<1>11. QED
  BY <1>8, <1>9, <1>10

(* One more family after the others: still a forest that ts begins.        *)
LEMMA FamilyGrows ==
  ASSUME NEW ts, NEW s, Forest(ts), GrowsFrom(s, ts), NEW id \in DOMAIN ts, ts[id].depth < MaxDepth
  PROVE  GrowsFrom(Cut(s \o Children(ts[id], id)), ts)
<1> DEFINE cs  == Children(ts[id], id)
           all == s \o cs
<1>1. /\ ts \in Seq(Token) /\ s \in Seq(Token) /\ Len(ts) \in Nat /\ Len(s) \in Nat
      /\ Len(ts) <= Len(s) /\ Len(ts) <= MaxTokens
      /\ DOMAIN ts = 1 .. Len(ts) /\ DOMAIN s = 1 .. Len(s)
      /\ \A i \in DOMAIN ts : i \in DOMAIN s /\ s[i] = ts[i]
  BY LenProperties DEF GrowsFrom, Forest, Rooted
<1>2. ts[id] \in Token /\ id \in Nat /\ id > 0
  BY <1>1, TokenIn
<1>3. /\ cs \in Seq(Token) /\ DOMAIN cs = 1 .. Len(cs) /\ Len(cs) \in Nat
      /\ \A k \in DOMAIN cs : cs[k].parent = id /\ cs[k].strategy = ts[id].strategy
  BY <1>2, ChildrenAre, LenProperties
<1> HIDE DEF cs
<1>4. /\ all \in Seq(Token) /\ Len(all) = Len(s) + Len(cs) /\ DOMAIN all = 1 .. Len(s) + Len(cs)
  BY <1>1, <1>3
<1>41. \A i \in DOMAIN s : i \in DOMAIN all /\ all[i] = s[i]
  BY <1>1, <1>3
<1>42. \A i \in DOMAIN all : i \notin DOMAIN s =>
         /\ i \in Nat /\ i > Len(s)
         /\ \E k \in DOMAIN cs : all[i] = cs[k]
  <2> SUFFICES ASSUME NEW i \in DOMAIN all, i \notin DOMAIN s
               PROVE  /\ i \in Nat /\ i > Len(s)
                      /\ \E k \in DOMAIN cs : all[i] = cs[k]
    OBVIOUS
  <2>1. i \in 1 .. Len(s) + Len(cs) /\ i > Len(s)
    BY <1>1, <1>4
  <2>2. i - Len(s) \in DOMAIN cs
    BY <1>1, <1>3, <2>1
  <2>3. all[i] = cs[i - Len(s)]
    BY <1>1, <1>3, <2>1
  <2>4. QED
    BY <1>1, <1>3, <2>1, <2>2, <2>3
<1> HIDE DEF all
<1>5. id < Len(s) + 1 /\ id \in DOMAIN s /\ s[id] = ts[id]
  BY <1>1
<1>6. ASSUME NEW i \in DOMAIN all
      PROVE  /\ all[i].parent < i
             /\ all[i].parent = 0 => all[i].node = Strategies[all[i].strategy]
             /\ all[i].parent # 0 => all[i].strategy = all[all[i].parent].strategy
  <2>1. CASE i \in DOMAIN s
    <3>1. /\ s[i].parent < i /\ s[i].parent \in Nat
          /\ s[i].parent = 0 => s[i].node = Strategies[s[i].strategy]
          /\ s[i].parent # 0 => s[i].strategy = s[s[i].parent].strategy
      BY <1>1, <2>1, TokenIn DEF GrowsFrom, Forest, Rooted
    <3>2. s[i].parent # 0 => s[i].parent \in DOMAIN s
      BY <1>1, <2>1, <3>1
    <3>3. QED
      BY <1>41, <2>1, <3>1, <3>2
  <2>2. CASE i \notin DOMAIN s
    <3>1. /\ i \in Nat /\ i > Len(s)
          /\ all[i].parent = id /\ all[i].strategy = ts[id].strategy
      BY <1>3, <1>42, <2>2
    <3>2. all[id] = ts[id]
      BY <1>41, <1>5
    <3>3. QED
      BY <1>1, <1>2, <1>5, <3>1, <3>2
  <2>3. QED
    BY <2>1, <2>2
<1>7. Forest(Cut(all))
  BY <1>4, <1>6, CutRooted DEF Rooted
<1>8. Len(ts) <= Len(Cut(all)) /\ \A i \in DOMAIN ts : Cut(all)[i] = ts[i]
  <2>1. /\ Cut(all) \in Seq(Token) /\ Len(ts) <= Len(Cut(all))
        /\ \A i \in DOMAIN Cut(all) : Cut(all)[i] = all[i]
    <3>1. Len(ts) <= Len(all)
      BY <1>1, <1>3, <1>4
    <3>2. QED
      BY <1>1, <1>4, <3>1, CutIs
  <2>2. DOMAIN Cut(all) = 1 .. Len(Cut(all)) /\ Len(Cut(all)) \in Nat
    BY <2>1, LenProperties
  <2>3. \A i \in DOMAIN ts : i \in DOMAIN Cut(all)
    BY <1>1, <2>1, <2>2
  <2>4. QED
    BY <1>1, <1>41, <2>1, <2>3
<1>9. QED
  BY <1>7, <1>8 DEF GrowsFrom, all, cs

LEMMA SpreadForest ==
  ASSUME NEW ts, Forest(ts), NEW depth \in 0 .. MaxDepth - 1
  PROVE  Forest(Spread(ts, depth))
<1> DEFINE n       == Len(ts)
           X       == {s \in Seq(Token) : GrowsFrom(s, ts)}
           turn(s, id) == IF ts[id].depth = depth THEN Cut(s \o Children(ts[id], id)) ELSE s
           step    == [id \in 1 .. n |-> [s \in X |-> turn(s, id)]]
           grown[id \in 0 .. n] ==
             IF id = 0 THEN ts
             ELSE IF ts[id].depth = depth THEN Cut(grown[id - 1] \o Children(ts[id], id))
             ELSE grown[id - 1]
<1>1. n \in Nat /\ DOMAIN ts = 1 .. n /\ ts \in Seq(Token) /\ MaxDepth \in Nat
  BY LenProperties, ExplorationAssumption DEF Forest, Rooted
<1>2. ts \in X
  <2>1. GrowsFrom(ts, ts)
    BY <1>1 DEF GrowsFrom
  <2>2. QED
    BY <1>1, <2>1
<1>3. ASSUME NEW s \in X, NEW id \in 1 .. n
      PROVE  turn(s, id) \in X
  <2>1. CASE ts[id].depth = depth
    <3>1. GrowsFrom(s, ts) /\ id \in DOMAIN ts /\ ts[id].depth < MaxDepth
      BY <1>1, <2>1
    <3>2. GrowsFrom(Cut(s \o Children(ts[id], id)), ts)
      BY <3>1, FamilyGrows
    <3>3. Cut(s \o Children(ts[id], id)) \in Seq(Token)
      BY <3>2 DEF GrowsFrom, Forest, Rooted
    <3>4. QED
      BY <2>1, <3>2, <3>3
  <2>2. CASE ts[id].depth # depth
    BY <2>2
  <2>3. QED
    BY <2>1, <2>2
<1>4. PICK f \in [0 .. n -> X] : \A id \in 0 .. n : f[id] = IF id = 0 THEN ts ELSE step[id][f[id - 1]]
  <2>1. step \in [1 .. n -> [X -> X]]
    <3> HIDE DEF X, turn, n
    <3>1. QED
      BY <1>3
  <2> HIDE DEF X, turn, n, step
  <2>2. Iterates(X, n, ts, step)
    BY <1>1, <1>2, <2>1, Iteration
  <2>3. QED
    BY <2>2 DEF Iterates
<1>5. f = [id \in 0 .. n |-> IF id = 0 THEN ts ELSE turn(f[id - 1], id)]
  <2> HIDE DEF X, turn, n
  <2>1. ASSUME NEW id \in 0 .. n, id # 0
        PROVE  step[id][f[id - 1]] = turn(f[id - 1], id)
    <3>1. id \in 1 .. n /\ id - 1 \in 0 .. n
      BY <1>1, <2>1
    <3>2. f[id - 1] \in X
      BY <3>1
    <3>3. QED
      BY <3>1, <3>2
  <2> HIDE DEF step
  <2>2. QED
    BY <1>4, <2>1
<1>6. grown = [id \in 0 .. n |-> IF id = 0 THEN ts ELSE turn(grown[id - 1], id)]
  <2> HIDE DEF X, n, step
  <2>1. QED
    BY <1>5, Zenon DEF grown
<1> HIDE DEF grown
<1> DEFINE good == {id \in Nat : id <= n => grown[id] \in X}
<1>7. 0 \in good
  <2>1. 0 \in 0 .. n
    BY <1>1
  <2> HIDE DEF X, n, turn
  <2>2. grown[0] = ts
    BY <1>6, <2>1
  <2>3. QED
    BY <1>2, <2>2
<1>8. ASSUME NEW id \in Nat, id \in good
      PROVE  id + 1 \in good
  <2> SUFFICES ASSUME id + 1 <= n
               PROVE  grown[id + 1] \in X
    OBVIOUS
  <2>1. id + 1 \in 1 .. n /\ id + 1 \in 0 .. n /\ id + 1 # 0 /\ (id + 1) - 1 = id /\ id <= n
    BY <1>1
  <2>2. grown[id] \in X
    BY <1>8, <2>1
  <2> HIDE DEF X, n, turn
  <2>3. grown[id + 1] = turn(grown[id], id + 1)
    BY <1>6, <2>1
  <2>4. QED
    BY <1>3, <2>1, <2>2, <2>3
<1>9. n \in good
  <2> HIDE DEF good, n
  <2>1. QED
    BY <1>1, <1>7, <1>8, SetInduction
<1>10. grown[n] \in X
  <2> HIDE DEF X
  <2>1. QED
    BY <1>1, <1>9
<1>11. Spread(ts, depth) = grown[n]
  BY DEF Spread, grown
<1>12. QED
  BY <1>10, <1>11 DEF GrowsFrom

LEMMA ExpandedForest == Forest(Expanded(MaxDepth))
<1> DEFINE X    == {s \in Seq(Token) : Forest(s)}
           n    == MaxDepth
           step == [d \in 1 .. n |-> [s \in X |-> Spread(s, d - 1)]]
           spread[d \in 0 .. n] == IF d = 0 THEN Seeds ELSE Spread(spread[d - 1], d - 1)
<1>1. n \in Nat
  BY ExplorationAssumption
<1>2. Seeds \in X
  <2>1. Seeds \in Seq(Token)
    BY SeedsForest DEF Forest, Rooted
  <2>2. QED
    BY <2>1, SeedsForest
<1>3. ASSUME NEW s \in X, NEW d \in 1 .. n
      PROVE  Spread(s, d - 1) \in X
  <2>1. d - 1 \in 0 .. MaxDepth - 1
    BY <1>1
  <2>2. Forest(Spread(s, d - 1))
    BY <2>1, SpreadForest
  <2>3. QED
    BY <2>2 DEF Forest, Rooted
<1>4. PICK f \in [0 .. n -> X] : \A d \in 0 .. n : f[d] = IF d = 0 THEN Seeds ELSE step[d][f[d - 1]]
  <2>1. step \in [1 .. n -> [X -> X]]
    <3> HIDE DEF X, n
    <3>1. QED
      BY <1>3
  <2> HIDE DEF X, n, step
  <2>2. Iterates(X, n, Seeds, step)
    BY <1>1, <1>2, <2>1, Iteration
  <2>3. QED
    BY <2>2 DEF Iterates
<1>5. f = [d \in 0 .. n |-> IF d = 0 THEN Seeds ELSE Spread(f[d - 1], d - 1)]
  <2> HIDE DEF X, n
  <2>1. ASSUME NEW d \in 0 .. n, d # 0
        PROVE  step[d][f[d - 1]] = Spread(f[d - 1], d - 1)
    <3>1. d \in 1 .. n /\ d - 1 \in 0 .. n
      BY <1>1, <2>1
    <3>2. f[d - 1] \in X
      BY <3>1
    <3>3. QED
      BY <3>1, <3>2
  <2> HIDE DEF step
  <2>2. QED
    BY <1>4, <2>1
<1>6. spread = [d \in 0 .. n |-> IF d = 0 THEN Seeds ELSE Spread(spread[d - 1], d - 1)]
  <2> HIDE DEF X, n, step
  <2>1. QED
    BY <1>5, Zenon DEF spread
<1> HIDE DEF spread
<1> DEFINE good == {d \in Nat : d <= n => spread[d] \in X}
<1>7. 0 \in good
  <2>1. 0 \in 0 .. n
    BY <1>1
  <2> HIDE DEF X, n
  <2>2. spread[0] = Seeds
    BY <1>6, <2>1
  <2>3. QED
    BY <1>2, <2>2
<1>8. ASSUME NEW d \in Nat, d \in good
      PROVE  d + 1 \in good
  <2> SUFFICES ASSUME d + 1 <= n
               PROVE  spread[d + 1] \in X
    OBVIOUS
  <2>1. d + 1 \in 1 .. n /\ d + 1 \in 0 .. n /\ d + 1 # 0 /\ (d + 1) - 1 = d /\ d <= n
    BY <1>1
  <2>2. spread[d] \in X
    BY <1>8, <2>1
  <2> HIDE DEF X, n
  <2>3. spread[d + 1] = Spread(spread[d], (d + 1) - 1)
    <3>1. spread[d + 1] = Spread(spread[(d + 1) - 1], (d + 1) - 1)
      BY <1>6, <2>1
    <3>2. QED
      BY <2>1, <3>1
  <2>4. QED
    BY <1>3, <2>1, <2>2, <2>3
<1>9. n \in good
  <2> HIDE DEF good, n
  <2>1. QED
    BY <1>1, <1>7, <1>8, SetInduction
<1>10. spread[n] \in X
  <2> HIDE DEF X
  <2>1. QED
    BY <1>1, <1>9
<1>11. Expanded(MaxDepth) = spread[n]
  BY DEF Expanded, spread
<1>12. QED
  BY <1>10, <1>11

-------------------------------------------------------------------------------
(* The two recursions over a forest: the path to a token and its first     *)
(* hop.  Each is first shown to have a solution, then followed upwards.    *)

PathIn(ts, id) ==
  LET path[i \in DOMAIN ts] ==
        IF ts[i].parent = 0 THEN <<ts[i].node>>
        ELSE Append(path[ts[i].parent], ts[i].node)
  IN  path[id]

Paths(ts, path) ==
  path = [i \in DOMAIN ts |->
            IF ts[i].parent = 0 THEN <<ts[i].node>> ELSE Append(path[ts[i].parent], ts[i].node)]

Hops(ts, up) ==
  up = [i \in DOMAIN ts |->
          IF ts[i].parent = 0 \/ ts[ts[i].parent].parent = 0 THEN ts[i].node
          ELSE up[ts[i].parent]]

LEMMA ParentIn ==
  ASSUME NEW ts, Rooted(ts), NEW i \in DOMAIN ts
  PROVE  /\ ts \in Seq(Token) /\ DOMAIN ts = 1 .. Len(ts) /\ Len(ts) \in Nat
         /\ i \in Nat /\ ts[i].parent \in Nat /\ ts[i].parent < i /\ ts[i].node \in Node
         /\ ts[i].strategy \in DOMAIN Strategies
         /\ ts[i].parent = 0 => ts[i].node = Strategies[ts[i].strategy]
         /\ ts[i].parent # 0 => /\ ts[i].parent \in DOMAIN ts
                                /\ ts[i].strategy = ts[ts[i].parent].strategy
<1>1. ts \in Seq(Token) /\ DOMAIN ts = 1 .. Len(ts) /\ Len(ts) \in Nat
  BY LenProperties DEF Rooted
<1>2. /\ i \in Nat /\ ts[i].parent \in Nat /\ ts[i].node \in Node /\ ts[i].strategy \in DOMAIN Strategies
  BY <1>1, TokenIn
<1>3. /\ ts[i].parent < i
      /\ ts[i].parent = 0 => ts[i].node = Strategies[ts[i].strategy]
      /\ ts[i].parent # 0 => ts[i].strategy = ts[ts[i].parent].strategy
  BY DEF Rooted
<1>4. ts[i].parent # 0 => ts[i].parent \in DOMAIN ts
  BY <1>1, <1>2, <1>3
<1>5. QED
  BY <1>1, <1>2, <1>3, <1>4

LEMMA PathsExist ==
  ASSUME NEW ts, Rooted(ts)
  PROVE  \E path : Paths(ts, path) /\ \A id : PathIn(ts, id) = path[id]
<1> DEFINE n     == Len(ts)
           X     == Seq(Node)
           pred  == [i \in 1 .. n |-> ts[i].parent]
           first == [i \in 1 .. n |-> <<ts[i].node>>]
           step  == [i \in 1 .. n |-> [s \in X |-> Append(s, ts[i].node)]]
           path[i \in DOMAIN ts] ==
             IF ts[i].parent = 0 THEN <<ts[i].node>>
             ELSE Append(path[ts[i].parent], ts[i].node)
<1>1. n \in Nat /\ DOMAIN ts = 1 .. n
  BY LenProperties DEF Rooted
<1>2. \A i \in 1 .. n :
        /\ ts[i].parent \in Nat /\ ts[i].parent < i /\ ts[i].node \in Node
        /\ ts[i].parent # 0 => ts[i].parent \in 1 .. n
  BY <1>1, ParentIn
<1>3. pred \in [1 .. n -> Nat] /\ \A i \in 1 .. n : pred[i] < i /\ pred[i] = ts[i].parent
  BY <1>2
<1>4. first \in [1 .. n -> X] /\ \A i \in 1 .. n : first[i] = <<ts[i].node>>
  BY <1>2
<1>5. step \in [1 .. n -> [X -> X]]
  <2>1. \A i \in 1 .. n : \A s \in X : Append(s, ts[i].node) \in X
    BY <1>2
  <2> HIDE DEF X, n
  <2>2. QED
    BY <2>1
<1>6. \A i \in 1 .. n : \A s \in X : step[i][s] = Append(s, ts[i].node)
  OBVIOUS
<1> HIDE DEF pred, first, step, X
<1>7. Recurs(X, n, pred, first, step)
  <2> HIDE DEF n
  <2>1. QED
    BY <1>1, <1>3, <1>4, <1>5, Recursion
<1>8. PICK f \in [1 .. n -> X] :
        \A i \in 1 .. n : f[i] = IF pred[i] = 0 THEN first[i] ELSE step[i][f[pred[i]]]
  BY <1>7 DEF Recurs
<1>9. f = [i \in DOMAIN ts |->
             IF ts[i].parent = 0 THEN <<ts[i].node>> ELSE Append(f[ts[i].parent], ts[i].node)]
  <2> HIDE DEF n
  <2>1. ASSUME NEW i \in 1 .. n
        PROVE  f[i] = IF ts[i].parent = 0 THEN <<ts[i].node>> ELSE Append(f[ts[i].parent], ts[i].node)
    <3>1. CASE ts[i].parent = 0
      BY <1>3, <1>4, <1>8, <3>1
    <3>2. CASE ts[i].parent # 0
      <4>1. f[ts[i].parent] \in X
        BY <1>2, <1>8, <3>2
      <4>2. f[i] = step[i][f[ts[i].parent]]
        BY <1>3, <1>8, <3>2
      <4>3. QED
        BY <1>6, <3>2, <4>1, <4>2
    <3>3. QED
      BY <3>1, <3>2
  <2>2. QED
    BY <1>1, <1>8, <2>1
<1>10. Paths(ts, path)
  BY <1>9, Zenon DEF Paths, path
<1>11. \A id : PathIn(ts, id) = path[id]
  BY DEF PathIn, path
<1> HIDE DEF path
<1>12. QED
  BY <1>10, <1>11

LEMMA HopsExist ==
  ASSUME NEW ts, Rooted(ts)
  PROVE  \E up : Hops(ts, up) /\ \A id : FirstHop(ts, id) = up[id]
<1> DEFINE n     == Len(ts)
           X     == Node
           near(i) == ts[i].parent = 0 \/ ts[ts[i].parent].parent = 0
           pred  == [i \in 1 .. n |-> IF near(i) THEN 0 ELSE ts[i].parent]
           first == [i \in 1 .. n |-> ts[i].node]
           step  == [i \in 1 .. n |-> [s \in X |-> s]]
           up[i \in DOMAIN ts] ==
             IF ts[i].parent = 0 \/ ts[ts[i].parent].parent = 0 THEN ts[i].node
             ELSE up[ts[i].parent]
<1>1. n \in Nat /\ DOMAIN ts = 1 .. n
  BY LenProperties DEF Rooted
<1>2. \A i \in 1 .. n :
        /\ i \in Nat /\ i > 0
        /\ ts[i].parent \in Nat /\ ts[i].parent < i /\ ts[i].node \in Node
        /\ ts[i].parent # 0 => ts[i].parent \in 1 .. n
  BY <1>1, ParentIn
<1>3. /\ pred \in [1 .. n -> Nat]
      /\ \A i \in 1 .. n : pred[i] < i /\ pred[i] = IF near(i) THEN 0 ELSE ts[i].parent
  <2> HIDE DEF near, n
  <2>1. QED
    BY <1>2
<1>4. first \in [1 .. n -> X] /\ \A i \in 1 .. n : first[i] = ts[i].node
  BY <1>2
<1>5. step \in [1 .. n -> [X -> X]] /\ \A i \in 1 .. n : \A s \in X : step[i][s] = s
  OBVIOUS
<1> HIDE DEF pred, first, step, X
<1>7. Recurs(X, n, pred, first, step)
  <2> HIDE DEF n, near
  <2>1. QED
    BY <1>1, <1>3, <1>4, <1>5, Recursion
<1>8. PICK f \in [1 .. n -> X] :
        \A i \in 1 .. n : f[i] = IF pred[i] = 0 THEN first[i] ELSE step[i][f[pred[i]]]
  BY <1>7 DEF Recurs
<1>9. f = [i \in DOMAIN ts |-> IF near(i) THEN ts[i].node ELSE f[ts[i].parent]]
  <2> HIDE DEF n
  <2>1. ASSUME NEW i \in 1 .. n
        PROVE  f[i] = IF near(i) THEN ts[i].node ELSE f[ts[i].parent]
    <3>1. CASE near(i)
      <4> HIDE DEF near
      <4>1. QED
        BY <1>3, <1>4, <1>8, <3>1
    <3>2. CASE ~near(i)
      <4>1. f[ts[i].parent] \in X /\ ts[i].parent # 0
        BY <1>2, <1>8, <3>2
      <4> HIDE DEF near
      <4>2. f[i] = step[i][f[ts[i].parent]]
        BY <1>3, <1>8, <3>2, <4>1
      <4>3. QED
        BY <1>5, <3>2, <4>1, <4>2
    <3>3. QED
      BY <3>1, <3>2
  <2> HIDE DEF near
  <2>2. QED
    BY <1>1, <1>8, <2>1
<1>10. Hops(ts, up)
  BY <1>9, Zenon DEF Hops, up, near
<1>11. \A id : FirstHop(ts, id) = up[id]
  BY DEF FirstHop, up
<1> HIDE DEF up
<1>12. QED
  BY <1>10, <1>11

(* What the path p and the first hop h of the token t should be.           *)
Walk(t, p, h) ==
  /\ p \in Seq(Node) /\ Len(p) > 0
  /\ p[1] = Strategies[t.strategy]
  /\ p[Len(p)] = t.node
  /\ h \in Node /\ h = p[IF Len(p) = 1 THEN 1 ELSE 2]
  /\ t.parent = 0 <=> Len(p) = 1

LEMMA TokensWalk ==
  ASSUME NEW ts, Rooted(ts), NEW id \in DOMAIN ts
  PROVE  Walk(ts[id], PathIn(ts, id), FirstHop(ts, id))
<1>1. PICK path : Paths(ts, path) /\ \A i : PathIn(ts, i) = path[i]
  BY PathsExist
<1>2. PICK up : Hops(ts, up) /\ \A i : FirstHop(ts, i) = up[i]
  BY HopsExist
<1> DEFINE good == {k \in Nat : \A i \in DOMAIN ts : i <= k => Walk(ts[i], path[i], up[i])}
<1>3. 0 \in good
  <2>1. \A i \in DOMAIN ts : ~(i <= 0)
    BY ParentIn
  <2>2. QED
    BY <2>1
<1>4. ASSUME NEW k \in Nat, k \in good
      PROVE  k + 1 \in good
  <2> SUFFICES ASSUME NEW i \in DOMAIN ts, i <= k + 1
               PROVE  Walk(ts[i], path[i], up[i])
    OBVIOUS
  <2>1. /\ i \in Nat /\ ts[i].parent \in Nat /\ ts[i].parent < i /\ ts[i].node \in Node
        /\ ts[i].parent = 0 => ts[i].node = Strategies[ts[i].strategy]
        /\ ts[i].parent # 0 => /\ ts[i].parent \in DOMAIN ts
                               /\ ts[i].strategy = ts[ts[i].parent].strategy
    BY ParentIn
  <2>2. path[i] = IF ts[i].parent = 0 THEN <<ts[i].node>> ELSE Append(path[ts[i].parent], ts[i].node)
    BY <1>1 DEF Paths
  <2>3. up[i] = IF ts[i].parent = 0 \/ ts[ts[i].parent].parent = 0 THEN ts[i].node
                ELSE up[ts[i].parent]
    BY <1>2 DEF Hops
  <2>4. CASE ts[i].parent = 0
    <3>1. path[i] = <<ts[i].node>> /\ up[i] = ts[i].node
      BY <2>2, <2>3, <2>4
    <3>2. path[i] \in Seq(Node) /\ Len(path[i]) = 1 /\ path[i][1] = ts[i].node
      BY <2>1, <3>1
    <3>3. QED
      BY <2>1, <2>4, <3>1, <3>2 DEF Walk
  <2>5. CASE ts[i].parent # 0
    <3> DEFINE b == ts[i].parent
               p == path[b]
    <3>1. b \in DOMAIN ts /\ b <= k
      BY <2>1, <2>5
    <3>2. Walk(ts[b], p, up[b])
      BY <1>4, <3>1
    <3>3. path[i] = Append(p, ts[i].node)
      BY <2>2, <2>5
    <3>4. /\ p \in Seq(Node) /\ Len(p) \in Nat /\ Len(p) > 0
          /\ p[1] = Strategies[ts[b].strategy]
          /\ up[b] \in Node /\ up[b] = p[IF Len(p) = 1 THEN 1 ELSE 2]
          /\ ts[b].parent = 0 <=> Len(p) = 1
      BY <3>2, LenProperties DEF Walk
    <3>5. up[i] = IF ts[b].parent = 0 THEN ts[i].node ELSE up[b]
      BY <2>3, <2>5
    <3>6. ts[i].strategy = ts[b].strategy
      BY <2>1, <2>5
    <3>7. /\ path[i] \in Seq(Node) /\ Len(path[i]) = Len(p) + 1
          /\ path[i][Len(p) + 1] = ts[i].node
          /\ \A j \in 1 .. Len(p) : path[i][j] = p[j]
      <4> HIDE DEF p
      <4>1. QED
        BY <2>1, <3>3, <3>4
    <3> HIDE DEF b, p
    <3>8. path[i][1] = Strategies[ts[i].strategy]
      BY <3>4, <3>6, <3>7
    <3>9. Len(path[i]) # 1 /\ Len(path[i]) = Len(p) + 1
      BY <3>4, <3>7
    <3>10. up[i] \in Node /\ up[i] = path[i][2]
      <4>1. CASE Len(p) = 1
        BY <2>1, <3>4, <3>5, <3>7, <4>1
      <4>2. CASE Len(p) # 1
        <5>1. 2 \in 1 .. Len(p) /\ ts[b].parent # 0
          <6>1. Len(p) \in Nat /\ Len(p) > 0 /\ Len(p) # 1
            BY <3>4, <4>2
          <6>2. ts[b].parent # 0
            BY <3>4, <6>1, Zenon
          <6>3. \A n \in Nat : n > 0 /\ n # 1 => 2 \in 1 .. n
            OBVIOUS
          <6>4. QED
            BY <6>1, <6>2, <6>3, Zenon
        <5>2. up[i] = p[2] /\ up[i] \in Node
          BY <3>4, <3>5, <4>2, <5>1
        <5>3. QED
          BY <3>7, <5>1, <5>2
      <4>3. QED
        BY <4>1, <4>2
    <3>11. QED
      BY <2>5, <3>7, <3>8, <3>9, <3>10 DEF Walk
  <2>6. QED
    BY <2>4, <2>5
<1>5. id \in good /\ id <= id
  <2>1. id \in Nat
    BY ParentIn
  <2> HIDE DEF good
  <2>2. QED
    BY <1>3, <1>4, <2>1, SetInduction
<1>6. Walk(ts[id], path[id], up[id])
  BY <1>5
<1>7. QED
  BY <1>1, <1>2, <1>6

(* The beam of a forest: candidates of its tokens, within the limits, of   *)
(* which no two clash.                                                     *)
Chosen(b, ts) ==
  /\ \A i \in DOMAIN b : b[i] \in CandidatesOf(ts)
  /\ \A i, j \in DOMAIN b : i # j => ~Clash(b[i], b[j])

BeamOK(b) == b \in Seq(Candidate) /\ Len(b) <= BeamWidth

LEMMA CandidateIs ==
  ASSUME NEW ts, Rooted(ts), NEW c \in CandidatesOf(ts)
  PROVE  /\ c \in Candidate /\ c.token \in DOMAIN ts
         /\ c.firstHop = FirstHop(ts, c.token) /\ c.terminal = ts[c.token].node
<1>1. PICK id \in DOMAIN ts :
        c = [token |-> id, firstHop |-> FirstHop(ts, id), terminal |-> ts[id].node]
  BY DEF CandidatesOf
<1>2. Walk(ts[id], PathIn(ts, id), FirstHop(ts, id))
  BY TokensWalk
<1>3. id \in Nat /\ ts[id].node \in Node /\ FirstHop(ts, id) \in Node
  BY <1>2, ParentIn DEF Walk
<1>4. QED
  BY <1>1, <1>3 DEF Candidate

LEMMA BeamIs ==
  ASSUME NEW ts, Rooted(ts), NEW b \in Beams(ts)
  PROVE  BeamOK(b) /\ Chosen(b, ts)
<1> DEFINE allowed == {c \in CandidatesOf(ts) : BelowLimits(c)}
           width   == IF BeamWidth < N THEN BeamWidth ELSE N
<1>1. width \in Nat /\ width <= BeamWidth
  BY WorldAssumption, ExplorationAssumption
<1>2. /\ b \in UNION {[1 .. k -> allowed] : k \in 0 .. width}
      /\ \A i, j \in DOMAIN b : i # j => ~Clash(b[i], b[j])
  BY DEF Beams
<1>3. PICK k \in 0 .. width : b \in [1 .. k -> allowed]
  BY <1>2
<1>4. \A c \in allowed : c \in CandidatesOf(ts) /\ c \in Candidate
  BY CandidateIs
<1> HIDE DEF allowed, width
<1>5. k \in Nat /\ k <= BeamWidth
  BY <1>1, ExplorationAssumption
<1>6. b \in [1 .. k -> Candidate] /\ \A i \in DOMAIN b : b[i] \in CandidatesOf(ts)
  BY <1>3, <1>4
<1>7. b \in Seq(Candidate) /\ Len(b) = k
  BY <1>5, <1>6
<1>8. QED
  BY <1>2, <1>5, <1>6, <1>7 DEF BeamOK, Chosen

-------------------------------------------------------------------------------
(* The host.  It holds one candidate, which was within the limits when it  *)
(* was chosen and stays so, as nobody else counts visits.                  *)

ExploreInv ==
  /\ BeamOK(beam) /\ BeamOK(selected)
  /\ Forest(tokens)
  /\ terminalVisits \in [Node -> Nat]
  /\ firstHopVisits \in [Node -> Nat]
  /\ stage \in {"idle", "chosen", "committed"}
  /\ stage = "idle" => holding = {}
  /\ stage # "idle" => \E c \in Candidate : holding = {c} /\ BelowLimits(c)
  /\ rounds \in 0 .. MaxRounds
  /\ faults \in 0 .. MaxFaults
  /\ fresh \in BOOLEAN
  /\ fresh => Chosen(selected, tokens)
  /\ VisitsCapped

LEMMA ExploreTypes ==
  ASSUME ExploreInv
  PROVE  ExploreTypeOK
<1>1. (holding = {}) = (stage = "idle")
  <2>1. stage = "idle" <=> holding = {}
    BY DEF ExploreInv
  <2>2. QED
    BY <2>1
<1>2. holding \subseteq Candidate
  BY DEF ExploreInv
<1>3. QED
  BY <1>1, <1>2 DEF ExploreInv, ExploreTypeOK, BeamOK, Forest, Rooted

(* What the engine reports of the selection is what its tokens say.        *)
LEMMA ChosenWalk ==
  ASSUME ExploreInv
  PROVE  CandidatesAreWalks
<1> SUFFICES ASSUME fresh, NEW i \in DOMAIN selected
             PROVE  LET c    == selected[i]
                        path == PathOf(c.token)
                    IN  /\ path[1] = Strategies[tokens[c.token].strategy]
                        /\ path[Len(path)] = c.terminal
                        /\ c.firstHop = path[IF Len(path) = 1 THEN 1 ELSE 2]
                        /\ \A j \in 1 .. i - 1 : ~Clash(selected[j], c)
  BY DEF CandidatesAreWalks
<1> DEFINE c == selected[i]
<1>1. Rooted(tokens) /\ Chosen(selected, tokens)
  BY DEF ExploreInv, Forest
<1>2. c \in CandidatesOf(tokens)
  BY <1>1 DEF Chosen
<1>3. /\ c.token \in DOMAIN tokens /\ c.firstHop = FirstHop(tokens, c.token)
      /\ c.terminal = tokens[c.token].node
  <2> HIDE DEF c
  <2>1. QED
    BY <1>1, <1>2, CandidateIs
<1>4. Walk(tokens[c.token], PathOf(c.token), FirstHop(tokens, c.token))
  <2>1. PathOf(c.token) = PathIn(tokens, c.token)
    BY DEF PathOf, PathIn
  <2> HIDE DEF c
  <2>2. Walk(tokens[c.token], PathIn(tokens, c.token), FirstHop(tokens, c.token))
    BY <1>1, <1>3, TokensWalk
  <2>3. QED
    BY <2>1, <2>2
<1>5. \A j \in 1 .. i - 1 : ~Clash(selected[j], c)
  <2>1. selected \in Seq(Candidate)
    BY DEF ExploreInv, BeamOK
  <2>2. \A j \in 1 .. i - 1 : j \in DOMAIN selected /\ j # i
    BY <2>1
  <2>3. QED
    BY <1>1, <2>2 DEF Chosen
<1>6. QED
  BY <1>3, <1>4, <1>5 DEF Walk

LEMMA EmptyChosen ==
  ASSUME NEW b, NEW ts, b = <<>>
  PROVE  Chosen(b, ts)
BY DEF Chosen

LEMMA SeedExplores ==
  ASSUME ExploreInv, SeedExploration
  PROVE  ExploreInv'
<1>1. /\ stage = "idle" /\ rounds < MaxRounds /\ rounds' = rounds + 1
      /\ UNCHANGED <<terminalVisits, firstHopVisits, holding, stage, beam, faults>>
      /\ tokens' = Seeds /\ selected' = beam /\ fresh' = (FALSE \/ beam = <<>>)
  BY DEF SeedExploration, Explore, Sync
<1>2. Forest(tokens)' /\ BeamOK(beam)' /\ BeamOK(selected)'
  BY <1>1, SeedsForest DEF ExploreInv, Forest, Rooted, BeamOK
<1>3. fresh' \in BOOLEAN
  BY <1>1, Zenon
<1>4. fresh' => Chosen(selected', tokens')
  <2>1. fresh' => beam = <<>>
    BY <1>1, Zenon
  <2>2. QED
    BY <1>1, <2>1, EmptyChosen
<1>5. rounds' \in 0 .. MaxRounds
  BY <1>1, ExplorationAssumption DEF ExploreInv
<1>6. VisitsCapped'
  BY <1>1 DEF ExploreInv, VisitsCapped
<1>7. QED
  BY <1>1, <1>2, <1>3, <1>4, <1>5, <1>6 DEF ExploreInv, Chosen

LEMMA ExpandExplores ==
  ASSUME ExploreInv, ExpandExploration
  PROVE  ExploreInv'
<1>1. PICK b \in Beams(Expanded(MaxDepth)) :
        beam' = b /\ tokens' = Expanded(MaxDepth) /\ selected' = b /\ fresh' = (TRUE \/ b = <<>>)
  BY DEF ExpandExploration, Sync
<1>2. /\ stage = "idle" /\ rounds < MaxRounds /\ rounds' = rounds + 1
      /\ UNCHANGED <<terminalVisits, firstHopVisits, holding, stage, faults>>
  BY DEF ExpandExploration, Explore
<1>3. BeamOK(b) /\ Chosen(b, Expanded(MaxDepth))
  BY BeamIs, ExpandedForest DEF Forest
<1>4. Forest(tokens)' /\ BeamOK(beam)' /\ BeamOK(selected)' /\ Chosen(selected', tokens')
  BY <1>1, <1>3, ExpandedForest DEF Forest, Rooted, BeamOK
<1>5. fresh' \in BOOLEAN
  BY <1>1, Zenon
<1>6. rounds' \in 0 .. MaxRounds
  BY <1>2, ExplorationAssumption DEF ExploreInv
<1>7. VisitsCapped'
  BY <1>2 DEF ExploreInv, VisitsCapped
<1>8. QED
  BY <1>2, <1>4, <1>5, <1>6, <1>7 DEF ExploreInv, Chosen

LEMMA ExpandFailsExplores ==
  ASSUME ExploreInv, ExpandFails
  PROVE  ExploreInv'
<1>1. /\ stage = "idle" /\ rounds < MaxRounds /\ rounds' = rounds + 1
      /\ faults < MaxFaults /\ faults' = faults + 1
      /\ UNCHANGED <<terminalVisits, firstHopVisits, holding, stage>>
      /\ tokens' = Seeds /\ selected' = beam /\ fresh' = (FALSE \/ beam = <<>>)
  BY DEF ExpandFails, Explore, Sync
<1>2. beam' = beam \/ beam' \in Beams(Expanded(MaxDepth))
  BY DEF ExpandFails
<1>3. BeamOK(beam')
  BY <1>2, BeamIs, ExpandedForest DEF Forest, ExploreInv
<1>4. Forest(tokens)' /\ BeamOK(beam)' /\ BeamOK(selected)'
  BY <1>1, <1>3, SeedsForest DEF ExploreInv, Forest, Rooted, BeamOK
<1>5. fresh' \in BOOLEAN
  BY <1>1, Zenon
<1>6. fresh' => Chosen(selected', tokens')
  <2>1. fresh' => beam = <<>>
    BY <1>1, Zenon
  <2>2. QED
    BY <1>1, <2>1, EmptyChosen
<1>7. rounds' \in 0 .. MaxRounds /\ faults' \in 0 .. MaxFaults
  BY <1>1, ExplorationAssumption DEF ExploreInv
<1>8. VisitsCapped'
  BY <1>1 DEF ExploreInv, VisitsCapped
<1>9. QED
  BY <1>1, <1>4, <1>5, <1>6, <1>7, <1>8 DEF ExploreInv, Chosen

LEMMA ChooseExplores ==
  ASSUME ExploreInv, ChooseCandidate
  PROVE  ExploreInv'
<1>1. PICK i \in DOMAIN selected : Committable(selected[i]) /\ holding' = {selected[i]}
  BY DEF ChooseCandidate
<1>2. /\ stage' = "chosen"
      /\ UNCHANGED <<beam, tokens, selected, terminalVisits, firstHopVisits, rounds, faults, fresh>>
  BY DEF ChooseCandidate, engine
<1>3. selected[i] \in Candidate /\ BelowLimits(selected[i])
  BY <1>1 DEF Committable, ExploreInv, BeamOK
<1>4. BelowLimits(selected[i])'
  BY <1>2, <1>3 DEF BelowLimits
<1>5. (stage # "idle" => \E c \in Candidate : holding = {c} /\ BelowLimits(c))'
  BY <1>1, <1>2, <1>3, <1>4 DEF BelowLimits
<1>6. VisitsCapped'
  BY <1>2 DEF ExploreInv, VisitsCapped
<1>7. QED
  BY <1>2, <1>5, <1>6 DEF ExploreInv, BeamOK, Forest, Rooted, Chosen

LEMMA FailExplores ==
  ASSUME ExploreInv, CommitFails
  PROVE  ExploreInv'
<1>1. /\ stage' = "idle" /\ holding' = {} /\ faults < MaxFaults /\ faults' = faults + 1
      /\ UNCHANGED <<beam, tokens, selected, terminalVisits, firstHopVisits, rounds, fresh>>
  BY DEF CommitFails, engine
<1>2. faults' \in 0 .. MaxFaults
  BY <1>1, ExplorationAssumption DEF ExploreInv
<1>3. VisitsCapped'
  BY <1>1 DEF ExploreInv, VisitsCapped
<1>4. QED
  BY <1>1, <1>2, <1>3 DEF ExploreInv, BeamOK, Forest, Rooted, Chosen

LEMMA MarkExplores ==
  ASSUME ExploreInv, MarkCandidateCommitted
  PROVE  ExploreInv'
<1>1. PICK c \in Candidate : holding = {c} /\ BelowLimits(c)
  BY DEF MarkCandidateCommitted, ExploreInv
<1>2. /\ terminalVisits' = [terminalVisits EXCEPT ![c.terminal] = @ + 1]
      /\ firstHopVisits' = [firstHopVisits EXCEPT ![c.firstHop] = @ + 1]
      /\ stage' = "idle" /\ holding' = {}
      /\ UNCHANGED <<beam, tokens, selected, rounds, faults, fresh>>
  BY <1>1 DEF MarkCandidateCommitted
<1>3. c.terminal \in Node /\ c.firstHop \in Node
  BY DEF Candidate
<1>4. /\ terminalVisits \in [Node -> Nat] /\ firstHopVisits \in [Node -> Nat]
      /\ MaxTerminal \in Nat /\ MaxFirstHop \in Nat
  BY ExplorationAssumption DEF ExploreInv
<1>5. terminalVisits' \in [Node -> Nat] /\ firstHopVisits' \in [Node -> Nat]
  BY <1>2, <1>3, <1>4
<1>6. ASSUME NEW n \in Node
      PROVE  terminalVisits'[n] <= MaxTerminal /\ firstHopVisits'[n] <= MaxFirstHop
  <2>1. terminalVisits[n] <= MaxTerminal /\ firstHopVisits[n] <= MaxFirstHop
    BY DEF ExploreInv, VisitsCapped
  <2>2. terminalVisits[c.terminal] < MaxTerminal /\ firstHopVisits[c.firstHop] < MaxFirstHop
    BY <1>1 DEF BelowLimits
  <2>3. terminalVisits'[n] <= MaxTerminal
    <3>1. CASE n = c.terminal
      BY <1>2, <1>3, <1>4, <2>2, <3>1
    <3>2. CASE n # c.terminal
      BY <1>2, <1>3, <1>4, <2>1, <3>2
    <3>3. QED
      BY <3>1, <3>2
  <2>4. firstHopVisits'[n] <= MaxFirstHop
    <3>1. CASE n = c.firstHop
      BY <1>2, <1>3, <1>4, <2>2, <3>1
    <3>2. CASE n # c.firstHop
      BY <1>2, <1>3, <1>4, <2>1, <3>2
    <3>3. QED
      BY <3>1, <3>2
  <2>5. QED
    BY <2>3, <2>4
<1>7. VisitsCapped'
  BY <1>6 DEF VisitsCapped
<1>8. QED
  BY <1>2, <1>5, <1>7 DEF ExploreInv, BeamOK, Forest, Rooted, Chosen

LEMMA CommitExplores ==
  ASSUME ExploreInv, CommitExplorationCandidate
  PROVE  ExploreInv'
<1>1. PICK c \in Candidate : holding = {c} /\ BelowLimits(c)
  BY DEF CommitExplorationCandidate, ExploreInv
<1>2. /\ stage' = "committed"
      /\ UNCHANGED <<beam, tokens, selected, terminalVisits, firstHopVisits, holding, rounds, faults, fresh>>
  BY DEF CommitExplorationCandidate, engine
<1>3. (stage # "idle" => \E d \in Candidate : holding = {d} /\ BelowLimits(d))'
  BY <1>1, <1>2 DEF BelowLimits
<1>4. VisitsCapped'
  BY <1>2 DEF ExploreInv, VisitsCapped
<1>5. QED
  BY <1>2, <1>3, <1>4 DEF ExploreInv, BeamOK, Forest, Rooted, Chosen

(* The kernel takes the edge of the one candidate that is held, so that    *)
(* what is recorded as spent is marked as consumed.                        *)
LEMMA CommitTakes ==
  ASSUME ExploreInv, FrontierOK, SpentInv, CommitExplorationCandidate
  PROVE  FrontierOK' /\ SpentInv'
<1>1. PICK c \in Candidate : holding = {c}
  BY DEF CommitExplorationCandidate, ExploreInv
<1>2. c.firstHop \in Node /\ Start \in Node
  BY WorldAssumption DEF Candidate
<1>3. /\ consumed' = consumed \cup {<<Start, c.firstHop>>}
      /\ active' = {e[2] : e \in {<<Start, c.firstHop>>}}
  BY <1>1 DEF CommitExplorationCandidate, CommitKernel, Take
<1>4. spent' = spent \cup {<<Start, c.firstHop>>} /\ lastGroup' = lastGroup
  BY <1>1 DEF CommitExplorationCandidate
<1>5. FrontierOK'
  BY <1>2, <1>3 DEF FrontierOK
<1>6. SpentInv'
  BY <1>3, <1>4 DEF SpentInv
<1>7. QED
  BY <1>5, <1>6

-------------------------------------------------------------------------------
(* The whole.                                                              *)

DecisionsInv ==
  /\ TensorOK
  /\ FrontierOK
  /\ RingInv
  /\ MembersInv
  /\ SpentInv
  /\ ExploreInv
  /\ tensorCalls \in 0 .. MaxTensorCalls

LEMMA TensorStays == TensorOK /\ UNCHANGED tensor => TensorOK'
BY DEF TensorOK, tensor

LEMMA FrontierStays == FrontierOK /\ UNCHANGED frontier => FrontierOK'
BY DEF FrontierOK, frontier

LEMMA RingStays == RingInv /\ UNCHANGED ring => RingInv'
BY DEF RingInv, RingTypeOK, ReceiptsAppliedOnce, ring

LEMMA MembersStay == MembersInv /\ UNCHANGED <<log, groups, issued, todo, committed>> => MembersInv'
BY DEF MembersInv

LEMMA SpentStays == SpentInv /\ UNCHANGED <<consumed, lastGroup, spent>> => SpentInv'
BY DEF SpentInv

LEMMA ExploreStays == ExploreInv /\ UNCHANGED exploreVars => ExploreInv'
BY DEF ExploreInv, exploreVars, engine, BeamOK, Forest, Rooted, Chosen, BelowLimits, VisitsCapped

LEMMA DecisionsInit == DInit => DecisionsInv
<1> SUFFICES ASSUME DInit
             PROVE  DecisionsInv
  OBVIOUS
<1> USE DEF DInit, WorldInit, GroupInit, ExploreInit
<1>1. TensorOK
  BY WorldAssumption DEF TensorOK
<1>2. FrontierOK
  BY WorldAssumption DEF FrontierOK
<1>3. RingInv
  <2>1. log = <<>> /\ applied = <<>> /\ head = 0 /\ lapped = FALSE /\ MaxReceipts \in Nat
        /\ ReceiptSlots \in Nat
    BY WorldAssumption
  <2>2. log \in Seq(DeviceReceipt) /\ Len(log) = 0 /\ DOMAIN log = {}
    BY <2>1
  <2>3. applied \in [{} -> Nat]
    <3>1. applied \in Seq(Nat) /\ Len(applied) = 0
      BY <2>1
    <3>2. applied \in [1 .. 0 -> Nat] /\ 1 .. 0 = {}
      BY <3>1
    <3>3. QED
      BY <3>2
  <2>4. RingTypeOK
    <3>1. applied \in [DOMAIN log -> Nat]
      BY <2>2, <2>3, Zenon
    <3>2. lapped \in BOOLEAN
      BY <2>1, Zenon
    <3>3. Len(log) <= MaxReceipts /\ head \in 0 .. Len(log)
      BY <2>1, <2>2
    <3>4. QED
      BY <2>2, <3>1, <3>2, <3>3 DEF RingTypeOK
  <2>5. QED
    BY <2>1, <2>2, <2>4 DEF RingInv, ReceiptsAppliedOnce
<1>4. MembersInv
  BY DEF MembersInv
<1>5. SpentInv
  BY DEF SpentInv
<1>6. ExploreInv
  <2>1. BeamWidth \in Nat /\ MaxTokens \in Nat /\ MaxRounds \in Nat /\ MaxFaults \in Nat
        /\ MaxTerminal \in Nat /\ MaxFirstHop \in Nat
    BY ExplorationAssumption
  <2>2. BeamOK(beam) /\ BeamOK(selected) /\ Forest(tokens)
    BY <2>1 DEF BeamOK, Forest, Rooted
  <2>3. Chosen(selected, tokens)
    BY EmptyChosen
  <2>4. VisitsCapped
    BY <2>1 DEF VisitsCapped
  <2>5. QED
    BY <2>1, <2>2, <2>3, <2>4 DEF ExploreInv
<1>7. tensorCalls \in 0 .. MaxTensorCalls
  BY DecisionsAssumption
<1>8. QED
  BY <1>1, <1>2, <1>3, <1>4, <1>5, <1>6, <1>7 DEF DecisionsInv

LEMMA DecisionsNext == DecisionsInv /\ [DNext]_dvars => DecisionsInv'
<1> SUFFICES ASSUME DecisionsInv, [DNext]_dvars
             PROVE  DecisionsInv'
  OBVIOUS
<1> USE DEF DecisionsInv
<1>1. CASE ParGroupStep /\ UNCHANGED <<exploreVars, tensorCalls>>
  <2>1. PICK g, ps : Commits(g, ps)
    BY <1>1, ParGroupStepIs
  <2>2. RingInv' /\ MembersInv'
    BY <2>1, ParGroupMembers
  <2>3. TensorOK' /\ FrontierOK' /\ SpentInv'
    BY <2>1, ParGroupTakes
  <2>4. ExploreInv'
    BY <1>1, ExploreStays
  <2>5. QED
    BY <1>1, <2>2, <2>3, <2>4
<1>2. CASE ExecuteMember /\ UNCHANGED <<exploreVars, tensorCalls>>
  <2>1. UNCHANGED <<tensor, frontier, lastGroup, spent>>
    BY <1>2 DEF ExecuteMember
  <2>2. RingInv' /\ MembersInv'
    BY <1>2, ExecuteMembers
  <2>3. TensorOK' /\ FrontierOK' /\ ExploreInv'
    BY <1>2, <2>1, TensorStays, FrontierStays, ExploreStays
  <2>4. SpentInv'
    BY <2>1, SpentStays DEF frontier
  <2>5. QED
    BY <1>2, <2>2, <2>3, <2>4
<1>3. CASE DrainDeviceReceipts /\ UNCHANGED <<groupVars, exploreVars, tensorCalls>>
  <2>1. RingInv' /\ TensorOK' /\ MembersInv'
    BY <1>3, DrainMembers
  <2>2. UNCHANGED frontier
    BY <1>3 DEF DrainDeviceReceipts
  <2>3. FrontierOK' /\ ExploreInv'
    BY <1>3, <2>2, FrontierStays, ExploreStays
  <2>4. SpentInv'
    BY <1>3, <2>2, SpentStays DEF frontier, groupVars
  <2>5. QED
    BY <1>3, <2>1, <2>3, <2>4
<1>4. CASE DispatchRegion /\ UNCHANGED <<groupVars, exploreVars, tensorCalls>>
  <2>1. RingInv' /\ MembersInv'
    BY <1>4, DispatchMembers
  <2>2. UNCHANGED <<tensor, frontier>>
    BY <1>4 DEF DispatchRegion
  <2>3. TensorOK' /\ FrontierOK' /\ ExploreInv'
    BY <1>4, <2>2, TensorStays, FrontierStays, ExploreStays
  <2>4. SpentInv'
    BY <1>4, <2>2, SpentStays DEF frontier, groupVars
  <2>5. QED
    BY <1>4, <2>1, <2>3, <2>4
<1>5. CASE TensorStep
  <2>1. UNCHANGED <<groupVars, exploreVars, frontier, ring, hop>>
    BY <1>5 DEF TensorStep, EmbedJitChainScores, Decay
  <2>2. TensorOK'
    <3>1. CASE EmbedJitChainScores
      BY <2>1, <3>1, WorldAssumption DEF EmbedJitChainScores, TensorOK
    <3>2. CASE Decay
      BY <2>1, <3>2 DEF Decay, TensorOK
    <3>3. QED
      BY <1>5, <3>1, <3>2 DEF TensorStep
  <2>3. FrontierOK' /\ RingInv' /\ ExploreInv'
    BY <2>1, FrontierStays, RingStays, ExploreStays
  <2>4. MembersInv' /\ SpentInv'
    BY <2>1, MembersStay, SpentStays DEF frontier, groupVars, ring
  <2>5. (tensorCalls \in 0 .. MaxTensorCalls)'
    BY <1>5, DecisionsAssumption DEF TensorStep
  <2>6. QED
    BY <2>2, <2>3, <2>4, <2>5
<1>6. CASE ExploreStep
  <2>1. UNCHANGED <<groupVars, tensorCalls, tensor, frontier, ring>>
    BY <1>6 DEF ExploreStep, SeedExploration, ExpandExploration, ExpandFails, Explore,
                ChooseCandidate, CommitFails, MarkCandidateCommitted, worldVars
  <2>2. ExploreInv'
    BY <1>6, SeedExplores, ExpandExplores, ExpandFailsExplores, ChooseExplores, FailExplores,
       MarkExplores DEF ExploreStep
  <2>3. TensorOK' /\ FrontierOK' /\ RingInv'
    BY <2>1, TensorStays, FrontierStays, RingStays
  <2>4. MembersInv' /\ SpentInv'
    BY <2>1, MembersStay, SpentStays DEF frontier, groupVars, ring
  <2>5. QED
    BY <2>1, <2>2, <2>3, <2>4
<1>7. CASE CommitExplorationCandidate
  <2>1. UNCHANGED <<tensor, ring, groups, issued, todo, committed, tensorCalls>>
    BY <1>7 DEF CommitExplorationCandidate
  <2>2. ExploreInv' /\ FrontierOK' /\ SpentInv'
    BY <1>7, CommitExplores, CommitTakes
  <2>3. TensorOK' /\ RingInv'
    BY <2>1, TensorStays, RingStays
  <2>4. MembersInv'
    BY <2>1, MembersStay DEF ring
  <2>5. QED
    BY <2>1, <2>2, <2>3, <2>4
<1>8. CASE UNCHANGED dvars
  <2>1. UNCHANGED <<tensor, frontier, ring, groupVars, exploreVars, tensorCalls>>
    BY <1>8 DEF dvars, worldVars
  <2>2. TensorOK' /\ FrontierOK' /\ RingInv' /\ ExploreInv'
    BY <2>1, TensorStays, FrontierStays, RingStays, ExploreStays
  <2>3. MembersInv' /\ SpentInv'
    BY <2>1, MembersStay, SpentStays DEF frontier, groupVars, ring
  <2>4. QED
    BY <2>1, <2>2, <2>3
<1>9. QED
  BY <1>1, <1>2, <1>3, <1>4, <1>5, <1>6, <1>7, <1>8 DEF DNext, GroupStep, ReceiptStep

LEMMA DecisionsHold == DSpec => []DecisionsInv
BY DecisionsInit, DecisionsNext, PTL DEF DSpec

(* Type correctness of the three components, and no end and no first hop   *)
(* is visited more often than the policy allows, however stale the         *)
(* selection a candidate was chosen from (exploration.rs:411).             *)
THEOREM VisitsStayCapped == DSpec => []DInv
<1>1. DecisionsInv => DInv
  <2> SUFFICES ASSUME DecisionsInv
               PROVE  DInv
    OBVIOUS
  <2>1. WorldTypeOK
    BY WorldTypes DEF DecisionsInv, RingInv
  <2>2. GroupTypeOK
    BY DEF DecisionsInv, MembersInv, SpentInv, FrontierOK, GroupTypeOK
  <2>3. ExploreTypeOK /\ VisitsCapped
    BY ExploreTypes DEF DecisionsInv, ExploreInv
  <2>4. QED
    BY <2>1, <2>2, <2>3 DEF DInv, DTypeOK, DecisionsInv
<1>2. QED
  BY <1>1, DecisionsHold, PTL

(* As long as the producer of receipts has not overtaken the consumer, a   *)
(* drain applies each receipt once and none twice (05_jit_and_receipts.cuh,*)
(* tensor_quantale_drain_device_receipts).                                 *)
THEOREM ReceiptsAreAppliedOnce == DSpec => []ReceiptsAppliedOnce
<1>1. DecisionsInv => ReceiptsAppliedOnce
  BY DEF DecisionsInv, RingInv
<1>2. QED
  BY <1>1, DecisionsHold, PTL

(* Every member of every par group that committed is run once: by the      *)
(* kernel, or by the host that was left with it; none is lost between them *)
(* and none is run by both (par_group_ops.rs:43).                          *)
THEOREM MembersAreRunOnce == DSpec => []MemberRunsOnce
<1>1. DecisionsInv => MemberRunsOnce
  BY MembersRunOnce DEF DecisionsInv, RingInv
<1>2. QED
  BY <1>1, DecisionsHold, PTL

(* What the engine reports of a selection that belongs to its tokens is    *)
(* true of them: its paths lead from the strategy to the candidate, over   *)
(* its first hop (exploration_first_hop, reconstruct_exploration_path).    *)
THEOREM CandidatesWalk == DSpec => []CandidatesAreWalks
<1>1. DecisionsInv => CandidatesAreWalks
  BY ChosenWalk DEF DecisionsInv
<1>2. QED
  BY <1>1, DecisionsHold, PTL

(* No par group takes an edge that a decision took before, neither an      *)
(* earlier group nor an exploration.                                       *)
THEOREM GroupsTakeUnspent == DSpec => ParTakesUnspent
<1>1. DecisionsInv /\ [DNext]_dvars
        => [issued' # issued => lastGroup' \cap spent = {}]_<<issued, lastGroup, spent>>
  <2> SUFFICES ASSUME DecisionsInv, [DNext]_dvars, issued' # issued
               PROVE  lastGroup' \cap spent = {}
    OBVIOUS
  <2>1. ParGroupStep
    BY DEF DNext, GroupStep, ReceiptStep, TensorStep, ExploreStep, CommitExplorationCandidate,
           ExecuteMember, groupVars, dvars
  <2>2. PICK g, ps : Commits(g, ps)
    BY <2>1, ParGroupStepIs DEF DecisionsInv
  <2>3. QED
    BY <2>2, ParGroupTakes DEF DecisionsInv
<1>2. QED
  BY <1>1, DecisionsHold, PTL DEF DSpec, ParTakesUnspent

===============================================================================
