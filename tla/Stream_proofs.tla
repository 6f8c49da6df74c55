----------------------------- MODULE Stream_proofs -----------------------------
(***************************************************************************)
(* Theorems about the streaming pipeline, for every number of events,      *)
(* slots and retries and every capacity: what happens to an update on its  *)
(* way from an event to the device.                                        *)
(***************************************************************************)
EXTENDS StreamWorkers, Numbers_proofs, SequenceTheorems

-------------------------------------------------------------------------------
(* Types, and what the counters count.                                     *)

Places ==
  /\ reader = "send" => source # <<>>
  /\ normalizer = "retry" => hand # <<>>

RawCounted ==
  /\ metrics["raw_enqueued"] = metrics["raw_dequeued"] + Len(raw)
  /\ early <= metrics["raw_enqueued"]
  /\ normalizer = "done" => raw = <<>>

Sound == TypeOK /\ Places /\ UpdatesAccounted /\ RawCounted

LEMMA Bounds ==
  /\ RawCapacity \in Nat \ {0} /\ UpdateCapacity \in Nat \ {0} /\ DeltaCapacity \in Nat \ {0}
  /\ MaxBatchSize \in Nat \ {0} /\ Retries \in Nat \ {0}
BY WorkersAssumption

LEMMA SendRawKeeps ==
  ASSUME Sound, NEW e \in Event, SendRaw(e), normalizer # "done"
  PROVE  /\ raw' \in Seq(Event) /\ Len(raw') <= RawCapacity
         /\ metrics' \in [Counters -> Nat] /\ early' \in Nat
         /\ metrics'["raw_enqueued"] = metrics'["raw_dequeued"] + Len(raw')
         /\ early' <= metrics'["raw_enqueued"]
         /\ metrics'["slot_update_dequeued"] = metrics["slot_update_dequeued"]
         /\ metrics'["slot_update_dropped"] = metrics["slot_update_dropped"]
<1>1. /\ raw \in Seq(Event) /\ Len(raw) \in Nat /\ Len(raw) <= RawCapacity /\ RawCapacity \in Nat
      /\ metrics \in [Counters -> Nat] /\ early \in Nat
      /\ metrics["raw_enqueued"] = metrics["raw_dequeued"] + Len(raw)
      /\ early <= metrics["raw_enqueued"]
      /\ metrics["raw_enqueued"] \in Nat /\ metrics["raw_dequeued"] \in Nat
  BY Bounds DEF Sound, TypeOK, RawCounted, Counters
<1>2. CASE Len(raw) < RawCapacity
  <2>1. /\ raw' = Append(raw, e)
        /\ metrics' = [metrics EXCEPT !["raw_enqueued"] = @ + 1]
        /\ early' = early + (IF shutdown THEN 0 ELSE 1)
    BY <1>2 DEF SendRaw, Count
  <2>11. early' \in Nat /\ early' <= early + 1
    BY <1>1, <2>1
  <2>2. Len(raw') = Len(raw) + 1 /\ raw' \in Seq(Event)
    BY <1>1, <2>1
  <2>3. /\ metrics' \in [Counters -> Nat]
        /\ metrics'["raw_enqueued"] = metrics["raw_enqueued"] + 1
        /\ metrics'["raw_dequeued"] = metrics["raw_dequeued"]
        /\ metrics'["slot_update_dequeued"] = metrics["slot_update_dequeued"]
        /\ metrics'["slot_update_dropped"] = metrics["slot_update_dropped"]
    BY <1>1, <2>1 DEF Counters
  <2>4. Len(raw') <= RawCapacity
    BY <1>1, <1>2, <2>2
  <2>5. /\ metrics'["raw_enqueued"] = metrics'["raw_dequeued"] + Len(raw')
        /\ early' <= metrics'["raw_enqueued"]
    <3>1. metrics'["raw_enqueued"] = metrics'["raw_dequeued"] + Len(raw')
      BY <1>1, <2>2, <2>3
    <3>2. metrics["raw_enqueued"] \in Nat /\ early \in Nat /\ early <= metrics["raw_enqueued"]
      BY <1>1
    <3>3. early' <= metrics["raw_enqueued"] + 1
      BY <2>11, <3>2
    <3>4. QED
      BY <2>3, <3>1, <3>3
  <2>6. QED
    BY <2>11, <2>2, <2>3, <2>4, <2>5
<1>3. CASE ~(Len(raw) < RawCapacity)
  <2>1. /\ metrics' = [metrics EXCEPT !["raw_dropped"] = @ + 1]
        /\ raw' = raw /\ early' = early
    BY <1>3 DEF SendRaw, Count
  <2>2. /\ metrics' \in [Counters -> Nat]
        /\ metrics'["raw_enqueued"] = metrics["raw_enqueued"]
        /\ metrics'["raw_dequeued"] = metrics["raw_dequeued"]
        /\ metrics'["slot_update_dequeued"] = metrics["slot_update_dequeued"]
        /\ metrics'["slot_update_dropped"] = metrics["slot_update_dropped"]
    BY <1>1, <2>1 DEF Counters
  <2>3. QED
    BY <1>1, <2>1, <2>2
<1>4. QED
  BY <1>2, <1>3

(* The numbers given to the updates of an event go on where those of the   *)
(* event before stopped.                                                   *)
LEMMA TakeEventYields ==
  ASSUME Sound, raw # <<>>, TakeEvent
  PROVE  /\ raw' \in Seq(Event) /\ Len(raw') = Len(raw) - 1 /\ Head(raw) \in Event
         /\ hand' \in Seq(Update) /\ made' \in Nat /\ made' = made + Len(hand')
         /\ deltas' \in 0 .. DeltaCapacity
         /\ \A i \in DOMAIN hand' : hand'[i].n = made + i
<1> DEFINE e  == Head(raw)
           us == IF e \in Malformed THEN <<>> ELSE Yields[e]
<1>1. /\ raw' = Tail(raw)
      /\ hand' = [i \in DOMAIN us |-> [n |-> made + i, slot |-> us[i].slot, policy |-> us[i].policy]]
      /\ made' = made + Len(us)
      /\ deltas' = IF e \in IsDelta /\ deltas < DeltaCapacity THEN deltas + 1 ELSE deltas
  BY DEF TakeEvent
<1>2. raw \in Seq(Event) /\ made \in Nat /\ deltas \in 0 .. DeltaCapacity /\ DeltaCapacity \in Nat
  BY Bounds DEF Sound, TypeOK
<1>3. e \in Event /\ raw' \in Seq(Event) /\ Len(raw') = Len(raw) - 1
  BY <1>1, <1>2, HeadTailProperties
<1>4. us \in Seq([slot : Slot, policy : Policies])
  <2>1. CASE e \in Malformed
    BY <2>1
  <2>2. CASE e \notin Malformed
    BY <1>3, <2>2, WorkersAssumption
  <2>3. QED
    BY <2>1, <2>2
<1>5. deltas' \in 0 .. DeltaCapacity
  BY <1>1, <1>2
<1> HIDE DEF us, e
<1>6. DOMAIN us = 1 .. Len(us) /\ Len(us) \in Nat
  BY <1>4
<1>7. \A i \in 1 .. Len(us) : us[i].slot \in Slot /\ us[i].policy \in Policies /\ made + i \in Nat
  <2>1. \A i \in 1 .. Len(us) : us[i] \in [slot : Slot, policy : Policies]
    BY <1>4, ElementOfSeq
  <2>2. QED
    BY <1>2, <1>6, <2>1
<1>8. hand' \in Seq(Update) /\ Len(hand') = Len(us)
  BY <1>1, <1>6, <1>7 DEF Update
<1>9. \A i \in DOMAIN hand' : hand'[i].n = made + i
  BY <1>1, <1>6
<1>10. QED
  BY <1>1, <1>2, <1>3, <1>5, <1>6, <1>8, <1>9 DEF e

LEMMA ReaderPollSound ==
  ASSUME Sound, ReaderPoll
  PROVE  Sound'
<1>1. TypeOK'
  BY Bounds DEF Sound, TypeOK, Places, ReaderPoll, producers, owning, applier, workers, ApplierTypeOK
<1>2. Places' /\ UpdatesAccounted' /\ RawCounted'
  BY DEF Sound, TypeOK, Places, UpdatesAccounted, RawCounted, ReaderPoll, producers, owning, workers
<1>3. QED
  BY <1>1, <1>2 DEF Sound

LEMMA ReceiveTimeoutSound ==
  ASSUME Sound, ReceiveTimeout
  PROVE  Sound'
<1>1. TypeOK'
  BY Bounds DEF Sound, TypeOK, Places, ReceiveTimeout, producers, owning, applier, workers, ApplierTypeOK
<1>2. Places' /\ UpdatesAccounted' /\ RawCounted'
  BY DEF Sound, TypeOK, Places, UpdatesAccounted, RawCounted, ReceiveTimeout, producers, owning, workers
<1>3. QED
  BY <1>1, <1>2 DEF Sound

LEMMA StopCheckSound ==
  ASSUME Sound, StopCheck
  PROVE  Sound'
<1>1. TypeOK'
  BY Bounds DEF Sound, TypeOK, Places, StopCheck, producers, owning, applier, workers, ApplierTypeOK
<1>2. Places' /\ UpdatesAccounted' /\ RawCounted'
  BY DEF Sound, TypeOK, Places, UpdatesAccounted, RawCounted, StopCheck, producers, owning, workers
<1>3. QED
  BY <1>1, <1>2 DEF Sound

LEMMA StartRetrySound ==
  ASSUME Sound, StartRetry
  PROVE  Sound'
<1>1. TypeOK'
  BY Bounds DEF Sound, TypeOK, Places, StartRetry, producers, owning, applier, workers, ApplierTypeOK
<1>2. Places' /\ UpdatesAccounted' /\ RawCounted'
  BY DEF Sound, TypeOK, Places, UpdatesAccounted, RawCounted, StartRetry, producers, owning, workers
<1>3. QED
  BY <1>1, <1>2 DEF Sound

LEMMA DrainDoneSound ==
  ASSUME Sound, DrainDone
  PROVE  Sound'
<1>1. TypeOK'
  BY Bounds DEF Sound, TypeOK, Places, DrainDone, producers, owning, applier, workers, ApplierTypeOK
<1>2. Places' /\ UpdatesAccounted' /\ RawCounted'
  BY DEF Sound, TypeOK, Places, UpdatesAccounted, RawCounted, DrainDone, producers, owning, workers
<1>3. QED
  BY <1>1, <1>2 DEF Sound

LEMMA StartApplySound ==
  ASSUME Sound, StartApply
  PROVE  Sound'
<1>1. TypeOK'
  BY Bounds DEF Sound, TypeOK, Places, StartApply, producers, owning, applier, workers, ApplierTypeOK
<1>2. Places' /\ UpdatesAccounted' /\ RawCounted'
  BY DEF Sound, TypeOK, Places, UpdatesAccounted, RawCounted, StartApply, producers, owning, workers
<1>3. QED
  BY <1>1, <1>2 DEF Sound

LEMMA DrainDeltasSound ==
  ASSUME Sound, DrainDeltas
  PROVE  Sound'
<1>1. TypeOK'
  BY Bounds DEF Sound, TypeOK, Places, DrainDeltas, producers, owning, applier, workers, ApplierTypeOK
<1>2. Places' /\ UpdatesAccounted' /\ RawCounted'
  BY DEF Sound, TypeOK, Places, UpdatesAccounted, RawCounted, DrainDeltas, producers, owning, workers
<1>3. QED
  BY <1>1, <1>2 DEF Sound

LEMMA SignalShutdownSound ==
  ASSUME Sound, SignalShutdown
  PROVE  Sound'
<1>1. TypeOK'
  BY Bounds DEF Sound, TypeOK, Places, SignalShutdown, producers, owning, applier, workers, ApplierTypeOK
<1>2. Places' /\ UpdatesAccounted' /\ RawCounted'
  BY DEF Sound, TypeOK, Places, UpdatesAccounted, RawCounted, SignalShutdown, producers, owning, workers
<1>3. QED
  BY <1>1, <1>2 DEF Sound

LEMMA DropWorkersSound ==
  ASSUME Sound, DropWorkers
  PROVE  Sound'
<1>1. TypeOK'
  BY Bounds DEF Sound, TypeOK, Places, DropWorkers, producers, owning, applier, workers, ApplierTypeOK
<1>2. Places' /\ UpdatesAccounted' /\ RawCounted'
  BY DEF Sound, TypeOK, Places, UpdatesAccounted, RawCounted, DropWorkers, producers, owning, workers
<1>3. QED
  BY <1>1, <1>2 DEF Sound

LEMMA JoinedSound ==
  ASSUME Sound, Joined
  PROVE  Sound'
<1>1. TypeOK'
  BY Bounds DEF Sound, TypeOK, Places, Joined, producers, owning, applier, workers, ApplierTypeOK
<1>2. Places' /\ UpdatesAccounted' /\ RawCounted'
  BY DEF Sound, TypeOK, Places, UpdatesAccounted, RawCounted, Joined, producers, owning, workers
<1>3. QED
  BY <1>1, <1>2 DEF Sound

LEMMA SendRawSound ==
  ASSUME Sound, NEW e \in Event,
         \/ SendRaw(e) /\ normalizer # "done"
         \/ UNCHANGED <<raw, metrics, early>>,
         source' \in Seq(Event), bridge' \in Seq(Event),
         reader' \in {"check", "done"} \/ <<reader', source'>> = <<reader, source>>,
         UNCHANGED <<updates, deltas, normalizer, hand, retries, made, owning, shutdown, applier>>
  PROVE  Sound'
<1>1. /\ raw' \in Seq(Event) /\ Len(raw') <= RawCapacity
      /\ metrics' \in [Counters -> Nat] /\ early' \in Nat
      /\ metrics'["slot_update_dequeued"] = metrics["slot_update_dequeued"]
      /\ metrics'["slot_update_dropped"] = metrics["slot_update_dropped"]
  <2>1. CASE SendRaw(e) /\ normalizer # "done"
    BY <2>1, SendRawKeeps
  <2>2. CASE UNCHANGED <<raw, metrics, early>>
    BY <2>2 DEF Sound, TypeOK
  <2>3. QED
    BY <2>1, <2>2
<1>2. RawCounted'
  <2>1. CASE SendRaw(e) /\ normalizer # "done"
    BY <2>1, SendRawKeeps DEF RawCounted
  <2>2. CASE UNCHANGED <<raw, metrics, early>>
    BY <2>2 DEF Sound, RawCounted
  <2>3. QED
    BY <2>1, <2>2
<1>3. TypeOK'
  <2>1. reader' \in {"check", "send", "done"}
    BY DEF Sound, TypeOK
  <2>2. QED
    BY <1>1, <2>1 DEF Sound, TypeOK, owning, applier, ApplierTypeOK
<1>4. Places' /\ UpdatesAccounted'
  BY <1>1 DEF Sound, Places, UpdatesAccounted, owning
<1>5. QED
  BY <1>2, <1>3, <1>4 DEF Sound

LEMMA ReaderSendSound ==
  ASSUME Sound, ReaderSend
  PROVE  Sound'
<1>1. source \in Seq(Event) /\ source # <<>> /\ bridge \in Seq(Event)
  BY DEF Sound, TypeOK, Places, ReaderSend
<1>2. Head(source) \in Event /\ Tail(source) \in Seq(Event)
  BY <1>1, HeadTailProperties
<1>3. /\ \/ SendRaw(Head(source)) /\ normalizer # "done"
         \/ UNCHANGED <<raw, metrics, early>>
      /\ source' = Tail(source) /\ bridge' = bridge /\ reader' \in {"check", "done"}
      /\ UNCHANGED <<updates, deltas, normalizer, hand, retries, made, owning, shutdown, applier>>
  BY DEF ReaderSend
<1>4. QED
  BY <1>1, <1>2, <1>3, SendRawSound

LEMMA BridgePushSound ==
  ASSUME Sound, BridgePush
  PROVE  Sound'
<1>1. source \in Seq(Event) /\ bridge # <<>> /\ bridge \in Seq(Event)
  BY DEF Sound, TypeOK, BridgePush
<1>2. Head(bridge) \in Event /\ Tail(bridge) \in Seq(Event)
  BY <1>1, HeadTailProperties
<1>3. /\ \/ SendRaw(Head(bridge)) /\ normalizer # "done"
         \/ UNCHANGED <<raw, metrics, early>>
      /\ bridge' = Tail(bridge) /\ source' = source /\ reader' = reader
      /\ UNCHANGED <<updates, deltas, normalizer, hand, retries, made, owning, shutdown, applier>>
  BY DEF BridgePush, workers
<1>4. QED
  BY <1>1, <1>2, <1>3, SendRawSound

LEMMA TakesSound ==
  ASSUME Sound, raw # <<>>, hand = <<>>, TakeEvent, normalizer \in {"recv", "drain"},
         metrics' \in [Counters -> Nat],
         metrics'["raw_dequeued"] = metrics["raw_dequeued"] + 1,
         metrics'["raw_enqueued"] = metrics["raw_enqueued"],
         metrics'["slot_update_dequeued"] = metrics["slot_update_dequeued"],
         metrics'["slot_update_dropped"] = metrics["slot_update_dropped"],
         UNCHANGED <<producers, updates, reader, normalizer, retries, owning, shutdown, early, applier>>
  PROVE  Sound'
<1>1. /\ raw' \in Seq(Event) /\ Len(raw') = Len(raw) - 1
      /\ hand' \in Seq(Update) /\ made' \in Nat /\ made' = made + Len(hand')
      /\ deltas' \in 0 .. DeltaCapacity
  BY TakeEventYields
<1>2. Len(raw) \in Nat /\ Len(raw) <= RawCapacity /\ RawCapacity \in Nat
  BY Bounds DEF Sound, TypeOK
<1>20. Len(raw') \in Nat /\ Len(hand') \in Nat
  BY <1>1
<1>21. /\ metrics["raw_dequeued"] \in Nat /\ metrics["raw_enqueued"] \in Nat
       /\ metrics["slot_update_dequeued"] \in Nat /\ metrics["slot_update_dropped"] \in Nat
  BY DEF Sound, TypeOK, Counters
<1>22. Len(updates) \in Nat /\ Len(batch) \in Nat /\ made \in Nat
  BY DEF Sound, TypeOK
<1>23. Len(hand) = 0
  OBVIOUS
<1>3. Len(raw') <= RawCapacity
  BY <1>1, <1>2
<1>4. TypeOK'
  BY <1>1, <1>3 DEF Sound, TypeOK, producers, owning, applier, ApplierTypeOK
<1>5. Places'
  BY DEF Sound, Places, producers
<1>6. RawCounted'
  BY <1>1, <1>2, <1>20, <1>21 DEF Sound, RawCounted
<1>7. UpdatesAccounted'
  <2> DEFINE known == Len(hand) + Len(updates) + Len(batch)
                      + metrics["slot_update_dequeued"] + metrics["slot_update_dropped"]
             after == Len(hand') + Len(updates) + Len(batch)
                      + metrics["slot_update_dequeued"] + metrics["slot_update_dropped"]
  <2>1. /\ known <= made
        /\ normalizer = "recv" => known = made
    BY DEF Sound, UpdatesAccounted
  <2>2. made' = made + Len(hand') /\ after = known + Len(hand') /\ known \in Nat
    <3> DEFINE h == Len(hand)   k == Len(hand')   u == Len(updates)   b == Len(batch)
               q == metrics["slot_update_dequeued"]     r == metrics'["slot_update_dequeued"]
               d == metrics["slot_update_dropped"]      x == metrics'["slot_update_dropped"]
    <3>1. /\ h = 0 /\ k \in Nat /\ u \in Nat /\ b \in Nat /\ q \in Nat /\ d \in Nat
          /\ r = q /\ x = d
      BY <1>20, <1>21, <1>22, <1>23, Zenon
    <3>2. known = h + u + b + q + d /\ after = k + u + b + r + x
      OBVIOUS
    <3> HIDE DEF known, after, h, k, u, b, q, r, d, x
    <3>3. after = known + k /\ known \in Nat
      BY ONLY <3>1, <3>2
    <3>4. QED
      BY <1>1, <3>3 DEF k
  <2> HIDE DEF known, after
  <2>3. /\ after <= made'
        /\ normalizer = "recv" => after = made'
    BY <1>20, <1>22, <2>1, <2>2
  <2>4. QED
    BY <2>3 DEF UpdatesAccounted, owning, after
<1>8. QED
  BY <1>4, <1>5, <1>6, <1>7 DEF Sound

LEMMA ReceiveSound ==
  ASSUME Sound, Receive
  PROVE  Sound'
<1>1. metrics \in [Counters -> Nat]
  BY DEF Sound, TypeOK
<1>2. metrics' = [metrics EXCEPT
                   !["raw_dequeued"] = @ + 1,
                   !["normalize_errors"] = IF Head(raw) \in Malformed THEN @ + 1 ELSE @]
  BY DEF Receive
<1>3. /\ metrics' \in [Counters -> Nat]
      /\ metrics'["raw_dequeued"] = metrics["raw_dequeued"] + 1
      /\ metrics'["raw_enqueued"] = metrics["raw_enqueued"]
      /\ metrics'["slot_update_dequeued"] = metrics["slot_update_dequeued"]
      /\ metrics'["slot_update_dropped"] = metrics["slot_update_dropped"]
  BY <1>1, <1>2 DEF Counters
<1>4. QED
  BY <1>3, TakesSound DEF Receive

LEMMA DrainEventSound ==
  ASSUME Sound, DrainEvent
  PROVE  Sound'
<1>1. metrics \in [Counters -> Nat]
  BY DEF Sound, TypeOK
<1>2. metrics' = [metrics EXCEPT !["raw_dequeued"] = @ + 1]
  BY DEF DrainEvent, Count
<1>3. /\ metrics' \in [Counters -> Nat]
      /\ metrics'["raw_dequeued"] = metrics["raw_dequeued"] + 1
      /\ metrics'["raw_enqueued"] = metrics["raw_enqueued"]
      /\ metrics'["slot_update_dequeued"] = metrics["slot_update_dequeued"]
      /\ metrics'["slot_update_dropped"] = metrics["slot_update_dropped"]
  BY <1>1, <1>2 DEF Counters
<1>4. QED
  BY <1>3, TakesSound DEF DrainEvent

(* The first update in hand leaves it, for the queue or for nowhere.       *)
LEMMA SendsSound ==
  ASSUME Sound, hand # <<>>, hand' = Tail(hand),
         \/ updates' = updates
         \/ Len(updates) < UpdateCapacity /\ updates' = Append(updates, Head(hand)),
         normalizer' \in {"recv", "drain"}, normalizer' = "drain" => normalizer = "drain",
         retries' \in 1 .. Retries, metrics' \in [Counters -> Nat],
         metrics'["raw_dequeued"] = metrics["raw_dequeued"],
         metrics'["raw_enqueued"] = metrics["raw_enqueued"],
         metrics'["slot_update_dequeued"] = metrics["slot_update_dequeued"],
         normalizer' = "drain" => metrics' = metrics,
         normalizer' = "recv" =>
           /\ normalizer \in {"recv", "retry"}
           /\ Len(updates') + metrics'["slot_update_dropped"]
                = Len(updates) + metrics["slot_update_dropped"] + 1,
         UNCHANGED <<producers, raw, deltas, reader, made, owning, shutdown, early, applier>>
  PROVE  Sound'
<1>1. /\ hand \in Seq(Update) /\ updates \in Seq(Update)
      /\ Len(updates) <= UpdateCapacity /\ UpdateCapacity \in Nat
  BY Bounds DEF Sound, TypeOK
<1>2. Head(hand) \in Update /\ Tail(hand) \in Seq(Update) /\ Len(Tail(hand)) = Len(hand) - 1
  BY <1>1, HeadTailProperties
<1>3. updates' \in Seq(Update) /\ Len(updates') <= UpdateCapacity
  <2>1. CASE updates' = updates
    BY <1>1, <2>1
  <2>2. CASE Len(updates) < UpdateCapacity /\ updates' = Append(updates, Head(hand))
    <3>1. updates' \in Seq(Update) /\ Len(updates') = Len(updates) + 1 /\ Len(updates) \in Nat
      BY <1>1, <1>2, <2>2
    <3>2. QED
      BY <1>1, <2>2, <3>1
  <2>3. QED
    BY <2>1, <2>2
<1>4. TypeOK'
  BY <1>2, <1>3 DEF Sound, TypeOK, producers, owning, applier, ApplierTypeOK
<1>5. Places' /\ RawCounted'
  BY DEF Sound, Places, RawCounted, producers
<1>6. UpdatesAccounted'
  <2> DEFINE known == Len(hand) + Len(updates) + Len(batch)
                      + metrics["slot_update_dequeued"] + metrics["slot_update_dropped"]
             after == Len(Tail(hand)) + Len(updates') + Len(batch)
                      + metrics'["slot_update_dequeued"] + metrics'["slot_update_dropped"]
  <2>1. /\ known <= made
        /\ normalizer' = "recv" => known = made
    BY DEF Sound, UpdatesAccounted
  <2>2. /\ metrics["slot_update_dequeued"] \in Nat /\ metrics["slot_update_dropped"] \in Nat
        /\ metrics'["slot_update_dropped"] \in Nat
    BY DEF Sound, TypeOK, Counters
  <2>3. Len(batch) \in Nat /\ Len(updates) \in Nat /\ Len(hand) \in Nat /\ made \in Nat
    <3>1. batch \in Seq(Update) /\ made \in Nat
      BY DEF Sound, TypeOK
    <3>2. QED
      BY <1>1, <3>1, LenProperties
  <2>4. Len(updates') \in Nat
    BY <1>3
  <2>5. /\ Len(updates') + metrics'["slot_update_dropped"]
             <= Len(updates) + metrics["slot_update_dropped"] + 1
        /\ normalizer' = "recv" =>
             Len(updates') + metrics'["slot_update_dropped"]
               = Len(updates) + metrics["slot_update_dropped"] + 1
    <3>1. CASE normalizer' = "recv"
      BY <2>2, <2>3, <2>4, <3>1
    <3>2. CASE normalizer' = "drain"
      <4>1. Len(updates') <= Len(updates) + 1
        BY <1>1, <1>2, <2>3
      <4>2. metrics'["slot_update_dropped"] = metrics["slot_update_dropped"]
        BY <3>2
      <4>3. normalizer' # "recv"
        BY <3>2
      <4>4. QED
        BY <2>2, <2>3, <2>4, <4>1, <4>2, <4>3
    <3>3. QED
      BY <3>1, <3>2
  <2>6. Len(Tail(hand)) = Len(hand) - 1
    BY <1>2
  <2>7. QED
    <3> DEFINE h == Len(hand)      u == Len(updates)   v == Len(updates')   b == Len(batch)
               t == Len(Tail(hand))
               q == metrics["slot_update_dequeued"]     r == metrics'["slot_update_dequeued"]
               d == metrics["slot_update_dropped"]      x == metrics'["slot_update_dropped"]
    <3>1. /\ h \in Nat /\ u \in Nat /\ v \in Nat /\ b \in Nat /\ q \in Nat /\ d \in Nat /\ x \in Nat
          /\ h + u + b + q + d <= made /\ v + x <= u + d + 1 /\ t = h - 1 /\ r = q /\ made \in Nat
      BY <2>1, <2>2, <2>3, <2>4, <2>5, <2>6, Zenon
    <3>2. normalizer' = "recv" => h + u + b + q + d = made /\ v + x = u + d + 1
      BY <2>1, <2>5, Zenon
    <3> HIDE DEF h, u, v, b, t, q, r, d, x
    <3>3. t + v + b + r + x <= made
      BY ONLY <3>1
    <3>4. normalizer' = "recv" => t + v + b + r + x = made
      BY ONLY <3>1, <3>2
    <3> HIDE DEF known, after
    <3>5. after <= made /\ (normalizer' = "recv" => after = made)
      BY <3>3, <3>4 DEF t, v, b, r, x, after
    <3>6. QED
      BY <3>5 DEF UpdatesAccounted, owning, after
<1>7. QED
  BY <1>4, <1>5, <1>6 DEF Sound

LEMMA CountedOnce ==
  ASSUME metrics \in [Counters -> Nat], NEW c \in Counters, Count(c, 1)
  PROVE  /\ metrics' \in [Counters -> Nat]
         /\ \A d \in Counters : metrics'[d] = IF d = c THEN metrics[d] + 1 ELSE metrics[d]
BY DEF Count

LEMMA SendUpdateSound ==
  ASSUME Sound, SendUpdate
  PROVE  Sound'
<1>1. metrics \in [Counters -> Nat] /\ Count("slot_update_enqueued", 1)
  BY DEF Sound, TypeOK, SendUpdate
<1>2. /\ metrics' \in [Counters -> Nat]
      /\ metrics'["raw_dequeued"] = metrics["raw_dequeued"]
      /\ metrics'["raw_enqueued"] = metrics["raw_enqueued"]
      /\ metrics'["slot_update_dequeued"] = metrics["slot_update_dequeued"]
      /\ metrics'["slot_update_dropped"] = metrics["slot_update_dropped"]
  BY <1>1, CountedOnce DEF Counters
<1>3. Len(updates') = Len(updates) + 1 /\ Len(updates) \in Nat
  BY DEF Sound, TypeOK, SendUpdate
<1>4. metrics["slot_update_dropped"] \in Nat
  BY <1>1 DEF Counters
<1>5. Len(updates') + metrics'["slot_update_dropped"]
        = Len(updates) + metrics["slot_update_dropped"] + 1
  BY <1>2, <1>3, <1>4
<1>6. retries' \in 1 .. Retries
  BY Bounds DEF SendUpdate
<1>7. QED
  BY <1>2, <1>5, <1>6, SendsSound DEF SendUpdate

LEMMA GivenUp ==
  ASSUME Sound, Count("slot_update_dropped", 1)
  PROVE  /\ metrics' \in [Counters -> Nat]
         /\ metrics'["raw_dequeued"] = metrics["raw_dequeued"]
         /\ metrics'["raw_enqueued"] = metrics["raw_enqueued"]
         /\ metrics'["slot_update_dequeued"] = metrics["slot_update_dequeued"]
         /\ Len(updates) + metrics'["slot_update_dropped"]
              = Len(updates) + metrics["slot_update_dropped"] + 1
<1>1. metrics \in [Counters -> Nat] /\ Len(updates) \in Nat
  BY DEF Sound, TypeOK
<1>2. /\ metrics' \in [Counters -> Nat]
      /\ metrics'["raw_dequeued"] = metrics["raw_dequeued"]
      /\ metrics'["raw_enqueued"] = metrics["raw_enqueued"]
      /\ metrics'["slot_update_dequeued"] = metrics["slot_update_dequeued"]
      /\ metrics'["slot_update_dropped"] = metrics["slot_update_dropped"] + 1
  BY <1>1, CountedOnce DEF Counters
<1>3. metrics["slot_update_dropped"] \in Nat
  BY <1>1 DEF Counters
<1>4. QED
  BY <1>1, <1>2, <1>3

LEMMA RetryFullSound ==
  ASSUME Sound, RetryFull
  PROVE  Sound'
<1>1. CASE retries > 1
  <2>1. retries' = retries - 1 /\ UNCHANGED <<normalizer, hand, metrics>>
    BY <1>1 DEF RetryFull
  <2>2. retries' \in 1 .. Retries
    BY <1>1, <2>1, Bounds DEF Sound, TypeOK
  <2>3. TypeOK'
    BY <2>1, <2>2 DEF Sound, TypeOK, RetryFull, producers, owning, applier, ApplierTypeOK
  <2>4. Places' /\ UpdatesAccounted' /\ RawCounted'
    BY <2>1 DEF Sound, Places, UpdatesAccounted, RawCounted, RetryFull, producers, owning
  <2>5. QED
    BY <2>3, <2>4 DEF Sound
<1>2. CASE ~(retries > 1)
  <2>1. /\ retries' = Retries /\ normalizer' = "recv" /\ hand' = Tail(hand)
        /\ Count("slot_update_dropped", 1) /\ updates' = updates
        /\ normalizer = "retry" /\ hand # <<>>
    BY <1>2 DEF RetryFull, Sound, Places
  <2>2. retries' \in 1 .. Retries
    BY <2>1, Bounds
  <2>3. QED
    BY <2>1, <2>2, GivenUp, SendsSound DEF RetryFull
<1>3. QED
  BY <1>1, <1>2

LEMMA DropUpdateSound ==
  ASSUME Sound, DropUpdate
  PROVE  Sound'
<1>1. retries' \in 1 .. Retries /\ normalizer' = "recv" /\ normalizer = "recv"
  BY DEF DropUpdate, Sound, TypeOK
<1>2. QED
  BY <1>1, GivenUp, SendsSound DEF DropUpdate

LEMMA DrainSendSound ==
  ASSUME Sound, DrainSend
  PROVE  Sound'
<1>1. retries' \in 1 .. Retries /\ normalizer' = "drain" /\ metrics' = metrics
      /\ metrics \in [Counters -> Nat]
  BY DEF DrainSend, Sound, TypeOK
<1>2. QED
  BY <1>1, SendsSound DEF DrainSend

LEMMA TakeUpdateSound ==
  ASSUME Sound, TakeUpdate
  PROVE  Sound'
<1>1. /\ batch \in Seq(Update) /\ updates \in Seq(Update) /\ Len(batch) \in Nat
      /\ Len(updates) <= UpdateCapacity /\ UpdateCapacity \in Nat /\ MaxBatchSize \in Nat
      /\ updates # <<>> /\ Len(batch) < MaxBatchSize /\ Len(updates) \in Nat
      /\ batch' = Append(batch, Head(updates)) /\ updates' = Tail(updates)
  BY Bounds DEF Sound, TypeOK, TakeUpdate
<1>2. /\ Head(updates) \in Update /\ updates' \in Seq(Update)
      /\ Len(updates') = Len(updates) - 1
  BY <1>1, HeadTailProperties
<1>3. batch' \in Seq(Update) /\ Len(batch') = Len(batch) + 1
  BY <1>1, <1>2
<1>4. Len(updates') <= UpdateCapacity /\ Len(batch') <= MaxBatchSize
  BY <1>1, <1>2, <1>3
<1>5. TypeOK'
  BY <1>2, <1>3, <1>4 DEF Sound, TypeOK, TakeUpdate, producers, workers, applier, ApplierTypeOK
<1>6. Places' /\ RawCounted'
  BY DEF Sound, Places, RawCounted, TakeUpdate, producers, workers
<1>7. UpdatesAccounted'
  <2>1. /\ metrics["slot_update_dequeued"] \in Nat /\ metrics["slot_update_dropped"] \in Nat
        /\ Len(hand) \in Nat
    BY DEF Sound, TypeOK, Counters
  <2>2. UNCHANGED <<metrics, hand, made, normalizer>>
    BY DEF TakeUpdate, workers
  <2>3. QED
    BY <1>1, <1>2, <1>3, <2>1, <2>2 DEF Sound, UpdatesAccounted
<1>8. QED
  BY <1>5, <1>6, <1>7 DEF Sound

-------------------------------------------------------------------------------
(* Sequences of updates in the order of their numbers.                     *)

Rising(us) == \A i, j \in DOMAIN us : i < j => us[i].n < us[j].n

(* Updates in order, with numbers above lo and up to hi.                   *)
Segment(us, lo, hi) ==
  Rising(us) /\ \A i \in DOMAIN us : lo < us[i].n /\ us[i].n <= hi

LEMMA UpdateIn ==
  ASSUME NEW us \in Seq(Update), NEW i \in DOMAIN us
  PROVE  us[i] \in Update /\ us[i].n \in Nat /\ us[i].slot \in Slot /\ us[i].policy \in Policies
<1>1. us[i] \in Update
  OBVIOUS
<1>2. QED
  BY <1>1 DEF Update

LEMMA OnlyRises ==
  ASSUME NEW us \in Seq(Update), NEW kept \in SUBSET (DOMAIN us), NEW lo \in Nat, NEW hi \in Nat,
         Segment(us, lo, hi)
  PROVE  Segment(Only(us, kept), lo, hi)
<1> DEFINE s == Only(us, kept)
<1>1. /\ DOMAIN us = 1 .. Len(us) /\ Len(us) \in Nat /\ kept \in SUBSET (1 .. Len(us))
      /\ \A i \in kept : i \in Int /\ i \in DOMAIN us
  BY LenProperties
<1>2. \A k \in DOMAIN s : \E i \in kept : Rank(kept, i) = k /\ s[k] = us[i]
  BY OnlyIs
<1> HIDE DEF s
<1>3. \A k \in DOMAIN s : lo < s[k].n /\ s[k].n <= hi
  BY <1>1, <1>2 DEF Segment
<1>4. ASSUME NEW k \in DOMAIN s, NEW l \in DOMAIN s, k < l
      PROVE  s[k].n < s[l].n
  <2>1. PICK i \in kept : Rank(kept, i) = k /\ s[k] = us[i]
    BY <1>2
  <2>2. PICK j \in kept : Rank(kept, j) = l /\ s[l] = us[j]
    BY <1>2
  <2>3. Rank(kept, i) \in Nat /\ Rank(kept, j) \in Nat
    BY <1>1, RankType
  <2>4. i < j
    <3>1. ASSUME j < i PROVE FALSE
      <4>1. Rank(kept, j) < Rank(kept, i)
        BY <1>1, <3>1, RankOrder
      <4>2. QED
        BY <1>4, <2>1, <2>2, <2>3, <4>1
    <3>2. i # j
      BY <1>4, <2>1, <2>2, <2>3
    <3>3. i \in Int /\ j \in Int
      BY <1>1
    <3>4. QED
      BY <3>1, <3>2, <3>3
  <2>5. us[i].n < us[j].n
    BY <1>1, <2>4 DEF Segment, Rising
  <2>6. QED
    BY <2>1, <2>2, <2>5
<1>5. QED
  BY <1>3, <1>4 DEF Segment, Rising, s

LEMMA SegmentEmpty ==
  ASSUME NEW lo, NEW hi
  PROVE  Segment(<<>>, lo, hi)
BY DEF Segment, Rising

LEMMA SegmentTail ==
  ASSUME NEW us \in Seq(Update), us # <<>>, NEW lo \in Nat, NEW hi \in Nat, Segment(us, lo, hi)
  PROVE  /\ Head(us) \in Update /\ lo < Head(us).n /\ Head(us).n <= hi /\ Head(us).n \in Nat
         /\ Segment(Tail(us), Head(us).n, hi) /\ Segment(Tail(us), lo, hi)
<1>1. /\ Len(us) \in Nat /\ DOMAIN us = 1 .. Len(us) /\ 1 \in DOMAIN us /\ Head(us) = us[1]
      /\ Head(us) \in Update
  BY HeadTailProperties, LenProperties
<1>2. /\ DOMAIN Tail(us) = 1 .. Len(us) - 1
      /\ \A i \in 1 .. Len(us) - 1 : Tail(us)[i] = us[i + 1] /\ i + 1 \in DOMAIN us
  BY <1>1
<1>3. \A i \in DOMAIN us : us[i].n \in Nat
  BY UpdateIn
<1>4. \A i \in 1 .. Len(us) - 1 :
        lo < us[i + 1].n /\ us[1].n < us[i + 1].n /\ us[i + 1].n <= hi
  BY <1>1, <1>2 DEF Segment, Rising
<1>5. Rising(Tail(us))
  <2>1. \A i, j \in 1 .. Len(us) - 1 : i < j => i + 1 < j + 1 /\ i + 1 \in DOMAIN us /\ j + 1 \in DOMAIN us
    BY <1>1
  <2>2. \A i, j \in 1 .. Len(us) - 1 : i < j => us[i + 1].n < us[j + 1].n
    BY <2>1 DEF Segment, Rising
  <2>3. QED
    BY <1>2, <2>2 DEF Rising
<1>6. QED
  BY <1>1, <1>2, <1>3, <1>4, <1>5 DEF Segment

LEMMA SegmentAppend ==
  ASSUME NEW us \in Seq(Update), NEW u \in Update, NEW lo \in Nat, NEW hi \in Nat,
         Segment(us, lo, hi), lo <= hi, hi < u.n
  PROVE  Segment(Append(us, u), lo, u.n)
<1> DEFINE s == Append(us, u)
<1>1. /\ Len(us) \in Nat /\ DOMAIN us = 1 .. Len(us) /\ DOMAIN s = 1 .. Len(us) + 1
      /\ s[Len(us) + 1] = u /\ \A i \in DOMAIN us : s[i] = us[i]
  BY LenProperties
<1>2. u.n \in Nat /\ \A i \in DOMAIN us : us[i].n \in Nat
  BY UpdateIn DEF Update
<1> HIDE DEF s
<1>3. \A i \in DOMAIN s : i = Len(us) + 1 \/ i \in DOMAIN us
  BY <1>1
<1>4. \A i \in DOMAIN s : lo < s[i].n /\ s[i].n <= u.n
  BY <1>1, <1>2, <1>3 DEF Segment
<1>5. ASSUME NEW i \in DOMAIN s, NEW j \in DOMAIN s, i < j
      PROVE  s[i].n < s[j].n
  <2>1. i \in DOMAIN us
    BY <1>1, <1>3, <1>5
  <2>2. CASE j = Len(us) + 1
    BY <1>1, <1>2, <2>1, <2>2 DEF Segment
  <2>3. CASE j \in DOMAIN us
    BY <1>1, <1>5, <2>1, <2>3 DEF Segment, Rising
  <2>4. QED
    BY <1>3, <2>2, <2>3
<1>6. QED
  BY <1>4, <1>5 DEF Segment, Rising, s

-------------------------------------------------------------------------------
(* The applier: a batch of updates that come after all it has seen.        *)

(* c: a number that no update seen so far exceeds.  What a failed flush    *)
(* left staged was not applied, and is newer than all that was.            *)
Follows(c) ==
  /\ ApplierTypeOK
  /\ SlotsFollowUpdates
  /\ \A r \in receipts : r.n <= c
  /\ \A r \in receipts : r.applied => r.version <= versions[r.slot]
  /\ Segment(staged, 0, c)
  /\ \A r \in receipts, i \in DOMAIN staged : r.applied => r.n < staged[i].n
  /\ uploadFaults = 0 => staged = <<>>

LEMMA AtIs ==
  ASSUME NEW us \in Seq(Update), NEW s
  PROVE  /\ At(us, s) \in SUBSET (1 .. Len(us)) /\ Len(us) \in Nat /\ DOMAIN us = 1 .. Len(us)
         /\ \A i \in At(us, s) : i \in Nat /\ us[i].slot = s
         /\ At(us, s) # {} => Max(At(us, s)) \in At(us, s) /\ \A i \in At(us, s) : i <= Max(At(us, s))
<1>1. At(us, s) \in SUBSET (1 .. Len(us)) /\ Len(us) \in Nat /\ DOMAIN us = 1 .. Len(us)
  BY LenProperties DEF At
<1>2. At(us, s) # {} => Max(At(us, s)) \in At(us, s) /\ \A i \in At(us, s) : i <= Max(At(us, s))
  BY <1>1, MaxBelow
<1>3. QED
  BY <1>1, <1>2 DEF At

LEMMA UploadedIs ==
  ASSUME registry \in [Slot -> Nat], NEW us \in Seq(Update)
  PROVE  /\ Uploaded(us) \in [Slot -> Nat]
         /\ \A s \in Slot :
              \/ At(us, s) = {} /\ Uploaded(us)[s] = registry[s]
              \/ \E m \in At(us, s) :
                   Uploaded(us)[s] = us[m].n /\ \A i \in At(us, s) : i <= m
<1>1. \A s \in Slot : Uploaded(us)[s] = IF At(us, s) = {} THEN registry[s] ELSE us[Max(At(us, s))].n
  BY DEF Uploaded
<1>2. ASSUME NEW s \in Slot
      PROVE  /\ Uploaded(us)[s] \in Nat
             /\ \/ At(us, s) = {} /\ Uploaded(us)[s] = registry[s]
                \/ \E m \in At(us, s) : Uploaded(us)[s] = us[m].n /\ \A i \in At(us, s) : i <= m
  <2>1. CASE At(us, s) = {}
    BY <1>1, <2>1
  <2>2. CASE At(us, s) # {}
    <3>1. Max(At(us, s)) \in At(us, s) /\ \A i \in At(us, s) : i <= Max(At(us, s))
      BY <2>2, AtIs
    <3>2. Max(At(us, s)) \in DOMAIN us
      BY <3>1 DEF At
    <3>3. us[Max(At(us, s))].n \in Nat
      BY <3>2, UpdateIn
    <3>4. QED
      BY <1>1, <2>2, <3>1, <3>3
  <2>3. QED
    BY <2>1, <2>2
<1>3. Uploaded(us) \in [Slot -> Nat]
  <2>1. DOMAIN Uploaded(us) = Slot /\ Uploaded(us) = [s \in Slot |-> Uploaded(us)[s]]
    BY DEF Uploaded
  <2>2. QED
    BY <1>2, <2>1
<1>4. QED
  BY <1>2, <1>3

(* The queue of a flush: what was staged, then the batch.                  *)
LEMMA QueueIs ==
  ASSUME NEW c \in Nat, NEW d \in Nat, Follows(c), NEW valid \in Seq(Update), Segment(valid, c, d), c <= d
  PROVE  /\ Queue(valid) \in Seq(Update)
         /\ Segment(Queue(valid), 0, d)
         /\ DOMAIN Queue(valid) = 1 .. Len(staged) + Len(valid)
         /\ Len(staged) \in Nat /\ Len(valid) \in Nat
         /\ \A i \in DOMAIN valid :
              Len(staged) + i \in DOMAIN Queue(valid) /\ Queue(valid)[Len(staged) + i] = valid[i]
         /\ \A r \in receipts, i \in DOMAIN Queue(valid) : r.applied => r.n < Queue(valid)[i].n
<1> DEFINE q == Queue(valid)
<1>1. /\ staged \in Seq(Update) /\ Len(staged) \in Nat /\ Len(valid) \in Nat
      /\ DOMAIN staged = 1 .. Len(staged) /\ DOMAIN valid = 1 .. Len(valid)
      /\ Segment(staged, 0, c) /\ \A r \in receipts : r.n <= c
      /\ \A r \in receipts, i \in DOMAIN staged : r.applied => r.n < staged[i].n
      /\ \A r \in receipts : r.n \in Nat
  BY LenProperties DEF Follows, ApplierTypeOK, StreamReceipt
<1>2. /\ q \in Seq(Update) /\ DOMAIN q = 1 .. Len(staged) + Len(valid)
      /\ \A i \in DOMAIN staged : q[i] = staged[i]
      /\ \A i \in DOMAIN valid : Len(staged) + i \in DOMAIN q /\ q[Len(staged) + i] = valid[i]
  <2>1. q = staged \o valid
    BY DEF Queue
  <2>2. q \in Seq(Update) /\ Len(q) = Len(staged) + Len(valid) /\ DOMAIN q = 1 .. Len(staged) + Len(valid)
    BY <1>1, <2>1, ConcatProperties
  <2>3. \A i \in DOMAIN staged : q[i] = staged[i]
    BY <1>1, <2>1
  <2>4. \A i \in DOMAIN valid : Len(staged) + i \in 1 .. Len(staged) + Len(valid)
    BY <1>1
  <2>5. \A i \in DOMAIN valid : q[Len(staged) + i] = valid[i]
    BY <1>1, <2>1
  <2>6. QED
    BY <2>2, <2>3, <2>4, <2>5
<1> HIDE DEF q
<1>3. \A i \in DOMAIN q : \/ i \in DOMAIN staged
                          \/ \E j \in DOMAIN valid : i = Len(staged) + j
  <2> SUFFICES ASSUME NEW i \in DOMAIN q, i \notin DOMAIN staged
               PROVE  \E j \in DOMAIN valid : i = Len(staged) + j
    OBVIOUS
  <2>1. i - Len(staged) \in DOMAIN valid /\ i = Len(staged) + (i - Len(staged))
    BY <1>1, <1>2
  <2>2. QED
    BY <2>1
<1>4. /\ \A i \in DOMAIN staged : 0 < staged[i].n /\ staged[i].n <= c /\ staged[i].n \in Nat
      /\ \A i \in DOMAIN valid : c < valid[i].n /\ valid[i].n <= d /\ valid[i].n \in Nat
  BY <1>1, UpdateIn DEF Segment
<1>5. \A i \in DOMAIN q : 0 < q[i].n /\ q[i].n <= d
  BY <1>2, <1>3, <1>4
<1>6. ASSUME NEW i \in DOMAIN q, NEW j \in DOMAIN q, i < j
      PROVE  q[i].n < q[j].n
  <2>1. CASE i \in DOMAIN staged /\ j \in DOMAIN staged
    BY <1>1, <1>2, <1>6, <2>1 DEF Segment, Rising
  <2>2. CASE i \in DOMAIN staged /\ j \notin DOMAIN staged
    <3>1. PICK k \in DOMAIN valid : j = Len(staged) + k
      BY <1>3, <2>2
    <3>2. q[i].n <= c /\ c < q[j].n /\ q[i].n \in Nat /\ q[j].n \in Nat
      BY <1>2, <1>4, <2>2, <3>1
    <3>3. QED
      BY <3>2
  <2>3. CASE i \notin DOMAIN staged /\ j \in DOMAIN staged
    BY <1>1, <1>2, <1>6, <2>3
  <2>4. CASE i \notin DOMAIN staged /\ j \notin DOMAIN staged
    <3>1. PICK k \in DOMAIN valid : i = Len(staged) + k
      BY <1>3, <2>4
    <3>2. PICK l \in DOMAIN valid : j = Len(staged) + l
      BY <1>3, <2>4
    <3>3. k < l
      BY <1>1, <1>6, <3>1, <3>2
    <3>4. valid[k].n < valid[l].n
      BY <3>3 DEF Segment, Rising
    <3>5. QED
      BY <1>2, <3>1, <3>2, <3>4
  <2>5. QED
    BY <2>1, <2>2, <2>3, <2>4
<1>7. ASSUME NEW r \in receipts, NEW i \in DOMAIN q, r.applied
      PROVE  r.n < q[i].n
  <2>1. CASE i \in DOMAIN staged
    BY <1>1, <1>2, <1>7, <2>1
  <2>2. CASE i \notin DOMAIN staged
    <3>1. PICK k \in DOMAIN valid : i = Len(staged) + k
      BY <1>3, <2>2
    <3>2. r.n <= c /\ c < q[i].n /\ r.n \in Nat /\ q[i].n \in Nat
      BY <1>1, <1>2, <1>4, <3>1
    <3>3. QED
      BY <3>2
  <2>3. QED
    BY <2>1, <2>2
<1>8. Segment(q, 0, d)
  BY <1>5, <1>6 DEF Segment, Rising
<1>9. QED
  BY <1>1, <1>2, <1>7, <1>8 DEF q

(* What is copied of the queue does not put a slot back.                   *)
LEMMA UploadedForward ==
  ASSUME NEW c, Follows(c), NEW us \in Seq(Update),
         \A r \in receipts, i \in DOMAIN us : r.applied => r.n < us[i].n,
         NEW r \in receipts, r.applied
  PROVE  r.n <= Uploaded(us)[r.slot]
<1>1. /\ r \in StreamReceipt /\ r.slot \in Slot /\ r.n \in Nat /\ r.n <= registry[r.slot]
      /\ registry \in [Slot -> Nat]
  BY DEF Follows, ApplierTypeOK, SlotsFollowUpdates, AppliedNotOverwritten, StreamReceipt
<1>2. CASE At(us, r.slot) = {} /\ Uploaded(us)[r.slot] = registry[r.slot]
  BY <1>1, <1>2
<1>3. ASSUME NEW m \in At(us, r.slot), Uploaded(us)[r.slot] = us[m].n
      PROVE  r.n <= Uploaded(us)[r.slot]
  <2>1. m \in DOMAIN us
    BY DEF At
  <2>2. r.n < us[m].n /\ us[m].n \in Nat
    BY <2>1, UpdateIn
  <2>3. QED
    BY <1>1, <1>3, <2>2
<1>4. QED
  BY <1>1, <1>2, <1>3, UploadedIs

(* Receipts of updates that were not applied, between lo and hi.           *)
Refusals(R, lo, hi) ==
  \A r \in R : r \in StreamReceipt /\ ~r.applied /\ lo < r.n /\ r.n <= hi

LEMMA AppliedIs ==
  ASSUME versions \in [Slot -> Nat], NEW valid \in Seq(Update)
  PROVE  /\ \A i \in DOMAIN valid :
              /\ Rank(At(valid, valid[i].slot), i) \in Nat
              /\ [n |-> valid[i].n, slot |-> valid[i].slot, applied |-> TRUE,
                  version |-> versions[valid[i].slot] + Rank(At(valid, valid[i].slot), i)]
                   \in AppliedReceipts(valid)
         /\ \A r \in AppliedReceipts(valid) :
              /\ r \in StreamReceipt /\ r.applied
              /\ \E i \in DOMAIN valid :
                   /\ r.n = valid[i].n /\ r.slot = valid[i].slot
                   /\ r.version = versions[valid[i].slot] + Rank(At(valid, valid[i].slot), i)
<1> DEFINE made1(i) == [n |-> valid[i].n, slot |-> valid[i].slot, applied |-> TRUE,
                        version |-> versions[valid[i].slot] + Rank(At(valid, valid[i].slot), i)]
<1>1. AppliedReceipts(valid) = {made1(i) : i \in DOMAIN valid}
  BY DEF AppliedReceipts, Rank
<1>2. ASSUME NEW i \in DOMAIN valid
      PROVE  /\ Rank(At(valid, valid[i].slot), i) \in Nat
             /\ made1(i) \in StreamReceipt /\ made1(i).applied
             /\ made1(i).n = valid[i].n /\ made1(i).slot = valid[i].slot
             /\ made1(i).version = versions[valid[i].slot] + Rank(At(valid, valid[i].slot), i)
  <2>1. valid[i].n \in Nat /\ valid[i].slot \in Slot
    BY UpdateIn
  <2>2. At(valid, valid[i].slot) \in SUBSET (1 .. Len(valid)) /\ Len(valid) \in Nat
    BY AtIs
  <2>3. Rank(At(valid, valid[i].slot), i) \in Nat
    BY <2>2, RankType
  <2>4. versions[valid[i].slot] + Rank(At(valid, valid[i].slot), i) \in Nat
    BY <2>1, <2>3
  <2>5. QED
    BY <2>1, <2>3, <2>4 DEF StreamReceipt
<1> HIDE DEF made1
<1>3. \A i \in DOMAIN valid : made1(i) \in AppliedReceipts(valid)
  BY <1>1
<1>4. \A r \in AppliedReceipts(valid) : \E i \in DOMAIN valid : r = made1(i)
  BY <1>1
<1>5. \A r \in AppliedReceipts(valid) :
        /\ r \in StreamReceipt /\ r.applied
        /\ \E i \in DOMAIN valid :
             /\ r.n = valid[i].n /\ r.slot = valid[i].slot
             /\ r.version = versions[valid[i].slot] + Rank(At(valid, valid[i].slot), i)
  <2> SUFFICES ASSUME NEW r \in AppliedReceipts(valid)
               PROVE  /\ r \in StreamReceipt /\ r.applied
                      /\ \E i \in DOMAIN valid :
                           /\ r.n = valid[i].n /\ r.slot = valid[i].slot
                           /\ r.version = versions[valid[i].slot] + Rank(At(valid, valid[i].slot), i)
    OBVIOUS
  <2>1. PICK i \in DOMAIN valid : r = made1(i)
    BY <1>4
  <2>2. QED
    BY <1>2, <2>1
<1>6. QED
  BY <1>2, <1>3, <1>5 DEF made1

(* A place in a batch is counted after those before it, up to all of them. *)
LEMMA CountAt ==
  ASSUME NEW us \in Seq(Update), NEW i \in DOMAIN us
  PROVE  LET s == us[i].slot
         IN  /\ i \in At(us, s)
             /\ Rank(At(us, s), i) \in Nat /\ Rank(At(us, s), i) > 0
             /\ Cardinality(At(us, s)) \in Nat /\ Rank(At(us, s), i) <= Cardinality(At(us, s))
<1> DEFINE s == us[i].slot
<1>1. At(us, s) \in SUBSET (1 .. Len(us)) /\ Len(us) \in Nat /\ i \in At(us, s) /\ i \in Nat /\ 0 < i
  <2>1. i \in 1 .. Len(us) /\ Len(us) \in Nat
    BY LenProperties
  <2>2. i \in At(us, s)
    BY DEF At
  <2>3. QED
    BY <2>1, <2>2, AtIs
<1> HIDE DEF s
<1>2. Rank(At(us, s), 0) = 0 /\ Rank(At(us, s), 0) < Rank(At(us, s), i)
  <2>1. Rank(At(us, s), 0) = 0
    BY <1>1, RankEnds
  <2>2. 0 \in Int
    OBVIOUS
  <2>3. Rank(At(us, s), 0) < Rank(At(us, s), i)
    BY <1>1, <2>2, RankOrder
  <2>4. QED
    BY <2>1, <2>3
<1>3. /\ Rank(At(us, s), i) \in Nat /\ Cardinality(At(us, s)) \in Nat
      /\ Rank(At(us, s), i) <= Cardinality(At(us, s))
  BY <1>1, RankType
<1>4. Rank(At(us, s), i) > 0
  BY <1>2, <1>3
<1>5. QED
  BY <1>1, <1>3, <1>4 DEF s

LEMMA FlushVersions ==
  ASSUME NEW c \in Nat, NEW d \in Nat, Follows(c), c <= d,
         NEW valid \in Seq(Update), Segment(valid, c, d),
         NEW refused, Refusals(refused, c, d), FlushSucceeds(valid, refused)
  PROVE  /\ VersionsFollowOrder'
         /\ versions' \in [Slot -> Nat]
         /\ \A r \in receipts' : r.applied => r.version <= versions'[r.slot]
<1>1. /\ receipts' = receipts \cup refused \cup AppliedReceipts(valid)
      /\ versions' = [s \in Slot |-> versions[s] + Cardinality(At(valid, s))]
  BY DEF FlushSucceeds
<1>2. /\ versions \in [Slot -> Nat] /\ receipts \subseteq StreamReceipt
      /\ \A r \in receipts : r.n <= c /\ (r.applied => r.version <= versions[r.slot])
      /\ VersionsFollowOrder
  BY DEF Follows, ApplierTypeOK, SlotsFollowUpdates
<1>3. \A s \in Slot : Cardinality(At(valid, s)) \in Nat
  BY AtIs, RankType
<1>4. versions' \in [Slot -> Nat] /\ \A s \in Slot : versions'[s] >= versions[s]
  BY <1>1, <1>2, <1>3
<1>5. \A r \in AppliedReceipts(valid) :
        \E i \in DOMAIN valid :
          /\ r.n = valid[i].n /\ r.slot = valid[i].slot
          /\ r.version = versions[valid[i].slot] + Rank(At(valid, valid[i].slot), i)
  BY <1>2, AppliedIs
<1>6. ASSUME NEW r \in receipts', r.applied
      PROVE  r.version <= versions'[r.slot]
  <2>1. CASE r \in receipts
    <3>1. r.slot \in Slot /\ r.version \in Nat /\ r.version <= versions[r.slot]
      BY <1>2, <1>6, <2>1 DEF StreamReceipt
    <3>2. QED
      BY <1>2, <1>4, <3>1
  <2>2. CASE r \in AppliedReceipts(valid)
    <3>1. PICK i \in DOMAIN valid :
            /\ r.n = valid[i].n /\ r.slot = valid[i].slot
            /\ r.version = versions[valid[i].slot] + Rank(At(valid, valid[i].slot), i)
      BY <1>5, <2>2
    <3>2. valid[i].slot \in Slot
      BY UpdateIn
    <3>3. /\ Rank(At(valid, valid[i].slot), i) \in Nat /\ Cardinality(At(valid, valid[i].slot)) \in Nat
          /\ Rank(At(valid, valid[i].slot), i) <= Cardinality(At(valid, valid[i].slot))
      BY CountAt
    <3>4. versions'[r.slot] = versions[r.slot] + Cardinality(At(valid, r.slot)) /\ versions[r.slot] \in Nat
      BY <1>1, <1>2, <3>1, <3>2
    <3>5. QED
      BY <3>1, <3>3, <3>4
  <2>3. QED
    BY <1>1, <1>6, <2>1, <2>2 DEF Refusals
<1>7. ASSUME NEW r \in receipts', NEW q \in receipts', r.applied, q.applied, r.slot = q.slot, r.n < q.n
      PROVE  r.version < q.version
  <2>1. CASE r \in receipts /\ q \in receipts
    BY <1>2, <1>7, <2>1 DEF VersionsFollowOrder
  <2>2. CASE r \in receipts /\ q \in AppliedReceipts(valid)
    <3>1. PICK i \in DOMAIN valid :
            /\ q.n = valid[i].n /\ q.slot = valid[i].slot
            /\ q.version = versions[valid[i].slot] + Rank(At(valid, valid[i].slot), i)
      BY <1>5, <2>2
    <3>2. Rank(At(valid, valid[i].slot), i) \in Nat /\ Rank(At(valid, valid[i].slot), i) > 0
      BY CountAt
    <3>3. r.version \in Nat /\ r.version <= versions[r.slot] /\ versions[r.slot] \in Nat
      BY <1>2, <1>7, <2>2 DEF StreamReceipt
    <3>4. QED
      BY <1>7, <3>1, <3>2, <3>3
  <2>3. CASE r \in AppliedReceipts(valid) /\ q \in receipts
    <3>1. PICK i \in DOMAIN valid : r.n = valid[i].n
      BY <1>5, <2>3
    <3>2. c < valid[i].n /\ valid[i].n \in Nat
      BY UpdateIn DEF Segment
    <3>3. q.n <= c /\ q.n \in Nat
      BY <1>2, <2>3 DEF StreamReceipt
    <3>4. QED
      BY <1>7, <3>1, <3>2, <3>3
  <2>4. CASE r \in AppliedReceipts(valid) /\ q \in AppliedReceipts(valid)
    <3>1. PICK i \in DOMAIN valid :
            /\ r.n = valid[i].n /\ r.slot = valid[i].slot
            /\ r.version = versions[valid[i].slot] + Rank(At(valid, valid[i].slot), i)
      BY <1>5, <2>4
    <3>2. PICK j \in DOMAIN valid :
            /\ q.n = valid[j].n /\ q.slot = valid[j].slot
            /\ q.version = versions[valid[j].slot] + Rank(At(valid, valid[j].slot), j)
      BY <1>5, <2>4
    <3>3. i \in Nat /\ j \in Nat /\ valid[i].n \in Nat /\ valid[j].n \in Nat
      BY UpdateIn, LenProperties
    <3>4. i < j
      <4>1. ASSUME j < i PROVE FALSE
        <5>1. valid[j].n < valid[i].n
          BY <4>1 DEF Segment, Rising
        <5>2. QED
          BY <1>7, <3>1, <3>2, <3>3, <5>1
      <4>2. i # j
        BY <1>7, <3>1, <3>2, <3>3
      <4>3. QED
        BY <3>3, <4>1, <4>2
    <3>5. /\ At(valid, r.slot) \in SUBSET (1 .. Len(valid)) /\ Len(valid) \in Nat
          /\ j \in At(valid, r.slot) /\ i \in Int
      <4>1. j \in At(valid, valid[j].slot)
        BY CountAt
      <4>2. QED
        BY <1>7, <3>2, <3>3, <4>1, AtIs
    <3>6. Rank(At(valid, r.slot), i) < Rank(At(valid, r.slot), j)
      BY <3>4, <3>5, RankOrder
    <3>7. Rank(At(valid, r.slot), i) \in Nat /\ Rank(At(valid, r.slot), j) \in Nat
      BY <3>5, RankType
    <3>8. r.slot \in Slot /\ versions[r.slot] \in Nat
      BY <1>2, <3>1, UpdateIn
    <3>9. r.version = versions[r.slot] + Rank(At(valid, r.slot), i)
          /\ q.version = versions[r.slot] + Rank(At(valid, r.slot), j)
      BY <1>7, <3>1, <3>2
    <3>10. QED
      BY <3>6, <3>7, <3>8, <3>9
  <2>5. QED
    BY <1>1, <1>7, <2>1, <2>2, <2>3, <2>4 DEF Refusals
<1>8. QED
  BY <1>4, <1>6, <1>7 DEF VersionsFollowOrder

LEMMA FlushSucceedsFollows ==
  ASSUME NEW c \in Nat, NEW d \in Nat, Follows(c), c <= d,
         NEW valid \in Seq(Update), Segment(valid, c, d),
         NEW refused, Refusals(refused, c, d), FlushSucceeds(valid, refused)
  PROVE  Follows(d)'
<1> DEFINE q == Queue(valid)
<1>1. /\ receipts' = receipts \cup refused \cup AppliedReceipts(valid)
      /\ versions' = [s \in Slot |-> versions[s] + Cardinality(At(valid, s))]
      /\ registry' = Uploaded(q) /\ staged' = <<>> /\ inFlight' = TRUE
      /\ uploadFaults' = uploadFaults
  BY DEF FlushSucceeds
<1>2. /\ registry \in [Slot -> Nat] /\ versions \in [Slot -> Nat] /\ receipts \subseteq StreamReceipt
      /\ uploadFaults \in 0 .. MaxUploadFaults
      /\ \A r \in receipts : r.n <= c
      /\ DeviceMatchesVersion /\ (uploadFaults = 0 => staged = <<>>)
  BY DEF Follows, ApplierTypeOK, SlotsFollowUpdates
<1>3. /\ q \in Seq(Update) /\ Segment(q, 0, d)
      /\ \A r \in receipts, i \in DOMAIN q : r.applied => r.n < q[i].n
      /\ Len(staged) \in Nat
      /\ \A i \in DOMAIN valid : Len(staged) + i \in DOMAIN q /\ q[Len(staged) + i] = valid[i]
  BY QueueIs
<1> HIDE DEF q
<1>4. /\ \A r \in AppliedReceipts(valid) : r \in StreamReceipt /\ r.applied
      /\ \A r \in AppliedReceipts(valid) : \E i \in DOMAIN valid : r.n = valid[i].n /\ r.slot = valid[i].slot
  BY <1>2, AppliedIs
<1>5. VersionsFollowOrder' /\ versions' \in [Slot -> Nat]
      /\ \A r \in receipts' : r.applied => r.version <= versions'[r.slot]
  BY FlushVersions
<1>6. ApplierTypeOK'
  <2>1. registry' \in [Slot -> Nat]
    BY <1>1, <1>2, <1>3, UploadedIs
  <2>2. receipts' \subseteq StreamReceipt
    BY <1>1, <1>2, <1>4 DEF Refusals
  <2>3. staged' \in Seq(Update) /\ inFlight' \in BOOLEAN
    BY <1>1
  <2>4. QED
    BY <1>1, <1>2, <1>5, <2>1, <2>2, <2>3 DEF ApplierTypeOK
<1>7. \A r \in receipts' : r.n <= d
  <2> SUFFICES ASSUME NEW r \in receipts'
               PROVE  r.n <= d
    OBVIOUS
  <2>1. CASE r \in receipts
    BY <1>2, <2>1 DEF StreamReceipt
  <2>2. CASE r \in AppliedReceipts(valid)
    BY <1>4, <2>2 DEF Segment
  <2>3. QED
    BY <1>1, <2>1, <2>2 DEF Refusals
<1>8. AppliedNotOverwritten'
  <2> SUFFICES ASSUME NEW r \in receipts', r.applied
               PROVE  r.n <= Uploaded(q)[r.slot]
    BY <1>1 DEF AppliedNotOverwritten
  <2>1. CASE r \in receipts
    BY <1>3, <2>1, UploadedForward
  <2>2. CASE r \in AppliedReceipts(valid)
    <3>1. PICK i \in DOMAIN valid : r.n = valid[i].n /\ r.slot = valid[i].slot
      BY <1>4, <2>2
    <3>2. valid[i].slot \in Slot /\ i \in Nat
      BY UpdateIn, LenProperties
    <3>3. Len(staged) + i \in At(q, r.slot) /\ q[Len(staged) + i].n = r.n
      BY <1>3, <3>1 DEF At
    <3>4. PICK m \in At(q, r.slot) :
            Uploaded(q)[r.slot] = q[m].n /\ \A j \in At(q, r.slot) : j <= m
      BY <1>2, <1>3, <3>1, <3>2, <3>3, UploadedIs
    <3>5. m \in DOMAIN q /\ m \in Nat /\ Len(staged) + i \in DOMAIN q /\ Len(staged) + i \in Nat
          /\ Len(staged) + i <= m
      BY <1>3, <3>2, <3>3, <3>4, AtIs DEF At
    <3>6. q[m].n \in Nat /\ q[Len(staged) + i].n \in Nat
      BY <1>3, <3>5, UpdateIn
    <3>7. CASE Len(staged) + i = m
      BY <3>3, <3>4, <3>6, <3>7
    <3>8. CASE Len(staged) + i # m
      <4>1. Len(staged) + i < m
        BY <3>5, <3>8
      <4>2. q[Len(staged) + i].n < q[m].n
        BY <1>3, <3>5, <4>1 DEF Segment, Rising
      <4>3. QED
        BY <3>3, <3>4, <3>6, <4>2
    <3>9. QED
      BY <3>7, <3>8
  <2>3. QED
    BY <1>1, <2>1, <2>2 DEF Refusals
<1>9. DeviceMatchesVersion'
  <2> SUFFICES ASSUME uploadFaults = 0, NEW s \in Slot
               PROVE  IF versions'[s] = 0 THEN registry'[s] = 0
                      ELSE \E r \in receipts' : /\ r.applied /\ r.slot = s
                                                /\ r.version = versions'[s] /\ r.n = registry'[s]
    BY <1>1 DEF DeviceMatchesVersion
  <2>1. q = valid
    BY <1>2 DEF q, Queue
  <2>2. IF versions[s] = 0 THEN registry[s] = 0
        ELSE \E r \in receipts : /\ r.applied /\ r.slot = s
                                 /\ r.version = versions[s] /\ r.n = registry[s]
    BY <1>2 DEF DeviceMatchesVersion
  <2>3. versions'[s] = versions[s] + Cardinality(At(valid, s)) /\ versions[s] \in Nat
    BY <1>1, <1>2
  <2>4. CASE At(valid, s) = {} /\ Uploaded(q)[s] = registry[s]
    <3>1. versions'[s] = versions[s] /\ registry'[s] = registry[s]
      BY <1>1, <2>3, <2>4, FS_EmptySet
    <3>2. receipts \subseteq receipts'
      BY <1>1
    <3>3. QED
      BY <2>2, <3>1, <3>2
  <2>5. ASSUME NEW m \in At(valid, s), Uploaded(q)[s] = valid[m].n, \A i \in At(valid, s) : i <= m
        PROVE  \E r \in receipts' : /\ r.applied /\ r.slot = s
                                    /\ r.version = versions'[s] /\ r.n = registry'[s]
    <3>1. m \in DOMAIN valid /\ valid[m].slot = s
      BY DEF At
    <3>2. {j \in At(valid, s) : j <= m} = At(valid, s)
      BY <2>5
    <3>3. Rank(At(valid, s), m) = Cardinality(At(valid, s))
      BY <3>2 DEF Rank
    <3> DEFINE r == [n |-> valid[m].n, slot |-> valid[m].slot, applied |-> TRUE,
                     version |-> versions[valid[m].slot] + Rank(At(valid, valid[m].slot), m)]
    <3>4. r \in AppliedReceipts(valid)
      BY <1>2, <3>1, AppliedIs
    <3>5. r.applied /\ r.slot = s /\ r.n = registry'[s] /\ r.version = versions'[s]
      BY <1>1, <2>3, <2>5, <3>1, <3>3
    <3> HIDE DEF r
    <3>6. QED
      BY <1>1, <3>4, <3>5
  <2>6. ASSUME NEW m \in At(valid, s)
        PROVE  versions'[s] # 0
    <3>1. m \in DOMAIN valid /\ valid[m].slot = s
      BY DEF At
    <3>2. /\ Rank(At(valid, s), m) \in Nat /\ Rank(At(valid, s), m) > 0
          /\ Cardinality(At(valid, s)) \in Nat /\ Rank(At(valid, s), m) <= Cardinality(At(valid, s))
      BY <3>1, CountAt
    <3>3. QED
      BY <2>3, <3>2
  <2>7. \/ At(valid, s) = {} /\ Uploaded(q)[s] = registry[s]
        \/ \E m \in At(valid, s) : Uploaded(q)[s] = valid[m].n /\ \A i \in At(valid, s) : i <= m
    BY <1>2, <2>1, UploadedIs
  <2>8. QED
    BY <2>4, <2>5, <2>6, <2>7
<1>10. Segment(staged', 0, d) /\ DOMAIN staged' = {}
  BY <1>1, SegmentEmpty
<1>11. QED
  BY <1>1, <1>5, <1>6, <1>7, <1>8, <1>9, <1>10 DEF Follows, SlotsFollowUpdates

(* Receipts of updates that were not applied change nothing else.          *)
LEMMA RefusalsFollow ==
  ASSUME NEW c \in Nat, NEW d \in Nat, Follows(c), c <= d, NEW R, Refusals(R, c, d),
         receipts' = receipts \cup R, UNCHANGED versions
  PROVE  /\ receipts' \subseteq StreamReceipt /\ versions' \in [Slot -> Nat]
         /\ \A r \in receipts' : r.n <= d
         /\ \A r \in receipts' : r.applied => r \in receipts
         /\ \A r \in receipts' : r.applied => r.version <= versions'[r.slot]
         /\ VersionsFollowOrder'
<1>1. /\ receipts \subseteq StreamReceipt /\ versions \in [Slot -> Nat]
      /\ \A r \in receipts : r.n <= c /\ (r.applied => r.version <= versions[r.slot])
      /\ VersionsFollowOrder
  BY DEF Follows, ApplierTypeOK, SlotsFollowUpdates
<1>2. receipts' \subseteq StreamReceipt /\ \A r \in receipts' : r.applied => r \in receipts
  BY <1>1 DEF Refusals
<1>3. \A r \in receipts' : r.n <= d
  <2>1. \A r \in receipts : r.n <= d
    BY <1>1 DEF StreamReceipt
  <2>2. QED
    BY <2>1 DEF Refusals
<1>4. \A r \in receipts' : r.applied => r.version <= versions'[r.slot]
  BY <1>1, <1>2
<1>5. VersionsFollowOrder'
  BY <1>1, <1>2 DEF VersionsFollowOrder
<1>6. QED
  BY <1>1, <1>2, <1>3, <1>4, <1>5

LEMMA DroppedIs ==
  ASSUME NEW us \in Seq(Update), NEW I \in SUBSET (DOMAIN us), NEW lo \in Nat, NEW hi \in Nat,
         Segment(us, lo, hi)
  PROVE  Refusals({DroppedReceipt(us[i]) : i \in I}, lo, hi)
<1>1. \A i \in I : us[i].n \in Nat /\ us[i].slot \in Slot /\ lo < us[i].n /\ us[i].n <= hi
  BY UpdateIn DEF Segment
<1>2. \A i \in I : /\ DroppedReceipt(us[i]) \in StreamReceipt /\ ~DroppedReceipt(us[i]).applied
                  /\ DroppedReceipt(us[i]).n = us[i].n
  BY <1>1 DEF DroppedReceipt, StreamReceipt
<1>3. QED
  BY <1>1, <1>2 DEF Refusals

LEMMA FlushFailsFollows ==
  ASSUME NEW c \in Nat, NEW d \in Nat, Follows(c), c <= d,
         NEW valid \in Seq(Update), Segment(valid, c, d),
         NEW refused, Refusals(refused, c, d),
         FlushAborts(valid, refused) \/ SyncFails(valid, refused)
  PROVE  Follows(d)'
<1> DEFINE q == Queue(valid)
           R == refused \cup {DroppedReceipt(valid[i]) : i \in DOMAIN valid}
<1>1. /\ receipts' = receipts \cup R /\ UNCHANGED versions
      /\ uploadFaults < MaxUploadFaults /\ uploadFaults' = uploadFaults + 1
  BY DEF FlushAborts, SyncFails, AllDropped
<1>2. /\ registry \in [Slot -> Nat] /\ inFlight \in BOOLEAN
      /\ uploadFaults \in 0 .. MaxUploadFaults /\ MaxUploadFaults \in Nat
      /\ AppliedNotOverwritten
  BY SlotAssumption DEF Follows, ApplierTypeOK, SlotsFollowUpdates
<1>3. Refusals(R, c, d)
  <2>1. Refusals({DroppedReceipt(valid[i]) : i \in DOMAIN valid}, c, d)
    BY DroppedIs
  <2>2. QED
    BY <2>1 DEF Refusals
<1>4. /\ q \in Seq(Update) /\ Segment(q, 0, d)
      /\ \A r \in receipts, i \in DOMAIN q : r.applied => r.n < q[i].n
  BY QueueIs
<1> HIDE DEF q, R
<1>5. /\ receipts' \subseteq StreamReceipt /\ versions' \in [Slot -> Nat]
      /\ \A r \in receipts' : r.n <= d
      /\ \A r \in receipts' : r.applied => r \in receipts
      /\ \A r \in receipts' : r.applied => r.version <= versions'[r.slot]
      /\ VersionsFollowOrder'
  BY <1>1, <1>3, RefusalsFollow
<1>6. uploadFaults' \in 0 .. MaxUploadFaults /\ uploadFaults' # 0
  BY <1>1, <1>2
<1>7. /\ registry' \in [Slot -> Nat] /\ inFlight' \in BOOLEAN
      /\ \A r \in receipts : r.applied => r.n <= registry'[r.slot]
      /\ staged' \in {<<>>, q}
  <2>1. CASE FlushAborts(valid, refused)
    <3>1. PICK k \in 0 .. Len(q) - 1 : registry' = Uploaded(SubSeq(q, 1, k))
      BY <2>1 DEF FlushAborts, q
    <3>2. staged' = <<>> /\ inFlight' = FALSE
      BY <2>1 DEF FlushAborts
    <3> DEFINE p == SubSeq(q, 1, k)
    <3>3. Len(q) \in Nat /\ DOMAIN q = 1 .. Len(q) /\ k \in Nat /\ k <= Len(q)
      BY <1>4, LenProperties
    <3>4. p \in Seq(Update) /\ \A i \in DOMAIN p : i \in DOMAIN q /\ p[i] = q[i]
      BY <1>4, <3>3
    <3> HIDE DEF p
    <3>5. \A r \in receipts, i \in DOMAIN p : r.applied => r.n < p[i].n
      BY <1>4, <3>4
    <3>6. Uploaded(p) \in [Slot -> Nat]
      BY <1>2, <3>4, UploadedIs
    <3>7. \A r \in receipts : r.applied => r.n <= Uploaded(p)[r.slot]
      BY <3>4, <3>5, UploadedForward
    <3>8. QED
      BY <3>1, <3>2, <3>6, <3>7 DEF p
  <2>2. CASE SyncFails(valid, refused)
    BY <1>2, <2>2 DEF SyncFails, AppliedNotOverwritten, q
  <2>3. QED
    BY <2>1, <2>2
<1>8. staged' \in Seq(Update) /\ Segment(staged', 0, d)
      /\ \A r \in receipts, i \in DOMAIN staged' : r.applied => r.n < staged'[i].n
  <2>1. CASE staged' = q
    BY <1>4, <2>1
  <2>2. CASE staged' = <<>>
    BY <2>2, SegmentEmpty
  <2>3. QED
    BY <1>7, <2>1, <2>2
<1>9. ApplierTypeOK'
  BY <1>5, <1>6, <1>7, <1>8 DEF ApplierTypeOK
<1>10. SlotsFollowUpdates'
  BY <1>5, <1>6, <1>7 DEF SlotsFollowUpdates, AppliedNotOverwritten, DeviceMatchesVersion
<1>11. QED
  BY <1>5, <1>6, <1>8, <1>9, <1>10 DEF Follows

LEMMA ApplyBatchFollows ==
  ASSUME NEW c \in Nat, NEW d \in Nat, Follows(c), c <= d,
         NEW us \in Seq(Update), Segment(us, c, d), ApplyBatch(us)
  PROVE  Follows(d)'
<1> DEFINE good    == {i \in DOMAIN us : us[i].slot \in Accepted}
           valid   == Only(us, good)
           refused == {DroppedReceipt(us[i]) : i \in DOMAIN us \ good}
<1>1. valid \in Seq(Update) /\ Segment(valid, c, d)
  BY OnlyIs, OnlyRises
<1>2. Refusals(refused, c, d)
  <2>1. DOMAIN us \ good \in SUBSET (DOMAIN us)
    OBVIOUS
  <2> HIDE DEF good
  <2>2. QED
    BY <2>1, DroppedIs
<1>3. \/ /\ valid = <<>>
         /\ receipts' = receipts \cup refused
         /\ UNCHANGED <<staged, inFlight, registry, versions, uploadFaults>>
      \/ FlushSucceeds(valid, refused)
      \/ FlushAborts(valid, refused) \/ SyncFails(valid, refused)
  BY DEF ApplyBatch
<1> HIDE DEF valid, refused
<1>4. CASE /\ receipts' = receipts \cup refused
           /\ UNCHANGED <<staged, inFlight, registry, versions, uploadFaults>>
  <2>1. /\ receipts' \subseteq StreamReceipt
        /\ \A r \in receipts' : r.n <= d
        /\ \A r \in receipts' : r.applied => r \in receipts
        /\ \A r \in receipts' : r.applied => r.version <= versions'[r.slot]
        /\ VersionsFollowOrder'
    BY <1>2, <1>4, RefusalsFollow
  <2>2. ApplierTypeOK'
    BY <1>4, <2>1 DEF Follows, ApplierTypeOK
  <2>3. AppliedNotOverwritten'
    BY <1>4, <2>1 DEF Follows, SlotsFollowUpdates, AppliedNotOverwritten
  <2>4. DeviceMatchesVersion'
    <3>1. receipts \subseteq receipts' /\ registry' = registry /\ versions' = versions
          /\ uploadFaults' = uploadFaults
      BY <1>4
    <3>2. DeviceMatchesVersion
      BY DEF Follows, SlotsFollowUpdates
    <3>3. QED
      BY <3>1, <3>2 DEF DeviceMatchesVersion
  <2>5. Segment(staged, 0, d)
    <3>1. Segment(staged, 0, c) /\ staged \in Seq(Update)
      BY DEF Follows, ApplierTypeOK
    <3>2. \A i \in DOMAIN staged : staged[i].n \in Nat
      BY <3>1, UpdateIn
    <3>3. QED
      BY <3>1, <3>2 DEF Segment
  <2>6. QED
    BY <1>4, <2>1, <2>2, <2>3, <2>4, <2>5 DEF Follows, SlotsFollowUpdates
<1>5. QED
  BY <1>1, <1>2, <1>3, <1>4, FlushSucceedsFollows, FlushFailsFollows

(* The receipts N answer each of the updates us once, and nothing else.    *)
Answering(N, us) ==
  /\ \A r \in N : \E i \in DOMAIN us : r.n = us[i].n
  /\ \A i \in DOMAIN us : \E r \in N : {x \in N : x.n = us[i].n} = {r}

(* f gives each update of us its receipt in N.                             *)
Gives(f, us, N) ==
  /\ \A k \in DOMAIN us : f[k] \in N /\ f[k].n = us[k].n
  /\ \A r \in N : \E k \in DOMAIN us : r = f[k]

(* Every update of a batch gets exactly one of the receipts a batch adds.  *)
LEMMA ApplyBatchAnswers ==
  ASSUME NEW c \in Nat, NEW d \in Nat, Follows(c), c <= d,
         NEW us \in Seq(Update), Segment(us, c, d), ApplyBatch(us)
  PROVE  \E N : receipts' = receipts \cup N /\ Answering(N, us)
<1> DEFINE good    == {i \in DOMAIN us : us[i].slot \in Accepted}
           valid   == Only(us, good)
           refused == {DroppedReceipt(us[i]) : i \in DOMAIN us \ good}
           dropped == {DroppedReceipt(valid[i]) : i \in DOMAIN valid}
           answers == AppliedReceipts(valid)
<1>1. valid \in Seq(Update) /\ Segment(valid, c, d)
  BY OnlyIs, OnlyRises
<1>2. \/ valid = <<>> /\ receipts' = receipts \cup refused
      \/ receipts' = receipts \cup (refused \cup dropped)
      \/ receipts' = receipts \cup (refused \cup answers)
  BY DEF ApplyBatch, FlushSucceeds, FlushAborts, SyncFails, AllDropped
<1>3. \A i, j \in DOMAIN us : us[i].n = us[j].n => i = j
  <2>1. \A i, j \in DOMAIN us : i < j => us[i].n < us[j].n
    BY DEF Segment, Rising
  <2>2. \A i \in DOMAIN us : i \in Nat /\ us[i].n \in Nat
    BY UpdateIn, LenProperties
  <2>3. QED
    BY <2>1, <2>2
<1>4. /\ \A k \in DOMAIN valid : \E i \in good : valid[k] = us[i]
      /\ \A i \in good : \E k \in DOMAIN valid : valid[k] = us[i]
  <2>1. good \in SUBSET (DOMAIN us)
    OBVIOUS
  <2> HIDE DEF good
  <2>2. QED
    BY <2>1, OnlyIs
<1>5. \A k, l \in DOMAIN valid : valid[k].n = valid[l].n => k = l
  <2>1. \A i, j \in DOMAIN valid : i < j => valid[i].n < valid[j].n
    BY <1>1 DEF Segment, Rising
  <2>2. \A i \in DOMAIN valid : i \in Nat /\ valid[i].n \in Nat
    BY <1>1, UpdateIn, LenProperties
  <2> HIDE DEF valid
  <2>3. QED
    BY <2>1, <2>2
<1>6. \A i \in DOMAIN us \ good :
        DroppedReceipt(us[i]) \in refused /\ DroppedReceipt(us[i]).n = us[i].n
  BY DEF DroppedReceipt
<1>7. \A r \in refused : \E i \in DOMAIN us \ good : r = DroppedReceipt(us[i]) /\ r.n = us[i].n
  BY DEF DroppedReceipt
<1> HIDE DEF good, valid, refused
<1>8. ASSUME NEW N, NEW f, Gives(f, valid, N)
      PROVE  Answering(refused \cup N, us)
  <2> DEFINE M == refused \cup N
  <2>0. /\ \A k \in DOMAIN valid : f[k] \in N /\ f[k].n = valid[k].n
        /\ \A r \in N : \E k \in DOMAIN valid : r = f[k]
    BY <1>8 DEF Gives
  <2>1. \A r \in M : \E i \in DOMAIN us : r.n = us[i].n
    BY <1>4, <1>7, <2>0 DEF good
  <2>2. ASSUME NEW i \in DOMAIN us
        PROVE  \E r \in M : {x \in M : x.n = us[i].n} = {r}
    <3>1. CASE i \in good
      <4>1. PICK k \in DOMAIN valid : valid[k] = us[i]
        BY <1>4, <3>1
      <4>2. f[k] \in M /\ f[k].n = us[i].n
        BY <2>0, <4>1
      <4>3. ASSUME NEW x \in M, x.n = us[i].n
            PROVE  x = f[k]
        <5>1. x \notin refused
          BY <1>3, <1>7, <3>1, <4>3
        <5>2. PICK l \in DOMAIN valid : x = f[l]
          BY <2>0, <5>1
        <5>3. QED
          BY <1>5, <2>0, <4>1, <4>3, <5>2
      <4>4. QED
        BY <4>2, <4>3
    <3>2. CASE i \notin good
      <4>1. DroppedReceipt(us[i]) \in M /\ DroppedReceipt(us[i]).n = us[i].n
        BY <1>6, <3>2
      <4>2. ASSUME NEW x \in M, x.n = us[i].n
            PROVE  x = DroppedReceipt(us[i])
        <5>1. CASE x \in refused
          BY <1>3, <1>7, <4>2, <5>1
        <5>2. CASE x \in N
          <6>1. PICK k \in DOMAIN valid : x = f[k]
            BY <2>0, <5>2
          <6>2. PICK j \in good : valid[k] = us[j]
            BY <1>4
          <6>3. us[j].n = us[i].n /\ j \in DOMAIN us
            BY <2>0, <4>2, <6>1, <6>2 DEF good
          <6>4. QED
            BY <1>3, <3>2, <6>3
        <5>3. QED
          BY <5>1, <5>2
      <4>3. QED
        BY <4>1, <4>2
    <3>3. QED
      BY <3>1, <3>2
  <2>3. QED
    BY <2>1, <2>2 DEF Answering
<1>9. CASE valid = <<>> /\ receipts' = receipts \cup refused
  <2>1. DOMAIN valid = {} /\ refused \cup {} = refused
    BY <1>9
  <2>2. Gives(valid, valid, {})
    BY <2>1 DEF Gives
  <2>3. Answering(refused, us)
    BY <1>8, <2>1, <2>2
  <2>4. QED
    BY <1>9, <2>3
<1>10. CASE receipts' = receipts \cup (refused \cup dropped)
  <2> DEFINE f == [k \in DOMAIN valid |-> DroppedReceipt(valid[k])]
  <2>1. Gives(f, valid, dropped)
    BY DEF Gives, DroppedReceipt
  <2> HIDE DEF f, dropped
  <2>2. Answering(refused \cup dropped, us)
    BY <1>8, <2>1
  <2>3. QED
    BY <1>10, <2>2
<1>11. CASE receipts' = receipts \cup (refused \cup answers)
  <2> DEFINE f == [k \in DOMAIN valid |->
                     [n |-> valid[k].n, slot |-> valid[k].slot, applied |-> TRUE,
                      version |-> versions[valid[k].slot]
                                  + Cardinality({j \in At(valid, valid[k].slot) : j <= k})]]
  <2>1. Gives(f, valid, answers)
    BY DEF Gives, AppliedReceipts
  <2> HIDE DEF f, answers
  <2>2. Answering(refused \cup answers, us)
    BY <1>8, <2>1
  <2>3. QED
    BY <1>11, <2>2
<1>12. QED
  BY <1>2, <1>9, <1>10, <1>11

LEMMA ApplyPendingSound ==
  ASSUME Sound, ApplyPending, ApplierTypeOK'
  PROVE  Sound'
<1>1. /\ batch \in Seq(Update) /\ Len(batch) \in Nat /\ taken \subseteq Update
      /\ metrics \in [Counters -> Nat]
      /\ metrics' = [metrics EXCEPT !["slot_update_dequeued"] = @ + Len(batch)]
      /\ batch' = <<>> /\ taken' = taken \cup {batch[i] : i \in DOMAIN batch}
      /\ owner' = "deltas"
  BY DEF Sound, TypeOK, ApplyPending, Count
<1>2. taken' \subseteq Update
  BY <1>1
<1>3. /\ metrics' \in [Counters -> Nat]
      /\ metrics'["slot_update_dequeued"] = metrics["slot_update_dequeued"] + Len(batch)
      /\ metrics'["slot_update_dropped"] = metrics["slot_update_dropped"]
      /\ metrics'["raw_dequeued"] = metrics["raw_dequeued"]
      /\ metrics'["raw_enqueued"] = metrics["raw_enqueued"]
  BY <1>1 DEF Counters
<1>4. batch' \in Seq(Update) /\ Len(batch') = 0 /\ Len(batch') <= MaxBatchSize
  BY <1>1, Bounds
<1>5. TypeOK'
  BY <1>1, <1>2, <1>3, <1>4 DEF Sound, TypeOK, ApplyPending, producers, workers
<1>6. Places' /\ RawCounted'
  BY <1>3 DEF Sound, Places, RawCounted, ApplyPending, producers, workers
<1>7. UpdatesAccounted'
  <2>1. UNCHANGED <<normalizer, hand, made, updates>>
    BY DEF ApplyPending, workers
  <2>2. /\ metrics["slot_update_dequeued"] \in Nat /\ metrics["slot_update_dropped"] \in Nat
    BY <1>1 DEF Counters
  <2>3. Len(hand) \in Nat /\ Len(updates) \in Nat
    BY DEF Sound, TypeOK
  <2>4. QED
    BY <1>1, <1>3, <1>4, <2>1, <2>2, <2>3 DEF Sound, UpdatesAccounted
<1>8. QED
  BY <1>5, <1>6, <1>7 DEF Sound

-------------------------------------------------------------------------------
(* Updates on their way: those the owner holds come after those the        *)
(* applier has seen, those queued after them, those in hand last.          *)

Answered(c) == (\A u \in taken : u.n <= c) /\ AnsweredOrSuperseded

Flow ==
  \E c, d, e \in Nat :
    /\ c <= d /\ d <= e /\ e <= made
    /\ Follows(c) /\ Answered(c)
    /\ Segment(batch, c, d) /\ Segment(updates, d, e) /\ Segment(hand, e, made)

LEMMA FollowsStays ==
  ASSUME NEW c, Follows(c), UNCHANGED applier
  PROVE  Follows(c)'
BY DEF Follows, applier, ApplierTypeOK, SlotsFollowUpdates, AppliedNotOverwritten,
       VersionsFollowOrder, DeviceMatchesVersion

LEMMA AnsweredStays ==
  ASSUME NEW c, Answered(c), UNCHANGED applier, UNCHANGED taken
  PROVE  Answered(c)'
BY DEF Answered, applier, AnsweredOrSuperseded

LEMMA FlowStays ==
  ASSUME Flow, UNCHANGED <<batch, updates, hand, made, taken, applier>>
  PROVE  Flow'
<1>1. PICK c \in Nat, d \in Nat, e \in Nat :
        /\ c <= d /\ d <= e /\ e <= made
        /\ Follows(c) /\ Answered(c)
        /\ Segment(batch, c, d) /\ Segment(updates, d, e) /\ Segment(hand, e, made)
  BY DEF Flow
<1>2. Follows(c)' /\ Answered(c)'
  BY <1>1, FollowsStays, AnsweredStays
<1>3. QED
  BY <1>1, <1>2 DEF Flow

(* Of the updates a batch holds of a slot, a superseded one has a later    *)
(* LATEST_WINS update that stays.                                          *)
KeptOf(b) ==
  {i \in DOMAIN b :
     b[i].policy = "latest_wins" =>
       ~\E j \in DOMAIN b : j > i /\ b[j].slot = b[i].slot /\ b[j].policy = "latest_wins"}

LEMMA CompactIs ==
  ASSUME NEW b \in Seq(Update)
  PROVE  /\ Compact(b) = Only(b, KeptOf(b)) /\ KeptOf(b) \in SUBSET (DOMAIN b)
         /\ \A i \in DOMAIN b \ KeptOf(b) :
              /\ b[i].policy = "latest_wins"
              /\ \E j \in KeptOf(b) : j > i /\ b[j].slot = b[i].slot /\ b[j].policy = "latest_wins"
<1>1. Compact(b) = Only(b, KeptOf(b)) /\ KeptOf(b) \in SUBSET (DOMAIN b)
  BY DEF Compact, KeptOf
<1>2. ASSUME NEW i \in DOMAIN b \ KeptOf(b)
      PROVE  /\ b[i].policy = "latest_wins"
             /\ \E j \in KeptOf(b) : j > i /\ b[j].slot = b[i].slot /\ b[j].policy = "latest_wins"
  <2> DEFINE same == {j \in DOMAIN b : b[j].slot = b[i].slot /\ b[j].policy = "latest_wins"}
  <2>1. /\ b[i].policy = "latest_wins"
        /\ \E j \in DOMAIN b : j > i /\ b[j].slot = b[i].slot /\ b[j].policy = "latest_wins"
    BY DEF KeptOf
  <2>2. PICK k \in same : k > i
    BY <2>1
  <2>3. same \in SUBSET (1 .. Len(b)) /\ Len(b) \in Nat /\ same # {} /\ i \in Nat
    BY <2>2, LenProperties
  <2>4. PICK m \in same : \A x \in same : x <= m
    BY <2>3, MaxBelow
  <2>5. m > i
    BY <2>2, <2>3, <2>4
  <2>6. ASSUME NEW j \in DOMAIN b, j > m, b[j].slot = b[m].slot, b[j].policy = "latest_wins"
        PROVE  FALSE
    <3>1. j \in same /\ j \in Nat /\ m \in Nat
      BY <2>3, <2>4, <2>6
    <3>2. QED
      BY <2>4, <2>6, <3>1
  <2>7. m \in KeptOf(b)
    BY <2>4, <2>6 DEF KeptOf
  <2>8. QED
    BY <2>1, <2>4, <2>5, <2>7
<1>3. QED
  BY <1>1, <1>2

LEMMA AnsweredNext ==
  ASSUME NEW c \in Nat, NEW d \in Nat, c <= d, Follows(c), Answered(c), taken \subseteq Update,
         batch \in Seq(Update), Segment(batch, c, d),
         NEW N, receipts' = receipts \cup N, Answering(N, Compact(batch)),
         taken' = taken \cup {batch[i] : i \in DOMAIN batch}
  PROVE  Answered(d)'
<1> DEFINE us == Compact(batch)
           K  == KeptOf(batch)
<1>1. /\ us = Only(batch, K) /\ K \in SUBSET (DOMAIN batch)
      /\ \A i \in DOMAIN batch \ K :
           /\ batch[i].policy = "latest_wins"
           /\ \E j \in K : /\ j > i /\ batch[j].slot = batch[i].slot
                           /\ batch[j].policy = "latest_wins"
  BY CompactIs
<1> HIDE DEF us, K
<1>2. /\ \A k \in DOMAIN us : \E i \in K : us[k] = batch[i]
      /\ \A i \in K : \E k \in DOMAIN us : us[k] = batch[i]
  BY <1>1, OnlyIs
<1>3. /\ \A i \in DOMAIN batch : batch[i].n \in Nat /\ c < batch[i].n /\ batch[i].n <= d /\ i \in Nat
      /\ \A i, j \in DOMAIN batch : i < j => batch[i].n < batch[j].n
  BY UpdateIn, LenProperties DEF Segment, Rising
<1>4. /\ \A r \in N : \E i \in DOMAIN us : r.n = us[i].n
      /\ \A i \in DOMAIN us : \E r \in N : {x \in N : x.n = us[i].n} = {r}
  BY DEF Answering, us
<1>5. /\ \A r \in receipts : r.n <= c /\ r.n \in Nat
      /\ \A u \in taken : u.n <= c /\ u.n \in Nat
      /\ AnsweredOrSuperseded
  BY DEF Follows, Answered, ApplierTypeOK, StreamReceipt, Update
<1>6. \A r \in N : \E i \in K : r.n = batch[i].n
  BY <1>2, <1>4
<1>7. \A i \in K : \E r \in N : {x \in N : x.n = batch[i].n} = {r}
  BY <1>2, <1>4
<1>8. \A u \in taken' : u.n <= d
  <2>1. \A u \in taken : u.n <= d
    BY <1>5
  <2>2. QED
    BY <1>3, <2>1
<1> DEFINE Fine(u, R, T) ==
             LET mine == {r \in R : r.n = u.n}
             IN  \/ Cardinality(mine) = 1
                 \/ /\ mine = {}
                    /\ u.policy = "latest_wins"
                    /\ \E v \in T : /\ v.n > u.n /\ v.slot = u.slot /\ v.policy = "latest_wins"
                                    /\ \E r \in R : r.n = v.n
<1>9. ASSUME NEW u \in taken
      PROVE  Fine(u, receipts', taken')
  <2>1. Fine(u, receipts, taken)
    BY <1>5 DEF AnsweredOrSuperseded
  <2>2. \A r \in N : r.n # u.n
    <3>1. \A i \in K : batch[i].n # u.n
      BY <1>1, <1>3, <1>5
    <3>2. QED
      BY <1>6, <3>1
  <2>3. {r \in receipts' : r.n = u.n} = {r \in receipts : r.n = u.n}
    BY <2>2
  <2>4. receipts \subseteq receipts' /\ taken \subseteq taken'
    OBVIOUS
  <2>5. QED
    BY <2>1, <2>3, <2>4
<1>10. ASSUME NEW i \in DOMAIN batch
       PROVE  Fine(batch[i], receipts', taken')
  <2>1. \A r \in receipts : r.n # batch[i].n
    BY <1>3, <1>5
  <2>2. {r \in receipts' : r.n = batch[i].n} = {r \in N : r.n = batch[i].n}
    BY <2>1
  <2>3. CASE i \in K
    <3>1. PICK r \in N : {x \in N : x.n = batch[i].n} = {r}
      BY <1>7, <2>3
    <3>2. Cardinality({r}) = 1
      BY FS_Singleton
    <3>3. QED
      BY <2>2, <3>1, <3>2
  <2>4. CASE i \notin K
    <3>1. PICK j \in K : /\ j > i /\ batch[j].slot = batch[i].slot
                         /\ batch[j].policy = "latest_wins" /\ batch[i].policy = "latest_wins"
      BY <1>1, <2>4
    <3>2. \A k \in K : batch[k].n # batch[i].n
      <4>1. \A k \in K : k \in DOMAIN batch /\ k # i /\ k \in Nat /\ i \in Nat
        BY <1>1, <1>3, <2>4
      <4>2. \A k \in K : k < i \/ i < k
        BY <4>1
      <4>3. QED
        BY <1>3, <4>1, <4>2
    <3>3. {r \in receipts' : r.n = batch[i].n} = {}
      BY <1>6, <2>2, <3>2
    <3>4. j \in DOMAIN batch /\ i < j
      BY <1>1, <1>3, <3>1
    <3>5. batch[j].n > batch[i].n
      BY <1>3, <3>4
    <3>6. PICK r \in N : {x \in N : x.n = batch[j].n} = {r}
      BY <1>7
    <3>7. r \in receipts' /\ r.n = batch[j].n /\ batch[j] \in taken'
      BY <3>4, <3>6
    <3>8. QED
      BY <3>1, <3>3, <3>5, <3>7
  <2>5. QED
    BY <2>3, <2>4
<1>11. AnsweredOrSuperseded'
  BY <1>9, <1>10 DEF AnsweredOrSuperseded
<1>12. QED
  BY <1>8, <1>11 DEF Answered

LEMMA ApplyPendingFlows ==
  ASSUME Sound, Flow, ApplyPending
  PROVE  Sound' /\ Flow'
<1>1. PICK c \in Nat, d \in Nat, e \in Nat :
        /\ c <= d /\ d <= e /\ e <= made
        /\ Follows(c) /\ Answered(c)
        /\ Segment(batch, c, d) /\ Segment(updates, d, e) /\ Segment(hand, e, made)
  BY DEF Flow
<1>2. /\ batch \in Seq(Update) /\ taken \subseteq Update
      /\ batch' = <<>> /\ taken' = taken \cup {batch[i] : i \in DOMAIN batch}
      /\ UNCHANGED <<updates, hand, made>>
  BY DEF Sound, TypeOK, ApplyPending, workers
<1>3. Follows(d)' /\ Answered(d)'
  <2>1. CASE batch = <<>>
    <3>1. UNCHANGED applier /\ DOMAIN batch = {}
      BY <2>1 DEF ApplyPending
    <3>2. taken' = taken
      BY <1>2, <3>1
    <3>3. Follows(d)
      <4>1. \A r \in receipts : r.n <= d
        BY <1>1 DEF Follows, ApplierTypeOK, StreamReceipt
      <4>2. Segment(staged, 0, d)
        <5>1. Segment(staged, 0, c) /\ staged \in Seq(Update)
          BY <1>1 DEF Follows, ApplierTypeOK
        <5>2. \A i \in DOMAIN staged : staged[i].n \in Nat
          BY <5>1, UpdateIn
        <5>3. QED
          BY <1>1, <5>1, <5>2 DEF Segment
      <4>3. QED
        BY <1>1, <4>1, <4>2 DEF Follows
    <3>4. Answered(d)
      BY <1>1, <1>2 DEF Answered, Update
    <3>5. QED
      BY <3>1, <3>2, <3>3, <3>4, FollowsStays, AnsweredStays
  <2>2. CASE batch # <<>>
    <3>1. ApplyBatch(Compact(batch))
      BY <2>2 DEF ApplyPending
    <3>2. Compact(batch) \in Seq(Update) /\ Segment(Compact(batch), c, d)
      <4>1. Compact(batch) = Only(batch, KeptOf(batch)) /\ KeptOf(batch) \in SUBSET (DOMAIN batch)
        BY <1>2, CompactIs
      <4>2. QED
        BY <1>1, <1>2, <4>1, OnlyIs, OnlyRises
    <3>3. Follows(d)'
      BY <1>1, <3>1, <3>2, ApplyBatchFollows
    <3>4. PICK N : receipts' = receipts \cup N /\ Answering(N, Compact(batch))
      BY <1>1, <3>1, <3>2, ApplyBatchAnswers
    <3>5. QED
      BY <1>1, <1>2, <3>3, <3>4, AnsweredNext
  <2>3. QED
    BY <2>1, <2>2
<1>4. Sound'
  <2>1. ApplierTypeOK'
    BY <1>3 DEF Follows
  <2>2. QED
    BY <2>1, ApplyPendingSound
<1>5. Flow'
  <2>1. Segment(batch', d, d)
    BY <1>2, SegmentEmpty
  <2>2. QED
    BY <1>1, <1>2, <1>3, <2>1 DEF Flow
<1>6. QED
  BY <1>4, <1>5

LEMMA TakeEventFlows ==
  ASSUME Sound, Flow, raw # <<>>, hand = <<>>, TakeEvent,
         UNCHANGED <<batch, updates, taken, applier>>
  PROVE  Flow'
<1>1. PICK c \in Nat, d \in Nat, e \in Nat :
        /\ c <= d /\ d <= e /\ e <= made
        /\ Follows(c) /\ Answered(c)
        /\ Segment(batch, c, d) /\ Segment(updates, d, e)
  BY DEF Flow
<1>2. /\ hand' \in Seq(Update) /\ made' \in Nat /\ made' = made + Len(hand')
      /\ \A i \in DOMAIN hand' : hand'[i].n = made + i
  BY TakeEventYields
<1>3. made \in Nat
  BY DEF Sound, TypeOK
<1>4. Len(hand') \in Nat /\ DOMAIN hand' = 1 .. Len(hand')
  BY <1>2, LenProperties
<1>5. e <= made' /\ \A i \in DOMAIN hand' : i \in Nat /\ e < made + i /\ made + i <= made'
  BY <1>1, <1>2, <1>3, <1>4
<1>6. \A i, j \in DOMAIN hand' : i < j => made + i < made + j
  BY <1>3, <1>5
<1>7. Segment(hand', e, made')
  BY <1>2, <1>5, <1>6 DEF Segment, Rising
<1>8. Follows(c)' /\ Answered(c)'
  BY <1>1, FollowsStays, AnsweredStays
<1>9. QED
  BY <1>1, <1>5, <1>7, <1>8 DEF Flow

LEMMA SendFlows ==
  ASSUME Sound, Flow, hand # <<>>, hand' = Tail(hand),
         updates' = updates \/ updates' = Append(updates, Head(hand)),
         UNCHANGED <<batch, made, taken, applier>>
  PROVE  Flow'
<1>1. PICK c \in Nat, d \in Nat, e \in Nat :
        /\ c <= d /\ d <= e /\ e <= made
        /\ Follows(c) /\ Answered(c)
        /\ Segment(batch, c, d) /\ Segment(updates, d, e) /\ Segment(hand, e, made)
  BY DEF Flow
<1>2. hand \in Seq(Update) /\ updates \in Seq(Update) /\ made \in Nat
  BY DEF Sound, TypeOK
<1>3. /\ Head(hand) \in Update /\ e < Head(hand).n /\ Head(hand).n <= made /\ Head(hand).n \in Nat
      /\ Segment(Tail(hand), Head(hand).n, made) /\ Segment(Tail(hand), e, made)
  BY <1>1, <1>2, SegmentTail
<1>4. Follows(c)' /\ Answered(c)'
  BY <1>1, FollowsStays, AnsweredStays
<1>5. CASE updates' = updates
  BY <1>1, <1>3, <1>4, <1>5 DEF Flow
<1>6. CASE updates' = Append(updates, Head(hand))
  <2>1. Segment(updates', d, Head(hand).n)
    BY <1>1, <1>2, <1>3, <1>6, SegmentAppend
  <2>2. d <= Head(hand).n
    BY <1>1, <1>3
  <2>3. QED
    BY <1>1, <1>3, <1>4, <2>1, <2>2 DEF Flow
<1>7. QED
  BY <1>5, <1>6

LEMMA TakeUpdateFlows ==
  ASSUME Sound, Flow, TakeUpdate
  PROVE  Flow'
<1>1. PICK c \in Nat, d \in Nat, e \in Nat :
        /\ c <= d /\ d <= e /\ e <= made
        /\ Follows(c) /\ Answered(c)
        /\ Segment(batch, c, d) /\ Segment(updates, d, e) /\ Segment(hand, e, made)
  BY DEF Flow
<1>2. /\ batch \in Seq(Update) /\ updates \in Seq(Update) /\ updates # <<>>
      /\ batch' = Append(batch, Head(updates)) /\ updates' = Tail(updates)
      /\ UNCHANGED <<hand, made, taken, applier>>
  BY DEF Sound, TypeOK, TakeUpdate, workers
<1>3. /\ Head(updates) \in Update /\ d < Head(updates).n /\ Head(updates).n <= e
      /\ Head(updates).n \in Nat /\ Segment(Tail(updates), Head(updates).n, e)
  BY <1>1, <1>2, SegmentTail
<1>4. Segment(batch', c, Head(updates).n)
  BY <1>1, <1>2, <1>3, SegmentAppend
<1>5. c <= Head(updates).n
  BY <1>1, <1>3
<1>6. Follows(c)' /\ Answered(c)'
  BY <1>1, <1>2, FollowsStays, AnsweredStays
<1>7. QED
  BY <1>1, <1>2, <1>3, <1>4, <1>5, <1>6 DEF Flow

StreamInv == Sound /\ Flow

LEMMA NormalizeKeeps ==
  ASSUME StreamInv, Normalize
  PROVE  StreamInv'
<1>1. CASE Receive
  BY <1>1, ReceiveSound, TakeEventFlows DEF StreamInv, Receive, owning
<1>2. CASE DrainEvent
  BY <1>2, DrainEventSound, TakeEventFlows DEF StreamInv, DrainEvent, owning
<1>3. CASE SendUpdate
  BY <1>3, SendUpdateSound, SendFlows DEF StreamInv, SendUpdate, owning
<1>4. CASE DropUpdate
  BY <1>4, DropUpdateSound, SendFlows DEF StreamInv, DropUpdate, owning
<1>5. CASE DrainSend
  BY <1>5, DrainSendSound, SendFlows DEF StreamInv, DrainSend, owning
<1>6. CASE RetryFull
  <2>1. Sound'
    BY <1>6, RetryFullSound DEF StreamInv
  <2>2. CASE hand' = hand
    <3>1. UNCHANGED <<batch, updates, hand, made, taken, applier>>
      BY <1>6, <2>2 DEF RetryFull, owning
    <3>2. QED
      BY <2>1, <3>1, FlowStays DEF StreamInv
  <2>3. CASE hand' # hand
    <3>1. hand # <<>> /\ hand' = Tail(hand)
      BY <1>6, <2>3 DEF StreamInv, Sound, Places, RetryFull
    <3>2. QED
      BY <1>6, <2>1, <3>1, SendFlows DEF StreamInv, RetryFull, owning
  <2>4. QED
    BY <2>1, <2>2, <2>3 DEF StreamInv
<1>7. CASE ReceiveTimeout
  BY <1>7, ReceiveTimeoutSound, FlowStays DEF StreamInv, ReceiveTimeout, owning
<1>8. CASE StopCheck
  BY <1>8, StopCheckSound, FlowStays DEF StreamInv, StopCheck, owning
<1>9. CASE StartRetry
  BY <1>9, StartRetrySound, FlowStays DEF StreamInv, StartRetry, owning
<1>10. CASE DrainDone
  BY <1>10, DrainDoneSound, FlowStays DEF StreamInv, DrainDone, owning
<1>11. QED
  BY <1>1, <1>2, <1>3, <1>4, <1>5, <1>6, <1>7, <1>8, <1>9, <1>10 DEF Normalize

LEMMA NextStream ==
  ASSUME StreamInv, [Next]_vars
  PROVE  StreamInv'
<1>1. CASE UNCHANGED vars
  <2>1. Sound'
    BY <1>1 DEF StreamInv, Sound, TypeOK, Places, UpdatesAccounted, RawCounted, ApplierTypeOK,
                vars, producers, workers, owning, applier
  <2>2. QED
    BY <1>1, <2>1, FlowStays DEF StreamInv, vars, workers, owning
<1>2. CASE ReaderPoll
  BY <1>2, ReaderPollSound, FlowStays DEF StreamInv, ReaderPoll, owning
<1>3. CASE ReaderSend
  BY <1>3, ReaderSendSound, FlowStays DEF StreamInv, ReaderSend, owning
<1>4. CASE BridgePush
  BY <1>4, BridgePushSound, FlowStays DEF StreamInv, BridgePush, owning, workers
<1>5. CASE Normalize
  BY <1>5, NormalizeKeeps
<1>6. CASE StartApply
  BY <1>6, StartApplySound, FlowStays DEF StreamInv, StartApply, workers
<1>7. CASE TakeUpdate
  BY <1>7, TakeUpdateSound, TakeUpdateFlows DEF StreamInv
<1>8. CASE ApplyPending
  BY <1>8, ApplyPendingFlows DEF StreamInv
<1>9. CASE DrainDeltas
  BY <1>9, DrainDeltasSound, FlowStays DEF StreamInv, DrainDeltas, workers
<1>10. CASE SignalShutdown
  BY <1>10, SignalShutdownSound, FlowStays DEF StreamInv, SignalShutdown, workers, owning
<1>11. CASE DropWorkers
  BY <1>11, DropWorkersSound, FlowStays DEF StreamInv, DropWorkers, workers
<1>12. CASE Joined
  BY <1>12, JoinedSound, FlowStays DEF StreamInv, Joined, workers
<1>13. QED
  BY <1>1, <1>2, <1>3, <1>4, <1>5, <1>6, <1>7, <1>8, <1>9, <1>10, <1>11, <1>12 DEF Next, Read

LEMMA InitStream ==
  ASSUME Init
  PROVE  StreamInv
<1>1. /\ staged = <<>> /\ inFlight = FALSE /\ registry = [s \in Slot |-> 0]
      /\ versions = [s \in Slot |-> 0] /\ receipts = {} /\ uploadFaults = 0
      /\ raw = <<>> /\ updates = <<>> /\ deltas = 0 /\ hand = <<>> /\ batch = <<>>
      /\ made = 0 /\ early = 0 /\ taken = {} /\ metrics = [c \in Counters |-> 0]
      /\ source \in Seq(Event) /\ bridge \in Seq(Event)
  BY WorkersAssumption DEF Init, ApplierInit
<1>2. inFlight \in BOOLEAN /\ shutdown \in BOOLEAN
  BY DEF Init, ApplierInit
<1>3. ApplierTypeOK
  BY <1>1, <1>2, SlotAssumption DEF ApplierTypeOK
<1>4. Len(<<>>) = 0 /\ <<>> \in Seq(Update) /\ <<>> \in Seq(Event) /\ DOMAIN <<>> = {}
  BY EmptySeq
<1>5. metrics \in [Counters -> Nat] /\ \A c \in Counters : metrics[c] = 0
  BY <1>1
<1>6. TypeOK
  <2>1. /\ Len(raw) <= RawCapacity /\ Len(updates) <= UpdateCapacity /\ Len(batch) <= MaxBatchSize
        /\ deltas \in 0 .. DeltaCapacity /\ Retries \in 1 .. Retries
    BY <1>1, <1>4, Bounds
  <2>2. /\ reader \in {"check", "send", "done"}
        /\ normalizer \in {"recv", "retry", "check", "drain", "done"}
        /\ owner \in {"idle", "drain", "deltas", "join", "gone"} /\ retries = Retries
    BY DEF Init
  <2>3. QED
    BY <1>1, <1>2, <1>3, <1>4, <1>5, <2>1, <2>2 DEF TypeOK
<1>7. Sound
  <2>1. reader = "check" /\ normalizer = "recv"
    BY DEF Init
  <2>2. QED
    BY <1>1, <1>4, <1>5, <1>6, <2>1 DEF Sound, Places, UpdatesAccounted, RawCounted, Counters
<1>8. Follows(0) /\ Answered(0)
  <2>1. Segment(staged, 0, 0)
    BY <1>1, SegmentEmpty
  <2>2. SlotsFollowUpdates
    BY <1>1 DEF SlotsFollowUpdates, AppliedNotOverwritten, VersionsFollowOrder, DeviceMatchesVersion
  <2>3. QED
    BY <1>1, <1>3, <2>1, <2>2 DEF Follows, Answered, AnsweredOrSuperseded
<1>9. Flow
  BY <1>1, <1>8, SegmentEmpty DEF Flow
<1>10. QED
  BY <1>7, <1>9 DEF StreamInv

LEMMA StreamHolds == Spec => []StreamInv
<1>1. Init => StreamInv
  BY InitStream
<1>2. QED
  BY <1>1, NextStream, PTL DEF Spec

(* Queues keep to their capacities.  Until the drain after shutdown every  *)
(* update the normalizer made is on its way to the owner or counted; from  *)
(* then on the updates that found no room are missing, and none is there   *)
(* that was not made.                                                      *)
THEOREM UpdatesKeepTheirAccount == Spec => []Inv
<1>1. StreamInv => Inv
  BY DEF StreamInv, Sound, Inv
<1>2. QED
  BY <1>1, StreamHolds, PTL

(* What is accepted into the raw queue is in it or was taken, and what was *)
(* accepted before shutdown is taken before the normalizer ends: no        *)
(* interleaving of run_normalizer_worker's timeout with the flag leaves    *)
(* an event behind.                                                        *)
THEOREM AcceptedAreNormalized == Spec => []AcceptedEventsNormalized
<1>1. StreamInv => AcceptedEventsNormalized
  <2> SUFFICES ASSUME StreamInv, normalizer = "done"
               PROVE  metrics["raw_dequeued"] >= early
    BY DEF AcceptedEventsNormalized, StreamInv, Sound, RawCounted
  <2>1. raw = <<>> /\ metrics["raw_enqueued"] = metrics["raw_dequeued"] + Len(raw)
        /\ early <= metrics["raw_enqueued"]
    BY DEF StreamInv, Sound, RawCounted
  <2>2. metrics["raw_dequeued"] \in Nat /\ Len(<<>>) = 0 /\ early \in Nat
    BY DEF StreamInv, Sound, TypeOK, Counters
  <2>3. QED
    BY <2>1, <2>2
<1>2. QED
  BY <1>1, StreamHolds, PTL

(* What slots hold, what receipts say and what versions count agree, over  *)
(* any number of batches, flushes that fail and updates they leave staged: *)
(* apply_batch and UploadQueue::flush never put a slot back.               *)
THEOREM SlotsNeverGoBack == Spec => []SlotsFollowUpdates
<1>1. StreamInv => SlotsFollowUpdates
  BY DEF StreamInv, Flow, Follows
<1>2. QED
  BY <1>1, StreamHolds, PTL

(* Every update the owner took is answered by one receipt, or a later      *)
(* update of its slot that compact_latest_wins kept is.                    *)
THEOREM EveryUpdateAnswered == Spec => []AnsweredOrSuperseded
<1>1. StreamInv => AnsweredOrSuperseded
  BY DEF StreamInv, Flow, Answered
<1>2. QED
  BY <1>1, StreamHolds, PTL

===============================================================================
