----------------------------- MODULE StreamWorkers -----------------------------
(***************************************************************************)
(* The streaming pipeline (StreamWorkers, src/streaming.rs): a reader      *)
(* thread moves events from a source to a bounded queue, where other       *)
(* producers push too (AsyncStreamBridge); a normalizer thread turns each  *)
(* into slot updates, on a second bounded queue, and topology deltas, on a *)
(* third; the owner thread drains both between bursts, compacts the        *)
(* updates and hands them to its SlotApplier.  ShutdownHandle and Drop     *)
(* stop the workers through a flag.                                        *)
(*                                                                         *)
(* Each action is one operation on a queue or on the flag.  A counter of   *)
(* StreamMetrics moves with the operation it counts: a snapshot taken in   *)
(* between may be off by one per thread, which the code documents.  An     *)
(* event stands for what the normalizer makes of it.                       *)
(***************************************************************************)
EXTENDS SlotApplier

CONSTANTS
  Event,      \* events of the sources
  Yields,     \* event -> the slots and policies of the updates it normalizes to
  IsDelta,    \* events that carry a topology delta
  Malformed,  \* events that normalize_event rejects
  SourceFeeds,   \* what the reader's source may hold
  BridgeFeeds,   \* what the other producers may push
  RawCapacity, UpdateCapacity, DeltaCapacity, MaxBatchSize,
  Retries     \* how often a NEVER_DROP update is tried again (10 in the code)

ASSUME WorkersAssumption ==
  /\ Yields \in [Event -> Seq([slot : Slot, policy : Policies])]
  /\ IsDelta \subseteq Event
  /\ Malformed \subseteq Event
  /\ SourceFeeds \subseteq Seq(Event) /\ BridgeFeeds \subseteq Seq(Event)
  /\ {RawCapacity, UpdateCapacity, DeltaCapacity, MaxBatchSize, Retries} \subseteq Nat \ {0}

VARIABLES
  source,     \* what the source has left
  bridge,     \* what the other producers have left
  raw,        \* the raw event queue
  updates,    \* the slot update queue
  deltas,     \* length of the topology delta queue
  reader,     \* where the reader thread is
  normalizer, \* where the normalizer thread is
  hand,       \* updates of the event being normalized that are not yet sent
  retries,    \* attempts left for the first of them
  made,       \* number of updates made so far
  owner,      \* where the owner thread is
  batch,      \* updates it has drained for the next apply
  shutdown,   \* the flag
  metrics,    \* StreamMetrics
  early,      \* history: events enqueued before the flag was raised
  taken       \* history: updates the owner has handed to compaction

producers == <<source, bridge>>
workers   == <<reader, normalizer, hand, retries, made>>
owning    == <<owner, batch, taken>>
vars      == <<producers, raw, updates, deltas, workers, owning, shutdown, metrics,
               early, applier>>

Counters == {"raw_enqueued", "raw_dequeued", "raw_dropped", "normalize_errors",
             "slot_update_enqueued", "slot_update_dequeued", "slot_update_dropped"}

Count(c, k) == metrics' = [metrics EXCEPT ![c] = @ + k]

-------------------------------------------------------------------------------
(* Producers.                                                              *)

(* try_send on the raw queue, whose receiver lives in the normalizer.      *)
SendRaw(e) ==
  IF Len(raw) < RawCapacity
  THEN raw' = Append(raw, e) /\ Count("raw_enqueued", 1) /\ early' = early + (IF shutdown THEN 0 ELSE 1)
  ELSE Count("raw_dropped", 1) /\ UNCHANGED <<raw, early>>

ReaderPoll ==
  /\ reader = "check"
  /\ reader' = IF shutdown THEN "done" ELSE IF source = <<>> THEN "check" ELSE "send"
  /\ UNCHANGED <<producers, raw, updates, deltas, normalizer, hand, retries, made, owning,
                 shutdown, metrics, early, applier>>

ReaderSend ==
  /\ reader = "send"
  /\ source' = Tail(source)
  /\ \/ /\ normalizer # "done"
        /\ reader' = "check"
        /\ SendRaw(Head(source))
     \/ /\ normalizer = "done"
        /\ reader' = "done"
        /\ UNCHANGED <<raw, metrics, early>>
  /\ UNCHANGED <<bridge, updates, deltas, normalizer, hand, retries, made, owning,
                 shutdown, applier>>

(* AsyncStreamBridge.push and push_raw_event; a producer that is refused   *)
(* gives the event up.                                                     *)
BridgePush ==
  /\ bridge # <<>>
  /\ bridge' = Tail(bridge)
  /\ IF normalizer = "done" THEN UNCHANGED <<raw, metrics, early>> ELSE SendRaw(Head(bridge))
  /\ UNCHANGED <<source, updates, deltas, workers, owning, shutdown, applier>>

-------------------------------------------------------------------------------
(* The normalizer thread.                                                  *)

(* Take an event off the raw queue and make its updates.  A delta that     *)
(* finds its queue full is dropped, uncounted.                             *)
TakeEvent ==
  LET e == Head(raw)
      us == IF e \in Malformed THEN <<>> ELSE Yields[e]
  IN  /\ raw' = Tail(raw)
      /\ hand' = [i \in DOMAIN us |-> [n |-> made + i, slot |-> us[i].slot, policy |-> us[i].policy]]
      /\ made' = made + Len(us)
      /\ deltas' = IF e \in IsDelta /\ deltas < DeltaCapacity THEN deltas + 1 ELSE deltas

Receive ==
  /\ normalizer = "recv"
  /\ hand = <<>>
  /\ raw # <<>>
  /\ TakeEvent
  /\ metrics' = [metrics EXCEPT
                   !["raw_dequeued"] = @ + 1,
                   !["normalize_errors"] = IF Head(raw) \in Malformed THEN @ + 1 ELSE @]
  /\ UNCHANGED <<producers, updates, reader, normalizer, retries, owning, shutdown, early, applier>>

(* recv_timeout gives up on an empty queue.                                *)
ReceiveTimeout ==
  /\ normalizer = "recv"
  /\ hand = <<>>
  /\ raw = <<>>
  /\ normalizer' = "check"
  /\ UNCHANGED <<producers, raw, updates, deltas, reader, hand, retries, made, owning,
                 shutdown, metrics, early, applier>>

(* Wrong: stops without draining.                                          *)
StopCheckNoDrain ==
  /\ normalizer = "check"
  /\ normalizer' = IF shutdown THEN "done" ELSE "recv"
  /\ UNCHANGED <<producers, raw, updates, deltas, reader, hand, retries, made, owning,
                 shutdown, metrics, early, applier>>

StopCheck ==
  /\ normalizer = "check"
  /\ normalizer' = IF shutdown THEN "drain" ELSE "recv"
  /\ UNCHANGED <<producers, raw, updates, deltas, reader, hand, retries, made, owning,
                 shutdown, metrics, early, applier>>

(* The first update in hand goes to the update queue.                      *)
SendUpdate ==
  /\ normalizer \in {"recv", "retry"}
  /\ hand # <<>>
  /\ Len(updates) < UpdateCapacity
  /\ updates' = Append(updates, Head(hand))
  /\ hand' = Tail(hand)
  /\ normalizer' = "recv"
  /\ retries' = Retries
  /\ Count("slot_update_enqueued", 1)
  /\ UNCHANGED <<producers, raw, deltas, reader, made, owning, shutdown, early, applier>>

(* The queue is full: a NEVER_DROP update is kept and tried again ...      *)
StartRetry ==
  /\ normalizer = "recv"
  /\ hand # <<>>
  /\ Len(updates) = UpdateCapacity
  /\ Head(hand).policy = "never_drop"
  /\ normalizer' = "retry"
  /\ UNCHANGED <<producers, raw, updates, deltas, reader, hand, retries, made, owning,
                 shutdown, metrics, early, applier>>

(* Wrong: retries without counting.                                        *)
RetryFullForever ==
  /\ normalizer = "retry"
  /\ Len(updates) = UpdateCapacity
  /\ retries' = retries
  /\ UNCHANGED <<producers, raw, updates, deltas, reader, normalizer, hand, made, owning,
                 shutdown, metrics, early, applier>>

(* ... until the retries are used up.                                      *)
RetryFull ==
  /\ normalizer = "retry"
  /\ Len(updates) = UpdateCapacity
  /\ IF retries > 1
     THEN retries' = retries - 1 /\ UNCHANGED <<normalizer, hand, metrics>>
     ELSE /\ retries' = Retries
          /\ normalizer' = "recv"
          /\ hand' = Tail(hand)
          /\ Count("slot_update_dropped", 1)
  /\ UNCHANGED <<producers, raw, updates, deltas, reader, made, owning, shutdown, early, applier>>

(* Wrong: the drop is not counted.                                         *)
DropUpdateUncounted ==
  /\ normalizer = "recv"
  /\ hand # <<>>
  /\ Len(updates) = UpdateCapacity
  /\ Head(hand).policy # "never_drop"
  /\ hand' = Tail(hand)
  /\ UNCHANGED <<producers, raw, updates, deltas, reader, normalizer, retries, made, owning,
                 shutdown, metrics, early, applier>>

(* Any other update is dropped at once, although it is the latest.         *)
DropUpdate ==
  /\ normalizer = "recv"
  /\ hand # <<>>
  /\ Len(updates) = UpdateCapacity
  /\ Head(hand).policy # "never_drop"
  /\ hand' = Tail(hand)
  /\ Count("slot_update_dropped", 1)
  /\ UNCHANGED <<producers, raw, updates, deltas, reader, normalizer, retries, made, owning,
                 shutdown, early, applier>>

(* After the flag is seen: take what is left, send what there is room for, *)
(* and count neither.                                                      *)
DrainEvent ==
  /\ normalizer = "drain"
  /\ hand = <<>>
  /\ raw # <<>>
  /\ TakeEvent
  /\ Count("raw_dequeued", 1)
  /\ UNCHANGED <<producers, updates, reader, normalizer, retries, owning, shutdown, early, applier>>

DrainSend ==
  /\ normalizer = "drain"
  /\ hand # <<>>
  /\ updates' = IF Len(updates) < UpdateCapacity THEN Append(updates, Head(hand)) ELSE updates
  /\ hand' = Tail(hand)
  /\ UNCHANGED <<producers, raw, deltas, reader, normalizer, retries, made, owning, shutdown,
                 metrics, early, applier>>

DrainDone ==
  /\ normalizer = "drain"
  /\ hand = <<>>
  /\ raw = <<>>
  /\ normalizer' = "done"
  /\ UNCHANGED <<producers, raw, updates, deltas, reader, hand, retries, made, owning,
                 shutdown, metrics, early, applier>>

Normalize ==
  \/ Receive \/ ReceiveTimeout \/ StopCheck \/ SendUpdate \/ StartRetry \/ RetryFull
  \/ DropUpdate \/ DrainEvent \/ DrainSend \/ DrainDone

-------------------------------------------------------------------------------
(* The owner thread: before each burst it drains updates, then deltas.     *)

StartApply ==
  /\ owner = "idle"
  /\ owner' = "drain"
  /\ UNCHANGED <<producers, raw, updates, deltas, workers, batch, taken, shutdown, metrics,
                 early, applier>>

TakeUpdate ==
  /\ owner = "drain"
  /\ Len(batch) < MaxBatchSize
  /\ updates # <<>>
  /\ batch' = Append(batch, Head(updates))
  /\ updates' = Tail(updates)
  /\ UNCHANGED <<producers, raw, deltas, workers, owner, taken, shutdown, metrics, early, applier>>

(* Wrong: compacts updates of every policy.                                *)
CompactAll(b) ==
  Only(b, {i \in DOMAIN b : \A j \in DOMAIN b : j > i => b[j].slot # b[i].slot})

(* compact_latest_wins: of the LATEST_WINS updates of a slot the last one  *)
(* stays; all others pass through in order.                                *)
Compact(b) ==
  LET superseded(i, j) == j > i /\ b[j].slot = b[i].slot /\ b[j].policy = "latest_wins"
  IN  Only(b, {i \in DOMAIN b :
                 b[i].policy = "latest_wins" => ~\E j \in DOMAIN b : superseded(i, j)})

ApplyPending ==
  /\ owner = "drain"
  /\ updates = <<>> \/ Len(batch) = MaxBatchSize
  /\ batch' = <<>>
  /\ taken' = taken \cup {batch[i] : i \in DOMAIN batch}
  /\ Count("slot_update_dequeued", Len(batch))
  /\ IF batch = <<>> THEN UNCHANGED applier ELSE ApplyBatch(Compact(batch))
  /\ owner' = "deltas"
  /\ UNCHANGED <<producers, raw, updates, deltas, workers, shutdown, early>>

DrainDeltas ==
  /\ owner = "deltas"
  /\ deltas' = 0
  /\ owner' = "idle"
  /\ UNCHANGED <<producers, raw, updates, workers, batch, taken, shutdown, metrics, early, applier>>

(* ShutdownHandle.shutdown, from any thread.                               *)
SignalShutdown ==
  /\ ~shutdown
  /\ owner # "gone"
  /\ shutdown' = TRUE
  /\ UNCHANGED <<producers, raw, updates, deltas, workers, owning, metrics, early, applier>>

(* Drop: raise the flag, join the reader, join the normalizer.             *)
DropWorkers ==
  /\ owner = "idle"
  /\ shutdown' = TRUE
  /\ owner' = "join"
  /\ UNCHANGED <<producers, raw, updates, deltas, workers, batch, taken, metrics, early, applier>>

Joined ==
  /\ owner = "join"
  /\ reader = "done"
  /\ normalizer = "done"
  /\ owner' = "gone"
  /\ UNCHANGED <<producers, raw, updates, deltas, workers, batch, taken, shutdown, metrics,
                 early, applier>>

-------------------------------------------------------------------------------

Init ==
  /\ ApplierInit
  /\ source \in SourceFeeds
  /\ bridge \in BridgeFeeds
  /\ raw = <<>> /\ updates = <<>> /\ deltas = 0
  /\ reader = "check"
  /\ normalizer = "recv" /\ hand = <<>> /\ retries = Retries
  /\ made = 0
  /\ owner = "idle" /\ batch = <<>> /\ taken = {}
  /\ shutdown = FALSE
  /\ metrics = [c \in Counters |-> 0]
  /\ early = 0

Read == ReaderPoll \/ ReaderSend

Next ==
  \/ Read \/ BridgePush \/ Normalize
  \/ StartApply \/ TakeUpdate \/ ApplyPending \/ DrainDeltas
  \/ SignalShutdown \/ DropWorkers \/ Joined

Spec == Init /\ [][Next]_vars

(* The threads are scheduled by the operating system and none of them      *)
(* blocks for ever.  The owner finishes a drain it has begun, but nothing  *)
(* makes it begin one, nor drop the workers.                               *)
Fairness ==
  /\ WF_vars(Read)
  /\ WF_vars(Normalize)
  /\ WF_vars(TakeUpdate \/ ApplyPending \/ DrainDeltas \/ Joined)

FairSpec == Spec /\ Fairness

-------------------------------------------------------------------------------
(* Properties.                                                             *)

TypeOK ==
  /\ ApplierTypeOK
  /\ source \in Seq(Event) /\ bridge \in Seq(Event) /\ raw \in Seq(Event)
  /\ updates \in Seq(Update) /\ hand \in Seq(Update) /\ batch \in Seq(Update)
  /\ Len(raw) <= RawCapacity /\ Len(updates) <= UpdateCapacity /\ Len(batch) <= MaxBatchSize
  /\ deltas \in 0 .. DeltaCapacity
  /\ reader \in {"check", "send", "done"}
  /\ normalizer \in {"recv", "retry", "check", "drain", "done"}
  /\ retries \in 1 .. Retries
  /\ made \in Nat /\ early \in Nat
  /\ owner \in {"idle", "drain", "deltas", "join", "gone"}
  /\ shutdown \in BOOLEAN
  /\ metrics \in [Counters -> Nat]
  /\ taken \subseteq Update

(* Every update is in one place: no more are being sent, queued, drained   *)
(* and counted than were made, and until the normalizer drains after a     *)
(* shutdown, which drops what finds no room and does not count it, no      *)
(* fewer: nothing vanishes on the way to the owner.                        *)
UpdatesAccounted ==
  LET known == Len(hand) + Len(updates) + Len(batch)
               + metrics["slot_update_dequeued"] + metrics["slot_update_dropped"]
  IN  /\ known <= made
      /\ normalizer \in {"recv", "retry", "check"} => known = made

(* An event that was accepted is in the raw queue until the normalizer     *)
(* takes it, and one accepted before the flag was raised has been taken by *)
(* the time the normalizer stops, although the flag may be raised between  *)
(* its timeout and its look at it.                                         *)
AcceptedEventsNormalized ==
  /\ metrics["raw_enqueued"] = metrics["raw_dequeued"] + Len(raw)
  /\ normalizer = "done" => metrics["raw_dequeued"] >= early

(* Every update the owner took has exactly one receipt, or none and it was *)
(* superseded: a later LATEST_WINS update of its slot has one.             *)
AnsweredOrSuperseded ==
  \A u \in taken :
    LET mine == {r \in receipts : r.n = u.n}
    IN  \/ Cardinality(mine) = 1
        \/ /\ mine = {}
           /\ u.policy = "latest_wins"
           /\ \E v \in taken : /\ v.n > u.n /\ v.slot = u.slot /\ v.policy = "latest_wins"
                               /\ \E r \in receipts : r.n = v.n

(* Dropping the workers joins both threads even when nobody drains the     *)
(* queues any more: the normalizer's retries are bounded.                  *)
DropCompletes == (owner = "join") ~> (owner = "gone")

(* The variables have their types, the queues their capacities, and every  *)
(* update its account.                                                     *)
Inv == TypeOK /\ UpdatesAccounted

===============================================================================
