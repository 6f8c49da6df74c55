------------------------------ MODULE SlotApplier ------------------------------
(***************************************************************************)
(* SlotApplier and its UploadQueue (src/streaming.rs, src/device_slots.rs):*)
(* the one owner of the device slots.  A batch of updates is validated     *)
(* against the schema, staged, and flushed to the device in one pass; each *)
(* update gets a receipt.  A flush may fail before any copy (synchronize)  *)
(* or between two copies (htod_copy).                                      *)
(*                                                                         *)
(* An update stands for its number n, counted in the order the normalizer  *)
(* made the updates; its values, dtype and shape are left out, except that *)
(* the schema accepts it or not, which depends on the slot alone.          *)
(***************************************************************************)
EXTENDS Naturals, Sequences, FiniteSetsExt, Subsequences

CONSTANTS
  Slot,           \* names of slots
  Accepted,       \* slots the schema declares with dtype f32
  MaxUploadFaults \* bound: flushes that may fail

Policies == {"latest_wins", "never_drop"}

ASSUME SlotAssumption == Accepted \subseteq Slot /\ MaxUploadFaults \in Nat

VARIABLES
  staged,      \* UploadQueue.staged
  inFlight,    \* UploadQueue.in_flight_device is set
  registry,    \* DeviceSlotRegistry: slot -> number of the update it holds, 0 = none
  versions,    \* SlotVersions
  receipts,    \* every StreamReceipt returned
  uploadFaults \* number of failed flushes so far

applier == <<staged, inFlight, registry, versions, receipts, uploadFaults>>

Update == [n : Nat, slot : Slot, policy : Policies]

StreamReceipt == [n : Nat, slot : Slot, applied : BOOLEAN, version : Nat]

-------------------------------------------------------------------------------

(* Positions in the sequence of updates us that hold one for slot s.       *)
At(us, s) == {i \in DOMAIN us : us[i].slot = s}

DroppedReceipt(u) == [n |-> u.n, slot |-> u.slot, applied |-> FALSE, version |-> 0]

(* Receipts of updates taken in order: each bumps the version of its slot. *)
AppliedReceipts(us) ==
  {[n |-> us[i].n, slot |-> us[i].slot, applied |-> TRUE,
    version |-> versions[us[i].slot]
                + Cardinality({j \in At(us, us[i].slot) : j <= i})] : i \in DOMAIN us}

(* The registry after copying us to the device in order.                   *)
Uploaded(us) ==
  [s \in Slot |-> IF At(us, s) = {} THEN registry[s] ELSE us[Max(At(us, s))].n]

(* Wrong: what a failed flush left behind is uploaded last.                *)
QueueReordered(valid) == valid \o staged

(* The flush takes what an earlier, failed synchronize left staged too.    *)
Queue(valid) == staged \o valid

FlushSucceeds(valid, refused) ==
  /\ registry' = Uploaded(Queue(valid))
  /\ staged' = <<>>
  /\ inFlight' = TRUE
  /\ versions' = [s \in Slot |-> versions[s] + Cardinality(At(valid, s))]
  /\ receipts' = receipts \cup refused \cup AppliedReceipts(valid)
  /\ UNCHANGED uploadFaults

AllDropped(valid, refused) ==
  /\ uploadFaults < MaxUploadFaults
  /\ uploadFaults' = uploadFaults + 1
  /\ receipts' = receipts \cup refused \cup {DroppedReceipt(valid[i]) : i \in DOMAIN valid}
  /\ UNCHANGED versions

(* Copying fails after k uploads; the rest of the queue is discarded.      *)
FlushAborts(valid, refused) ==
  /\ AllDropped(valid, refused)
  /\ \E k \in 0 .. Len(Queue(valid)) - 1 : registry' = Uploaded(SubSeq(Queue(valid), 1, k))
  /\ staged' = <<>>
  /\ inFlight' = FALSE

(* Waiting for the previous uploads fails, before the queue is touched.    *)
SyncFails(valid, refused) ==
  /\ AllDropped(valid, refused)
  /\ inFlight
  /\ staged' = Queue(valid)
  /\ UNCHANGED <<registry, inFlight>>

(* apply_batch.  A batch without a valid update flushes nothing.           *)
ApplyBatch(batch) ==
  LET good    == {i \in DOMAIN batch : batch[i].slot \in Accepted}
      valid   == Only(batch, good)
      refused == {DroppedReceipt(batch[i]) : i \in DOMAIN batch \ good}
  IN  \/ /\ valid = <<>>
         /\ receipts' = receipts \cup refused
         /\ UNCHANGED <<staged, inFlight, registry, versions, uploadFaults>>
      \/ /\ valid # <<>>
         /\ \/ FlushSucceeds(valid, refused)
            \/ FlushAborts(valid, refused)
            \/ SyncFails(valid, refused)

ApplierInit ==
  /\ staged = <<>>
  /\ inFlight = FALSE
  /\ registry = [s \in Slot |-> 0]
  /\ versions = [s \in Slot |-> 0]
  /\ receipts = {}
  /\ uploadFaults = 0

-------------------------------------------------------------------------------
(* Properties.                                                             *)

ApplierTypeOK ==
  /\ staged \in Seq(Update)
  /\ inFlight \in BOOLEAN
  /\ registry \in [Slot -> Nat]
  /\ versions \in [Slot -> Nat]
  /\ receipts \subseteq StreamReceipt
  /\ uploadFaults \in 0 .. MaxUploadFaults

(* What a receipt reports applied is not overwritten by an older update,   *)
(* whatever flushes fail in the middle and whatever a failed one leaves    *)
(* staged for the next.                                                    *)
AppliedNotOverwritten == \A r \in receipts : r.applied => r.n <= registry[r.slot]

(* The versions of a slot follow the order in which its updates were made, *)
(* so a reader that compares versions never prefers older data.            *)
VersionsFollowOrder ==
  \A r, q \in receipts :
    r.applied /\ q.applied /\ r.slot = q.slot /\ r.n < q.n => r.version < q.version

(* Without failed flushes a slot holds the update whose receipt carries    *)
(* its current version.                                                    *)
DeviceMatchesVersion ==
  uploadFaults = 0 =>
    \A s \in Slot :
      IF versions[s] = 0 THEN registry[s] = 0
      ELSE \E r \in receipts : /\ r.applied /\ r.slot = s
                               /\ r.version = versions[s] /\ r.n = registry[s]

(* What a slot holds follows the updates: their order, their receipts and  *)
(* its version agree.                                                      *)
SlotsFollowUpdates == AppliedNotOverwritten /\ VersionsFollowOrder /\ DeviceMatchesVersion

===============================================================================
