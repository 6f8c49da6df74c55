----------------------------- MODULE LearnedEdges -----------------------------
(***************************************************************************)
(* The checkpoint of learned edges (src/learning.rs).  LearningBuffer      *)
(* queues records and appends them to a file when there are enough of them *)
(* and at shutdown; load_learned_tensor_edges reads the file when the next *)
(* process starts, the last record of an edge winning, and the process     *)
(* does not start when a line cannot be read.                              *)
(*                                                                         *)
(* A record stands for its edge and its number in the order of recording.  *)
(* Its weights, each clamped on its own, are left out.                     *)
(***************************************************************************)
EXTENDS JsonlFile

CONSTANTS
  LearnedEdge,    \* edges that are recorded
  Allowed,        \* edges the topology declares; others are skipped on load
  FlushThreshold, \* LearningBuffer.flush_threshold
  MaxRecords,     \* bound: records made
  MaxFlushFaults  \* bound: flushes that fail and crashes

ASSUME LearnedAssumption ==
  /\ Allowed \subseteq LearnedEdge
  /\ FlushThreshold \in Nat \ {0}
  /\ MaxRecords \in Nat /\ MaxFlushFaults \in Nat
  /\ Garbage \notin [edge : LearnedEdge, n : Nat]

VARIABLES
  learned,     \* the file
  pending,     \* LearningBuffer.pending
  up,          \* the process runs
  newest,      \* history: edge -> number of its last record that was not lost with a process
  durable,     \* history: edge -> number of its last record when a flush last succeeded
  recorded,    \* number of records made
  flushFaults  \* number of failures so far

learning == <<learned, pending, up, newest, durable, recorded, flushFaults>>

Record == [edge : LearnedEdge, n : Nat]

-------------------------------------------------------------------------------

Of(e, lines) == {i \in DOMAIN lines : lines[i] # Garbage /\ lines[i].edge = e}

(* Wrong: the first record of an edge wins.                                *)
LoadedFirst(file) ==
  [e \in Allowed |-> IF Of(e, file.lines) = {} THEN 0 ELSE file.lines[Min(Of(e, file.lines))].n]

(* What loading a file yields: edge -> number of the record, 0 for none.   *)
Loaded(file) ==
  [e \in Allowed |-> IF Of(e, file.lines) = {} THEN 0 ELSE file.lines[Max(Of(e, file.lines))].n]

(* Wrong: what was flushed stays pending.                                  *)
FlushedKept(ps) ==
  /\ learned' = Written(learned, ps, <<>>)
  /\ pending' = ps
  /\ durable' = newest'
  /\ UNCHANGED flushFaults

Flushed(ps) ==
  /\ learned' = Written(learned, ps, <<>>)
  /\ pending' = <<>>
  /\ durable' = newest'
  /\ UNCHANGED flushFaults

(* The directory or the file cannot be opened, or the write is cut short.  *)
CutWrite(ps) ==
  /\ flushFaults < MaxFlushFaults
  /\ flushFaults' = flushFaults + 1
  /\ \E k \in 0 .. Len(ps) :
       \E piece \in IF k < Len(ps) THEN Pieces(ps[k + 1]) ELSE {<<>>} :
         learned' = Written(learned, SubSeq(ps, 1, k), piece)
  /\ UNCHANGED durable

Full(ps) == Len(ps) >= FlushThreshold

(* record: an error of the flush it may lead to is logged, and all of the  *)
(* records stay pending, those written among them.                         *)
RecordEdge ==
  /\ up
  /\ recorded < MaxRecords
  /\ recorded' = recorded + 1
  /\ \E e \in LearnedEdge :
       LET ps == Append(pending, [edge |-> e, n |-> recorded + 1])
       IN  /\ newest' = [x \in Allowed |-> IF x = e THEN recorded + 1 ELSE newest[x]]
           /\ \/ /\ ~Full(ps)
                 /\ pending' = ps
                 /\ UNCHANGED <<learned, durable, flushFaults>>
              \/ /\ Full(ps)
                 /\ \/ Flushed(ps)
                    \/ CutWrite(ps) /\ pending' = ps
  /\ UNCHANGED up

(* The process flushes and ends, whether or not the flush succeeds.        *)
Shutdown ==
  /\ up
  /\ up' = FALSE
  /\ \/ /\ UNCHANGED newest
        /\ Flushed(pending)
     \/ /\ CutWrite(pending)
        /\ newest' = Loaded(learned')
        /\ pending' = <<>>
  /\ UNCHANGED recorded

Crash ==
  /\ up
  /\ flushFaults < MaxFlushFaults
  /\ flushFaults' = flushFaults + 1
  /\ up' = FALSE
  /\ pending' = <<>>
  /\ newest' = Loaded(learned)
  /\ UNCHANGED <<learned, durable, recorded>>

(* A new process loads the file, or gives up on a line it cannot read.     *)
Restart ==
  /\ ~up
  /\ Parses(learned)
  /\ up' = TRUE
  /\ UNCHANGED <<learned, pending, newest, durable, recorded, flushFaults>>

LearnedInit ==
  /\ learned = EmptyFile
  /\ pending = <<>>
  /\ up = TRUE
  /\ newest = [e \in Allowed |-> 0]
  /\ durable = [e \in Allowed |-> 0]
  /\ recorded = 0
  /\ flushFaults = 0

-------------------------------------------------------------------------------
(* Properties.                                                             *)

(* The file and the buffer have their types; only failed flushes let the   *)
(* buffer grow past its threshold.                                         *)
LearnedTypeOK ==
  /\ \A i \in DOMAIN learned.lines : learned.lines[i] \in Record \cup {Garbage}
  /\ learned.ended \in BOOLEAN
  /\ pending \in Seq(Record)
  /\ Len(pending) < FlushThreshold + flushFaults
  /\ up \in BOOLEAN
  /\ newest \in [Allowed -> Nat] /\ durable \in [Allowed -> Nat]
  /\ recorded \in 0 .. MaxRecords
  /\ flushFaults \in 0 .. MaxFlushFaults

(* When nothing is pending, loading the file gives every edge its last     *)
(* record, although a flush that failed half way has written records that  *)
(* the next one writes again.                                              *)
LatestLoaded == pending = <<>> /\ Parses(learned) => Loaded(learned) = newest

(* What a successful flush wrote is not replaced by an older record, in    *)
(* the middle of failed flushes and crashes either.                        *)
FlushedSurvives ==
  Parses(learned) => \A e \in Allowed : Loaded(learned)[e] >= durable[e]

(* learning.rs:159-160 says that the load path deduplicates, so repeated   *)
(* flushes of the same edge are safe: once a flush has succeeded, the file *)
(* can be loaded, although an earlier one was cut short.                   *)
RepeatedFlushSafe == up /\ pending = <<>> => Parses(learned)

===============================================================================
