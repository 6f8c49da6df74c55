----------------------------- MODULE TransitionLog -----------------------------
(***************************************************************************)
(* TlogWriter (src/tlog.rs): each agent process numbers the records it     *)
(* appends, from the number of non-blank lines it finds when it opens the  *)
(* log.  A record is written in one write.                                 *)
(***************************************************************************)
EXTENDS JsonlFile

CONSTANTS
  Process,       \* agent processes that share the log
  MaxLines,      \* bound: lines of the log
  MaxLogFaults   \* bound: processes that die

ASSUME LogAssumption ==
  /\ MaxLines \in Nat /\ MaxLogFaults \in Nat
  /\ Garbage \notin [writer : Process, sequence : Nat]

VARIABLES
  log,       \* the file
  next,      \* process -> TlogWriter.next_sequence, -1 while it has none
  logFaults, \* number of failures so far
  cuts,      \* history: writes that were cut short
  overlap    \* history: two processes had the log open at once

logging == <<log, next, logFaults, cuts, overlap>>

Entry == [writer : Process, sequence : Nat]

-------------------------------------------------------------------------------

(* Wrong: numbers from zero.                                               *)
OpenLogAtZero(p) ==
  /\ next[p] = -1
  /\ next' = [next EXCEPT ![p] = 0]
  /\ overlap' = (overlap \/ \E q \in Process : next[q] # -1)
  /\ UNCHANGED <<log, logFaults, cuts>>

(* open: count_jsonl_records counts what does not parse, too.              *)
OpenLog(p) ==
  /\ next[p] = -1
  /\ next' = [next EXCEPT ![p] = Len(log.lines)]
  /\ overlap' = (overlap \/ \E q \in Process : next[q] # -1)
  /\ UNCHANGED <<log, logFaults, cuts>>

(* append_record: one record, and the next number.                         *)
AppendRecord(p) ==
  /\ next[p] # -1
  /\ Len(log.lines) < MaxLines
  /\ log' = Written(log, <<[writer |-> p, sequence |-> next[p]]>>, <<>>)
  /\ next' = [next EXCEPT ![p] = @ + 1]
  /\ UNCHANGED <<logFaults, cuts, overlap>>

(* The write fails: the process gives up (build_runtime_epoch), as it does *)
(* when it is killed.                                                      *)
AppendFails(p) ==
  /\ next[p] # -1
  /\ logFaults < MaxLogFaults
  /\ Len(log.lines) < MaxLines
  /\ logFaults' = logFaults + 1
  /\ \E piece \in Pieces([writer |-> p, sequence |-> next[p]]) :
       /\ log' = Written(log, <<>>, piece)
       /\ cuts' = IF piece = <<>> THEN cuts ELSE cuts + 1
  /\ next' = [next EXCEPT ![p] = -1]
  /\ UNCHANGED overlap

CloseLog(p) ==
  /\ next[p] # -1
  /\ next' = [next EXCEPT ![p] = -1]
  /\ UNCHANGED <<log, logFaults, cuts, overlap>>

LogInit ==
  /\ log = EmptyFile
  /\ next = [p \in Process |-> -1]
  /\ logFaults = 0
  /\ cuts = 0
  /\ overlap = FALSE

-------------------------------------------------------------------------------
(* Properties.                                                             *)

(* The log and the writers have their types.                               *)
LogTypeOK ==
  /\ \A i \in DOMAIN log.lines : log.lines[i] \in Entry \cup {Garbage}
  /\ log.ended \in BOOLEAN
  /\ next \in [Process -> Nat \cup {-1}]
  /\ logFaults \in 0 .. MaxLogFaults
  /\ cuts \in Nat /\ overlap \in BOOLEAN

Records == {i \in DOMAIN log.lines : log.lines[i] # Garbage}

(* Every record of the log, over any number of processes and restarts, is  *)
(* numbered after its position and past it by no more than the writes that *)
(* were cut short (each may glue the next record to what it left), unless  *)
(* processes overlap: then it may be numbered below its position and two   *)
(* of them may give the same number.  As long as no write is cut short     *)
(* every line is a record, and one process's numbers go up along the log.  *)
(* With neither, a record's number is its position.                        *)
RecordsNumbered ==
  /\ \A i \in Records :
       /\ log.lines[i].sequence <= i - 1 + cuts
       /\ overlap \/ i - 1 <= log.lines[i].sequence
  /\ cuts = 0 =>
       /\ Records = DOMAIN log.lines
       /\ \A i, j \in Records :
            i < j /\ log.lines[i].writer = log.lines[j].writer =>
              log.lines[i].sequence < log.lines[j].sequence

===============================================================================
