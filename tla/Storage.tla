-------------------------------- MODULE Storage --------------------------------
(***************************************************************************)
(* What an agent leaves on disk: the transition log, shared by processes,  *)
(* and the learned edges of one of them, which opens the log when it       *)
(* starts (src/main.rs, src/app/runtime_epoch.rs).                         *)
(***************************************************************************)
EXTENDS LearnedEdges, TransitionLog

CONSTANT Main \* the process whose learned edges are modelled

ASSUME MainAssumption == Main \in Process

store == <<learning, logging>>

Init == LearnedInit /\ LogInit

(* The log is opened before the learned edges are loaded, and records go   *)
(* to it before the runtime is built.                                      *)
Learn ==
  /\ RecordEdge
  /\ next[Main] # -1
  /\ UNCHANGED logging

(* The process of the learned edges ends: its writer goes with it.         *)
MainEnds ==
  /\ next[Main] # -1
  /\ Shutdown \/ Crash
  /\ next' = [next EXCEPT ![Main] = -1]
  /\ UNCHANGED <<log, logFaults, cuts, overlap>>

(* main opens the log, then loads the learned edges; if it cannot it ends. *)
MainStarts ==
  /\ Restart
  /\ OpenLog(Main)

Log ==
  /\ \E p \in Process :
       \/ p # Main /\ (OpenLog(p) \/ AppendFails(p) \/ CloseLog(p))
       \/ p = Main /\ up /\ OpenLog(p)
       \/ AppendRecord(p)
  /\ UNCHANGED learning

Next == Learn \/ MainEnds \/ MainStarts \/ Log

Spec == Init /\ [][Next]_store

(* The files and what the processes keep of them have their types.         *)
TypeOK == LearnedTypeOK /\ LogTypeOK

(* The files have their types, and a flush that succeeded stays.           *)
Inv == TypeOK /\ FlushedSurvives

===============================================================================
