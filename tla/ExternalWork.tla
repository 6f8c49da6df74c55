----------------------------- MODULE ExternalWork -----------------------------
(***************************************************************************)
(* What the command and receipt rings promise together, whatever carries   *)
(* the work: external work is issued in rounds.  A round is a set of fresh *)
(* tickets; it is settled, all of it and each ticket once, before the next *)
(* round is issued.                                                        *)
(***************************************************************************)
EXTENDS Naturals

CONSTANT Ticket

VARIABLES
  owed, \* tickets issued and not settled
  done  \* tickets settled

WorkInit == owed = {} /\ done = {}

Issue ==
  /\ owed = {}
  /\ owed' \subseteq Ticket \ done
  /\ UNCHANGED done

Settle ==
  /\ done' = done \cup owed
  /\ owed' = {}

WorkSpec == WorkInit /\ [][Issue \/ Settle]_<<owed, done>>

===============================================================================
