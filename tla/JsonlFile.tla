------------------------------- MODULE JsonlFile -------------------------------
(***************************************************************************)
(* A file of JSON lines opened with O_APPEND (src/learning.rs, src/tlog.rs,*)
(* src/streaming.rs): a write adds whole lines, and when it is cut short,  *)
(* by a crash or a full disk, a piece that has no newline.  What is        *)
(* written next continues that line, which then holds no record.           *)
(*                                                                         *)
(* A line is a record or Garbage.  A piece is what a write that was cut    *)
(* short left of its next record: nothing, a part of it, or all of it but  *)
(* the newline.                                                            *)
(***************************************************************************)
EXTENDS Naturals, SequencesExt

CONSTANT Garbage \* a line that does not parse

EmptyFile == [lines |-> <<>>, ended |-> TRUE]

Pieces(record) == {<<>>, <<Garbage>>, <<record>>}

(* Write the records rs and a piece.                                       *)
Written(file, rs, piece) ==
  LET new   == rs \o piece
      glued == ~file.ended /\ new # <<>>
  IN  [lines |-> IF glued THEN Front(file.lines) \o <<Garbage>> \o Tail(new)
                 ELSE file.lines \o new,
       ended |-> IF new = <<>> THEN file.ended ELSE piece = <<>>]

Parses(file) == \A i \in DOMAIN file.lines : file.lines[i] # Garbage

===============================================================================
