---------------------------- MODULE Storage_proofs ----------------------------
(***************************************************************************)
(* Theorems about Storage, for every number of processes, records and      *)
(* failures: what loading the learned edges yields, and how the records of *)
(* the transition log are numbered.                                        *)
(***************************************************************************)
EXTENDS Storage, Numbers_proofs, SequenceTheorems

-------------------------------------------------------------------------------
(* Files of lines.  A file that was not ended has the piece at its end.    *)

FileOf(file, S) ==
  /\ file.lines \in Seq(S)
  /\ file.ended \in BOOLEAN
  /\ ~file.ended => file.lines # <<>>

LEMMA WrittenIsFile ==
  ASSUME NEW S, Garbage \in S, NEW file, FileOf(file, S),
         NEW rs \in Seq(S), NEW piece \in Seq(S)
  PROVE  FileOf(Written(file, rs, piece), S)
<1> DEFINE new   == rs \o piece
           glued == ~file.ended /\ new # <<>>
           w     == Written(file, rs, piece)
<1>1. /\ w.lines = IF glued THEN Front(file.lines) \o <<Garbage>> \o Tail(new)
                   ELSE file.lines \o new
      /\ w.ended = IF new = <<>> THEN file.ended ELSE piece = <<>>
  BY DEF Written
<1>2. file.lines \in Seq(S) /\ new \in Seq(S)
  BY ConcatProperties DEF FileOf
<1> HIDE DEF new, w
<1>3. w.ended \in BOOLEAN
  <2>1. file.ended \in BOOLEAN
    BY DEF FileOf
  <2>2. QED
    BY <1>1, <2>1, Zenon
<1>4. CASE glued
  <2>1. /\ Front(file.lines) \in Seq(S)
        /\ <<Garbage>> \in Seq(S) /\ Tail(new) \in Seq(S)
    <3>1. Front(file.lines) \in Seq(S)
      <4>1. \A i \in 1 .. Len(file.lines) - 1 : file.lines[i] \in S
        BY <1>2
      <4>2. Len(file.lines) - 1 \in Int
        BY <1>2
      <4>3. QED
        BY <4>1, <4>2, SubSeqProperties DEF Front
    <3>2. QED
      BY <1>2, <1>4, <3>1, HeadTailProperties
  <2>2. w.lines = Front(file.lines) \o <<Garbage>> \o Tail(new)
    BY <1>1, <1>4
  <2>3. w.lines \in Seq(S) /\ w.lines # <<>>
    BY <2>1, <2>2
  <2>4. QED
    BY <1>3, <2>3 DEF FileOf, w
<1>5. CASE ~glued
  <2>1. w.lines = file.lines \o new
    BY <1>1, <1>5
  <2>2. w.lines \in Seq(S)
    BY <1>2, <2>1
  <2>3. CASE new = <<>>
    <3>1. w.lines = file.lines /\ w.ended = file.ended
      BY <1>1, <1>2, <2>1, <2>3
    <3>2. QED
      BY <1>3, <2>2, <3>1 DEF FileOf, w
  <2>4. CASE new # <<>>
    <3>1. w.lines # <<>>
      BY <1>2, <2>1, <2>4
    <3>2. QED
      BY <1>3, <2>2, <3>1 DEF FileOf, w
  <2>5. QED
    BY <2>3, <2>4
<1>6. QED
  BY <1>4, <1>5

(* A file that parses after a write has what was written at its end.       *)
Continues(file, w, new) == Parses(file) /\ w.lines = file.lines \o new

LEMMA WrittenParses ==
  ASSUME NEW S, NEW file, FileOf(file, S),
         NEW rs \in Seq(S), NEW piece \in Seq(S), Garbage \in S,
         Parses(Written(file, rs, piece))
  PROVE  Continues(file, Written(file, rs, piece), rs \o piece)
<1> DEFINE new   == rs \o piece
           glued == ~file.ended /\ new # <<>>
           w     == Written(file, rs, piece)
<1>1. w.lines = IF glued THEN Front(file.lines) \o <<Garbage>> \o Tail(new)
                ELSE file.lines \o new
  BY DEF Written
<1>2. file.lines \in Seq(S) /\ new \in Seq(S) /\ \A i \in DOMAIN w.lines : w.lines[i] # Garbage
  BY ConcatProperties DEF FileOf, Parses
<1> HIDE DEF w, new
<1>3. ~glued
  <2> SUFFICES ASSUME glued
               PROVE  FALSE
    OBVIOUS
  <2>1. Front(file.lines) \in Seq(S) /\ Tail(new) \in Seq(S)
    <3>1. \A i \in 1 .. Len(file.lines) - 1 : file.lines[i] \in S
      BY <1>2
    <3>2. Len(file.lines) - 1 \in Int
      BY <1>2
    <3>3. QED
      BY <1>2, <3>1, <3>2, SubSeqProperties, HeadTailProperties DEF Front
  <2>2. w.lines = Front(file.lines) \o <<Garbage>> \o Tail(new)
    BY <1>1
  <2>3. w.lines[Len(Front(file.lines)) + 1] = Garbage
        /\ Len(Front(file.lines)) + 1 \in DOMAIN w.lines
    BY <2>1, <2>2
  <2>4. QED
    BY <1>2, <2>3
<1>4. w.lines = file.lines \o new
  BY <1>1, <1>3
<1>5. \A i \in DOMAIN file.lines : i \in DOMAIN w.lines /\ w.lines[i] = file.lines[i]
  BY <1>2, <1>4
<1>6. QED
  BY <1>2, <1>4, <1>5 DEF Parses, w, new, Continues

(* One line written to a file: it ends up at the end, as it is if the file *)
(* was ended, and as garbage, glued to the last line, if it was not.       *)
Slack(file) == IF file.ended THEN 0 ELSE 1

Grown(file, lines, x) ==
  /\ Len(lines) = Len(file.lines) + 1 - Slack(file)
  /\ Len(lines) \in Nat \ {0}
  /\ lines[Len(lines)] = IF file.ended THEN x ELSE Garbage
  /\ \A i \in 1 .. Len(lines) : i # Len(lines) => i \in DOMAIN file.lines /\ lines[i] = file.lines[i]

LEMMA WriteOne ==
  ASSUME NEW S, Garbage \in S, NEW file, FileOf(file, S), NEW x \in S,
         NEW rs \in Seq(S), NEW piece \in Seq(S), rs \o piece = <<x>>
  PROVE  /\ Grown(file, Written(file, rs, piece).lines, x)
         /\ Written(file, rs, piece).ended = (piece = <<>>)
<1> DEFINE w == Written(file, rs, piece)
           new == <<x>>
<1>1. /\ w.lines = IF ~file.ended THEN Front(file.lines) \o <<Garbage>> \o Tail(new)
                   ELSE file.lines \o new
      /\ w.ended = (piece = <<>>)
  BY DEF Written
<1>2. file.lines \in Seq(S) /\ Len(file.lines) \in Nat /\ (~file.ended => Len(file.lines) # 0)
  BY DEF FileOf
<1> HIDE DEF w
<1>3. CASE file.ended
  <2>1. w.lines = Append(file.lines, x)
    BY <1>1, <1>2, <1>3
  <2>2. /\ Len(w.lines) = Len(file.lines) + 1 /\ w.lines[Len(file.lines) + 1] = x
        /\ \A i \in 1 .. Len(file.lines) : w.lines[i] = file.lines[i]
        /\ DOMAIN file.lines = 1 .. Len(file.lines)
    BY <1>2, <2>1
  <2>3. \A i \in 1 .. Len(w.lines) : i # Len(w.lines) => i \in 1 .. Len(file.lines)
    BY <1>2, <2>2
  <2>4. Grown(file, w.lines, x)
    BY <1>2, <1>3, <2>2, <2>3 DEF Grown, Slack
  <2>5. QED
    BY <1>1, <2>4 DEF w
<1>4. CASE ~file.ended
  <2>1. w.lines = Front(file.lines) \o <<Garbage>>
    <3>1. Front(file.lines) \in Seq(S)
      <4>1. \A i \in 1 .. Len(file.lines) - 1 : file.lines[i] \in S
        BY <1>2
      <4>2. Len(file.lines) - 1 \in Int
        BY <1>2
      <4>3. QED
        BY <4>1, <4>2, SubSeqProperties DEF Front
    <3>2. Tail(new) = <<>>
      OBVIOUS
    <3>3. QED
      BY <1>1, <1>4, <3>1, <3>2
  <2>2. /\ Front(file.lines) \in Seq(S) /\ Len(Front(file.lines)) = Len(file.lines) - 1
        /\ \A i \in 1 .. Len(file.lines) - 1 : Front(file.lines)[i] = file.lines[i]
    <3>1. \A i \in 1 .. Len(file.lines) - 1 : file.lines[i] \in S
      BY <1>2
    <3>2. Len(file.lines) - 1 \in Int
      BY <1>2
    <3>3. QED
      BY <1>2, <1>4, <3>1, <3>2, SubSeqProperties DEF Front
  <2>3. /\ Len(w.lines) = Len(file.lines) /\ w.lines[Len(file.lines)] = Garbage
        /\ \A i \in 1 .. Len(file.lines) - 1 : w.lines[i] = file.lines[i]
    <3> DEFINE front == Front(file.lines)
    <3>1. /\ front \in Seq(S) /\ <<Garbage>> \in Seq(S) /\ w.lines = front \o <<Garbage>>
          /\ Len(front) = Len(file.lines) - 1 /\ Len(front) + 1 = Len(file.lines)
      BY <1>2, <2>1, <2>2
    <3> HIDE DEF front
    <3>2. /\ Len(w.lines) = Len(front) + 1 /\ w.lines[Len(front) + 1] = Garbage
          /\ \A i \in 1 .. Len(front) : w.lines[i] = front[i]
      BY <3>1
    <3>3. QED
      BY <2>2, <3>1, <3>2 DEF front
  <2>4. \A i \in 1 .. Len(w.lines) : i # Len(w.lines) => i \in 1 .. Len(file.lines) - 1
    BY <1>2, <2>3
  <2>5. Grown(file, w.lines, x)
    BY <1>2, <1>4, <2>3, <2>4 DEF Grown, Slack
  <2>6. QED
    BY <1>1, <2>5 DEF w
<1>5. QED
  BY <1>3, <1>4

LEMMA WriteNothing ==
  ASSUME NEW S, NEW file, FileOf(file, S)
  PROVE  /\ Written(file, <<>>, <<>>).lines = file.lines
         /\ Written(file, <<>>, <<>>).ended = file.ended
<1>1. <<>> \o <<>> = <<>> /\ file.lines \o <<>> = file.lines
  BY DEF FileOf
<1>2. QED
  BY <1>1 DEF Written

-------------------------------------------------------------------------------
(* The transition log.                                                     *)

LogLine == Entry \cup {Garbage}

(* What the numbers of a log's lines and its writers' next numbers have to *)
(* do with positions: a line that was not ended is a cut not yet paid for, *)
(* since the next record will be glued to it and its writer goes on        *)
(* counting.                                                               *)
Bounded(f, nx, c) ==
  /\ Slack(f) <= c
  /\ \A p \in Process : nx[p] <= Len(f.lines) - Slack(f) + c
  /\ \A i \in 1 .. Len(f.lines) : f.lines[i] # Garbage => f.lines[i].sequence <= i - 1 + c

(* Processes that do not overlap: one at most has the log open, and none   *)
(* numbers below the position.                                             *)
Apart(f, nx) ==
  /\ \A p \in Process : nx[p] # -1 => Len(f.lines) <= nx[p]
  /\ \A p, q \in Process : nx[p] # -1 /\ nx[q] # -1 => p = q
  /\ \A i \in 1 .. Len(f.lines) : f.lines[i] # Garbage => i - 1 <= f.lines[i].sequence

(* No write was cut short: a process's numbers go up.                      *)
Rising(f, nx) ==
  /\ \A i \in 1 .. Len(f.lines) :
       /\ f.lines[i] # Garbage
       /\ \A p \in Process : f.lines[i].writer = p /\ nx[p] # -1 => f.lines[i].sequence < nx[p]
  /\ \A i, j \in 1 .. Len(f.lines) :
       i < j /\ f.lines[i].writer = f.lines[j].writer => f.lines[i].sequence < f.lines[j].sequence

LogInv ==
  /\ LogTypeOK
  /\ FileOf(log, LogLine)
  /\ Bounded(log, next, cuts)
  /\ ~overlap => Apart(log, next)
  /\ cuts = 0 => Rising(log, next)

LEMMA LogTypes ==
  ASSUME LogInv
  PROVE  /\ log.lines \in Seq(LogLine) /\ Len(log.lines) \in Nat
         /\ DOMAIN log.lines = 1 .. Len(log.lines)
         /\ \A i \in 1 .. Len(log.lines) : log.lines[i] # Garbage => log.lines[i] \in Entry
         /\ next \in [Process -> Nat \cup {-1}] /\ cuts \in Nat
         /\ Slack(log) \in {0, 1} /\ log.ended \in BOOLEAN /\ overlap \in BOOLEAN
BY DEF LogInv, LogTypeOK, FileOf, LogLine, Slack

LEMMA OpenLogKeeps ==
  ASSUME LogInv, NEW p \in Process, OpenLog(p)
  PROVE  LogInv'
<1>1. /\ next[p] = -1
      /\ next' = [next EXCEPT ![p] = Len(log.lines)]
      /\ UNCHANGED <<log, logFaults, cuts>>
      /\ ~overlap' => ~overlap /\ \A q \in Process : next[q] = -1
  BY DEF OpenLog
<1>2. /\ next' \in [Process -> Nat \cup {-1}]
      /\ next'[p] = Len(log.lines) /\ \A q \in Process : q # p => next'[q] = next[q]
  BY <1>1, LogTypes
<1>3. overlap' \in BOOLEAN
  BY Zenon DEF OpenLog, LogInv, LogTypeOK
<1>4. LogTypeOK'
  BY <1>1, <1>2, <1>3 DEF LogInv, LogTypeOK
<1>5. Bounded(log, next', cuts)
  <2>1. Bounded(log, next, cuts)
    BY DEF LogInv
  <2>2. QED
    BY <1>2, <2>1, LogTypes DEF Bounded
<1>6. ASSUME ~overlap'
      PROVE  Apart(log, next')
  <2>1. Apart(log, next)
    BY <1>1, <1>6 DEF LogInv
  <2>2. QED
    BY <1>1, <1>2, <1>6, <2>1, LogTypes DEF Apart
<1>7. ASSUME cuts = 0
      PROVE  Rising(log, next')
  <2>1. Rising(log, next) /\ Bounded(log, next, cuts)
    BY <1>7 DEF LogInv
  <2>2. \A i \in 1 .. Len(log.lines) : log.lines[i].sequence < Len(log.lines)
    <3> SUFFICES ASSUME NEW i \in 1 .. Len(log.lines)
                 PROVE  log.lines[i].sequence < Len(log.lines)
      OBVIOUS
    <3>1. log.lines[i] # Garbage /\ log.lines[i].sequence <= i - 1 + 0
      BY <1>7, <2>1 DEF Rising, Bounded
    <3>2. log.lines[i].sequence \in Nat /\ i \in Nat /\ i <= Len(log.lines)
      BY <3>1, LogTypes DEF Entry
    <3>3. QED
      BY <3>1, <3>2, LogTypes
  <2>3. QED
    BY <1>2, <2>1, <2>2 DEF Rising
<1>8. QED
  BY <1>1, <1>4, <1>5, <1>6, <1>7 DEF LogInv, FileOf

(* A writer goes, and with it its number.                                  *)
LEMMA CloseLogKeeps ==
  ASSUME LogInv, NEW p \in Process, next' = [next EXCEPT ![p] = -1],
         UNCHANGED <<log, logFaults, cuts, overlap>>
  PROVE  LogInv'
<1>1. /\ next' \in [Process -> Nat \cup {-1}]
      /\ next'[p] = -1 /\ \A q \in Process : q # p => next'[q] = next[q]
  BY LogTypes
<1>2. LogTypeOK'
  BY <1>1 DEF LogInv, LogTypeOK
<1>3. Bounded(log, next', cuts)
  <2>1. Bounded(log, next, cuts)
    BY DEF LogInv
  <2>2. -1 <= Len(log.lines) - Slack(log) + cuts
    BY LogTypes
  <2>3. QED
    BY <1>1, <2>1, <2>2 DEF Bounded
<1>4. ASSUME ~overlap
      PROVE  Apart(log, next')
  BY <1>1, <1>4 DEF LogInv, Apart
<1>5. ASSUME cuts = 0
      PROVE  Rising(log, next')
  BY <1>1, <1>5 DEF LogInv, Rising
<1>6. QED
  BY <1>2, <1>3, <1>4, <1>5 DEF LogInv, FileOf

LEMMA AppendRecordKeeps ==
  ASSUME LogInv, NEW p \in Process, AppendRecord(p)
  PROVE  LogInv'
<1> DEFINE r == [writer |-> p, sequence |-> next[p]]
<1>1. /\ next[p] # -1
      /\ log' = Written(log, <<r>>, <<>>)
      /\ next' = [next EXCEPT ![p] = @ + 1]
      /\ UNCHANGED <<logFaults, cuts, overlap>>
  BY DEF AppendRecord
<1>2. FileOf(log, LogLine) /\ Bounded(log, next, cuts)
  BY DEF LogInv
<1>3. next[p] \in Nat /\ r \in Entry /\ r \in LogLine
  BY <1>1, LogTypes DEF Entry, LogLine
<1>4. <<r>> \in Seq(LogLine) /\ <<>> \in Seq(LogLine) /\ Garbage \in LogLine /\ <<r>> \o <<>> = <<r>>
  BY <1>3 DEF LogLine
<1>5. FileOf(log', LogLine)
  <2> HIDE DEF r
  <2>1. QED
    BY <1>1, <1>2, <1>4, WrittenIsFile
<1>6. Grown(log, log'.lines, r) /\ log'.ended
  <2> HIDE DEF r
  <2>1. QED
    BY <1>1, <1>2, <1>3, <1>4, WriteOne
<1>7. /\ next' \in [Process -> Nat \cup {-1}]
      /\ next'[p] = next[p] + 1 /\ \A q \in Process : q # p => next'[q] = next[q]
      /\ \A q \in Process : next'[q] <= next[q] + 1
  BY <1>1, <1>3, LogTypes
<1>8. LogTypeOK'
  BY <1>1, <1>5, <1>7 DEF LogInv, LogTypeOK, FileOf, LogLine
<1> DEFINE n == Len(log'.lines)
<1>9. /\ n \in Nat \ {0} /\ n = Len(log.lines) + 1 - Slack(log)
      /\ log'.lines[n] = IF log.ended THEN r ELSE Garbage
      /\ \A i \in 1 .. n : i # n => i \in 1 .. Len(log.lines) /\ log'.lines[i] = log.lines[i]
      /\ Slack(log') = 0
  BY <1>6, LogTypes DEF Grown, Slack
<1>10. r.sequence = next[p] /\ r.writer = p
  OBVIOUS
<1> HIDE DEF n, r
<1>11. Bounded(log', next', cuts)
  <2>1. \A q \in Process : next'[q] <= n + cuts
    <3>1. \A q \in Process : next[q] <= Len(log.lines) - Slack(log) + cuts /\ next[q] \in Int /\ next'[q] \in Int
      BY <1>2, <1>7, LogTypes DEF Bounded
    <3>2. QED
      BY <1>7, <1>9, <3>1, LogTypes
  <2>2. ASSUME NEW i \in 1 .. n, log'.lines[i] # Garbage
        PROVE  log'.lines[i].sequence <= i - 1 + cuts
    <3>1. CASE i = n
      <4>1. log'.lines[i] = r /\ log.ended
        BY <1>9, <2>2, <3>1
      <4>2. next[p] <= Len(log.lines) + cuts /\ n = Len(log.lines) + 1
        BY <1>2, <1>9, <4>1, LogTypes DEF Bounded, Slack
      <4>3. QED
        BY <1>10, <3>1, <4>1, <4>2, LogTypes
    <3>2. CASE i # n
      BY <1>2, <1>9, <2>2, <3>2 DEF Bounded
    <3>3. QED
      BY <3>1, <3>2
  <2>3. QED
    BY <1>9, <2>1, <2>2, LogTypes DEF Bounded, n
<1>12. ASSUME ~overlap
       PROVE  Apart(log', next')
  <2>1. Apart(log, next)
    BY <1>12 DEF LogInv
  <2>2. Len(log.lines) <= next[p] /\ \A q \in Process : next[q] # -1 => q = p
    BY <1>1, <2>1 DEF Apart
  <2>3. n <= next'[p] /\ \A q \in Process : next'[q] # -1 => q = p
    BY <1>3, <1>7, <1>9, <2>2, LogTypes
  <2>4. ASSUME NEW i \in 1 .. n, log'.lines[i] # Garbage
        PROVE  i - 1 <= log'.lines[i].sequence
    <3>1. CASE i = n
      <4>1. log'.lines[i] = r /\ n <= Len(log.lines) + 1
        BY <1>9, <2>4, <3>1, LogTypes
      <4>2. QED
        BY <1>3, <1>9, <1>10, <2>2, <3>1, <4>1, LogTypes
    <3>2. CASE i # n
      BY <1>9, <2>1, <2>4, <3>2 DEF Apart
    <3>3. QED
      BY <3>1, <3>2
  <2>5. QED
    BY <2>3, <2>4 DEF Apart, n
<1>13. ASSUME cuts = 0
       PROVE  Rising(log', next')
  <2>1. Rising(log, next) /\ log.ended
    BY <1>2, <1>13, LogTypes DEF LogInv, Bounded, Slack
  <2>2. log'.lines[n] = r /\ r # Garbage
    BY <1>3, <1>9, <2>1, LogAssumption DEF Entry
  <2>3. ASSUME NEW i \in 1 .. n
        PROVE  /\ log'.lines[i] # Garbage
               /\ \A q \in Process :
                    log'.lines[i].writer = q /\ next'[q] # -1 => log'.lines[i].sequence < next'[q]
               /\ i # n /\ log'.lines[i].writer = p => log'.lines[i].sequence < next[p]
    <3>1. CASE i = n
      BY <1>3, <1>7, <1>10, <2>2, <3>1
    <3>2. CASE i # n
      <4>1. i \in 1 .. Len(log.lines) /\ log'.lines[i] = log.lines[i] /\ log.lines[i] # Garbage
        BY <1>9, <2>1, <3>2 DEF Rising
      <4>2. \A q \in Process : log.lines[i].writer = q /\ next[q] # -1 => log.lines[i].sequence < next[q]
        BY <2>1, <4>1 DEF Rising
      <4>3. log.lines[i].sequence \in Nat
        BY <4>1, LogTypes DEF Entry
      <4>4. log.lines[i].writer = p => log.lines[i].sequence < next[p]
        BY <1>1, <4>2
      <4>5. \A q \in Process : log.lines[i].writer = q /\ next'[q] # -1 => log.lines[i].sequence < next'[q]
        BY <1>3, <1>7, <4>2, <4>3, <4>4
      <4>6. QED
        BY <4>1, <4>4, <4>5
    <3>3. QED
      BY <3>1, <3>2
  <2>4. ASSUME NEW i \in 1 .. n, NEW j \in 1 .. n, i < j,
               log'.lines[i].writer = log'.lines[j].writer
        PROVE  log'.lines[i].sequence < log'.lines[j].sequence
    <3>1. i # n
      BY <1>9, <2>4
    <3>2. CASE j = n
      BY <1>10, <2>2, <2>3, <2>4, <3>1, <3>2
    <3>3. CASE j # n
      BY <1>9, <2>1, <2>4, <3>1, <3>3 DEF Rising
    <3>4. QED
      BY <3>2, <3>3
  <2>5. QED
    BY <2>3, <2>4 DEF Rising, n
<1>14. QED
  BY <1>1, <1>5, <1>8, <1>11, <1>12, <1>13 DEF LogInv

(* A write that fails leaves nothing, or a piece that the next write is    *)
(* glued to.                                                               *)
LEMMA AppendFailsKeeps ==
  ASSUME LogInv, NEW p \in Process, AppendFails(p)
  PROVE  LogInv'
<1> DEFINE r == [writer |-> p, sequence |-> next[p]]
<1>1. PICK piece \in Pieces(r) :
        /\ log' = Written(log, <<>>, piece)
        /\ cuts' = IF piece = <<>> THEN cuts ELSE cuts + 1
  BY DEF AppendFails
<1>2. /\ next[p] # -1 /\ logFaults < MaxLogFaults /\ logFaults' = logFaults + 1
      /\ next' = [next EXCEPT ![p] = -1]
      /\ UNCHANGED overlap
  BY DEF AppendFails
<1>3. /\ FileOf(log, LogLine) /\ Bounded(log, next, cuts)
      /\ logFaults \in 0 .. MaxLogFaults /\ MaxLogFaults \in Nat
  BY LogAssumption DEF LogInv, LogTypeOK
<1>4. next[p] \in Nat /\ r \in LogLine /\ Garbage \in LogLine
  BY <1>2, LogTypes DEF Entry, LogLine
<1>5. /\ next' \in [Process -> Nat \cup {-1}]
      /\ next'[p] = -1 /\ \A q \in Process : q # p => next'[q] = next[q]
  BY <1>2, LogTypes
<1>6. piece = <<>> \/ \E x \in LogLine : piece = <<x>> /\ x \in {Garbage, r}
  BY <1>1, <1>4 DEF Pieces
<1>61. r.sequence = next[p]
  OBVIOUS
<1> HIDE DEF r
<1>7. CASE piece = <<>>
  <2>1. log'.lines = log.lines /\ log'.ended = log.ended /\ cuts' = cuts
    BY <1>1, <1>3, <1>7, WriteNothing
  <2>2. FileOf(log', LogLine)
    BY <1>3, <2>1 DEF FileOf
  <2>3. LogTypeOK'
    BY <1>2, <1>3, <1>5, <2>1 DEF LogInv, LogTypeOK
  <2>4. Bounded(log', next', cuts')
    <3>1. -1 <= Len(log.lines) - Slack(log) + cuts
      BY LogTypes
    <3>2. QED
      BY <1>3, <1>5, <2>1, <3>1 DEF Bounded, Slack
  <2>5. ASSUME ~overlap
        PROVE  Apart(log', next')
    <3>1. Apart(log, next)
      BY <2>5 DEF LogInv
    <3>2. QED
      BY <1>5, <2>1, <3>1 DEF Apart
  <2>6. cuts' = 0 => Rising(log', next')
    BY <1>5, <2>1 DEF LogInv, Rising
  <2>7. QED
    BY <1>2, <2>2, <2>3, <2>4, <2>5, <2>6 DEF LogInv
<1>8. ASSUME NEW x \in LogLine, piece = <<x>>, x \in {Garbage, r}
      PROVE  LogInv'
  <2>1. /\ piece \in Seq(LogLine) /\ <<>> \in Seq(LogLine)
        /\ <<>> \o piece = <<x>> /\ piece # <<>>
    BY <1>8
  <2>2. cuts' = cuts + 1 /\ cuts' \in Nat
    BY <1>1, <2>1, LogTypes
  <2>3. FileOf(log', LogLine)
    BY <1>1, <1>3, <1>4, <2>1, WrittenIsFile
  <2>4. Grown(log, log'.lines, x) /\ ~log'.ended
    <3>1. Grown(log, log'.lines, x) /\ log'.ended = (piece = <<>>)
      <4> DEFINE none == <<>>
                 w == Written(log, none, piece)
      <4>1. Grown(log, w.lines, x) /\ w.ended = (piece = <<>>)
        <5>1. none \in Seq(LogLine) /\ none \o piece = <<x>>
          BY <2>1
        <5> HIDE DEF none
        <5>2. QED
          BY <1>3, <1>4, <2>1, <5>1, WriteOne
      <4>2. log' = w
        BY <1>1
      <4> HIDE DEF w
      <4>3. QED
        BY <4>1, <4>2
    <3>2. (piece = <<>>) = FALSE
      BY <2>1
    <3>3. log'.ended = FALSE
      BY <3>1, <3>2
    <3>4. QED
      BY <3>1, <3>3
  <2>5. LogTypeOK'
    BY <1>2, <1>3, <1>5, <2>2, <2>3 DEF LogInv, LogTypeOK, FileOf, LogLine
  <2> DEFINE n == Len(log'.lines)
  <2>6. /\ n \in Nat \ {0} /\ n = Len(log.lines) + 1 - Slack(log)
        /\ log'.lines[n] = IF log.ended THEN x ELSE Garbage
        /\ \A i \in 1 .. n : i # n => i \in 1 .. Len(log.lines) /\ log'.lines[i] = log.lines[i]
        /\ Slack(log') = 1
    BY <2>4, LogTypes DEF Grown, Slack
  <2> HIDE DEF n
  <2>7. Bounded(log', next', cuts')
    <3>1. \A q \in Process : next'[q] <= n - 1 + (cuts + 1)
      <4>1. \A q \in Process : next[q] <= Len(log.lines) - Slack(log) + cuts
        BY <1>3 DEF Bounded
      <4>2. /\ Len(log.lines) - Slack(log) = n - 1 /\ n \in Nat \ {0} /\ cuts \in Nat
            /\ \A q \in Process : next[q] \in Int
        BY <2>6, LogTypes
      <4>3. \A q \in Process : next[q] <= n - 1 + (cuts + 1)
        BY <4>1, <4>2
      <4>4. -1 <= n - 1 + (cuts + 1)
        BY <4>2
      <4>5. QED
        BY <1>5, <4>3, <4>4
    <3>2. ASSUME NEW i \in 1 .. n, log'.lines[i] # Garbage
          PROVE  log'.lines[i].sequence <= i - 1 + (cuts + 1)
      <4>1. CASE i = n
        <5>1. log'.lines[i] = r
          BY <1>8, <2>6, <3>2, <4>1
        <5>2. next[p] <= Len(log.lines) - Slack(log) + cuts
          BY <1>3 DEF Bounded
        <5>3. QED
          BY <1>4, <1>61, <2>6, <4>1, <5>1, <5>2, LogTypes
      <4>2. CASE i # n
        <5>1. i \in 1 .. Len(log.lines) /\ log'.lines[i] = log.lines[i]
          BY <2>6, <4>2
        <5>2. log.lines[i].sequence <= i - 1 + cuts /\ log.lines[i].sequence \in Nat
          BY <1>3, <3>2, <5>1, LogTypes DEF Bounded, Entry
        <5>3. QED
          BY <5>1, <5>2, LogTypes
      <4>3. QED
        BY <4>1, <4>2
    <3>3. 1 <= cuts + 1
      BY LogTypes
    <3>4. QED
      BY <2>2, <2>6, <3>1, <3>2, <3>3 DEF Bounded, n
  <2>8. ASSUME ~overlap
        PROVE  Apart(log', next')
    <3>1. Apart(log, next)
      BY <2>8 DEF LogInv
    <3>2. \A q \in Process : next'[q] = -1
      BY <1>2, <1>5, <3>1 DEF Apart
    <3>3. ASSUME NEW i \in 1 .. n, log'.lines[i] # Garbage
          PROVE  i - 1 <= log'.lines[i].sequence
      <4>1. CASE i = n
        <5>1. log'.lines[i] = r /\ log.ended
          BY <1>8, <2>6, <3>3, <4>1
        <5>2. Len(log.lines) <= next[p] /\ n = Len(log.lines) + 1
          BY <1>2, <2>6, <3>1, <5>1, LogTypes DEF Apart, Slack
        <5>3. QED
          BY <1>4, <1>61, <4>1, <5>1, <5>2, LogTypes
      <4>2. CASE i # n
        BY <2>6, <3>1, <3>3, <4>2 DEF Apart
      <4>3. QED
        BY <4>1, <4>2
    <3>4. QED
      BY <3>2, <3>3 DEF Apart, n
  <2>9. cuts' # 0
    BY <2>2, LogTypes
  <2>10. QED
    BY <1>2, <2>3, <2>5, <2>7, <2>8, <2>9 DEF LogInv
<1>9. QED
  BY <1>6, <1>7, <1>8

LEMMA NextLog ==
  ASSUME LogInv, [Next]_store
  PROVE  LogInv'
<1>1. CASE UNCHANGED logging
  BY <1>1 DEF logging, LogInv, LogTypeOK
<1>2. CASE Log
  BY <1>2, OpenLogKeeps, CloseLogKeeps, AppendRecordKeeps, AppendFailsKeeps, MainAssumption
     DEF Log, CloseLog
<1>3. CASE MainEnds
  BY <1>3, CloseLogKeeps, MainAssumption DEF MainEnds
<1>4. CASE MainStarts
  BY <1>4, OpenLogKeeps, MainAssumption DEF MainStarts
<1>5. QED
  BY <1>1, <1>2, <1>3, <1>4 DEF Next, Learn, store

LEMMA InitLog ==
  ASSUME LogInit
  PROVE  LogInv
<1>1. log.lines = <<>> /\ log.ended = TRUE
  BY DEF LogInit, EmptyFile
<1>2. log.lines \in Seq(LogLine) /\ Len(log.lines) = 0 /\ DOMAIN log.lines = {}
  BY <1>1
<1>3. cuts = 0 /\ overlap = FALSE /\ logFaults = 0 /\ next = [p \in Process |-> -1]
  BY DEF LogInit
<1>4. LogTypeOK
  <2>1. log.ended \in BOOLEAN /\ overlap \in BOOLEAN
    BY <1>1, <1>3
  <2>2. QED
    BY <1>2, <1>3, <2>1, LogAssumption DEF LogTypeOK
<1>5. Bounded(log, next, cuts) /\ Apart(log, next) /\ Rising(log, next)
  <2>1. Slack(log) = 0 /\ \A p \in Process : next[p] = -1
    BY <1>1, <1>3 DEF Slack
  <2>2. QED
    BY <1>2, <1>3, <2>1 DEF Bounded, Apart, Rising
<1>6. QED
  BY <1>1, <1>2, <1>3, <1>4, <1>5 DEF LogInv, FileOf

(* A record is numbered after its position, up to the writes cut short, as *)
(* long as processes do not overlap, and is its position if none was cut   *)
(* short; whether or not they overlap, no number runs ahead by more, and   *)
(* one process's numbers go up until a write is cut short: a writer that   *)
(* opens the log goes on from the lines it finds.                          *)
THEOREM RecordsStayNumbered == Spec => []RecordsNumbered
<1>1. Init => LogInv
  BY InitLog DEF Init
<1>2. LogInv => RecordsNumbered
  <2> SUFFICES ASSUME LogInv
               PROVE  RecordsNumbered
    OBVIOUS
  <2>1. DOMAIN log.lines = 1 .. Len(log.lines) /\ overlap \in BOOLEAN
    BY LogTypes
  <2>2. Bounded(log, next, cuts) /\ (~overlap => Apart(log, next)) /\ (cuts = 0 => Rising(log, next))
    BY DEF LogInv
  <2>3. QED
    BY <2>1, <2>2 DEF RecordsNumbered, Records, Bounded, Apart, Rising
<1>3. QED
  BY <1>1, <1>2, NextLog, PTL DEF Spec

-------------------------------------------------------------------------------
(* Learned edges: the last record of an edge in a sequence of lines.       *)

Line    == Record \cup {Garbage}
Upto(c) == [edge : LearnedEdge, n : 0 .. c]

LastN(e, s) == IF Of(e, s) = {} THEN 0 ELSE s[Max(Of(e, s))].n

LEMMA LastNIs ==
  ASSUME NEW e, NEW s, NEW m \in Of(e, s), Of(e, s) \in SUBSET Int, \A i \in Of(e, s) : i <= m
  PROVE  LastN(e, s) = s[m].n
BY MaxIs DEF LastN

LEMMA LastNOf ==
  ASSUME NEW e, NEW s \in Seq(Line), Of(e, s) # {}
  PROVE  \E m \in Of(e, s) : (\A i \in Of(e, s) : i <= m) /\ LastN(e, s) = s[m].n
<1>1. Of(e, s) \in SUBSET (1 .. Len(s)) /\ Len(s) \in Nat
  BY DEF Of
<1>2. Max(Of(e, s)) \in Of(e, s) /\ \A i \in Of(e, s) : i <= Max(Of(e, s))
  BY <1>1, MaxBelow
<1>3. QED
  BY <1>2 DEF LastN

(* A later part of the lines decides, if it has a record of the edge.      *)
LEMMA LastNJoined ==
  ASSUME NEW e, NEW a \in Seq(Line), NEW b \in Seq(Line)
  PROVE  /\ LastN(e, a \o b) = IF Of(e, b) = {} THEN LastN(e, a) ELSE LastN(e, b)
         /\ Of(e, a \o b) = {} <=> Of(e, a) = {} /\ Of(e, b) = {}
<1> DEFINE s == a \o b
<1>1. /\ s \in Seq(Line) /\ Len(s) = Len(a) + Len(b) /\ Len(a) \in Nat /\ Len(b) \in Nat
      /\ \A i \in 1 .. Len(a) : s[i] = a[i]
      /\ \A i \in 1 .. Len(b) : s[Len(a) + i] = b[i]
  OBVIOUS
<1> HIDE DEF s
<1>2. /\ \A i \in Of(e, a) : i \in Of(e, s) /\ i \in 1 .. Len(a)
      /\ \A i \in Of(e, b) : Len(a) + i \in Of(e, s) /\ i \in 1 .. Len(b)
  BY <1>1 DEF Of
<1>3. \A i \in Of(e, s) : IF i <= Len(a) THEN i \in Of(e, a) ELSE i - Len(a) \in Of(e, b)
  <2> SUFFICES ASSUME NEW i \in Of(e, s)
               PROVE  IF i <= Len(a) THEN i \in Of(e, a) ELSE i - Len(a) \in Of(e, b)
    OBVIOUS
  <2>1. i \in 1 .. Len(s) /\ s[i] # Garbage /\ s[i].edge = e
    BY <1>1 DEF Of
  <2>2. CASE i <= Len(a)
    BY <1>1, <2>1, <2>2 DEF Of
  <2>3. CASE ~(i <= Len(a))
    <3>0. i - Len(a) \in 1 .. Len(b) /\ Len(a) + (i - Len(a)) = i
      BY <1>1, <2>1, <2>3
    <3>1. s[i] = b[i - Len(a)]
      BY <1>1, <3>0
    <3>2. i - Len(a) \in Of(e, b)
      BY <2>1, <3>0, <3>1 DEF Of
    <3>3. QED
      BY <2>3, <3>2
  <2>4. QED
    BY <2>2, <2>3
<1>4. Of(e, s) \in SUBSET Int
  BY <1>1 DEF Of
<1>5. Of(e, s) = {} <=> Of(e, a) = {} /\ Of(e, b) = {}
  BY <1>2, <1>3
<1>6. CASE Of(e, b) # {}
  <2>1. PICK m \in Of(e, b) : (\A i \in Of(e, b) : i <= m) /\ LastN(e, b) = b[m].n
    BY <1>6, LastNOf
  <2>2. Len(a) + m \in Of(e, s) /\ s[Len(a) + m] = b[m] /\ m \in 1 .. Len(b)
    BY <1>1, <1>2
  <2>3. \A i \in Of(e, s) : i <= Len(a) + m
    BY <1>1, <1>3, <1>4, <2>1, <2>2
  <2>4. LastN(e, s) = s[Len(a) + m].n
    BY <1>4, <2>2, <2>3, LastNIs
  <2>5. QED
    BY <1>5, <1>6, <2>1, <2>2, <2>4 DEF s
<1>7. CASE Of(e, b) = {} /\ Of(e, a) # {}
  <2>1. PICK m \in Of(e, a) : (\A i \in Of(e, a) : i <= m) /\ LastN(e, a) = a[m].n
    BY <1>7, LastNOf
  <2>2. m \in Of(e, s) /\ s[m] = a[m]
    BY <1>1, <1>2
  <2>3. \A i \in Of(e, s) : i <= m
    BY <1>3, <1>7, <2>1
  <2>4. LastN(e, s) = s[m].n
    BY <1>4, <2>2, <2>3, LastNIs
  <2>5. QED
    BY <1>5, <1>7, <2>1, <2>2, <2>4 DEF s
<1>8. CASE Of(e, b) = {} /\ Of(e, a) = {}
  <2>1. LastN(e, s) = 0 /\ LastN(e, a) = 0
    BY <1>5, <1>8 DEF LastN
  <2>2. QED
    BY <1>5, <1>8, <2>1 DEF s
<1>9. QED
  BY <1>6, <1>7, <1>8

LEMMA LastNAppended ==
  ASSUME NEW e, NEW s \in Seq(Record), NEW r \in Record, Garbage \notin Record
  PROVE  /\ r.edge = e => LastN(e, Append(s, r)) = r.n /\ Of(e, Append(s, r)) # {}
         /\ r.edge # e => LastN(e, Append(s, r)) = LastN(e, s)
         /\ r.edge # e => (Of(e, Append(s, r)) = {} <=> Of(e, s) = {})
<1>1. s \in Seq(Line) /\ <<r>> \in Seq(Line) /\ Append(s, r) = s \o <<r>>
  BY DEF Line
<1>2. /\ r.edge = e => Of(e, <<r>>) = {1}
      /\ r.edge # e => Of(e, <<r>>) = {}
  BY DEF Of
<1>3. r.edge = e => LastN(e, <<r>>) = r.n
  <2> SUFFICES ASSUME r.edge = e
               PROVE  LastN(e, <<r>>) = <<r>>[1].n
    OBVIOUS
  <2>1. 1 \in Of(e, <<r>>) /\ Of(e, <<r>>) \in SUBSET Int /\ \A i \in Of(e, <<r>>) : i <= 1
    BY <1>2
  <2>2. QED
    BY <2>1, LastNIs
<1>4. /\ LastN(e, s \o <<r>>) = IF Of(e, <<r>>) = {} THEN LastN(e, s) ELSE LastN(e, <<r>>)
      /\ Of(e, s \o <<r>>) = {} <=> Of(e, s) = {} /\ Of(e, <<r>>) = {}
  BY <1>1, LastNJoined
<1>5. QED
  BY <1>1, <1>2, <1>3, <1>4

LEMMA LoadedIs ==
  ASSUME NEW file
  PROVE  Loaded(file) = [e \in Allowed |-> LastN(e, file.lines)]
BY DEF Loaded, LastN

LEMMA LastNBound ==
  ASSUME NEW c \in Nat, NEW e, NEW s \in Seq(Upto(c) \cup {Garbage})
  PROVE  LastN(e, s) \in 0 .. c
<1>1. CASE Of(e, s) = {}
  BY <1>1 DEF LastN
<1>2. CASE Of(e, s) # {}
  <2>1. s \in Seq(Line)
    BY DEF Upto, Line, Record
  <2>2. PICK m \in Of(e, s) : LastN(e, s) = s[m].n
    BY <1>2, <2>1, LastNOf
  <2>3. s[m] \in Upto(c)
    BY DEF Of
  <2>4. QED
    BY <2>2, <2>3 DEF Upto
<1>3. QED
  BY <1>1, <1>2

-------------------------------------------------------------------------------
(* The buffer and the file.                                                *)

(* Records that wait are newer than what a flush has made durable, and     *)
(* what waits or, where nothing does, what the file holds of an edge is    *)
(* its latest record.  c is the number of records made.                    *)
Fits(ps, file, latest, flushed, c) ==
  /\ ps \in Seq(Upto(c))
  /\ FileOf(file, Upto(c) \cup {Garbage})
  /\ latest \in [Allowed -> 0 .. c] /\ flushed \in [Allowed -> 0 .. c]
  /\ \A i \in DOMAIN ps : ps[i].edge \in Allowed => ps[i].n > flushed[ps[i].edge]
  /\ \A e \in Allowed :
       IF Of(e, ps) = {} THEN Parses(file) => LastN(e, file.lines) = latest[e]
       ELSE latest[e] = LastN(e, ps)
  /\ Parses(file) => \A e \in Allowed : LastN(e, file.lines) >= flushed[e]

LEMMA LearnedNumbers ==
  /\ Allowed \subseteq LearnedEdge /\ FlushThreshold \in Nat \ {0} /\ MaxFlushFaults \in Nat
  /\ Garbage \notin Record
  /\ \A c \in Nat : Garbage \notin Upto(c) /\ Upto(c) \subseteq Upto(c + 1) /\ Upto(c) \subseteq Record
<1>1. \A c \in Nat : Upto(c) \subseteq Upto(c + 1) /\ Upto(c) \subseteq Record
  BY DEF Upto, Record
<1>2. QED
  BY <1>1, LearnedAssumption DEF Record

LEMMA RecordFits ==
  ASSUME NEW c \in Nat, NEW ps, NEW file, NEW latest, NEW flushed,
         Fits(ps, file, latest, flushed, c), NEW e \in LearnedEdge
  PROVE  Fits(Append(ps, [edge |-> e, n |-> c + 1]), file,
              [x \in Allowed |-> IF x = e THEN c + 1 ELSE latest[x]], flushed, c + 1)
<1> DEFINE r   == [edge |-> e, n |-> c + 1]
           qs  == Append(ps, r)
           now == [x \in Allowed |-> IF x = e THEN c + 1 ELSE latest[x]]
<1>1. /\ ps \in Seq(Upto(c)) /\ FileOf(file, Upto(c) \cup {Garbage})
      /\ latest \in [Allowed -> 0 .. c] /\ flushed \in [Allowed -> 0 .. c]
  BY DEF Fits
<1>2. r \in Upto(c + 1) /\ r.edge = e /\ r.n = c + 1 /\ c + 1 \in Nat /\ 0 .. c \subseteq 0 .. c + 1
  BY DEF Upto
<1>3. ps \in Seq(Upto(c + 1)) /\ qs \in Seq(Upto(c + 1))
  BY <1>1, <1>2, LearnedNumbers
<1>4. FileOf(file, Upto(c + 1) \cup {Garbage})
  BY <1>1, LearnedNumbers DEF FileOf
<1>5. now \in [Allowed -> 0 .. c + 1] /\ flushed \in [Allowed -> 0 .. c + 1]
  BY <1>1
<1>6. ASSUME NEW i \in DOMAIN qs, qs[i].edge \in Allowed
      PROVE  qs[i].n > flushed[qs[i].edge]
  <2>1. CASE i = Len(ps) + 1
    <3>1. qs[i] = r
      BY <1>1, <1>2, <1>3, <2>1
    <3>2. flushed[e] \in 0 .. c
      BY <1>1, <1>2, <1>6, <3>1
    <3>3. QED
      BY <1>2, <3>1, <3>2
  <2>2. CASE i # Len(ps) + 1
    <3>1. i \in DOMAIN ps /\ qs[i] = ps[i]
      BY <1>1, <1>2, <1>3, <2>2
    <3>2. QED
      BY <1>6, <3>1 DEF Fits
  <2>3. QED
    BY <2>1, <2>2
<1>7. ASSUME NEW x \in Allowed
      PROVE  IF Of(x, qs) = {} THEN Parses(file) => LastN(x, file.lines) = now[x]
             ELSE now[x] = LastN(x, qs)
  <2>1. ps \in Seq(Record) /\ r \in Record
    BY <1>1, <1>2, LearnedNumbers
  <2>2. /\ e = x => LastN(x, qs) = c + 1 /\ Of(x, qs) # {}
        /\ e # x => LastN(x, qs) = LastN(x, ps)
        /\ e # x => (Of(x, qs) = {} <=> Of(x, ps) = {})
    BY <1>2, <2>1, LastNAppended, LearnedNumbers
  <2>3. IF Of(x, ps) = {} THEN Parses(file) => LastN(x, file.lines) = latest[x]
        ELSE latest[x] = LastN(x, ps)
    BY DEF Fits
  <2>4. now[x] = IF x = e THEN c + 1 ELSE latest[x]
    OBVIOUS
  <2> HIDE DEF qs, now
  <2>5. QED
    BY <2>2, <2>3, <2>4
<1>8. Parses(file) => \A x \in Allowed : LastN(x, file.lines) >= flushed[x]
  BY DEF Fits
<1> HIDE DEF qs, now
<1>9. Fits(qs, file, now, flushed, c + 1)
  BY <1>3, <1>4, <1>5, <1>6, <1>7, <1>8 DEF Fits
<1>10. QED
  BY <1>9 DEF qs, now, r

LEMMA FlushFits ==
  ASSUME NEW c \in Nat, NEW ps, NEW file, NEW latest, NEW flushed,
         Fits(ps, file, latest, flushed, c)
  PROVE  Fits(<<>>, Written(file, ps, <<>>), latest, latest, c)
<1> DEFINE S == Upto(c) \cup {Garbage}
           w == Written(file, ps, <<>>)
<1>1. /\ ps \in Seq(Upto(c)) /\ FileOf(file, S) /\ latest \in [Allowed -> 0 .. c]
      /\ ps \in Seq(S) /\ <<>> \in Seq(S) /\ Garbage \in S
  BY DEF Fits
<1>2. <<>> \in Seq(Upto(c)) /\ DOMAIN <<>> = {} /\ ps \o <<>> = ps
  BY <1>1
<1> HIDE DEF S, w
<1>3. FileOf(w, S)
  BY <1>1, WrittenIsFile DEF w
<1>4. ASSUME Parses(w), NEW e \in Allowed
      PROVE  LastN(e, w.lines) = latest[e]
  <2>1. Parses(file) /\ w.lines = file.lines \o ps
    <3>1. Parses(Written(file, ps, <<>>))
      BY <1>4 DEF w
    <3>2. Continues(file, Written(file, ps, <<>>), ps \o <<>>)
      BY <1>1, <3>1, WrittenParses
    <3>3. Continues(file, w, ps)
      BY <1>2, <3>2 DEF w
    <3>4. QED
      BY <3>3 DEF Continues
  <2>3. file.lines \in Seq(Line) /\ ps \in Seq(Line)
    BY <1>1, LearnedNumbers DEF FileOf, Line, S
  <2>4. LastN(e, file.lines \o ps) = IF Of(e, ps) = {} THEN LastN(e, file.lines) ELSE LastN(e, ps)
    BY <2>3, LastNJoined
  <2>5. IF Of(e, ps) = {} THEN Parses(file) => LastN(e, file.lines) = latest[e]
        ELSE latest[e] = LastN(e, ps)
    BY DEF Fits
  <2>6. QED
    BY <2>1, <2>4, <2>5
<1>5. \A e \in Allowed : latest[e] >= latest[e] /\ Of(e, <<>>) = {}
  BY <1>1 DEF Of
<1>6. Fits(<<>>, w, latest, latest, c)
  BY <1>1, <1>2, <1>3, <1>4, <1>5 DEF Fits, S
<1>7. QED
  BY <1>6 DEF w

LEMMA JustAfter ==
  ASSUME NEW i \in Int, NEW k \in Nat, NEW l \in {0, 1}, i <= k + l, ~(i <= k)
  PROVE  l = 1 /\ i = k + 1 /\ i - k = 1
OBVIOUS

LEMMA CutFits ==
  ASSUME NEW c \in Nat, NEW ps, NEW file, NEW latest, NEW flushed,
         Fits(ps, file, latest, flushed, c),
         NEW k \in 0 .. Len(ps),
         NEW piece \in IF k < Len(ps) THEN Pieces(ps[k + 1]) ELSE {<<>>}
  PROVE  Fits(ps, Written(file, SubSeq(ps, 1, k), piece), latest, flushed, c)
<1> DEFINE S  == Upto(c) \cup {Garbage}
           rs == SubSeq(ps, 1, k)
           new == rs \o piece
           w  == Written(file, rs, piece)
<1>1. /\ ps \in Seq(Upto(c)) /\ FileOf(file, S) /\ Garbage \in S
      /\ latest \in [Allowed -> 0 .. c] /\ flushed \in [Allowed -> 0 .. c]
      /\ Len(ps) \in Nat /\ k \in Nat
  BY DEF Fits
<1>2. /\ rs \in Seq(Upto(c)) /\ Len(rs) = k
      /\ \A i \in 1 .. k : rs[i] = ps[i]
  BY <1>1
<1>3. /\ piece \in Seq(S)
      /\ \/ piece = <<>>
         \/ piece = <<Garbage>>
         \/ k + 1 \in DOMAIN ps /\ piece = <<ps[k + 1]>>
  <2>1. CASE k < Len(ps)
    <3>1. k + 1 \in DOMAIN ps /\ ps[k + 1] \in S /\ piece \in {<<>>, <<Garbage>>, <<ps[k + 1]>>}
      BY <1>1, <2>1 DEF Pieces
    <3>2. CASE piece = <<>>
      BY <3>2
    <3>3. CASE piece = <<Garbage>>
      BY <1>1, <3>3
    <3>4. CASE piece = <<ps[k + 1]>>
      BY <3>1, <3>4
    <3>5. QED
      BY <3>1, <3>2, <3>3, <3>4
  <2>2. CASE ~(k < Len(ps))
    BY <2>2
  <2>3. QED
    BY <2>1, <2>2
<1>4. rs \in Seq(S)
  BY <1>2
<1> HIDE DEF S, w, rs
<1>5. FileOf(w, S)
  BY <1>1, <1>3, <1>4, WrittenIsFile DEF w
<1>51. Len(piece) \in 0 .. 1 /\ (piece = <<>> => Len(piece) # 1)
  <2>1. Len(piece) \in 0 .. 1
    BY <1>3
  <2>2. Len(<<>>) # 1
    OBVIOUS
  <2>3. QED
    BY <2>1, <2>2, Zenon
<1>6. ASSUME NEW i \in DOMAIN new
      PROVE  new[i] = Garbage \/ \E j \in DOMAIN ps : new[i] = ps[j]
  <2>1. CASE i <= k
    <3>1. i \in 1 .. k /\ new[i] = rs[i] /\ i \in DOMAIN ps
      BY <1>1, <1>2, <1>3, <1>4, <2>1
    <3>2. QED
      BY <1>2, <3>1
  <2>2. CASE ~(i <= k)
    <3>0. i \in 1 .. k + Len(piece) /\ new[i] = piece[i - k]
      BY <1>1, <1>2, <1>3, <1>4, <2>2
    <3>1. i = k + 1 /\ new[i] = piece[1] /\ piece # <<>>
      <4>1. i \in 1 .. k + Len(piece)
        BY <3>0
      <4>2. Len(piece) = 1 /\ i = k + 1 /\ i - k = 1
        <5>1. i \in Int /\ k \in Nat /\ Len(piece) \in {0, 1} /\ i <= k + Len(piece) /\ ~(i <= k)
          BY <1>1, <1>51, <2>2, <4>1
        <5>2. QED
          BY <5>1, JustAfter
      <4>3. new[i] = piece[1]
        BY <3>0, <4>2
      <4>4. piece # <<>>
        BY <1>51, <4>2
      <4>5. QED
        BY <4>2, <4>3, <4>4
    <3>2. QED
      BY <1>3, <3>1
  <2>3. QED
    BY <2>1, <2>2
<1>7. new \in Seq(S)
  BY <1>3, <1>4
<1> HIDE DEF new
<1>8. ASSUME Parses(w), NEW e \in Allowed
      PROVE  /\ Of(e, ps) = {} => LastN(e, w.lines) = latest[e]
             /\ LastN(e, w.lines) >= flushed[e]
  <2>1. Parses(file) /\ w.lines = file.lines \o new
    <3>1. Parses(Written(file, rs, piece))
      BY <1>8 DEF w
    <3>2. Continues(file, Written(file, rs, piece), rs \o piece)
      BY <1>1, <1>3, <1>4, <3>1, WrittenParses
    <3>3. Continues(file, w, new)
      BY <3>2 DEF w, new
    <3>4. QED
      BY <3>3 DEF Continues
  <2>2. file.lines \in Seq(Line) /\ new \in Seq(Line)
    BY <1>1, <1>7, LearnedNumbers DEF FileOf, Line, S
  <2>3. LastN(e, w.lines) = IF Of(e, new) = {} THEN LastN(e, file.lines) ELSE LastN(e, new)
    <3>1. LastN(e, file.lines \o new)
            = IF Of(e, new) = {} THEN LastN(e, file.lines) ELSE LastN(e, new)
      BY <2>2, LastNJoined
    <3>2. QED
      BY <2>1, <3>1
  <2>4. \A i \in Of(e, new) : \E j \in Of(e, ps) : new[i] = ps[j]
    BY <1>6 DEF Of
  <2>5. /\ Of(e, ps) = {} => LastN(e, file.lines) = latest[e]
        /\ LastN(e, file.lines) >= flushed[e]
    BY <2>1 DEF Fits
  <2>6. CASE Of(e, new) = {}
    BY <2>3, <2>5, <2>6
  <2>7. CASE Of(e, new) # {}
    <3>1. PICK m \in Of(e, new) : LastN(e, new) = new[m].n
      BY <2>2, <2>7, LastNOf
    <3>2. PICK j \in Of(e, ps) : new[m] = ps[j]
      BY <2>4
    <3>3. ps[j].edge = e /\ ps[j].n > flushed[e] /\ ps[j].n \in Nat
      <4>1. j \in DOMAIN ps /\ ps[j].edge = e /\ ps[j] \in Upto(c)
        BY <1>1 DEF Of
      <4>2. ps[j].n \in Nat
        BY <4>1 DEF Upto
      <4>3. QED
        BY <4>1, <4>2 DEF Fits
    <3>4. LastN(e, w.lines) = ps[j].n /\ flushed[e] \in Nat
      BY <1>1, <2>3, <2>7, <3>1, <3>2
    <3>5. QED
      BY <3>2, <3>3, <3>4
  <2>8. QED
    BY <2>6, <2>7
<1>9. \A e \in Allowed : Of(e, ps) # {} => latest[e] = LastN(e, ps)
  BY DEF Fits
<1>10. \A i \in DOMAIN ps : ps[i].edge \in Allowed => ps[i].n > flushed[ps[i].edge]
  BY DEF Fits
<1>11. Fits(ps, w, latest, flushed, c)
  BY <1>1, <1>5, <1>8, <1>9, <1>10 DEF Fits, S
<1>12. QED
  BY <1>11 DEF w, rs

(* A process that ends leaves the file alone.                              *)
LEMMA LostFits ==
  ASSUME NEW c \in Nat, NEW ps, NEW file, NEW latest, NEW flushed,
         Fits(ps, file, latest, flushed, c)
  PROVE  Fits(<<>>, file, Loaded(file), flushed, c)
<1>1. FileOf(file, Upto(c) \cup {Garbage}) /\ flushed \in [Allowed -> 0 .. c]
  BY DEF Fits
<1>2. Loaded(file) = [e \in Allowed |-> LastN(e, file.lines)]
  BY LoadedIs
<1>3. Loaded(file) \in [Allowed -> 0 .. c]
  BY <1>1, <1>2, LastNBound DEF FileOf
<1>4. <<>> \in Seq(Upto(c)) /\ DOMAIN <<>> = {} /\ \A e : Of(e, <<>>) = {}
  BY DEF Of
<1>5. QED
  BY <1>1, <1>2, <1>3, <1>4 DEF Fits

(* The buffer stays below its threshold but for the flushes that failed,   *)
(* and a process that has ended has no buffer.                             *)
LearnedInv ==
  /\ recorded \in 0 .. MaxRecords /\ flushFaults \in 0 .. MaxFlushFaults
  /\ up \in BOOLEAN
  /\ ~up => pending = <<>>
  /\ Len(pending) < FlushThreshold + flushFaults
  /\ Fits(pending, learned, newest, durable, recorded)

LEMMA CutWriteFits ==
  ASSUME NEW ps, NEW latest, NEW c \in Nat, Fits(ps, learned, latest, durable, c),
         CutWrite(ps)
  PROVE  Fits(ps, learned', latest, durable', c)
<1>1. PICK k \in 0 .. Len(ps) :
        \E piece \in IF k < Len(ps) THEN Pieces(ps[k + 1]) ELSE {<<>>} :
          learned' = Written(learned, SubSeq(ps, 1, k), piece)
  BY DEF CutWrite
<1>2. PICK piece \in IF k < Len(ps) THEN Pieces(ps[k + 1]) ELSE {<<>>} :
        learned' = Written(learned, SubSeq(ps, 1, k), piece)
  BY <1>1
<1>3. Fits(ps, Written(learned, SubSeq(ps, 1, k), piece), latest, durable, c)
  BY CutFits
<1>4. durable' = durable
  BY DEF CutWrite
<1>5. QED
  BY <1>2, <1>3, <1>4

LEMMA RecordEdgeKeeps ==
  ASSUME LearnedInv, RecordEdge
  PROVE  LearnedInv'
<1>1. /\ recorded \in 0 .. MaxRecords /\ MaxRecords \in Nat /\ recorded < MaxRecords
      /\ recorded' = recorded + 1 /\ up /\ up' = up /\ up \in BOOLEAN
      /\ flushFaults \in 0 .. MaxFlushFaults /\ MaxFlushFaults \in Nat
      /\ FlushThreshold \in Nat \ {0}
  BY LearnedAssumption DEF LearnedInv, RecordEdge
<1>2. PICK e \in LearnedEdge :
        LET ps == Append(pending, [edge |-> e, n |-> recorded + 1])
        IN  /\ newest' = [x \in Allowed |-> IF x = e THEN recorded + 1 ELSE newest[x]]
            /\ \/ /\ ~Full(ps)
                  /\ pending' = ps
                  /\ UNCHANGED <<learned, durable, flushFaults>>
               \/ /\ Full(ps)
                  /\ \/ Flushed(ps)
                     \/ CutWrite(ps) /\ pending' = ps
  BY DEF RecordEdge
<1> DEFINE ps == Append(pending, [edge |-> e, n |-> recorded + 1])
<1>3. recorded \in Nat /\ recorded' \in Nat /\ recorded' \in 0 .. MaxRecords
  BY <1>1
<1>4. Fits(ps, learned, newest', durable, recorded')
  <2>1. Fits(pending, learned, newest, durable, recorded)
    BY DEF LearnedInv
  <2>2. Fits(ps, learned, [x \in Allowed |-> IF x = e THEN recorded + 1 ELSE newest[x]],
             durable, recorded + 1)
    BY <1>3, <2>1, RecordFits
  <2>3. QED
    BY <1>1, <1>2, <2>2
<1>5. Len(ps) = Len(pending) + 1 /\ Len(pending) \in Nat
      /\ Len(pending) < FlushThreshold + flushFaults
  BY DEF LearnedInv, Fits
<1>6. up' \in BOOLEAN /\ up'
  BY <1>1, Zenon
<1> HIDE DEF ps
<1>7. CASE ~Full(ps) /\ pending' = ps /\ UNCHANGED <<learned, durable, flushFaults>>
  <2>1. Len(pending') < FlushThreshold + flushFaults'
    BY <1>1, <1>5, <1>7 DEF Full
  <2>2. flushFaults' = flushFaults
    BY <1>7
  <2>3. Fits(pending', learned', newest', durable', recorded')
    BY <1>4, <1>7
  <2>4. QED
    BY <1>1, <1>3, <1>6, <2>1, <2>2, <2>3 DEF LearnedInv
<1>8. CASE Flushed(ps)
  <2>1. learned' = Written(learned, ps, <<>>) /\ pending' = <<>> /\ durable' = newest'
        /\ flushFaults' = flushFaults
    BY <1>8 DEF Flushed
  <2>2. Fits(<<>>, Written(learned, ps, <<>>), newest', newest', recorded')
    BY <1>3, <1>4, FlushFits
  <2>3. Len(<<>>) < FlushThreshold + flushFaults
    BY <1>1
  <2>4. QED
    BY <1>1, <1>3, <1>6, <2>1, <2>2, <2>3 DEF LearnedInv
<1>9. CASE CutWrite(ps) /\ pending' = ps
  <2>1. Fits(ps, learned', newest', durable', recorded')
    BY <1>3, <1>4, <1>9, CutWriteFits
  <2>2. flushFaults' \in 0 .. MaxFlushFaults /\ flushFaults' = flushFaults + 1
    BY <1>1, <1>9 DEF CutWrite
  <2>3. Len(ps) < FlushThreshold + flushFaults'
    BY <1>1, <1>5, <2>2
  <2>4. QED
    BY <1>3, <1>6, <1>9, <2>1, <2>2, <2>3 DEF LearnedInv
<1>10. QED
  BY <1>2, <1>7, <1>8, <1>9 DEF ps

LEMMA ShutdownKeeps ==
  ASSUME LearnedInv, Shutdown
  PROVE  LearnedInv'
<1>1. /\ recorded \in 0 .. MaxRecords /\ MaxRecords \in Nat /\ recorded \in Nat
      /\ recorded' = recorded /\ up' = FALSE
      /\ flushFaults \in 0 .. MaxFlushFaults /\ MaxFlushFaults \in Nat
      /\ FlushThreshold \in Nat \ {0}
      /\ Fits(pending, learned, newest, durable, recorded)
  BY LearnedAssumption DEF LearnedInv, Shutdown
<1>2. up' \in BOOLEAN
  BY <1>1, Zenon
<1>3. CASE newest' = newest /\ Flushed(pending)
  <2>1. learned' = Written(learned, pending, <<>>) /\ pending' = <<>> /\ durable' = newest'
        /\ flushFaults' = flushFaults
    BY <1>3 DEF Flushed
  <2>2. Fits(<<>>, Written(learned, pending, <<>>), newest, newest, recorded)
    BY <1>1, FlushFits
  <2>3. Len(<<>>) < FlushThreshold + flushFaults
    BY <1>1
  <2>4. QED
    BY <1>1, <1>2, <1>3, <2>1, <2>2, <2>3 DEF LearnedInv
<1>4. CASE CutWrite(pending) /\ newest' = Loaded(learned') /\ pending' = <<>>
  <2>1. Fits(pending, learned', newest, durable', recorded)
    BY <1>1, <1>4, CutWriteFits
  <2>2. Fits(<<>>, learned', Loaded(learned'), durable', recorded)
    BY <1>1, <2>1, LostFits
  <2>3. flushFaults' \in 0 .. MaxFlushFaults
    BY <1>1, <1>4 DEF CutWrite
  <2>4. Len(<<>>) < FlushThreshold + flushFaults'
    <3>1. flushFaults' \in Nat
      BY <1>1, <2>3
    <3>2. \A n \in Nat : Len(<<>>) < FlushThreshold + n
      BY <1>1
    <3>3. QED
      BY <3>1, <3>2, Zenon
  <2>5. QED
    BY <1>1, <1>2, <1>4, <2>2, <2>3, <2>4 DEF LearnedInv
<1>5. QED
  BY <1>3, <1>4 DEF Shutdown

LEMMA CrashKeeps ==
  ASSUME LearnedInv, Crash
  PROVE  LearnedInv'
<1>1. /\ recorded \in 0 .. MaxRecords /\ MaxRecords \in Nat /\ recorded \in Nat
      /\ flushFaults \in 0 .. MaxFlushFaults /\ MaxFlushFaults \in Nat
      /\ FlushThreshold \in Nat \ {0}
      /\ Fits(pending, learned, newest, durable, recorded)
  BY LearnedAssumption DEF LearnedInv
<1>2. /\ flushFaults < MaxFlushFaults /\ flushFaults' = flushFaults + 1
      /\ up' = FALSE /\ pending' = <<>> /\ newest' = Loaded(learned)
      /\ UNCHANGED <<learned, durable, recorded>>
  BY DEF Crash
<1>3. flushFaults' \in 0 .. MaxFlushFaults /\ Len(<<>>) < FlushThreshold + flushFaults'
  BY <1>1, <1>2
<1>4. Fits(<<>>, learned, Loaded(learned), durable, recorded)
  BY <1>1, LostFits
<1>5. up' \in BOOLEAN
  BY <1>2, Zenon
<1>6. QED
  BY <1>1, <1>2, <1>3, <1>4, <1>5 DEF LearnedInv

LEMMA NextLearned ==
  ASSUME LearnedInv, [Next]_store
  PROVE  LearnedInv'
<1>1. CASE UNCHANGED learning
  BY <1>1 DEF learning, LearnedInv
<1>2. CASE Learn
  BY <1>2, RecordEdgeKeeps DEF Learn
<1>3. CASE MainEnds
  BY <1>3, ShutdownKeeps, CrashKeeps DEF MainEnds
<1>4. CASE MainStarts
  <2>1. up' = TRUE /\ UNCHANGED <<learned, pending, newest, durable, recorded, flushFaults>>
    BY <1>4 DEF MainStarts, Restart
  <2>2. up' \in BOOLEAN
    BY <2>1, Zenon
  <2>3. QED
    BY <2>1, <2>2 DEF LearnedInv
<1>5. QED
  BY <1>1, <1>2, <1>3, <1>4 DEF Next, Log, store

LEMMA InitLearned ==
  ASSUME LearnedInit
  PROVE  LearnedInv
<1>1. /\ learned.lines = <<>> /\ learned.ended = TRUE /\ pending = <<>> /\ up = TRUE
      /\ newest = [e \in Allowed |-> 0] /\ durable = [e \in Allowed |-> 0]
      /\ recorded = 0 /\ flushFaults = 0
  BY DEF LearnedInit, EmptyFile
<1>2. up \in BOOLEAN /\ learned.ended \in BOOLEAN
  BY <1>1, Zenon
<1>3. /\ MaxRecords \in Nat /\ MaxFlushFaults \in Nat /\ FlushThreshold \in Nat \ {0}
      /\ Len(<<>>) = 0 /\ DOMAIN <<>> = {} /\ \A e : Of(e, <<>>) = {}
  BY LearnedAssumption DEF Of
<1>4. <<>> \in Seq(Upto(0)) /\ <<>> \in Seq(Upto(0) \cup {Garbage})
  BY EmptySeq
<1>5. \A e \in Allowed : LastN(e, <<>>) = 0
  BY <1>3 DEF LastN
<1>6. FileOf(learned, Upto(0) \cup {Garbage})
  BY <1>1, <1>2, <1>4 DEF FileOf
<1>7. newest \in [Allowed -> 0 .. 0] /\ durable = newest
  BY <1>1
<1>8. Fits(pending, learned, newest, durable, recorded)
  BY <1>1, <1>3, <1>4, <1>5, <1>6, <1>7 DEF Fits
<1>9. QED
  BY <1>1, <1>2, <1>3, <1>8 DEF LearnedInv

LEMMA LearnedMeans ==
  ASSUME LearnedInv
  PROVE  LearnedTypeOK /\ LatestLoaded /\ FlushedSurvives
<1>1. /\ Fits(pending, learned, newest, durable, recorded)
      /\ recorded \in 0 .. MaxRecords /\ MaxRecords \in Nat
  BY LearnedAssumption DEF LearnedInv
<1>2. /\ pending \in Seq(Upto(recorded)) /\ learned.lines \in Seq(Upto(recorded) \cup {Garbage})
      /\ learned.ended \in BOOLEAN
      /\ newest \in [Allowed -> 0 .. recorded] /\ durable \in [Allowed -> 0 .. recorded]
      /\ Upto(recorded) \subseteq Record
  BY <1>1, LearnedNumbers DEF Fits, FileOf
<1>3. pending \in Seq(Record) /\ newest \in [Allowed -> Nat] /\ durable \in [Allowed -> Nat]
  BY <1>1, <1>2
<1>4. LearnedTypeOK
  BY <1>2, <1>3 DEF LearnedInv, LearnedTypeOK
<1>5. Loaded(learned) = [e \in Allowed |-> LastN(e, learned.lines)]
  BY LoadedIs
<1>6. LatestLoaded
  <2> SUFFICES ASSUME pending = <<>>, Parses(learned)
               PROVE  Loaded(learned) = newest
    BY DEF LatestLoaded
  <2>1. \A e \in Allowed : Of(e, pending) = {}
    BY DEF Of
  <2>2. \A e \in Allowed : LastN(e, learned.lines) = newest[e]
    BY <1>1, <2>1 DEF Fits
  <2>3. QED
    BY <1>2, <1>5, <2>2
<1>7. FlushedSurvives
  BY <1>1, <1>5 DEF Fits, FlushedSurvives
<1>8. QED
  BY <1>4, <1>6, <1>7

(* Loading a file that parses gives every edge its last record as soon as  *)
(* nothing waits, over any number of cut flushes, crashes and restarts:    *)
(* record, flush and load_learned_tensor_edges in learning.rs agree.       *)
THEOREM LatestIsLoaded == Spec => []LatestLoaded
<1>1. Init => LearnedInv
  BY InitLearned DEF Init
<1>2. LearnedInv => LatestLoaded
  BY LearnedMeans
<1>3. QED
  BY <1>1, <1>2, NextLearned, PTL DEF Spec

(* The files keep their types, the buffer outgrows its threshold only by   *)
(* the flushes that failed, and what a flush wrote is never replaced by an *)
(* older record.                                                           *)
THEOREM FlushedStays == Spec => []Inv
<1>1. Init => LearnedInv /\ LogInv
  BY InitLearned, InitLog DEF Init
<1>2. LearnedInv /\ LogInv => Inv
  BY LearnedMeans DEF Inv, TypeOK, LogInv
<1>3. LearnedInv /\ LogInv /\ [Next]_store => LearnedInv' /\ LogInv'
  BY NextLearned, NextLog
<1>4. QED
  BY <1>1, <1>2, <1>3, PTL DEF Spec

===============================================================================
