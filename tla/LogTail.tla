------------------------------- MODULE LogTail -------------------------------
(***************************************************************************)
(* How the desktop app follows the core's log file: a list of the last     *)
(* lines that all readers share, and the position up to which the file has *)
(* been read.  The core appends at any time; a reader awaits the contents  *)
(* from the position on and then asks for the length anew.                 *)
(***************************************************************************)
EXTENDS Naturals, Sequences, SequencesExt

CONSTANTS Readers,    \* subscriptions of watchLogs
          Cap,        \* lines kept: 300 in the code
          MaxLines    \* bound: lines the core writes

ASSUME LogTailAssumption == Cap \in Nat \ {0} /\ MaxLines \in Nat

VARIABLES
  size,       \* the file's length, in lines
  position,   \* _logFilePosition
  buffer,     \* _logBuffer: the numbers of its lines
  reader,     \* per subscription: "off", "idle", "reading", "read"
  modified,   \* subscriptions whose watcher has a change to tell
  from, upto, \* per subscription: the lines its read covers
  put,        \* history: lines that were ever put into the buffer
  skipped,    \* history: lines written between the end of a read and the look
              \*   at the length
  together    \* history: two reads were under way at once

readVars == <<reader, modified, from, upto>>
bufferVars == <<position, buffer>>
historyVars == <<put, skipped, together>>
tailVars == <<size, bufferVars, readVars, historyVars>>

LogTypeOK ==
  /\ size \in 0..MaxLines /\ position \in 0..MaxLines
  /\ buffer \in Seq(1..MaxLines)
  /\ reader \in [Readers -> {"off", "idle", "reading", "read"}]
  /\ modified \subseteq Readers
  /\ from \in [Readers -> 0..MaxLines] /\ upto \in [Readers -> 0..MaxLines]
  /\ put \subseteq 1..MaxLines /\ skipped \subseteq 1..MaxLines
  /\ together \in BOOLEAN

LogInit ==
  /\ size = 0 /\ position = 0 /\ buffer = <<>>
  /\ reader = [r \in Readers |-> "off"] /\ modified = {}
  /\ from = [r \in Readers |-> 0] /\ upto = [r \in Readers |-> 0]
  /\ put = {} /\ skipped = {} /\ together = FALSE

Busy(r) == reader[r] \in {"reading", "read"}

\* The core writes a line, which the watcher of a subscription may tell of at any
\* later time, whatever has been read by then.
AppendLine ==
  /\ size < MaxLines /\ size' = size + 1
  /\ modified' = {r \in Readers : reader[r] # "off"}
  /\ UNCHANGED <<bufferVars, reader, from, upto, historyVars>>

\* _readLogFile up to its await: nothing to read in an empty file.
StartRead(r) ==
  /\ IF position = 0 /\ size = 0
       THEN /\ reader' = [reader EXCEPT ![r] = "idle"]
            /\ UNCHANGED <<from, together>>
       ELSE /\ reader' = [reader EXCEPT ![r] = "reading"]
            /\ from' = [from EXCEPT ![r] = position]
            /\ together' = (together \/ \E q \in Readers \ {r} : Busy(q))
  /\ UNCHANGED <<size, bufferVars, upto, put, skipped>>

\* A page listens: the first read.
WatchLogs(r) ==
  /\ reader[r] = "off" /\ StartRead(r)
  /\ UNCHANGED modified

\* The watcher tells of a change: asyncMap reads once the read before is over.
Modified(r) ==
  /\ reader[r] = "idle" /\ r \in modified /\ StartRead(r)
  /\ modified' = modified \ {r}

\* The stream has come to the end of the file.
EndOfFile(r) ==
  /\ reader[r] = "reading"
  /\ upto' = [upto EXCEPT ![r] = size]
  /\ reader' = [reader EXCEPT ![r] = "read"]
  /\ UNCHANGED <<size, bufferVars, modified, from, historyVars>>

LastLines(lines) ==
  SubSeq(lines, IF Len(lines) > Cap THEN Len(lines) - Cap + 1 ELSE 1, Len(lines))

\* Mutant of Finish: the position is left where the read began.
FinishInPlace(r) ==
  LET lines == [i \in 1..(upto[r] - from[r]) |-> from[r] + i] IN
  /\ reader[r] = "read"
  /\ buffer' = LastLines(buffer \o LastLines(lines))
  /\ reader' = [reader EXCEPT ![r] = "idle"]
  /\ put' = put \cup ToSet(lines)
  /\ skipped' = skipped \cup (upto[r] + 1)..size
  /\ UNCHANGED <<size, position, modified, from, upto, together>>

\* The rest of _readLogFile: the position is the length the file has by now.
Finish(r) ==
  LET lines == [i \in 1..(upto[r] - from[r]) |-> from[r] + i] IN
  /\ reader[r] = "read"
  /\ position' = size
  /\ buffer' = LastLines(buffer \o LastLines(lines))
  /\ reader' = [reader EXCEPT ![r] = "idle"]
  /\ put' = put \cup ToSet(lines)
  /\ skipped' = skipped \cup (upto[r] + 1)..size
  /\ UNCHANGED <<size, modified, from, upto, together>>

\* The page is gone; a read that is under way goes on without it.
UnwatchLogs(r) ==
  /\ reader[r] = "idle"
  /\ reader' = [reader EXCEPT ![r] = "off"]
  /\ modified' = modified \ {r}
  /\ UNCHANGED <<size, bufferVars, from, upto, historyVars>>

\* clearLogs
ClearLogs ==
  /\ buffer # <<>> /\ buffer' = <<>>
  /\ UNCHANGED <<size, position, readVars, historyVars>>

LogNext ==
  \/ AppendLine \/ ClearLogs
  \/ \E r \in Readers : \/ WatchLogs(r) \/ Modified(r) \/ EndOfFile(r)
                        \/ Finish(r) \/ UnwatchLogs(r)

LogSpec == LogInit /\ [][LogNext]_tailVars

----------------------------------------------------------------------------
(* Properties.                                                             *)

\* As long as no two reads were under way at once, every line up to the position
\* has been put into the buffer exactly once and in order, but those written
\* while a read was ending, which never come; and the buffer keeps the last
\* lines only.
LinesComeOnce ==
  /\ Len(buffer) <= Cap
  /\ ~together =>
       /\ \A i, j \in 1..Len(buffer) : i < j => buffer[i] < buffer[j]
       /\ put \cap skipped = {} /\ put \cup skipped = 1..position
=============================================================================
