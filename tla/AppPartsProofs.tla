---------------------------- MODULE AppPartsProofs ----------------------------
(***************************************************************************)
(* Proofs about the smaller parts of the app: the command client of        *)
(* Android, for any number of tries and of calls of connect; the tail of   *)
(* the log, for any readers, length of the buffer and number of lines; the *)
(* runner, for any links and number of launches; the worker that updates   *)
(* profiles, for any intervals and profiles.                               *)
(***************************************************************************)
EXTENDS DesktopRunner, CommandClient, LogTail, UpdateWorker, SequenceTheorems,
        TLAPS

----------------------------------------------------------------------------
(* The command client.                                                     *)

\* As long as nobody calls beside a job: there is one job at most, which Dart
\* waits for, and while it is under way the field is empty.
OneJob ==
  ~late => \A c \in Clients : Pending(c) =>
    /\ listening /\ field = noClient
    /\ \A d \in Clients : Pending(d) => d = c

\* A job that has not begun has failed no try, one that tries has tries left.
TriesLeft ==
  \A c \in Clients : /\ job[c] = "none" => tries[c] = 0
                     /\ job[c] = "trying" => tries[c] < MaxTries

ClientTypeInv == ClientTypeOK /\ TriesLeft
ClientInv == ClientTypeInv /\ OneJob /\ ClientsAreKnown

\* The invariant holds when nobody has called yet.
LEMMA ClientInitially == ClientInit => ClientInv
<1> SUFFICES ASSUME ClientInit PROVE ClientInv
  OBVIOUS
<1> USE CommandClientAssumption DEF ClientInit
<1>1. ClientTypeOK
  <2>1. 0 \in 0..MaxTries
    OBVIOUS
  <2> QED
    BY <2>1 DEF ClientTypeOK
<1>2. TriesLeft
  BY DEF TriesLeft
<1>3. \A c \in Clients : ~Pending(c)
  BY DEF Pending
<1> QED
  BY <1>1, <1>2, <1>3 DEF ClientInv, ClientTypeInv, OneJob, ClientsAreKnown

\* The types of the command client's state survive every step.
LEMMA ClientTypes ==
  ClientTypeInv /\ [ClientNext]_commandVars => ClientTypeInv'
<1> SUFFICES ASSUME ClientTypeInv, [ClientNext]_commandVars PROVE ClientTypeInv'
  OBVIOUS
<1> USE CommandClientAssumption DEF ClientTypeInv, ClientTypeOK, TriesLeft,
        commandVars, jobVars
<1>1. CASE OnListen
  BY <1>1 DEF OnListen, Disconnect
<1>2. CASE OnCancel
  BY <1>2 DEF OnCancel, Disconnect
<1>3. CASE Detach
  BY <1>3 DEF Detach
<1>4. CASE ServerStarts \/ ServerStops
  BY <1>4 DEF ServerStarts, ServerStops
<1>5. ASSUME NEW c \in Clients, Try(c) PROVE ClientTypeInv'
  <2>1. tries[c] \in 0..MaxTries /\ tries[c] < MaxTries
    BY <1>5 DEF Try
  <2>2. CASE UNCHANGED tries
    BY <1>5, <2>2 DEF Try
  <2>3. CASE tries' # tries
    <3>1. /\ tries' = [tries EXCEPT ![c] = tries[c] + 1]
          /\ job' = [job EXCEPT ![c] = IF tries[c] + 1 = MaxTries
                                         THEN "over" ELSE job[c]]
          /\ UNCHANGED <<field, linked, server, listening, late>>
      BY <1>5, <2>3 DEF Try
    <3>2. tries[c] + 1 \in 0..MaxTries
      BY <2>1
    <3> QED
      BY <1>5, <3>1, <3>2, <2>1 DEF Try
  <2> QED
    BY <2>2, <2>3
<1>6. ASSUME NEW c \in Clients, Assign(c) PROVE ClientTypeInv'
  BY <1>6 DEF Assign
<1>7. CASE UNCHANGED commandVars
  BY <1>7
<1> QED
  BY <1>1, <1>2, <1>3, <1>4, <1>5, <1>6, <1>7 DEF ClientNext

\* Every step keeps the promise, and what it rests on.
LEMMA ClientStep == ClientInv /\ [ClientNext]_commandVars => ClientInv'
<1> SUFFICES ASSUME ClientInv, [ClientNext]_commandVars PROVE ClientInv'
  OBVIOUS
<1>0. ClientTypeOK /\ ClientTypeInv'
  BY ClientTypes DEF ClientInv, ClientTypeInv
<1>a. 0 \notin Clients
  BY CommandClientAssumption DEF Clients
<1> SUFFICES ASSUME ~late' PROVE OneJob' /\ ClientsAreKnown'
  BY <1>0 DEF ClientInv, ClientTypeInv, OneJob, ClientsAreKnown
<1> USE <1>0, <1>a DEF ClientTypeOK, OneJob, ClientsAreKnown, ClientInv, Pending,
        noClient
<1>1. CASE OnListen
  <2>1. ~late /\ \A c \in Clients : ~Pending(c)
    BY <1>1 DEF OnListen, Disconnect
  <2>2. linked' = {}
    BY <1>1, <2>1 DEF OnListen, Disconnect
  <2>3. PICK c \in Clients : job' = [job EXCEPT ![c] = "trying"]
    BY <1>1 DEF OnListen
  <2>4. \A d \in Clients : Pending(d)' => d = c
    BY <2>1, <2>3
  <2> QED
    BY <1>1, <2>2, <2>4 DEF OnListen, Disconnect
<1>2. CASE OnCancel
  <2>1. ~late /\ \A c \in Clients : ~Pending(c)
    BY <1>2 DEF OnCancel, Disconnect
  <2> QED
    BY <1>2, <2>1 DEF OnCancel, Disconnect
<1>3. CASE Detach
  <2>1. ~late
    BY <1>3 DEF Detach
  <2>2. linked' = {}
    BY <1>3, <2>1 DEF Detach
  <2>3. \A c \in Clients : ~Pending(c)'
    BY <1>3 DEF Detach
  <2> QED
    BY <2>2, <2>3
<1>4. CASE ServerStarts \/ ServerStops
  BY <1>4 DEF ServerStarts, ServerStops, jobVars
<1>5. ASSUME NEW c \in Clients, Try(c) PROVE OneJob' /\ ClientsAreKnown'
  <2>1. Pending(c) /\ ~late
    BY <1>5 DEF Try
  <2>2. \A d \in Clients : Pending(d)' => Pending(d)
    BY <1>5 DEF Try
  <2>3. OneJob'
    BY <1>5, <2>1, <2>2 DEF Try
  <2>4. linked = {}
    BY <1>5, <2>1 DEF Try
  <2> QED
    BY <1>5, <2>1, <2>3, <2>4 DEF Try
<1>6. ASSUME NEW c \in Clients, Assign(c) PROVE OneJob' /\ ClientsAreKnown'
  <2>1. Pending(c) /\ ~late
    BY <1>6 DEF Assign
  <2>2. \A d \in Clients : ~Pending(d)'
    BY <1>6, <2>1 DEF Assign
  <2>3. linked \subseteq {c}
    BY <2>1
  <2> QED
    BY <1>6, <2>1, <2>2, <2>3 DEF Assign
<1>7. CASE UNCHANGED commandVars
  BY <1>7 DEF commandVars, jobVars
<1> QED
  BY <1>1, <1>2, <1>3, <1>4, <1>5, <1>6, <1>7 DEF ClientNext

\* The variables of the command client have the types of ClientTypeOK.
THEOREM ClientTypesCorrect == ClientSpec => []ClientTypeOK
<1>1. ClientInv => ClientTypeOK
  BY DEF ClientInv, ClientTypeInv
<1> QED
  BY <1>1, ClientInitially, ClientStep, PTL DEF ClientSpec

\* Every connection of a command client belongs to a client that disconnect()
\* would find or that is about to be put there, as long as nobody calls beside a
\* job: ClientsAreKnown, for any number of calls and of tries.
THEOREM ConnectionsAreKnown == ClientSpec => []ClientsAreKnown
<1>1. ClientInv => ClientsAreKnown
  BY DEF ClientInv
<1> QED
  BY <1>1, ClientInitially, ClientStep, PTL DEF ClientSpec

----------------------------------------------------------------------------
(* The tail of the log.                                                    *)

\* A sequence of lines in the order of their numbers.
InOrder(lines) == \A i, j \in 1..Len(lines) : i < j => lines[i] < lines[j]

\* The lines a read of r puts into the buffer.
LinesRead(r) == [i \in 1..(upto[r] - from[r]) |-> from[r] + i]

\* LastLines returns the end of a sequence, Cap long at most, and so keeps its
\* members and their order.
LEMMA LastLinesEnd ==
  ASSUME NEW S \in SUBSET Nat, NEW lines \in Seq(S)
  PROVE  /\ LastLines(lines) \in Seq(S)
         /\ Len(LastLines(lines)) <= Cap
         /\ InOrder(lines) => InOrder(LastLines(lines))
<1> DEFINE first == IF Len(lines) > Cap THEN Len(lines) - Cap + 1 ELSE 1
<1>0. Cap \in Nat \ {0} /\ Len(lines) \in Nat
  BY LogTailAssumption
<1>1. LastLines(lines) = SubSeq(lines, first, Len(lines))
  BY DEF LastLines
<1>2. first \in 1..(Len(lines) + 1) /\ Len(lines) - first + 1 <= Cap
  BY <1>0
<1> HIDE DEF first
<1>3. /\ SubSeq(lines, first, Len(lines)) \in Seq(S)
      /\ Len(SubSeq(lines, first, Len(lines))) = Len(lines) - first + 1
      /\ \A i \in 1..(Len(lines) - first + 1) :
           SubSeq(lines, first, Len(lines))[i] = lines[first + i - 1]
  BY <1>0, <1>2, SubSeqProperties
<1>4. ASSUME InOrder(lines) PROVE InOrder(LastLines(lines))
  <2> SUFFICES ASSUME NEW i \in 1..Len(LastLines(lines)),
                      NEW j \in 1..Len(LastLines(lines)), i < j
               PROVE  LastLines(lines)[i] < LastLines(lines)[j]
    BY DEF InOrder
  <2>1. /\ first + i - 1 \in 1..Len(lines) /\ first + j - 1 \in 1..Len(lines)
        /\ first + i - 1 < first + j - 1
    BY <1>0, <1>1, <1>2, <1>3
  <2> QED
    BY <1>1, <1>3, <1>4, <2>1 DEF InOrder
<1> QED
  BY <1>1, <1>2, <1>3, <1>4

\* Reads that follow each other put what they have read behind what is there.
LEMMA OrderOfJoin ==
  ASSUME NEW n \in Nat, NEW a \in Seq(1..n), NEW m \in Nat, n <= m,
         NEW b \in Seq((n + 1)..m), InOrder(a), InOrder(b)
  PROVE  a \o b \in Seq(1..m) /\ InOrder(a \o b)
<1>1. a \in Seq(1..m) /\ b \in Seq(1..m)
  <2>1. 1..n \subseteq 1..m /\ (n + 1)..m \subseteq 1..m
    OBVIOUS
  <2> QED
    BY <2>1
<1>2. /\ a \o b \in Seq(1..m)
      /\ Len(a \o b) = Len(a) + Len(b)
      /\ \A i \in 1..(Len(a) + Len(b)) :
           (a \o b)[i] = IF i <= Len(a) THEN a[i] ELSE b[i - Len(a)]
  BY <1>1, ConcatProperties
<1>3. Len(a) \in Nat /\ Len(b) \in Nat
  OBVIOUS
<1>4. /\ \A i \in 1..Len(a) : a[i] \in 1..n
      /\ \A i \in 1..Len(b) : b[i] \in (n + 1)..m
  BY SMTT(30)
<1> SUFFICES ASSUME NEW i \in 1..Len(a \o b), NEW j \in 1..Len(a \o b), i < j
             PROVE  (a \o b)[i] < (a \o b)[j]
  BY <1>2 DEF InOrder
<1>5. CASE j <= Len(a)
  BY <1>2, <1>3, <1>5 DEF InOrder
<1>6. CASE i <= Len(a) /\ j > Len(a)
  <2>1. j - Len(a) \in 1..Len(b)
    BY <1>2, <1>3, <1>6
  <2> QED
    BY SMTT(30), <1>2, <1>3, <1>4, <1>6, <2>1
<1>7. CASE i > Len(a)
  <2>1. /\ i - Len(a) \in 1..Len(b) /\ j - Len(a) \in 1..Len(b)
        /\ i - Len(a) < j - Len(a)
    BY <1>2, <1>3, <1>7
  <2>2. b[i - Len(a)] < b[j - Len(a)]
    BY <2>1 DEF InOrder
  <2>3. (a \o b)[i] = b[i - Len(a)] /\ (a \o b)[j] = b[j - Len(a)]
    BY SMTT(30), <1>2, <1>3, <1>7
  <2> QED
    BY <2>2, <2>3
<1>8. i \in Int /\ j \in Int
  BY <1>2, <1>3
<1> QED
  BY SMTT(30), <1>3, <1>5, <1>6, <1>7, <1>8

\* The position is never beyond the file's end; a read's range is.
Ranges ==
  /\ position <= size
  /\ \A r \in Readers : reader[r] = "read" => upto[r] <= size

\* As long as no two reads were under way at once, the one that is reads from
\* the position on.
OneReader ==
  ~together => \A r \in Readers : Busy(r) =>
    /\ from[r] = position
    /\ reader[r] = "read" => position <= upto[r]
    /\ \A q \in Readers : Busy(q) => q = r

\* ... and the buffer holds lines up to the position, in order.
BufferInOrder == ~together => buffer \in Seq(1..position) /\ InOrder(buffer)

LogInv == LogTypeOK /\ Ranges /\ OneReader /\ BufferInOrder /\ LinesComeOnce

\* The invariant holds in an empty log.
LEMMA LogInitially == LogInit => LogInv
<1> SUFFICES ASSUME LogInit PROVE LogInv
  OBVIOUS
<1> USE LogTailAssumption DEF LogInit
<1>1. LogTypeOK
  <2>1. 0 \in 0..MaxLines /\ <<>> \in Seq(1..MaxLines)
    OBVIOUS
  <2> QED
    BY <2>1 DEF LogTypeOK
<1>2. Ranges /\ OneReader
  BY DEF Ranges, OneReader, Busy
<1>3. BufferInOrder
  BY DEF BufferInOrder, InOrder
<1>4. LinesComeOnce
  BY DEF LinesComeOnce
<1> QED
  BY <1>1, <1>2, <1>3, <1>4 DEF LogInv

\* What a read that ends puts into the buffer.
LEMMA FinishedLines ==
  ASSUME LogTypeOK, Ranges, NEW r \in Readers, reader[r] = "read"
  PROVE  /\ LinesRead(r) \in Seq((from[r] + 1)..upto[r])
         /\ InOrder(LinesRead(r))
         /\ ToSet(LinesRead(r)) = (from[r] + 1)..upto[r]
         /\ LastLines(LinesRead(r)) \in Seq((from[r] + 1)..upto[r])
         /\ InOrder(LastLines(LinesRead(r)))
<1>1. from[r] \in Nat /\ upto[r] \in Nat
  BY LogTailAssumption DEF LogTypeOK
<1> DEFINE n == upto[r] - from[r]
           lines == LinesRead(r)
<1>2. \A i \in 1..n : lines[i] = from[r] + i /\ from[r] + i \in (from[r] + 1)..upto[r]
  BY <1>1 DEF LinesRead
<1>3. lines \in Seq((from[r] + 1)..upto[r])
  <2>1. CASE n > 0
    <3>1. n \in Nat /\ lines \in [1..n -> (from[r] + 1)..upto[r]]
      BY <1>1, <1>2, <2>1 DEF LinesRead
    <3> QED
      BY <3>1, SeqDef
  <2>2. CASE ~(n > 0)
    <3>1. lines \in [1..0 -> (from[r] + 1)..upto[r]]
      BY <1>1, <2>2 DEF LinesRead
    <3> QED
      BY <3>1, SeqDef
  <2> QED
    BY <2>1, <2>2
<1>4. DOMAIN lines = 1..n /\ 1..Len(lines) = 1..n
  <2>1. DOMAIN lines = 1..n
    BY DEF LinesRead
  <2>2. DOMAIN lines = 1..Len(lines)
    BY <1>3, LenProperties
  <2> QED
    BY <2>1, <2>2
<1>5. InOrder(lines)
  BY <1>1, <1>2, <1>4 DEF InOrder
<1>6. ToSet(lines) = (from[r] + 1)..upto[r]
  <2>1. ToSet(lines) \subseteq (from[r] + 1)..upto[r]
    BY <1>2, <1>4 DEF ToSet
  <2>2. ASSUME NEW x \in (from[r] + 1)..upto[r] PROVE x \in ToSet(lines)
    <3>1. x - from[r] \in 1..n /\ lines[x - from[r]] = x
      BY <1>1, <1>2
    <3> QED
      BY <1>4, <3>1 DEF ToSet
  <2> QED
    BY <2>1, <2>2
<1>7. (from[r] + 1)..upto[r] \in SUBSET Nat
  BY <1>1
<1> QED
  BY <1>3, <1>5, <1>6, <1>7, LastLinesEnd

\* The types of the log's state, and the ranges, survive every step.
LEMMA LogTypes ==
  LogTypeOK /\ Ranges /\ [LogNext]_tailVars => LogTypeOK' /\ Ranges'
<1> SUFFICES ASSUME LogTypeOK, Ranges, [LogNext]_tailVars
             PROVE  LogTypeOK' /\ Ranges'
  OBVIOUS
<1> USE LogTailAssumption DEF LogTypeOK, Ranges, tailVars, bufferVars, readVars,
        historyVars
<1>1. CASE AppendLine
  BY <1>1 DEF AppendLine
<1>2. CASE ClearLogs
  BY <1>2 DEF ClearLogs
<1>3. ASSUME NEW r \in Readers, WatchLogs(r) \/ Modified(r)
      PROVE  LogTypeOK' /\ Ranges'
  <2>1. StartRead(r) /\ modified' \subseteq modified
    BY <1>3 DEF WatchLogs, Modified
  <2> QED
    BY <2>1 DEF StartRead
<1>4. ASSUME NEW r \in Readers, EndOfFile(r) PROVE LogTypeOK' /\ Ranges'
  BY <1>4 DEF EndOfFile
<1>5. ASSUME NEW r \in Readers, Finish(r) PROVE LogTypeOK' /\ Ranges'
  <2>1. /\ position' = size /\ buffer' = LastLines(buffer \o LastLines(LinesRead(r)))
        /\ reader' = [reader EXCEPT ![r] = "idle"]
        /\ put' = put \cup ToSet(LinesRead(r))
        /\ skipped' = skipped \cup (upto[r] + 1)..size
        /\ UNCHANGED <<size, modified, from, upto, together>>
    BY <1>5 DEF Finish, LinesRead
  <2>2. /\ upto[r] \in 0..MaxLines /\ from[r] \in 0..MaxLines /\ size \in 0..MaxLines
        /\ (from[r] + 1)..upto[r] \subseteq 1..MaxLines
        /\ (upto[r] + 1)..size \subseteq 1..MaxLines
    OBVIOUS
  <2>3. /\ LastLines(LinesRead(r)) \in Seq((from[r] + 1)..upto[r])
        /\ ToSet(LinesRead(r)) = (from[r] + 1)..upto[r]
    BY <1>5, FinishedLines DEF Finish
  <2>4. LastLines(LinesRead(r)) \in Seq(1..MaxLines)
    BY <2>2, <2>3, SeqMonotonic
  <2>5. buffer \o LastLines(LinesRead(r)) \in Seq(1..MaxLines)
    BY <2>4, ConcatProperties
  <2>6. 1..MaxLines \in SUBSET Nat
    OBVIOUS
  <2>7. LastLines(buffer \o LastLines(LinesRead(r))) \in Seq(1..MaxLines)
    BY <2>5, <2>6, LastLinesEnd
  <2>8. put' \subseteq 1..MaxLines /\ skipped' \subseteq 1..MaxLines
    BY <2>1, <2>2, <2>3
  <2> QED
    BY <2>1, <2>2, <2>7, <2>8
<1>6. ASSUME NEW r \in Readers, UnwatchLogs(r) PROVE LogTypeOK' /\ Ranges'
  BY <1>6 DEF UnwatchLogs
<1>7. CASE UNCHANGED tailVars
  BY <1>7
<1> QED
  BY <1>1, <1>2, <1>3, <1>4, <1>5, <1>6, <1>7 DEF LogNext

\* The end of a read keeps the promise.
LEMMA FinishKeeps ==
  ASSUME LogInv, NEW r \in Readers, Finish(r)
  PROVE  OneReader' /\ BufferInOrder' /\ LinesComeOnce'
<1>1. /\ position' = size /\ buffer' = LastLines(buffer \o LastLines(LinesRead(r)))
      /\ reader' = [reader EXCEPT ![r] = "idle"]
      /\ put' = put \cup ToSet(LinesRead(r))
      /\ skipped' = skipped \cup (upto[r] + 1)..size
      /\ reader[r] = "read"
      /\ UNCHANGED <<size, modified, from, upto, together>>
  BY DEF Finish, LinesRead
<1>2. /\ size \in Nat /\ position \in Nat /\ upto[r] \in Nat /\ from[r] \in Nat
      /\ position <= size /\ upto[r] <= size
  BY <1>1, LogTailAssumption DEF LogInv, LogTypeOK, Ranges
<1>3. OneReader'
  BY <1>1 DEF LogInv, LogTypeOK, OneReader, Busy
<1>4. buffer \in Seq(1..MaxLines) /\ 1..MaxLines \in SUBSET Nat
  BY LogTailAssumption DEF LogInv, LogTypeOK
<1>5. /\ LastLines(LinesRead(r)) \in Seq((from[r] + 1)..upto[r])
      /\ InOrder(LastLines(LinesRead(r)))
      /\ ToSet(LinesRead(r)) = (from[r] + 1)..upto[r]
  BY <1>1, FinishedLines DEF LogInv
<1>6. Len(buffer') <= Cap
  <2>1. (from[r] + 1)..upto[r] \in SUBSET Nat
    BY <1>2
  <2>2. LastLines(LinesRead(r)) \in Seq(Nat) /\ buffer \in Seq(Nat)
    BY <1>4, <1>5, <2>1, SeqMonotonic
  <2>3. buffer \o LastLines(LinesRead(r)) \in Seq(Nat)
    BY <2>2, ConcatProperties
  <2> QED
    BY <1>1, <2>3, LastLinesEnd
<1>7. CASE together
  BY <1>1, <1>3, <1>6, <1>7 DEF BufferInOrder, LinesComeOnce
<1>8. CASE ~together
  <2>1. from[r] = position /\ position <= upto[r]
    BY <1>1, <1>8 DEF LogInv, OneReader, Busy
  <2>2. buffer \in Seq(1..position) /\ InOrder(buffer)
    BY <1>8 DEF LogInv, BufferInOrder
  <2>3. /\ buffer \o LastLines(LinesRead(r)) \in Seq(1..upto[r])
        /\ InOrder(buffer \o LastLines(LinesRead(r)))
    BY <1>2, <1>5, <2>1, <2>2, OrderOfJoin
  <2>4. 1..upto[r] \in SUBSET Nat /\ 1..upto[r] \subseteq 1..size
    BY <1>2
  <2>5. buffer' \in Seq(1..upto[r]) /\ InOrder(buffer')
    BY <1>1, <2>3, <2>4, LastLinesEnd DEF InOrder
  <2>6. BufferInOrder'
    <3>1. buffer' \in Seq(1..position')
      BY <1>1, <2>4, <2>5, SeqMonotonic
    <3> QED
      BY <2>5, <3>1 DEF BufferInOrder, InOrder
  <2>7. put \cap skipped = {} /\ put \cup skipped = 1..position
    BY <1>8 DEF LogInv, LinesComeOnce
  <2>8. put' \cap skipped' = {} /\ put' \cup skipped' = 1..position'
    BY <1>1, <1>2, <1>5, <2>1, <2>7
  <2> QED
    BY <1>1, <1>3, <1>6, <2>5, <2>6, <2>8 DEF LinesComeOnce, InOrder
<1> QED
  BY <1>7, <1>8

\* Every step keeps the promise, and what it rests on.
LEMMA LogStep == LogInv /\ [LogNext]_tailVars => LogInv'
<1> SUFFICES ASSUME LogInv, [LogNext]_tailVars PROVE LogInv'
  OBVIOUS
<1>0. LogTypeOK /\ Ranges /\ LogTypeOK' /\ Ranges'
  BY LogTypes DEF LogInv
<1> SUFFICES OneReader' /\ BufferInOrder' /\ LinesComeOnce'
  BY <1>0 DEF LogInv
<1>1. CASE AppendLine
  BY <1>0, <1>1
  DEF LogInv, OneReader, BufferInOrder, LinesComeOnce, AppendLine, InOrder, Busy,
      bufferVars, historyVars
<1>2. CASE ClearLogs
  <2>1. buffer' = <<>> /\ UNCHANGED <<position, reader, from, upto, together, put, skipped>>
    BY <1>2 DEF ClearLogs, readVars, historyVars
  <2>2. OneReader'
    BY <2>1 DEF LogInv, OneReader, Busy
  <2>3. BufferInOrder'
    BY <2>1 DEF BufferInOrder, InOrder
  <2> QED
    BY <2>1, <2>2, <2>3, LogTailAssumption DEF LogInv, LinesComeOnce
<1>3. ASSUME NEW r \in Readers, WatchLogs(r) \/ Modified(r)
      PROVE  OneReader' /\ BufferInOrder' /\ LinesComeOnce'
  <2>1. StartRead(r) /\ ~Busy(r)
    BY <1>3 DEF WatchLogs, Modified, Busy
  <2>2. UNCHANGED <<buffer, position, put, skipped>> /\ (together => together')
    BY <2>1 DEF StartRead, bufferVars
  <2>3. BufferInOrder' /\ LinesComeOnce'
    BY <2>2 DEF LogInv, BufferInOrder, LinesComeOnce, InOrder
  <2>4. OneReader'
    <3>1. CASE position = 0 /\ size = 0
      BY <1>0, <2>1, <2>2, <3>1
      DEF StartRead, LogInv, LogTypeOK, OneReader, Busy, bufferVars
    <3>2. CASE ~(position = 0 /\ size = 0)
      <4>1. /\ reader' = [reader EXCEPT ![r] = "reading"]
            /\ from' = [from EXCEPT ![r] = position]
            /\ together' = (together \/ \E q \in Readers \ {r} : Busy(q))
            /\ UNCHANGED <<upto, position>>
        BY <2>1, <3>2 DEF StartRead, bufferVars
      <4>2. ASSUME ~together' PROVE \A q \in Readers : Busy(q)' => q = r
        BY <1>0, <4>1, <4>2 DEF Busy, LogTypeOK
      <4> QED
        BY <1>0, <4>1, <4>2 DEF OneReader, Busy, LogTypeOK
    <3> QED
      BY <3>1, <3>2
  <2> QED
    BY <2>3, <2>4
<1>4. ASSUME NEW r \in Readers, EndOfFile(r)
      PROVE  OneReader' /\ BufferInOrder' /\ LinesComeOnce'
  <2>1. /\ upto' = [upto EXCEPT ![r] = size]
        /\ reader' = [reader EXCEPT ![r] = "read"]
        /\ reader[r] = "reading"
        /\ UNCHANGED <<position, buffer, from, together, put, skipped>>
    BY <1>4 DEF EndOfFile, bufferVars, historyVars
  <2>2. BufferInOrder' /\ LinesComeOnce'
    BY <2>1 DEF LogInv, BufferInOrder, LinesComeOnce, InOrder
  <2>3. \A q \in Readers : Busy(q)' = Busy(q)
    BY <1>0, <2>1 DEF Busy, LogTypeOK
  <2>4. OneReader'
    BY <1>0, <2>1, <2>3 DEF LogInv, LogTypeOK, Ranges, OneReader
  <2> QED
    BY <2>2, <2>4
<1>5. ASSUME NEW r \in Readers, Finish(r)
      PROVE  OneReader' /\ BufferInOrder' /\ LinesComeOnce'
  BY <1>5, FinishKeeps
<1>6. ASSUME NEW r \in Readers, UnwatchLogs(r)
      PROVE  OneReader' /\ BufferInOrder' /\ LinesComeOnce'
  BY <1>0, <1>6
  DEF UnwatchLogs, LogInv, LogTypeOK, OneReader, Busy, BufferInOrder, InOrder,
      LinesComeOnce, bufferVars, historyVars
<1>7. CASE UNCHANGED tailVars
  BY <1>7 DEF LogInv, OneReader, Busy, BufferInOrder, InOrder, LinesComeOnce,
         tailVars, bufferVars, readVars, historyVars
<1> QED
  BY <1>1, <1>2, <1>3, <1>4, <1>5, <1>6, <1>7 DEF LogNext

\* The variables of the log's tail have the types of LogTypeOK.
THEOREM LogTypesCorrect == LogSpec => []LogTypeOK
<1>1. LogInv => LogTypeOK
  BY DEF LogInv
<1> QED
  BY <1>1, LogInitially, LogStep, PTL DEF LogSpec

\* As long as no two reads were under way at once, every line up to the position
\* has come exactly once and in order, but those a read's end passed over:
\* LinesComeOnce, for any readers, buffer and log.
THEOREM LogLinesComeOnce == LogSpec => []LinesComeOnce
<1>1. LogInv => LinesComeOnce
  BY DEF LogInv
<1> QED
  BY <1>1, LogInitially, LogStep, PTL DEF LogSpec

----------------------------------------------------------------------------
(* The runner's process.                                                   *)

\* What the main thread of an app has made of its window, object, class, engine
\* and COM when it is at a place.
NoClass == [flag |-> FALSE, system |-> FALSE]
Nothing(a) ==
  /\ objects[a] = 0 /\ title[a] = "none" /\ ~handle[a] /\ ~engine[a]
  /\ classes[a] = NoClass
Window(a) == title[a] # "none" /\ handle[a]
NoWindow(a) == title[a] = "none" /\ ~handle[a] /\ ~engine[a]

AtPlace(a) ==
  /\ pc[a] \in {"none", "find", "dispatch"} => Nothing(a)
  /\ pc[a] = "create" =>
       objects[a] = 1 /\ NoWindow(a) /\ classes[a] = NoClass /\ com[a]
  /\ pc[a] = "setup" =>
       objects[a] = 1 /\ Window(a) /\ ~engine[a] /\ classes[a].system /\ com[a]
  /\ pc[a] \in {"loop", "unwind"} =>
       /\ objects[a] = 1 /\ classes[a].system /\ com[a]
       /\ Window(a) \/ NoWindow(a)
       /\ pc[a] = "unwind" => quit[a]
       /\ quit[a] /\ engine[a] => bare[a]
  /\ pc[a] = "members" =>
       /\ objects[a] = 1 /\ classes[a].system
       /\ Window(a) \/ NoWindow(a)
       /\ engine[a] => com[a] \/ bare[a]
  /\ pc[a] = "base" =>
       /\ objects[a] = 1 /\ classes[a].system /\ ~engine[a]
       /\ Window(a) \/ NoWindow(a)
  /\ pc[a] \in Ended => Nothing(a)
  /\ pc[a] \in {"none", "find", "dispatch", "create", "setup"} => ~quit[a]
  /\ pc[a] # "register"

\* The types of what AtPlace speaks of.
ProcessTypes ==
  /\ pc \in [Apps -> {"none", "find", "dispatch", "create", "register", "setup",
                      "loop", "unwind", "members", "base"} \cup Ended]
  /\ title \in [Apps -> {"none", "name", "name and version"}]
  /\ handle \in [Apps -> BOOLEAN] /\ engine \in [Apps -> BOOLEAN]
  /\ objects \in [Apps -> Nat]
  /\ classes \in [Apps -> [flag : BOOLEAN, system : BOOLEAN]]
  /\ com \in [Apps -> BOOLEAN]
  /\ quit \in [Apps -> BOOLEAN] /\ bare \in [Apps -> BOOLEAN]

ProcessInv ==
  platform = "windows" => ProcessTypes /\ \A a \in Apps : AtPlace(a)

\* No app has been launched.
LEMMA ProcessInitially == RunnerInit => ProcessInv
  BY DEF RunnerInit, ProcessInv, ProcessTypes, AtPlace, Nothing, NoClass, Ended

\* A process is where its main thread has brought it.
LEMMA PlacesSuffice == ProcessInv => LifeTimes
<1> SUFFICES ASSUME ProcessInv, platform = "windows", NEW a \in Apps
             PROVE  /\ handle[a] = (title[a] # "none")
                    /\ title[a] # "none" => objects[a] = 1 /\ classes[a].system
                    /\ engine[a] => title[a] # "none" /\ (com[a] \/ bare[a])
                    /\ pc[a] \in Ended => /\ objects[a] = 0 /\ ~engine[a]
                                          /\ classes[a] = [flag |-> FALSE,
                                                           system |-> FALSE]
  BY DEF LifeTimes
<1>1. AtPlace(a) /\ ProcessTypes
  BY DEF ProcessInv
<1> QED
  BY <1>1 DEF AtPlace, ProcessTypes, Nothing, Window, NoWindow, NoClass, Ended

\* Other apps keep what they have when one takes a step.
Others(a) ==
  \A b \in Apps \ {a} :
    /\ pc'[b] = pc[b] /\ title'[b] = title[b] /\ handle'[b] = handle[b]
    /\ engine'[b] = engine[b] /\ objects'[b] = objects[b]
    /\ classes'[b] = classes[b] /\ com'[b] = com[b] /\ quit'[b] = quit[b]
    /\ bare'[b] = bare[b]

\* A step of an app keeps the types, leaves the others alone, and brings the
\* process where AtPlace says.
LEMMA ProcessStep ==
  ASSUME platform = "windows", ProcessInv, NEW a \in Apps,
         \/ Launch(a) \/ Main(a) \/ CloseWindow(a) \/ Quit(a)
         \/ Bootstrap(a) \/ BootFails(a) \/ Receive(a)
  PROVE  ProcessTypes' /\ Others(a) /\ AtPlace(a)'
<1>0. ProcessTypes /\ AtPlace(a)
  BY DEF ProcessInv
<1> USE <1>0 DEF ProcessTypes, AtPlace, Others, Nothing, Window, NoWindow, NoClass,
        Ended, Goto, osVars, mainVars, quitVars, linkVars
<1>1. CASE Launch(a)
  BY <1>1 DEF Launch
<1>2. CASE FindWindow(a)
  <2>1. CASE pc' = [pc EXCEPT ![a] = "dispatch"]
    <3>1. UNCHANGED <<title, handle, engine, objects, classes, com, quit, bare>>
          /\ pc[a] = "find"
      BY <1>2, <2>1 DEF FindWindow
    <3> QED
      BY <2>1, <3>1
  <2>2. CASE pc' = [pc EXCEPT ![a] = "create"]
    <3>1. /\ com' = [com EXCEPT ![a] = TRUE]
          /\ objects' = [objects EXCEPT ![a] = 1]
          /\ UNCHANGED <<title, handle, engine, classes, quit, bare>>
          /\ pc[a] = "find"
      <4>1. pc[a] = "find" /\ pc'[a] = "create"
        BY <1>2, <2>2 DEF FindWindow
      <4>2. objects[a] = 0
        BY <4>1
      <4>3. /\ com' = [com EXCEPT ![a] = TRUE]
            /\ objects' = [objects EXCEPT ![a] = objects[a] + 1]
            /\ UNCHANGED <<title, handle, engine, classes, quit, bare>>
        BY <1>2, <4>1 DEF FindWindow
      <4>4. objects[a] + 1 = 1
        <5> HIDE DEF ProcessTypes, AtPlace
        <5> QED
          BY <4>2
      <4> QED
        <5> HIDE <1>0 DEF ProcessTypes, AtPlace
        <5> QED
          BY <4>1, <4>3, <4>4, Zenon
    <3> QED
      BY <2>2, <3>1
  <2> QED
    BY <1>2, <2>1, <2>2 DEF FindWindow
<1>3. CASE Dispatch(a)
  BY <1>3 DEF Dispatch
<1>4. CASE Create(a)
  BY ZenonT(40), <1>4 DEF Create, GetWindowClass
<1>5. CASE OnCreate(a)
  BY ZenonT(40), <1>5 DEF OnCreate
<1>6. CASE Register(a)
  BY <1>6 DEF Register
<1>7. CASE LoopEnds(a)
  BY <1>7 DEF LoopEnds
<1>8. CASE Unwind(a)
  BY <1>8 DEF Unwind
<1>9. CASE DropMembers(a)
  BY <1>9 DEF DropMembers, EngineEnds
<1>10. CASE DropWindow(a)
  <2>1. DestroyLast(classes[a], title[a]) = NoClass
    BY DEF DestroyLast, UnregisterWindowClass
  <2>2. /\ objects' = [objects EXCEPT ![a] = 0]
        /\ classes' = [classes EXCEPT ![a] = NoClass]
        /\ title' = [title EXCEPT ![a] = "none"]
        /\ handle' = [handle EXCEPT ![a] = FALSE]
        /\ pc[a] = "base"
        /\ UNCHANGED <<engine, com, quit, bare>>
    <3>1. pc[a] = "base" /\ objects[a] - 1 = 0
      <4>1. pc[a] = "base"
        BY <1>10 DEF DropWindow
      <4>2. objects[a] = 1
        BY <4>1
      <4> HIDE <1>0 DEF ProcessTypes, AtPlace
      <4> QED
        BY <4>1, <4>2
    <3>2. objects' = [objects EXCEPT ![a] = objects[a] - 1]
      BY <1>10, Zenon DEF DropWindow
    <3>3. classes' = [classes EXCEPT ![a] = DestroyLast(classes[a], title[a])]
      BY <1>10, Zenon DEF DropWindow
    <3>4. /\ title' = [title EXCEPT ![a] = "none"]
          /\ handle' = [handle EXCEPT ![a] = FALSE]
          /\ UNCHANGED <<engine, com, quit, bare>>
      BY <1>10, Zenon DEF DropWindow
    <3>5. objects' = [objects EXCEPT ![a] = 0]
      <4> HIDE <1>0 DEF ProcessTypes, AtPlace
      <4> QED
        BY <3>1, <3>2, Zenon
    <3>6. classes' = [classes EXCEPT ![a] = NoClass]
      <4> HIDE <1>0 DEF ProcessTypes, AtPlace, NoClass
      <4> QED
        BY <2>1, <3>3, Zenon
    <3> QED
      BY <3>1, <3>4, <3>5, <3>6
  <2>3. pc' \in {[pc EXCEPT ![a] = "failure"], [pc EXCEPT ![a] = "success"]}
    BY <1>10 DEF DropWindow
  <2> QED
    BY ZenonT(40), <2>2, <2>3
<1>11. CASE CloseWindow(a)
  BY <1>11 DEF CloseWindow, EngineEnds
<1>12. CASE Quit(a)
  BY <1>12 DEF Quit
<1>13. CASE SetTitle(a)
  BY <1>13 DEF SetTitle, Stage, Running
<1>14. CASE \/ StartService(a) \/ AddListener(a) \/ Built(a) \/ RunApp(a)
            \/ PreventClose(a) \/ BootFails(a) \/ Receive(a)
  <2>1. UNCHANGED <<mainVars, osVars, quitVars>>
    BY <1>14 DEF StartService, AddListener, Built, RunApp, PreventClose, BootFails,
       Receive
  <2> QED
    BY <2>1
<1> QED
  BY <1>1, <1>2, <1>3, <1>4, <1>5, <1>6, <1>7, <1>8, <1>9, <1>10, <1>11, <1>12,
     <1>13, <1>14 DEF Main, Bootstrap

\* No step changes the platform.
LEMMA PlatformStays == [RunnerNext]_runnerVars => UNCHANGED platform
  BY ZenonT(40) DEF RunnerNext, runnerVars, Launch, Main, CloseWindow, Quit, Bootstrap,
     BootFails, Receive, FindWindow, Dispatch, Create, OnCreate, Register, LoopEnds,
     Unwind, DropMembers, DropWindow, SetTitle, StartService, AddListener, Built,
     RunApp, PreventClose

\* The lives of the window, the object around it, its class, the engine and COM
\* lie inside one another: LifeTimes, for any number of launches.
THEOREM LifeTimesNest == RunnerSpec => []LifeTimes
<1>1. ProcessInv /\ [RunnerNext]_runnerVars => ProcessInv'
  <2> SUFFICES ASSUME ProcessInv, [RunnerNext]_runnerVars,
                      platform' = "windows"
               PROVE  ProcessTypes' /\ \A a \in Apps : AtPlace(a)'
    BY DEF ProcessInv
  <2>0. platform = "windows"
    BY PlatformStays
  <2>1. CASE UNCHANGED runnerVars
    BY ZenonT(40), <2>0, <2>1
    DEF ProcessInv, ProcessTypes, AtPlace, Nothing, Window, NoWindow, runnerVars,
        osVars, mainVars, quitVars
  <2>2. CASE RunnerNext
    <3>1. PICK a \in Apps : \/ Launch(a) \/ Main(a) \/ CloseWindow(a) \/ Quit(a)
                            \/ Bootstrap(a) \/ BootFails(a) \/ Receive(a)
      BY <2>2 DEF RunnerNext
    <3>2. ProcessTypes' /\ Others(a) /\ AtPlace(a)'
      BY <2>0, <3>1, ProcessStep
    <3>3. ASSUME NEW b \in Apps \ {a} PROVE AtPlace(b)'
      <4>1. AtPlace(b)
        BY <2>0 DEF ProcessInv
      <4> QED
        BY <3>2, <4>1 DEF Others, AtPlace, Nothing, Window, NoWindow
    <3> QED
      BY <3>2, <3>3
  <2> QED
    BY <2>1, <2>2
<1> QED
  BY <1>1, ProcessInitially, PlacesSuffice, PTL DEF RunnerSpec
----------------------------------------------------------------------------
(* The worker that updates profiles: a profile is never overdue for longer   *)
(* than two cycles and a run.                                               *)

\* Where the clocks are: a run does not last longer than it may, a launch is
\* followed by a cycle at once, and the stamp is not older than the cycle.
Clocks ==
  /\ updating => sinceCycle <= MaxRun
  /\ todo # {} => updating
  /\ sinceCycle <= Interval \/ sinceCycle = Long
  /\ sinceCycle = Long => calm = 0 /\ ~updating
  /\ sinceCycle <= Interval /\ ~updating => sinceRun <= sinceCycle

\* How long it may take from now until profile p is looked at: to the end of
\* this run; to the end of that of the next cycle, if the last one was skipped;
\* or to that of the one after.
Remaining(p) ==
  IF p \in todo THEN MaxRun - sinceCycle
  ELSE IF ~updating /\ sinceRun = sinceCycle THEN Interval + MaxRun - sinceCycle
  ELSE Patience - sinceCycle

\* By then p is not overdue by more than Patience, or all has not been calm.
InTime(p) ==
  \/ sinceUpdate[p] + Remaining(p) < Wanted + Patience
  \/ calm + Remaining(p) <= Patience

WorkerInv ==
  /\ WorkerTypeOK /\ Clocks
  /\ sinceCycle <= Interval => \A p \in Profiles : InTime(p)

\* The first launch: no cycle has begun.
LEMMA WorkerInitially == WorkerInit => WorkerInv
<1> SUFFICES ASSUME WorkerInit PROVE WorkerInv
  OBVIOUS
<1>1. Long \in Nat /\ Interval < Long /\ Wanted < Long
  BY WorkerAssumption DEF Long, Patience
<1>2. /\ sinceRun = Long /\ sinceCycle = Long /\ todo = {} /\ ~updating
      /\ updating \in BOOLEAN /\ calm = 0
      /\ sinceUpdate \in [Profiles -> 0..Long]
  <2>1. 0..Wanted \subseteq 0..Long
    BY <1>1, WorkerAssumption
  <2> QED
    BY <2>1 DEF WorkerInit
<1> QED
  BY <1>1, <1>2, WorkerAssumption DEF WorkerInv, WorkerTypeOK, Clocks

\* An age that counts does not outgrow what is left of the wait.
LEMMA AgesAndWaits ==
  ASSUME NEW age \in 0..Long
  PROVE  Older(age) \in 0..Long /\ Older(age) <= age + 1 /\ age <= Older(age)
  BY WorkerAssumption DEF Older, Long, Patience

\* Every step keeps the types.
LEMMA WorkerTypeStep == WorkerInv /\ [WorkerNext]_workerVars => WorkerTypeOK'
<1> SUFFICES ASSUME WorkerInv, [WorkerNext]_workerVars PROVE WorkerTypeOK'
  OBVIOUS
<1> USE DEF WorkerInv, WorkerTypeOK
<1>0. 0 \in 0..Long /\ Long \in 0..Long
  BY WorkerAssumption DEF Long, Patience
<1>1. CASE Tick
  BY <1>1, AgesAndWaits DEF Tick
<1>2. CASE Cycle
  <2>1. updating' \in BOOLEAN
    BY <1>2 DEF Cycle
  <2> QED
    BY <1>0, <1>2, <2>1 DEF Cycle
<1>3. CASE EndRun
  <2>1. updating' \in BOOLEAN
    BY <1>3 DEF EndRun
  <2> QED
    BY <1>0, <1>3, <2>1 DEF EndRun
<1>4. CASE FailRun
  <2>1. updating' \in BOOLEAN
    BY <1>4 DEF FailRun
  <2> QED
    BY <1>0, <1>4, <2>1 DEF FailRun
<1>5. CASE RelaunchApp
  <2>1. updating' \in BOOLEAN
    BY <1>5 DEF RelaunchApp
  <2> QED
    BY <1>0, <1>5, <2>1 DEF RelaunchApp
<1>6. ASSUME NEW p \in Profiles, Visit(p) PROVE WorkerTypeOK'
  BY <1>0, <1>6 DEF Visit
<1>7. CASE UNCHANGED workerVars
  BY <1>7 DEF workerVars
<1> QED
  BY <1>1, <1>2, <1>3, <1>4, <1>5, <1>6, <1>7 DEF WorkerNext

\* ... and the clocks in their order.
LEMMA ClockStep == WorkerInv /\ [WorkerNext]_workerVars => Clocks'
<1> SUFFICES ASSUME WorkerInv, [WorkerNext]_workerVars PROVE Clocks'
  OBVIOUS
<1> USE WorkerAssumption DEF WorkerInv, WorkerTypeOK, Clocks
<1>0. Long \in Nat /\ Interval < Long
  BY DEF Long, Patience
<1>1. CASE Tick
  BY <1>0, <1>1 DEF Tick, Older
<1>2. CASE Cycle
  BY <1>0, <1>2 DEF Cycle
<1>3. CASE EndRun
  BY <1>0, <1>3 DEF EndRun
<1>4. CASE FailRun
  BY <1>0, <1>4 DEF FailRun
<1>5. CASE RelaunchApp
  BY <1>0, <1>5 DEF RelaunchApp
<1>6. ASSUME NEW p \in Profiles, Visit(p) PROVE Clocks'
  BY <1>0, <1>6 DEF Visit
<1>7. CASE UNCHANGED workerVars
  BY <1>7 DEF workerVars
<1> QED
  BY <1>1, <1>2, <1>3, <1>4, <1>5, <1>6, <1>7 DEF WorkerNext

\* Time that passes takes as much from the wait as it adds to the ages; a cycle
\* that begins is the one the wait was for; and who was looked at has been
\* updated, or was not due, or all is not calm.
LEMMA InTimeStep ==
  WorkerInv /\ [WorkerNext]_workerVars =>
    (sinceCycle <= Interval => \A p \in Profiles : InTime(p))'
<1> SUFFICES ASSUME WorkerInv, [WorkerNext]_workerVars, sinceCycle' <= Interval,
                    NEW p \in Profiles
             PROVE  InTime(p)'
  BY DEF Remaining, InTime
<1> USE WorkerAssumption
<1>0. /\ Long \in Nat /\ Interval < Long
      /\ Patience = 2 * Interval + MaxRun /\ Patience \in Nat
  BY DEF Long, Patience
<1>t. /\ sinceRun \in 0..Long /\ sinceCycle \in 0..Long /\ calm \in 0..Long
      /\ todo \subseteq Profiles /\ updating \in BOOLEAN
      /\ sinceUpdate \in [Profiles -> 0..Long] /\ sinceUpdate[p] \in 0..Long
  BY DEF WorkerInv, WorkerTypeOK
<1>c. Clocks
  BY DEF WorkerInv
<1>i. sinceCycle <= Interval => InTime(p)
  BY DEF WorkerInv
<1> USE <1>0, <1>t, <1>c DEF Clocks, InTime, Remaining
<1>1. CASE Tick
  <2>1. sinceCycle < Interval /\ sinceCycle' = sinceCycle + 1
    BY <1>1 DEF Tick, Older
  <2>2. calm' <= calm + 1 /\ calm' \in 0..Long
    BY <1>1, AgesAndWaits DEF Tick
  <2>3. sinceUpdate'[p] <= sinceUpdate[p] + 1 /\ sinceUpdate'[p] \in 0..Long
    BY <1>1, AgesAndWaits DEF Tick
  <2>4. Remaining(p)' = Remaining(p) - 1
    BY <1>1, <2>1 DEF Tick, Older
  <2>5. Remaining(p) \in Int
    OBVIOUS
  <2> HIDE DEF Remaining
  <2> QED
    BY <1>i, <2>1, <2>2, <2>3, <2>4, <2>5
<1>2. CASE Cycle
  <2>1. CASE sinceCycle = Interval
    BY <1>2, <1>i, <2>1 DEF Cycle, TooSoon
  <2>2. CASE sinceCycle = Long
    BY <1>2, <2>2 DEF Cycle, TooSoon
  <2> QED
    BY <1>2, <2>1, <2>2 DEF Cycle
<1>3. CASE EndRun
  BY <1>3, <1>i DEF EndRun
<1>4. CASE FailRun
  BY <1>4 DEF FailRun
<1>5. CASE RelaunchApp
  BY <1>5 DEF RelaunchApp
<1>6. ASSUME NEW q \in Profiles, Visit(q) PROVE InTime(p)'
  <2>1. CASE q = p
    BY <1>6, <2>1 DEF Visit
  <2>2. CASE q # p
    BY <1>6, <1>i, <2>2 DEF Visit
  <2> QED
    BY <2>1, <2>2
<1>7. CASE UNCHANGED workerVars
  BY <1>7, <1>i DEF workerVars
<1> QED
  BY <1>1, <1>2, <1>3, <1>4, <1>5, <1>6, <1>7 DEF WorkerNext

LEMMA WorkerStep == WorkerInv /\ [WorkerNext]_workerVars => WorkerInv'
<1> SUFFICES ASSUME WorkerInv, [WorkerNext]_workerVars PROVE WorkerInv'
  OBVIOUS
<1>1. WorkerTypeOK' /\ Clocks'
  BY WorkerTypeStep, ClockStep
<1>2. (sinceCycle <= Interval => \A p \in Profiles : InTime(p))'
  BY InTimeStep
<1> QED
  BY <1>1, <1>2 DEF WorkerInv

\* The worker's variables have the types of WorkerTypeOK.
THEOREM WorkerTypesCorrect == WorkerSpec => []WorkerTypeOK
<1>1. WorkerInv => WorkerTypeOK
  BY DEF WorkerInv
<1> QED
  BY <1>1, WorkerInitially, WorkerStep, PTL DEF WorkerSpec

\* A profile is updated within two cycles and a run of the time it asks for, as
\* long as all is calm: UpdatesComeInTime, for any intervals and profiles.
THEOREM UpdatesAreInTime == WorkerSpec => []UpdatesComeInTime
<1>1. WorkerInv => UpdatesComeInTime
  <2> SUFFICES ASSUME WorkerInv, calm > Patience, NEW p \in Profiles
               PROVE  sinceUpdate[p] < Wanted + Patience
    BY DEF UpdatesComeInTime
  <2>0. Patience \in Nat /\ Patience = 2 * Interval + MaxRun /\ Long \in Nat
    BY WorkerAssumption DEF Patience, Long
  <2>1. sinceCycle \in 0..Long /\ calm \in 0..Long /\ sinceUpdate[p] \in 0..Long
        /\ Clocks
    BY DEF WorkerInv, WorkerTypeOK
  <2>2. sinceCycle <= Interval
    BY <2>0, <2>1 DEF Clocks
  <2>3. InTime(p)
    BY <2>2 DEF WorkerInv
  <2>4. Remaining(p) >= 0 /\ Remaining(p) \in Int
    BY <2>0, <2>1, <2>2, WorkerAssumption DEF Clocks, Remaining
  <2> QED
    BY <2>0, <2>1, <2>3, <2>4, WorkerAssumption DEF InTime
<1> QED
  BY <1>1, WorkerInitially, WorkerStep, PTL DEF WorkerSpec
===============================================================================
