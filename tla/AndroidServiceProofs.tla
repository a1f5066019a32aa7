------------------------- MODULE AndroidServiceProofs -------------------------
(***************************************************************************)
(* Proofs about AndroidService, for any number of threads and of calls.    *)
(* QueueInv says what is on the queue of the main thread; LeadInv and      *)
(* ReloadInv, which call holds the status and how far it is with the       *)
(* fields; LastStatus and AlertsFirst, in which order statuses and alerts  *)
(* are on their way to the app.                                            *)
(***************************************************************************)
EXTENDS AndroidService, SequenceTheorems, TLAPS

\* The jobs of a queue.
JobsOf(q) == {q[i] : i \in 1 .. Len(q)}
Jobs == JobsOf(main)

\* Thread t waits for a block of its own, the one that goes on to l.
Blocked(t, l) == Block(t, l) \in Jobs

----------------------------------------------------------------------------
(* The queue.                                                               *)

\* Two jobs that are not on the queue together: settings of one LiveData, blocks
\* of one thread.
Same(x, y) == x.do \in {"set", "block"} /\ y.do = x.do /\ y.of = x.of

Once(q) == \A i, k \in 1 .. Len(q) : Same(q[i], q[k]) => i = k

\* On q the job x comes before the job y.
Before(q, x, y) == \A i, k \in 1 .. Len(q) : q[i] = x /\ q[k] = y => i < k

\* A value is pending as long as its job is there; a thread waits as long as a
\* block of its is; no job is there twice.
QueueInv ==
  /\ Once(main)
  /\ \A d \in LiveData : pending[d] # "nothing" <=> SetJob(d) \in Jobs
  /\ pending["service"] \in {"nothing", "Starting", "Started"}
  /\ pending["activity"] \in Statuses \cup {"nothing"}
  /\ pending["alerts"] \in Alerts \cup {"nothing"}
  /\ \A t \in Tasks : task[t].pc = "wait" <=> \E l \in Places : Blocked(t, l)

----------------------------------------------------------------------------
(* Who holds the status.                                                    *)

Works(t) == task[t].pc \notin {"idle", "asked"}

\* A start that has announced Started, and shows its notification.
Announced(t) ==
  task[t].kind = "start" /\ (task[t].pc = "show" \/ Blocked(t, "show"))

\* The call that holds the status: any other one.
Leads(t) == Works(t) /\ ~Announced(t)

Down == live = {} /\ boxService = 0 /\ fileDescriptor = 0
Held == commandServer \in listening /\ startedByUser /\ receiverRegistered
Made(n) == live = {n} /\ fileDescriptor = n /\ n # 0
Up   == /\ Made(boxService) /\ Held /\ serving[commandServer] = boxService

\* From the configuration on, a start and a reload go the same way.
Making(t) ==
  \/ /\ task[t].pc \in {"config", "create", "run"} \/ Blocked(t, "create")
     /\ Down /\ Held
  \/ task[t].pc = "box" /\ Made(task[t].id) /\ boxService = 0 /\ Held
  \/ task[t].pc = "serve" /\ Made(boxService) /\ Held
  \/ task[t].pc = "announce" /\ Up
  \/ task[t].pc = "alert" /\ Down
  \/ Blocked(t, "alert") /\ Down /\ ~startedByUser

StartLeads(t) ==
  /\ status = "Starting" /\ pending["service"] = "nothing"
  /\ \/ task[t].pc = "server" /\ Down /\ receiverRegistered
     \/ /\ task[t].pc = "keep" /\ Down /\ receiverRegistered /\ startedByUser
        /\ task[t].id \in listening
     \/ Making(t)

StopLeads(t) ==
  /\ status = "Stopping" /\ pending["service"] = "nothing" /\ ~receiverRegistered
  /\ \/ task[t].pc = "fd" /\ Made(boxService)
     \/ task[t].pc \in {"unserve", "close"} /\ live = {boxService} /\ fileDescriptor = 0
     \/ task[t].pc = "clear" /\ live = {} /\ fileDescriptor = 0
     \/ task[t].pc \in {"shut", "end"} /\ Down
     \/ Blocked(t, "end") /\ Down /\ ~startedByUser

ReloadLeads(t) ==
  \/ task[t].pc = "post" /\ status = "Started" /\ pending["service"] = "nothing" /\ Up
  \/ /\ \/ pending["service"] = "Starting" /\ status = "Started"
        \/ pending["service"] = "nothing" /\ status = "Starting"
     /\ \/ task[t].pc = "fd" /\ Up
        \/ /\ task[t].pc \in {"unserve", "close"} /\ Held
           /\ live = {boxService} /\ fileDescriptor = 0
        \/ task[t].pc = "clear" /\ live = {} /\ fileDescriptor = 0 /\ Held
        \/ Making(t)
  \/ /\ \/ pending["service"] = "Started" /\ status \in {"Started", "Starting"}
        \/ pending["service"] = "nothing" /\ status = "Started"
     /\ task[t].pc = "show" \/ Blocked(t, "show")
     /\ Up

LeadAt(t) == \/ task[t].kind = "start" /\ StartLeads(t)
             \/ task[t].kind = "stop" /\ StopLeads(t)
             \/ task[t].kind = "reload" /\ ReloadLeads(t)

\* Nobody holds it: it is as the last call has left it, or about to be.
Rest ==
  \/ /\ status = "Stopped" /\ pending["service"] = "nothing"
     /\ Down /\ ~startedByUser /\ ~receiverRegistered
  \/ status = "Started" /\ pending["service"] = "nothing" /\ Up
  \/ status = "Starting" /\ pending["service"] = "Started" /\ Up

\* As long as no call has met a reload, or left a tunnel open.
LeadInv ==
  ~overlap /\ ~leaked =>
    /\ \A t, u \in Tasks : Leads(t) /\ Leads(u) => t = u
    /\ \A t \in Tasks : Leads(t) => LeadAt(t)
    /\ (\A t \in Tasks : ~Leads(t)) => Rest

\* A reload works alone; what it has posted is set before its next block is run.
ReloadInv ==
  /\ \A t \in Tasks : task[t].pc = "asked" => task[t].kind = "reload"
  /\ ~overlap /\ ~leaked =>
       \A t \in Tasks :
         task[t].kind = "reload" =>
           /\ Works(t) => \A u \in Tasks : Works(u) => t = u
           /\ \A l \in Places : Before(main, SetJob("service"), Block(t, l))

----------------------------------------------------------------------------
(* What is on its way to the app.                                           *)

NoTell(q) == \A i \in 1 .. Len(q) : q[i].do # "status"

\* The last status on q is s.
EndsWith(q, s) ==
  \A i \in 1 .. Len(q) :
    q[i].do = "status" /\ (\A k \in 1 .. Len(q) : k > i => q[k].do # "status")
      => q[i].of = s

\* After the job x there is a status on q.
ToldAfter(q, x) ==
  \A i \in 1 .. Len(q) :
    q[i] = x => \E k \in 1 .. Len(q) : k > i /\ q[k].do = "status"

\* The last status on its way to the app is the service's.
LastStatus ==
  /\ EndsWith(main, status)
  /\ NoTell(main) => status = IF pending["activity"] # "nothing" THEN pending["activity"]
                                                                ELSE value["activity"]
  /\ shown.status \in {value["activity"], "Stopped"}

\* An alert that was given before Started was is shown before Started is.
AlertsFirst ==
  ~overlap /\ ~leaked /\ ~refused =>
    /\ \A a \in Alerts : Before(main, Warn(a), SetJob("service"))
    /\ status = "Started" =>
         /\ \A a \in Alerts : Warn(a) \notin Jobs
         /\ ToldAfter(main, SetJob("alerts"))
         /\ NoTell(main) /\ pending["activity"] = "nothing" => shown.status = "Started"

AndroidInv ==
  TypeOK /\ QueueInv /\ LastStatus /\ ReloadInv /\ LeadInv /\ AlertsFirst

----------------------------------------------------------------------------
(* Queues.                                                                  *)

LEMMA Appended ==
  ASSUME NEW q \in Seq(Job), NEW j \in Job
  PROVE  /\ Append(q, j) \in Seq(Job)
         /\ Len(Append(q, j)) = Len(q) + 1 /\ Append(q, j)[Len(q) + 1] = j
         /\ \A i \in 1 .. Len(q) : Append(q, j)[i] = q[i]
         /\ JobsOf(Append(q, j)) = JobsOf(q) \cup {j}
<1>1. /\ Append(q, j) \in Seq(Job)
      /\ Len(Append(q, j)) = Len(q) + 1 /\ Append(q, j)[Len(q) + 1] = j
      /\ \A i \in 1 .. Len(q) : Append(q, j)[i] = q[i]
  BY AppendProperties
<1> QED
  BY <1>1, LenProperties DEF JobsOf

LEMMA Taken ==
  ASSUME NEW q \in Seq(Job), q # <<>>
  PROVE  /\ Tail(q) \in Seq(Job) /\ Head(q) \in Job /\ Head(q) = q[1]
         /\ Len(q) \in Nat \ {0} /\ Len(Tail(q)) = Len(q) - 1
         /\ \A i \in 1 .. Len(q) - 1 : Tail(q)[i] = q[i + 1]
         /\ JobsOf(q) = JobsOf(Tail(q)) \cup {Head(q)}
<1>1. /\ Tail(q) \in Seq(Job) /\ Head(q) \in Job /\ Head(q) = q[1]
      /\ Len(q) \in Nat \ {0} /\ Len(Tail(q)) = Len(q) - 1
      /\ \A i \in 1 .. Len(q) - 1 : Tail(q)[i] = q[i + 1]
  BY HeadTailProperties, EmptySeq
<1>2. \A i \in 2 .. Len(q) : q[i] = Tail(q)[i - 1] /\ i - 1 \in 1 .. Len(Tail(q))
  BY <1>1
<1>3. ASSUME NEW x \in JobsOf(q)
      PROVE  x \in JobsOf(Tail(q)) \cup {Head(q)}
  <2>1. PICK i \in 1 .. Len(q) : x = q[i]
    BY <1>3 DEF JobsOf
  <2>2. i = 1 \/ i \in 2 .. Len(q)
    BY <1>1
  <2> QED
    BY <1>1, <1>2, <2>1, <2>2 DEF JobsOf
<1>4. ASSUME NEW x \in JobsOf(Tail(q))
      PROVE  x \in JobsOf(q)
  BY <1>1 DEF JobsOf
<1>5. Head(q) \in JobsOf(q)
  BY <1>1 DEF JobsOf
<1> QED
  BY <1>1, <1>3, <1>4, <1>5

\* A job that has no equal there can be put at the end.
LEMMA OnceAppended ==
  ASSUME NEW q \in Seq(Job), NEW j \in Job, Once(q),
         \A x \in JobsOf(q) : ~Same(x, j)
  PROVE  Once(Append(q, j))
<1>1. \A i \in 1 .. Len(q) : ~Same(q[i], j) /\ ~Same(j, q[i])
  BY DEF JobsOf, Same
<1>2. SUFFICES ASSUME NEW i \in 1 .. Len(q) + 1, NEW k \in 1 .. Len(q) + 1,
                      Same(Append(q, j)[i], Append(q, j)[k])
               PROVE  i = k
  BY Appended DEF Once
<1>3. Len(q) \in Nat
  BY LenProperties
<1>4. CASE i \in 1 .. Len(q) /\ k \in 1 .. Len(q)
  BY <1>2, <1>4, Appended DEF Once
<1>5. CASE i \in 1 .. Len(q) /\ k = Len(q) + 1
  BY <1>1, <1>2, <1>5, Appended
<1>6. CASE i = Len(q) + 1 /\ k \in 1 .. Len(q)
  BY <1>1, <1>2, <1>6, Appended
<1> QED
  BY <1>3, <1>4, <1>5, <1>6

LEMMA OnceTaken ==
  ASSUME NEW q \in Seq(Job), q # <<>>, Once(q)
  PROVE  Once(Tail(q)) /\ \A x \in JobsOf(Tail(q)) : ~Same(x, Head(q))
<1>1. \A i \in 1 .. Len(Tail(q)) : i \in 1 .. Len(q) - 1 /\ Tail(q)[i] = q[i + 1]
                                   /\ i + 1 \in 1 .. Len(q)
  BY Taken
<1>2. Once(Tail(q))
  BY <1>1 DEF Once
<1>3. ASSUME NEW x \in JobsOf(Tail(q))
      PROVE  ~Same(x, Head(q))
  <2>1. PICK i \in 1 .. Len(Tail(q)) : x = Tail(q)[i]
    BY <1>3 DEF JobsOf
  <2>2. 1 \in 1 .. Len(q) /\ i + 1 # 1 /\ Head(q) = q[1] /\ i \in Nat
    BY Taken, <1>1
  <2> QED
    BY <2>1, <2>2, <1>1 DEF Once
<1> QED
  BY <1>2, <1>3

\* Order on the queue.
LEMMA BeforeAppended ==
  ASSUME NEW q \in Seq(Job), NEW j \in Job, NEW x, NEW y, Before(q, x, y),
         j = x => y \notin JobsOf(q) /\ x # y
  PROVE  Before(Append(q, j), x, y)
<1>1. SUFFICES ASSUME NEW i \in 1 .. Len(q) + 1, NEW k \in 1 .. Len(q) + 1,
                      Append(q, j)[i] = x, Append(q, j)[k] = y
               PROVE  i < k
  BY Appended DEF Before
<1>2. Len(q) \in Nat
  BY LenProperties
<1>3. CASE i \in 1 .. Len(q) /\ k \in 1 .. Len(q)
  BY <1>1, <1>3, Appended DEF Before
<1>4. CASE i \in 1 .. Len(q) /\ k = Len(q) + 1
  BY <1>2, <1>4
<1>5. CASE i = Len(q) + 1
  <2>1. j = x
    BY <1>1, <1>5, Appended
  <2>2. k \in 1 .. Len(q) => y \in JobsOf(q)
    BY <1>1, Appended DEF JobsOf
  <2>3. k = Len(q) + 1 => y = x
    BY <1>1, <2>1, Appended
  <2> QED
    BY <1>2, <2>1, <2>2, <2>3
<1> QED
  BY <1>2, <1>3, <1>4, <1>5

LEMMA BeforeTaken ==
  ASSUME NEW q \in Seq(Job), q # <<>>, NEW x, NEW y, Before(q, x, y)
  PROVE  Before(Tail(q), x, y) /\ (Head(q) = y => x \notin JobsOf(q))
<1>1. \A i \in 1 .. Len(Tail(q)) : i \in 1 .. Len(q) - 1 /\ Tail(q)[i] = q[i + 1]
                                   /\ i + 1 \in 1 .. Len(q) /\ i \in Nat
  BY Taken
<1>2. Before(Tail(q), x, y)
  BY <1>1 DEF Before
<1>3. ASSUME Head(q) = y, x \in JobsOf(q)
      PROVE  FALSE
  <2>1. PICK i \in 1 .. Len(q) : x = q[i]
    BY <1>3 DEF JobsOf
  <2>2. 1 \in 1 .. Len(q) /\ q[1] = y
    BY <1>3, Taken
  <2>3. i < 1
    BY <2>1, <2>2 DEF Before
  <2> QED
    BY <2>3
<1> QED
  BY <1>2, <1>3

\* Statuses on the queue: one that is appended is the last; another job is not.
LEMMA TellsAppended ==
  ASSUME NEW q \in Seq(Job), NEW j \in Job
  PROVE  /\ j.do = "status" => EndsWith(Append(q, j), j.of) /\ ~NoTell(Append(q, j))
         /\ j.do # "status" =>
              /\ NoTell(Append(q, j)) <=> NoTell(q)
              /\ \A s : EndsWith(q, s) => EndsWith(Append(q, j), s)
         /\ \A x : ToldAfter(q, x) /\ j # x => ToldAfter(Append(q, j), x)
         /\ \A x : j.do = "status" /\ j # x => ToldAfter(Append(q, j), x)
<1> DEFINE r == Append(q, j)
           n == Len(q)
<1>1. /\ n \in Nat /\ Len(r) = n + 1 /\ r[n + 1] = j
      /\ \A i \in 1 .. n : r[i] = q[i]
  BY Appended, LenProperties
<1> HIDE DEF r
<1>2. ASSUME j.do = "status"
      PROVE  EndsWith(r, j.of) /\ ~NoTell(r)
  BY <1>1, <1>2 DEF EndsWith, NoTell
<1>3. ASSUME j.do # "status"
      PROVE  NoTell(r) <=> NoTell(q)
  BY <1>1, <1>3 DEF NoTell
<1>4. ASSUME j.do # "status", NEW s, EndsWith(q, s)
      PROVE  EndsWith(r, s)
  <2> SUFFICES ASSUME NEW i \in 1 .. n + 1, r[i].do = "status",
                      \A k \in 1 .. n + 1 : k > i => r[k].do # "status"
               PROVE  r[i].of = s
    BY <1>1 DEF EndsWith
  <2>1. i \in 1 .. n
    BY <1>1, <1>4
  <2>2. \A k \in 1 .. n : k > i => q[k].do # "status"
    BY <1>1
  <2> QED
    BY <1>1, <1>4, <2>1, <2>2 DEF EndsWith
<1>5. ASSUME NEW x, j # x, ToldAfter(q, x)
      PROVE  ToldAfter(r, x)
  <2> SUFFICES ASSUME NEW i \in 1 .. n + 1, r[i] = x
               PROVE  \E k \in 1 .. n + 1 : k > i /\ r[k].do = "status"
    BY <1>1 DEF ToldAfter
  <2>1. i \in 1 .. n /\ q[i] = x
    BY <1>1, <1>5
  <2>2. PICK k \in 1 .. n : k > i /\ q[k].do = "status"
    BY <2>1, <1>5 DEF ToldAfter
  <2> QED
    BY <1>1, <2>2
<1>6. ASSUME NEW x, j # x, j.do = "status"
      PROVE  ToldAfter(r, x)
  BY <1>1, <1>6 DEF ToldAfter
<1> QED
  BY <1>2, <1>3, <1>4, <1>5, <1>6 DEF r

LEMMA TellsTaken ==
  ASSUME NEW q \in Seq(Job), q # <<>>
  PROVE  /\ \A s : EndsWith(q, s) => EndsWith(Tail(q), s)
         /\ \A s : EndsWith(q, s) /\ Head(q).do = "status" /\ NoTell(Tail(q))
                     => Head(q).of = s
         /\ Head(q).do # "status" => (NoTell(Tail(q)) <=> NoTell(q))
         /\ \A x : ToldAfter(q, x) => ToldAfter(Tail(q), x)
         /\ \A x : ToldAfter(q, x) /\ Head(q) = x => ~NoTell(Tail(q))
<1> DEFINE r == Tail(q)
           n == Len(q)
<1>1. /\ n \in Nat \ {0} /\ Len(r) = n - 1 /\ Head(q) = q[1]
      /\ \A i \in 1 .. n - 1 : r[i] = q[i + 1]
  BY Taken
<1>2. \A i \in 2 .. n : q[i] = r[i - 1] /\ i - 1 \in 1 .. n - 1
  BY <1>1
<1> HIDE DEF r
<1>3. ASSUME NEW s, EndsWith(q, s)
      PROVE  EndsWith(r, s)
  <2> SUFFICES ASSUME NEW i \in 1 .. n - 1, r[i].do = "status",
                      \A k \in 1 .. n - 1 : k > i => r[k].do # "status"
               PROVE  r[i].of = s
    BY <1>1 DEF EndsWith
  <2>1. i + 1 \in 1 .. n /\ q[i + 1] = r[i]
    BY <1>1
  <2>2. ASSUME NEW k \in 1 .. n, k > i + 1
        PROVE  q[k].do # "status"
    BY <1>1, <1>2, <2>2
  <2> QED
    BY <1>3, <2>1, <2>2 DEF EndsWith
<1>4. ASSUME NEW s, EndsWith(q, s), Head(q).do = "status", NoTell(r)
      PROVE  Head(q).of = s
  <2>1. \A k \in 1 .. n : k > 1 => q[k].do # "status"
    BY <1>1, <1>2, <1>4 DEF NoTell
  <2>2. 1 \in 1 .. n
    BY <1>1
  <2> QED
    BY <1>1, <1>4, <2>1, <2>2 DEF EndsWith
<1>5. ASSUME Head(q).do # "status"
      PROVE  NoTell(r) <=> NoTell(q)
  <2>1. NoTell(r) => NoTell(q)
    BY <1>1, <1>2, <1>5 DEF NoTell
  <2>2. NoTell(q) => NoTell(r)
    BY <1>1 DEF NoTell
  <2> QED
    BY <2>1, <2>2
<1>6. ASSUME NEW x, ToldAfter(q, x)
      PROVE  ToldAfter(r, x) /\ (Head(q) = x => ~NoTell(r))
  <2>1. ASSUME NEW i \in 1 .. n, q[i] = x
        PROVE  \E k \in 1 .. n - 1 : k > i - 1 /\ r[k].do = "status"
    <3>1. PICK k \in 1 .. n : k > i /\ q[k].do = "status"
      BY <1>6, <2>1 DEF ToldAfter
    <3>2. k - 1 \in 1 .. n - 1 /\ k - 1 > i - 1 /\ r[k - 1] = q[k]
      BY <1>1, <1>2, <3>1
    <3> QED
      BY <3>1, <3>2
  <2>2. ASSUME NEW i \in 1 .. n - 1, r[i] = x
        PROVE  \E k \in 1 .. n - 1 : k > i /\ r[k].do = "status"
    <3>1. i + 1 \in 1 .. n /\ q[i + 1] = x
      BY <1>1, <2>2
    <3>2. PICK k \in 1 .. n - 1 : k > i + 1 - 1 /\ r[k].do = "status"
      BY <2>1, <3>1
    <3> QED
      BY <3>2
  <2>3. ToldAfter(r, x)
    BY <1>1, <2>2 DEF ToldAfter
  <2>4. Head(q) = x => ~NoTell(r)
    BY <1>1, <2>1 DEF NoTell
  <2> QED
    BY <2>3, <2>4
<1> QED
  BY <1>3, <1>4, <1>5, <1>6 DEF r

----------------------------------------------------------------------------
(* Types and the queue.                                                     *)

TypeInv == TypeOK /\ QueueInv

TasksOK == /\ task \in [Tasks -> Task]
           /\ \A t \in Tasks : task[t].pc # "idle" <=> task[t].id # 0

\* The other threads stay where they are.
Alone(t) ==
  /\ \A u \in Tasks \ {t} : task'[u] = task[u]
  /\ task'[t].pc # "idle" => task'[t].kind = task[t].kind /\ task'[t].id = task[t].id

LEMMA Going ==
  ASSUME TypeOK, NEW t \in Tasks, Busy(t), NEW l \in Places \ {"idle"}, Goto(t, l)
  PROVE  TasksOK' /\ Alone(t) /\ task'[t].pc = l
<1>1. task[t] \in Task /\ task' = [task EXCEPT ![t] = [task[t] EXCEPT !.pc = l]]
  BY DEF TypeOK, Goto
<1>2. [task[t] EXCEPT !.pc = l] \in Task
  BY <1>1 DEF Task
<1> QED
  BY <1>1, <1>2 DEF TypeOK, TasksOK, Alone, Busy, Task

LEMMA Alerting ==
  ASSUME TypeOK, NEW t \in Tasks, Busy(t), NEW a \in Alerts, Alert(t, a)
  PROVE  TasksOK' /\ Alone(t) /\ task'[t].pc = "alert"
<1>1. /\ task[t] \in Task
      /\ task' = [task EXCEPT ![t] = [task[t] EXCEPT !.pc = "alert", !.alert = a]]
  BY DEF TypeOK, Alert
<1>2. [task[t] EXCEPT !.pc = "alert", !.alert = a] \in Task
  BY <1>1 DEF Task, Places
<1> QED
  BY <1>1, <1>2 DEF TypeOK, TasksOK, Alone, Busy, Task

LEMMA Finishing ==
  ASSUME TypeOK, NEW t \in Tasks, Finish(t)
  PROVE  TasksOK' /\ Alone(t) /\ task'[t].pc = "idle"
<1>1. Idle \in Task /\ Idle.pc = "idle" /\ Idle.id = 0
  BY MaxCallsAssumption DEF Idle, Task, Places, Kinds, Alerts
<1> QED
  BY <1>1 DEF TypeOK, TasksOK, Alone, Finish

LEMMA Beginning ==
  ASSUME TypeOK, NEW t \in Tasks, NEW k \in Kinds, NEW l \in Places \ {"idle"},
         Begin(t, k, l)
  PROVE  /\ TasksOK' /\ calls' \in 0 .. MaxCalls
         /\ \A u \in Tasks \ {t} : task'[u] = task[u]
         /\ task[t].pc = "idle" /\ task'[t].pc = l /\ task'[t].kind = k
<1> USE MaxCallsAssumption
<1>1. calls + 1 \in 1 .. MaxCalls /\ task[t].pc = "idle"
  BY DEF TypeOK, Begin, Busy
<1>2. [pc |-> l, kind |-> k, id |-> calls + 1, alert |-> "none"] \in Task
  BY <1>1 DEF Task, Alerts
<1> QED
  BY <1>1, <1>2 DEF TypeOK, TasksOK, Begin

\* What a thread does to the queue: nothing, ...
LEMMA QueueKept ==
  ASSUME TypeInv, NEW t \in Tasks, UNCHANGED <<pending, main>>,
         \A u \in Tasks \ {t} : task'[u] = task[u],
         task[t].pc # "wait", task'[t].pc # "wait"
  PROVE  QueueInv'
<1>1. \A u \in Tasks : task'[u].pc = "wait" <=> task[u].pc = "wait"
  OBVIOUS
<1> QED
  BY <1>1 DEF TypeInv, QueueInv, Jobs, Blocked

\* ... a block that it waits for, ...
LEMMA QueueWaits ==
  ASSUME TypeInv, NEW t \in Tasks, Busy(t), task[t].pc # "wait", NEW l \in Places,
         OnMain(t, l)
  PROVE  /\ QueueInv' /\ main' \in Seq(Job) /\ TasksOK' /\ Alone(t)
         /\ main' = Append(main, Block(t, l)) /\ task'[t].pc = "wait"
         /\ Jobs' = Jobs \cup {Block(t, l)} /\ UNCHANGED <<value, pending>>
<1>1. /\ main \in Seq(Job) /\ Block(t, l) \in Job
      /\ main' = Append(main, Block(t, l)) /\ UNCHANGED <<value, pending>>
  BY DEF TypeInv, TypeOK, OnMain, Block, Job
<1>2. /\ main' \in Seq(Job) /\ Jobs' = Jobs \cup {Block(t, l)}
  BY <1>1, Appended DEF Jobs
<1>3. TasksOK' /\ Alone(t) /\ task'[t].pc = "wait"
  BY Going DEF OnMain, TypeInv, Places
<1>4. ASSUME NEW x \in Jobs, Same(x, Block(t, l))
      PROVE  FALSE
  <2>1. x \in Job
    BY <1>1, <1>4, ElementOfSeq DEF Jobs, JobsOf
  <2>2. x \in [do : {"block"}, of : Tasks, at : Places] /\ x.of = t
    BY <1>4, <2>1 DEF Job, Same, Block
  <2>3. x = Block(t, x.at) /\ x.at \in Places
    BY <2>2 DEF Block
  <2> QED
    BY <1>4, <2>3 DEF TypeInv, QueueInv, Blocked
<1>5. Once(main')
  BY <1>1, <1>4, OnceAppended DEF TypeInv, QueueInv, Jobs
<1>6. \A d \in LiveData : SetJob(d) \in Jobs' <=> SetJob(d) \in Jobs
  BY <1>2 DEF SetJob, Block
<1>7. ASSUME NEW u \in Tasks
      PROVE  task'[u].pc = "wait" <=> \E m \in Places : Blocked(u, m)'
  <2>1. CASE u = t
    BY <1>2, <1>3, <2>1 DEF Blocked
  <2>2. CASE u # t
    <3>1. \A m \in Places : Blocked(u, m)' <=> Blocked(u, m)
      BY <1>2, <2>2 DEF Blocked, Block
    <3>2. task'[u] = task[u]
      BY <1>3, <2>2 DEF Alone
    <3> QED
      BY <3>1, <3>2 DEF TypeInv, QueueInv
  <2> QED
    BY <2>1, <2>2
<1>8. QueueInv'
  BY <1>1, <1>5, <1>6, <1>7 DEF TypeInv, QueueInv
<1> QED
  BY <1>1, <1>2, <1>3, <1>8

\* ... or a value that is posted.
Fits(d, v) == \/ d = "service" /\ v \in {"Starting", "Started"}
              \/ d = "activity" /\ v \in Statuses
              \/ d = "alerts" /\ v \in Alerts

LEMMA Posting ==
  ASSUME TypeInv, NEW d \in LiveData, NEW v, Fits(d, v), NEW q \in Seq(Job), Once(q),
         \A x : SetJob(x) \in Jobs <=> SetJob(x) \in JobsOf(q),
         \A u \in Tasks, l \in Places : Block(u, l) \in Jobs <=> Block(u, l) \in JobsOf(q),
         \A u \in Tasks : task'[u].pc = "wait" <=> task[u].pc = "wait",
         PostValue(d, v, q)
  PROVE  /\ QueueInv' /\ main' \in Seq(Job)
         /\ pending' = [pending EXCEPT ![d] = v]
         /\ pending' \in [LiveData -> Statuses \cup Alerts \cup {"nothing"}]
         /\ Jobs' = JobsOf(q) \cup {SetJob(d)}
         /\ \/ main' = q /\ SetJob(d) \in Jobs
            \/ main' = Append(q, SetJob(d)) /\ pending[d] = "nothing"
<1>1. /\ pending' = [pending EXCEPT ![d] = v] /\ SetJob(d) \in Job
      /\ v \in Statuses \cup Alerts \cup {"nothing"} /\ v # "nothing"
  BY DEF PostValue, Fits, SetJob, Job, Statuses, Alerts
<1>2. pending' \in [LiveData -> Statuses \cup Alerts \cup {"nothing"}]
  BY <1>1 DEF TypeInv, TypeOK
<1>3. /\ \/ main' = q /\ SetJob(d) \in Jobs /\ SetJob(d) \in JobsOf(q)
         \/ main' = Append(q, SetJob(d)) /\ pending[d] = "nothing"
      /\ pending[d] = "nothing" <=> SetJob(d) \notin JobsOf(q)
  BY DEF PostValue, TypeInv, QueueInv
<1>4. main' \in Seq(Job) /\ JobsOf(main') = JobsOf(q) \cup {SetJob(d)}
  <2>1. CASE main' = q /\ SetJob(d) \in JobsOf(q)
    BY <2>1
  <2>2. CASE main' = Append(q, SetJob(d))
    BY <1>1, <2>2, Appended
  <2> QED
    BY <1>3, <2>1, <2>2
<1>5. Once(main')
  <2>1. CASE main' = q
    BY <2>1
  <2>2. CASE main' = Append(q, SetJob(d)) /\ pending[d] = "nothing"
    <3>1. ASSUME NEW x \in JobsOf(q), Same(x, SetJob(d))
          PROVE  FALSE
      <4>1. x \in Job
        BY <3>1, ElementOfSeq DEF JobsOf
      <4>2. x = SetJob(d)
        BY <3>1, <4>1 DEF Job, Same, SetJob
      <4> QED
        BY <1>3, <2>2, <3>1, <4>2
    <3> QED
      BY <1>1, <2>2, <3>1, OnceAppended
  <2> QED
    BY <1>3, <2>1, <2>2
<1>6. \A x \in LiveData : pending'[x] # "nothing" <=> SetJob(x) \in Jobs'
  <2>1. \A x \in LiveData : SetJob(x) = SetJob(d) => x = d
    BY DEF SetJob
  <2>2. \A x \in LiveData \ {d} : pending'[x] = pending[x]
    BY <1>1 DEF TypeInv, TypeOK
  <2>3. pending'[d] = v
    BY <1>1 DEF TypeInv, TypeOK
  <2>4. \A x \in LiveData : pending[x] # "nothing" <=> SetJob(x) \in JobsOf(q)
    BY DEF TypeInv, QueueInv
  <2> QED
    BY <1>1, <1>4, <2>1, <2>2, <2>3, <2>4 DEF Jobs
<1>7. /\ pending'["service"] \in {"nothing", "Starting", "Started"}
      /\ pending'["activity"] \in Statuses \cup {"nothing"}
      /\ pending'["alerts"] \in Alerts \cup {"nothing"}
  BY <1>1 DEF TypeInv, TypeOK, QueueInv, Fits, LiveData
<1>8. \A u \in Tasks : task'[u].pc = "wait" <=> \E l \in Places : Blocked(u, l)'
  <2>1. \A u \in Tasks, l \in Places : Blocked(u, l)' <=> Blocked(u, l)
    BY <1>4 DEF Blocked, Jobs, Block, SetJob
  <2> QED
    BY <2>1 DEF TypeInv, QueueInv
<1>9. QueueInv'
  BY <1>5, <1>6, <1>7, <1>8 DEF QueueInv
<1> QED
  BY <1>1, <1>2, <1>3, <1>4, <1>9 DEF Jobs

\* The thread's steps that leave the queue alone.
Apart(t) ==
  \/ ServiceReload(t) \/ StartCommandServer(t) \/ KeepCommandServer(t)
  \/ BuildConfig(t) /\ UNCHANGED data
  \/ NewService(t) \/ StartInstance(t) \/ SetBox(t) \/ Serve(t) \/ CloseTunnel(t)
  \/ Unserve(t) \/ CloseBox(t) \/ ClearBox(t) \/ CloseCommandServer(t)

LEMMA Splits ==
  ASSUME NEW t \in Tasks, Advance(t)
  PROVE  \/ Apart(t) \/ (BuildConfig(t) /\ OnMain(t, "create")) \/ Announce(t)
         \/ Show(t) \/ StopAndAlert(t) \/ PostStarting(t) \/ EndStop(t)
<1>1. BuildConfig(t) => BuildConfig(t) /\ (UNCHANGED data \/ OnMain(t, "create"))
  BY DEF BuildConfig
<1> QED
  BY <1>1 DEF Advance, Apart

\* Fields, files and history.
RestOK ==
  /\ boxService \in 0 .. MaxCalls /\ commandServer \in 0 .. MaxCalls
  /\ fileDescriptor \in 0 .. MaxCalls
  /\ receiverRegistered \in BOOLEAN /\ startedByUser \in BOOLEAN
  /\ live \subseteq CallIds /\ listening \subseteq CallIds
  /\ serving \in [CallIds -> 0 .. MaxCalls]
  /\ calls \in 0 .. MaxCalls
  /\ refused \in BOOLEAN /\ overlap \in BOOLEAN /\ leaked \in BOOLEAN

LEMMA ApartTypes ==
  ASSUME TypeInv, NEW t \in Tasks, Apart(t)
  PROVE  /\ TypeOK' /\ QueueInv' /\ Alone(t) /\ UNCHANGED <<data, shown>>
         /\ task[t].pc # "wait" /\ task'[t].pc \notin {"wait", "asked", "show"}
<1> USE MaxCallsAssumption
<1>1. TypeOK
  BY DEF TypeInv
<1>2. /\ Busy(t) /\ task[t].pc # "wait" /\ UNCHANGED <<data, shown>>
  BY DEF Apart, ServiceReload, StartCommandServer, KeepCommandServer, BuildConfig,
         NewService, StartInstance, SetBox, Serve, CloseTunnel, Unserve, CloseBox,
         ClearBox, CloseCommandServer, Busy, data
<1>3. \/ Finish(t)
      \/ \E l \in Places \ {"idle", "wait", "asked", "show"} : Goto(t, l)
      \/ \E a \in Alerts : Alert(t, a)
  <2>1. ASSUME \/ ServiceReload(t) \/ StartCommandServer(t) \/ KeepCommandServer(t)
               \/ NewService(t) \/ StartInstance(t) \/ SetBox(t)
        PROVE  \/ Finish(t) \/ Goto(t, "post") \/ Goto(t, "keep") \/ Goto(t, "config")
               \/ Goto(t, "run") \/ Goto(t, "box") \/ Goto(t, "serve")
               \/ Alert(t, "StartCommandServer") \/ Alert(t, "CreateService")
               \/ Alert(t, "StartService")
    BY <2>1 DEF ServiceReload, StartCommandServer, KeepCommandServer, NewService,
                StartInstance, SetBox
  <2>2. ASSUME \/ Serve(t) \/ CloseTunnel(t) \/ Unserve(t) \/ CloseBox(t)
               \/ ClearBox(t) \/ CloseCommandServer(t)
        PROVE  \/ Goto(t, "announce") \/ Goto(t, "unserve") \/ Goto(t, "close")
               \/ Goto(t, "clear") \/ Goto(t, "config") \/ Goto(t, "shut")
               \/ Goto(t, "end")
    BY <2>2 DEF Serve, CloseTunnel, Unserve, CloseBox, ClearBox, CloseCommandServer
  <2>3. ASSUME BuildConfig(t), UNCHANGED data
        PROVE  Alert(t, "EmptyConfiguration")
    <3>1. main' = main /\ main \in Seq(Job)
      BY <2>3, <1>1 DEF data, TypeOK
    <3>2. ~OnMain(t, "create")
      <4>1. Block(t, "create") \in Job
        BY DEF Block, Job, Places
      <4>2. Len(Append(main, Block(t, "create"))) = Len(main) + 1 /\ Len(main) \in Nat
        BY <3>1, <4>1, Appended, LenProperties
      <4> QED
        BY <3>1, <4>2 DEF OnMain
    <3> QED
      BY <2>3, <3>2 DEF BuildConfig
  <2>4. /\ {"post", "keep", "config", "run", "box", "serve", "announce", "unserve",
            "close", "clear", "shut", "end"} \subseteq Places \ {"idle", "wait", "asked", "show"}
        /\ {"StartCommandServer", "CreateService", "StartService",
            "EmptyConfiguration"} \subseteq Alerts
    BY DEF Places, Alerts
  <2> QED
    BY <2>1, <2>2, <2>3, <2>4 DEF Apart
<1>4. TasksOK' /\ Alone(t) /\ task'[t].pc \notin {"wait", "asked", "show"}
  BY <1>1, <1>2, <1>3, Going, Alerting, Finishing
<1>5. QueueInv'
  BY <1>2, <1>4, QueueKept DEF Alone, data
<1>6. task[t].id \in 1 .. MaxCalls
  BY <1>1, <1>2 DEF TypeOK, Busy, Task
<1>7. RestOK'
  <2>1. RestOK
    BY <1>1 DEF TypeOK, RestOK
  <2>2. ASSUME ServiceReload(t) \/ (BuildConfig(t) /\ UNCHANGED data) \/ NewService(t)
        PROVE  RestOK'
    BY <2>1, <2>2 DEF RestOK, ServiceReload, BuildConfig, NewService, fields, world,
                      hist
  <2>3. ASSUME StartCommandServer(t) \/ KeepCommandServer(t) \/ CloseCommandServer(t)
        PROVE  RestOK'
    <3>1. CASE StartCommandServer(t)
      BY <2>1, <3>1, <1>6 DEF RestOK, StartCommandServer, CallIds, fields, hist
    <3>2. CASE KeepCommandServer(t)
      BY <2>1, <3>2, <1>6 DEF RestOK, KeepCommandServer, world, hist
    <3>3. CASE CloseCommandServer(t)
      BY <2>1, <3>3 DEF RestOK, CloseCommandServer, hist
    <3> QED
      BY <2>3, <3>1, <3>2, <3>3
  <2>4. ASSUME StartInstance(t) \/ SetBox(t) \/ CloseTunnel(t) \/ CloseBox(t)
               \/ ClearBox(t)
        PROVE  RestOK'
    <3>1. CASE StartInstance(t)
      <4>1. leaked' \in BOOLEAN
        BY <2>1, <3>1 DEF RestOK, StartInstance
      <4>2. fileDescriptor' \in 0 .. MaxCalls /\ live' \subseteq CallIds
        BY <2>1, <3>1, <1>6 DEF RestOK, StartInstance, CallIds
      <4> QED
        BY <2>1, <3>1, <4>1, <4>2 DEF RestOK, StartInstance
    <3>2. CASE SetBox(t) \/ CloseTunnel(t)
      BY <2>1, <3>2, <1>6 DEF RestOK, SetBox, CloseTunnel, world, hist
    <3>3. CASE CloseBox(t)
      BY <2>1, <3>3 DEF RestOK, CloseBox, fields, hist
    <3>4. CASE ClearBox(t)
      BY <2>1, <3>4 DEF RestOK, ClearBox, world, hist
    <3> QED
      BY <2>4, <3>1, <3>2, <3>3, <3>4
  <2>5. ASSUME Serve(t) \/ Unserve(t)
        PROVE  RestOK'
    <3>1. PICK s \in 0 .. MaxCalls : SetService(s)
      BY <2>1, <2>5 DEF RestOK, Serve, Unserve
    <3>2. serving' \in [CallIds -> 0 .. MaxCalls]
      BY <2>1, <3>1 DEF RestOK, SetService
    <3>3. UNCHANGED <<fields, live, listening, startedByUser, hist>>
      BY <2>5 DEF Serve, Unserve
    <3> QED
      BY <2>1, <3>2, <3>3 DEF RestOK, fields, hist
  <2> QED
    BY <2>2, <2>3, <2>4, <2>5 DEF Apart
<1>8. TypeOK'
  BY <1>1, <1>2, <1>4, <1>7 DEF TypeOK, TasksOK, RestOK, data
<1> QED
  BY <1>2, <1>4, <1>5, <1>8

LEMMA AdvanceTypes ==
  ASSUME TypeInv, NEW t \in Tasks, Advance(t)
  PROVE  TypeOK' /\ QueueInv' /\ Alone(t) /\ task'[t].pc # "asked"
<1> USE DEF Places
<1>1. TypeOK
  BY DEF TypeInv
<1>2. CASE Apart(t)
  BY <1>2, ApartTypes
<1>3. CASE \/ (BuildConfig(t) /\ OnMain(t, "create")) \/ Show(t) \/ StopAndAlert(t)
           \/ EndStop(t)
  <2>1. /\ Busy(t) /\ task[t].pc # "wait"
        /\ \/ OnMain(t, "create") \/ OnMain(t, "show") \/ OnMain(t, "alert")
           \/ OnMain(t, "end")
    BY <1>3 DEF BuildConfig, Show, StopAndAlert, EndStop, Busy
  <2>2. /\ QueueInv' /\ main' \in Seq(Job) /\ TasksOK' /\ Alone(t)
        /\ UNCHANGED <<value, pending>> /\ task'[t].pc # "asked"
    BY <2>1, QueueWaits
  <2>3. /\ UNCHANGED <<fields, live, listening, serving, shown, hist>>
        /\ startedByUser' \in BOOLEAN
    BY <1>1, <1>3 DEF BuildConfig, Show, StopAndAlert, EndStop, world, TypeOK
  <2> QED
    BY <1>1, <2>2, <2>3 DEF TypeOK, TasksOK, fields, hist
<1>4. CASE Announce(t) \/ PostStarting(t)
  <2>1. PICK v \in {"Starting", "Started"}, l \in {"show", "fd"} :
          PostValue("service", v, main) /\ Goto(t, l)
    BY <1>4 DEF Announce, PostStarting
  <2>2. /\ Busy(t) /\ task[t].pc # "wait"
        /\ UNCHANGED <<value, fields, world, shown, hist>>
    BY <1>4 DEF Announce, PostStarting, Busy
  <2>3. TasksOK' /\ Alone(t) /\ task'[t].pc = l
    BY <1>1, <2>1, <2>2, Going
  <2>4. \A u \in Tasks : task'[u].pc = "wait" <=> task[u].pc = "wait"
    BY <2>2, <2>3 DEF Alone
  <2>5. /\ QueueInv' /\ main' \in Seq(Job)
        /\ pending' \in [LiveData -> Statuses \cup Alerts \cup {"nothing"}]
    BY <1>1, <2>1, <2>4, Posting DEF TypeInv, TypeOK, QueueInv, Jobs, Fits, LiveData
  <2> QED
    BY <1>1, <2>2, <2>3, <2>5 DEF TypeOK, TasksOK, fields, world, hist
<1> QED
  BY <1>2, <1>3, <1>4, Splits

\* A status or an alert is told to the callbacks: neither value nor block.
LEMMA Signalled ==
  ASSUME NEW q \in Seq(Job), Once(q), NEW j \in Job, j.do \in {"status", "alert"}
  PROVE  /\ Append(q, j) \in Seq(Job) /\ Once(Append(q, j))
         /\ JobsOf(Append(q, j)) = JobsOf(q) \cup {j}
         /\ \A d : SetJob(d) \in JobsOf(Append(q, j)) <=> SetJob(d) \in JobsOf(q)
         /\ \A t, l : Block(t, l) \in JobsOf(Append(q, j)) <=> Block(t, l) \in JobsOf(q)
<1>1. \A x \in JobsOf(q) : ~Same(x, j)
  BY DEF Same
<1> QED
  BY <1>1, Appended, OnceAppended DEF SetJob, Block

LEMMA Signals ==
  /\ \A s \in Statuses : Tell(s) \in Job /\ Tell(s).do = "status" /\ Tell(s).of = s
  /\ \A a \in Alerts : Warn(a) \in Job /\ Warn(a).do = "alert" /\ Warn(a).of = a
  BY DEF Tell, Warn, Job

LEMMA SignalTypes ==
  ASSUME TypeInv, NEW s \in Statuses, SetStatus(s, main),
         \A u \in Tasks : task'[u].pc = "wait" <=> task[u].pc = "wait"
  PROVE  /\ QueueInv' /\ main' \in Seq(Job) /\ UNCHANGED pending
         /\ value' \in [{"service", "activity"} -> Statuses]
<1>1. main \in Seq(Job) /\ Once(main)
  BY DEF TypeInv, TypeOK, QueueInv
<1>2. main' = Append(main, Tell(s)) /\ UNCHANGED pending
  BY DEF SetStatus
<1>3. /\ main' \in Seq(Job) /\ Once(main')
      /\ \A d : SetJob(d) \in Jobs' <=> SetJob(d) \in Jobs
      /\ \A t, l : Blocked(t, l)' <=> Blocked(t, l)
  <2>1. Tell(s) \in Job /\ Tell(s).do \in {"status", "alert"}
    BY Signals
  <2> QED
    BY <1>1, <1>2, <2>1, Signalled DEF Jobs, Blocked
<1>4. QueueInv'
  BY <1>2, <1>3 DEF TypeInv, QueueInv
<1> QED
  BY <1>2, <1>3, <1>4 DEF TypeInv, TypeOK, SetStatus

\* What arrives is a call that begins, and a status that it sets.
LEMMA ArriveTypes ==
  ASSUME TypeInv, NEW t \in Tasks, Arrive(t)
  PROVE  TypeOK' /\ QueueInv'
<1>1. TypeOK /\ RestOK
  BY DEF TypeInv, TypeOK, RestOK
<1>2. PICK k \in Kinds, l \in Places \ {"idle", "wait"} : Begin(t, k, l)
  BY
     DEF Arrive, StartCommand, StopService, OnReceive, OnRevoke, Restart, Kinds,
         Places
<1>3. /\ TasksOK' /\ calls' \in 0 .. MaxCalls /\ UNCHANGED <<refused, leaked>>
      /\ \A u \in Tasks : task'[u].pc = "wait" <=> task[u].pc = "wait"
  <2>1. /\ TasksOK' /\ calls' \in 0 .. MaxCalls
        /\ \A u \in Tasks \ {t} : task'[u] = task[u]
        /\ task[t].pc = "idle" /\ task'[t].pc = l
    BY <1>1, <1>2, Beginning
  <2>2. UNCHANGED <<refused, leaked>>
    BY <1>2 DEF Begin
  <2> QED
    BY <2>1, <2>2
<1>4. /\ UNCHANGED <<boxService, commandServer, fileDescriptor, world, shown>>
      /\ receiverRegistered' \in BOOLEAN
  BY <1>1
     DEF Arrive, StartCommand, StopService, OnReceive, OnRevoke, Restart, RestOK,
         fields
<1>5. overlap' \in BOOLEAN
  BY <1>1
     DEF Arrive, StartCommand, StopService, OnReceive, OnRevoke, Restart, RestOK,
         BesideReload
<1>6. /\ QueueInv' /\ main' \in Seq(Job) /\ UNCHANGED pending
      /\ value' \in [{"service", "activity"} -> Statuses]
  <2>1. CASE Restart(t)
    <3>1. UNCHANGED <<value, pending, main>>
      BY <2>1 DEF Restart, data
    <3> QED
      BY <1>1, <1>3, <3>1 DEF TypeInv, TypeOK, QueueInv, Blocked, Jobs
  <2>2. CASE ~Restart(t)
    <3>1. SetStatus("Starting", main) \/ SetStatus("Stopping", main)
      BY <2>2 DEF Arrive, StartCommand, StopService, OnReceive, OnRevoke
    <3> QED
      BY <1>3, <3>1, SignalTypes DEF Statuses
  <2> QED
    BY <2>1, <2>2
<1> QED
  BY <1>1, <1>3, <1>4, <1>5, <1>6 DEF TypeOK, TasksOK, RestOK, world

\* The head of the queue and what is behind it.
LEMMA Heading ==
  ASSUME TypeInv, main # <<>>
  PROVE  /\ Tail(main) \in Seq(Job) /\ Once(Tail(main)) /\ Head(main) \in Job
         /\ Jobs = JobsOf(Tail(main)) \cup {Head(main)}
         /\ \A x \in JobsOf(Tail(main)) : ~Same(x, Head(main))
  BY Taken, OnceTaken DEF TypeInv, TypeOK, QueueInv, Jobs

LEMMA RefusedTypes ==
  ASSUME TypeInv, PermissionRefused
  PROVE  /\ TypeOK' /\ QueueInv' /\ pending'["service"] = pending["service"]
         /\ \A u, l : Blocked(u, l)' <=> Blocked(u, l)
<1>1. /\ PostValue("alerts", "RequestPermission", main) /\ refused' = TRUE
      /\ UNCHANGED <<value, fields, world, shown, task, calls, overlap, leaked>>
  BY DEF PermissionRefused
<1>2. /\ QueueInv' /\ main' \in Seq(Job) /\ Jobs' = Jobs \cup {SetJob("alerts")}
      /\ pending' \in [LiveData -> Statuses \cup Alerts \cup {"nothing"}]
  BY <1>1, Posting DEF TypeInv, TypeOK, QueueInv, Jobs, Fits, LiveData, Alerts
<1>3. pending'["service"] = pending["service"]
  BY <1>1 DEF PostValue, TypeInv, TypeOK, LiveData
<1>4. \A u, l : Blocked(u, l)' <=> Blocked(u, l)
  <2>1. \A u, l : Block(u, l) # SetJob("alerts")
    BY DEF Block, SetJob
  <2> QED
    BY <1>2, <2>1 DEF Blocked
<1> QED
  BY <1>1, <1>2, <1>3, <1>4 DEF TypeInv, TypeOK, fields, world

\* The value that is posted is set.
LEMMA RunSetTypes ==
  ASSUME TypeInv, RunSet
  PROVE  /\ TypeOK' /\ QueueInv'
         /\ \E d \in LiveData : /\ Head(main) = SetJob(d) /\ pending[d] # "nothing"
                                /\ pending' = [pending EXCEPT ![d] = "nothing"]
         /\ \A u, l : Blocked(u, l)' <=> Blocked(u, l)
<1> DEFINE d == Head(main).of
           v == pending[d]
           q == Tail(main)
<1>1. /\ main # <<>> /\ Head(main).do = "set"
      /\ pending' = [pending EXCEPT ![d] = "nothing"]
      /\ \/ /\ d = "service" /\ value' = [value EXCEPT ![d] = v]
            /\ main' = Append(q, Tell(v)) /\ UNCHANGED shown
         \/ /\ d = "activity" /\ value' = [value EXCEPT ![d] = v]
            /\ main' = q /\ shown' = Event(v, "none")
         \/ /\ d = "alerts" /\ main' = q /\ UNCHANGED value
            /\ shown' = Event("Stopped", IF HasMessage(v) THEN v ELSE "none")
      /\ UNCHANGED <<fields, world, task, hist>>
  BY DEF RunSet
<1>2. /\ q \in Seq(Job) /\ Once(q) /\ Head(main) \in Job
      /\ Jobs = JobsOf(q) \cup {Head(main)}
      /\ \A x \in JobsOf(q) : ~Same(x, Head(main))
  BY <1>1, Heading
<1>3. d \in LiveData /\ Head(main) = SetJob(d)
  BY <1>1, <1>2 DEF Job, SetJob
<1>4. SetJob(d) \notin JobsOf(q)
  BY <1>2, <1>3 DEF Same, SetJob
<1>5. /\ v # "nothing"
      /\ d = "service" => v \in {"Starting", "Started"}
      /\ d = "activity" => v \in Statuses
  BY <1>2, <1>3 DEF TypeInv, QueueInv
<1> HIDE DEF d, v, q
<1>6. /\ main' \in Seq(Job) /\ Once(main')
      /\ \A x : SetJob(x) \in Jobs' <=> SetJob(x) \in JobsOf(q)
      /\ \A u, l : Blocked(u, l)' <=> Block(u, l) \in JobsOf(q)
  <2>1. CASE main' = q
    BY <1>2, <2>1 DEF Jobs, Blocked
  <2>2. CASE main' = Append(q, Tell(v)) /\ d = "service"
    <3>1. v \in Statuses
      BY <1>5, <2>2 DEF Statuses
    <3>2. Tell(v) \in Job /\ Tell(v).do \in {"status", "alert"}
      BY <3>1, Signals
    <3> QED
      BY <1>2, <2>2, <3>2, Signalled DEF Jobs, Blocked
  <2> QED
    BY <1>1, <2>1, <2>2
<1>7. /\ \A x \in LiveData \ {d} : SetJob(x) # SetJob(d)
      /\ \A u, l : Block(u, l) # SetJob(d)
  BY DEF SetJob, Block
<1>8. QueueInv' /\ \A u, l : Blocked(u, l)' <=> Blocked(u, l)
  <2>1. \A x \in LiveData : pending'[x] = IF x = d THEN "nothing" ELSE pending[x]
    BY <1>1 DEF TypeInv, TypeOK
  <2>2. \A x \in LiveData : pending'[x] # "nothing" <=> SetJob(x) \in Jobs'
    BY <1>2, <1>3, <1>4, <1>6, <1>7, <2>1 DEF TypeInv, QueueInv
  <2>3. \A u, l : Blocked(u, l)' <=> Blocked(u, l)
    BY <1>2, <1>3, <1>6, <1>7 DEF Blocked
  <2>4. /\ pending'["service"] \in {"nothing", "Starting", "Started"}
        /\ pending'["activity"] \in Statuses \cup {"nothing"}
        /\ pending'["alerts"] \in Alerts \cup {"nothing"}
    BY <2>1 DEF TypeInv, QueueInv, LiveData
  <2> QED
    BY <1>1, <1>6, <2>2, <2>3, <2>4 DEF TypeInv, QueueInv
<1>9. TypeOK'
  <2>1. pending' \in [LiveData -> Statuses \cup Alerts \cup {"nothing"}]
    BY <1>1 DEF TypeInv, TypeOK
  <2>2. value' \in [{"service", "activity"} -> Statuses]
    BY <1>1, <1>5 DEF TypeInv, TypeOK, Statuses
  <2>3. shown' \in [status : Statuses, alert : Alerts]
    BY <1>1, <1>5 DEF TypeInv, TypeOK, Statuses, Alerts, Event, HasMessage
  <2> QED
    BY <1>1, <1>6, <2>1, <2>2, <2>3 DEF TypeInv, TypeOK, fields, world, hist
<1> QED
  BY <1>1, <1>3, <1>5, <1>8, <1>9 DEF d, v

LEMMA RunBroadcastTypes ==
  ASSUME TypeInv, RunBroadcast
  PROVE  /\ TypeOK' /\ QueueInv' /\ Head(main) \in Job
         /\ UNCHANGED <<value, fields, world, shown, task, hist>>
         /\ \/ /\ Head(main).do = "status" /\ Head(main).of \in Statuses
               /\ PostValue("activity", Head(main).of, Tail(main))
            \/ /\ Head(main).do = "alert" /\ Head(main).of \in Alerts
               /\ PostValue("alerts", Head(main).of, Tail(main))
         /\ Jobs' = JobsOf(Tail(main)) \cup
                      {SetJob(IF Head(main).do = "status" THEN "activity" ELSE "alerts")}
         /\ \A u \in Tasks, l \in Places : Blocked(u, l)' <=> Blocked(u, l)
         /\ pending'["service"] = pending["service"]
<1>1. /\ main # <<>> /\ UNCHANGED <<value, fields, world, shown, task, hist>>
      /\ \/ /\ Head(main).do = "status"
            /\ PostValue("activity", Head(main).of, Tail(main))
         \/ /\ Head(main).do = "alert"
            /\ PostValue("alerts", Head(main).of, Tail(main))
  BY DEF RunBroadcast
<1>2. /\ Tail(main) \in Seq(Job) /\ Once(Tail(main)) /\ Head(main) \in Job
      /\ Jobs = JobsOf(Tail(main)) \cup {Head(main)}
  BY <1>1, Heading
<1>3. /\ Head(main).do = "status" => Head(main).of \in Statuses
      /\ Head(main).do = "alert" => Head(main).of \in Alerts
  BY <1>2 DEF Job
<1>4. /\ \A x : SetJob(x) \in Jobs <=> SetJob(x) \in JobsOf(Tail(main))
      /\ \A u \in Tasks, l \in Places :
           Block(u, l) \in Jobs <=> Block(u, l) \in JobsOf(Tail(main))
  BY <1>1, <1>2 DEF SetJob, Block
<1>5. /\ QueueInv' /\ main' \in Seq(Job)
      /\ pending' \in [LiveData -> Statuses \cup Alerts \cup {"nothing"}]
      /\ Jobs' = JobsOf(Tail(main)) \cup
                   {SetJob(IF Head(main).do = "status" THEN "activity" ELSE "alerts")}
  <2>1. CASE /\ Head(main).do = "status"
             /\ PostValue("activity", Head(main).of, Tail(main))
    BY <1>1, <1>2, <1>3, <1>4, <2>1, Posting DEF Fits, LiveData
  <2>2. CASE /\ Head(main).do = "alert"
             /\ PostValue("alerts", Head(main).of, Tail(main))
    BY <1>1, <1>2, <1>3, <1>4, <2>2, Posting DEF Fits, LiveData
  <2> QED
    BY <1>1, <2>1, <2>2
<1>6. TypeOK'
  BY <1>1, <1>5 DEF TypeInv, TypeOK, fields, world, hist
<1>7. \A u \in Tasks, l \in Places : Blocked(u, l)' <=> Blocked(u, l)
  <2>1. \A u, l : Block(u, l) # SetJob("activity") /\ Block(u, l) # SetJob("alerts")
    BY DEF Block, SetJob
  <2> QED
    BY <1>4, <1>5, <2>1 DEF Blocked
<1>8. pending'["service"] = pending["service"]
  BY <1>1 DEF PostValue, TypeInv, TypeOK, LiveData
<1> QED
  BY <1>1, <1>2, <1>3, <1>5, <1>6, <1>7, <1>8

\* A thread's block is run: the thread goes on.
RunBlock(t) == RunResetLogs(t) \/ RunShow(t) \/ RunEnd(t) \/ RunAlert(t)

LEMMA RunBlockTypes ==
  ASSUME TypeInv, NEW t \in Tasks, RunBlock(t)
  PROVE  /\ TypeOK' /\ QueueInv' /\ Alone(t) /\ UNCHANGED <<pending, shown>>
         /\ task[t].pc = "wait" /\ task'[t].pc \notin {"wait", "asked"}
         /\ \E l \in {"create", "show", "end", "alert"} : Head(main) = Block(t, l)
         /\ \A u \in Tasks \ {t}, m \in Places : Blocked(u, m)' <=> Blocked(u, m)
<1> USE DEF Places
<1>1. TypeOK
  BY DEF TypeInv
<1>2. PICK l \in {"create", "show", "end", "alert"} :
        main # <<>> /\ Head(main) = Block(t, l)
  BY DEF RunBlock, RunResetLogs, RunShow, RunEnd, RunAlert
<1>3. /\ Tail(main) \in Seq(Job) /\ Once(Tail(main)) /\ Head(main) \in Job
      /\ Jobs = JobsOf(Tail(main)) \cup {Head(main)}
      /\ \A x \in JobsOf(Tail(main)) : ~Same(x, Head(main))
  BY <1>2, Heading
<1>4. task[t].pc = "wait" /\ Busy(t)
  BY <1>2, <1>3 DEF TypeInv, QueueInv, Blocked, Busy
<1>5. UNCHANGED <<pending, shown>>
  BY DEF RunBlock, RunResetLogs, RunShow, RunEnd, RunAlert, SetStatus
<1>6. Goto(t, "create") \/ Finish(t) \/ Alert(t, "StartService")
  BY DEF RunBlock, RunResetLogs, RunShow, RunEnd, RunAlert
<1>7. TasksOK' /\ Alone(t) /\ task'[t].pc \notin {"wait", "asked"}
  <2>1. "StartService" \in Alerts
    BY DEF Alerts
  <2> QED
    BY <1>1, <1>4, <1>6, <2>1, Going, Finishing, Alerting
<1>8. /\ "Stopped" \in Statuses /\ task[t].alert \in Alerts
      /\ Tell("Stopped") \in Job /\ Tell("Stopped").do \in {"status", "alert"}
      /\ Warn(task[t].alert) \in Job /\ Warn(task[t].alert).do \in {"status", "alert"}
  <2>1. "Stopped" \in Statuses /\ task[t].alert \in Alerts
    BY <1>1 DEF TypeOK, Task, Statuses
  <2> QED
    BY <2>1, Signals
<1>9. /\ main' \in Seq(Job) /\ Once(main')
      /\ \A d : SetJob(d) \in Jobs' <=> SetJob(d) \in JobsOf(Tail(main))
      /\ \A u, m : Block(u, m) \in Jobs' <=> Block(u, m) \in JobsOf(Tail(main))
  <2>1. CASE main' = Tail(main)
    BY <1>3, <2>1 DEF Jobs
  <2>2. CASE main' = Append(Tail(main), Tell("Stopped"))
    BY <1>3, <1>8, <2>2, Signalled DEF Jobs
  <2>3. CASE main' = Append(Append(Tail(main), Warn(task[t].alert)), Tell("Stopped"))
    <3> DEFINE r == Append(Tail(main), Warn(task[t].alert))
    <3>1. /\ r \in Seq(Job) /\ Once(r)
          /\ \A d : SetJob(d) \in JobsOf(r) <=> SetJob(d) \in JobsOf(Tail(main))
          /\ \A u, m : Block(u, m) \in JobsOf(r) <=> Block(u, m) \in JobsOf(Tail(main))
      BY <1>3, <1>8, Signalled
    <3> HIDE DEF r
    <3>2. main' = Append(r, Tell("Stopped"))
      BY <2>3 DEF r
    <3> QED
      BY <1>8, <3>1, <3>2, Signalled DEF Jobs
  <2> QED
    BY <2>1, <2>2, <2>3
       DEF RunBlock, RunResetLogs, RunShow, RunEnd, RunAlert, SetStatus
<1>10. \A m : Block(t, m) \notin JobsOf(Tail(main))
  BY <1>2, <1>3 DEF Same, Block
<1>11. \A d : SetJob(d) \in Jobs' <=> SetJob(d) \in Jobs
  <2>1. \A d : SetJob(d) # Head(main)
    BY <1>2 DEF SetJob, Block
  <2> QED
    BY <1>3, <1>9, <2>1
<1>12. \A u \in Tasks \ {t}, m \in Places : Blocked(u, m)' <=> Blocked(u, m)
  <2>1. \A u \in Tasks \ {t}, m \in Places : Block(u, m) # Head(main)
    BY <1>2 DEF Block
  <2> QED
    BY <1>3, <1>9, <2>1 DEF Blocked
<1>13. \A u \in Tasks : task'[u].pc = "wait" <=> \E m \in Places : Blocked(u, m)'
  <2>1. ~\E m \in Places : Blocked(t, m)'
    BY <1>9, <1>10 DEF Blocked
  <2>2. \A u \in Tasks \ {t} : task'[u] = task[u]
    BY <1>7 DEF Alone
  <2> QED
    BY <1>7, <1>12, <2>1, <2>2 DEF TypeInv, QueueInv
<1>14. QueueInv'
  BY <1>5, <1>9, <1>11, <1>13 DEF TypeInv, QueueInv
<1>15. value' \in [{"service", "activity"} -> Statuses]
  BY <1>1, <1>8
     DEF RunBlock, RunResetLogs, RunShow, RunEnd, RunAlert, SetStatus, TypeOK
<1>16. RestOK'
  <2>1. RestOK
    BY <1>1 DEF TypeOK, RestOK
  <2>2. /\ UNCHANGED <<boxService, commandServer, fileDescriptor, world, calls, refused,
                       overlap>>
        /\ receiverRegistered' \in BOOLEAN /\ leaked' \in BOOLEAN
    BY <2>1
       DEF RunBlock, RunResetLogs, RunShow, RunEnd, RunAlert, RestOK, fields, hist
  <2> QED
    BY <2>1, <2>2 DEF RestOK, world
<1>17. TypeOK'
  BY <1>1, <1>5, <1>7, <1>9, <1>15, <1>16 DEF TypeOK, TasksOK, RestOK
<1> QED
  BY <1>2, <1>4, <1>5, <1>7, <1>12, <1>14, <1>17

LEMMA InitTypes ==
  ASSUME Init
  PROVE  TypeInv
<1> USE MaxCallsAssumption
<1>1. Jobs = {} /\ Once(main)
  BY DEF Init, Jobs, JobsOf, Once
<1>2. Idle \in Task /\ Idle.pc = "idle" /\ Idle.id = 0
  BY DEF Idle, Task, Places, Kinds, Alerts
<1>3. TypeOK
  <2>1. main \in Seq(Job)
    BY EmptySeq DEF Init
  <2>2. task \in [Tasks -> Task] /\ \A t \in Tasks : task[t].pc # "idle" <=> task[t].id # 0
    BY <1>2 DEF Init
  <2>3. shown \in [status : Statuses, alert : Alerts]
    BY DEF Init, Statuses, Alerts, Event
  <2>4. RestOK
    <3>1. 0 \in 0 .. MaxCalls
      OBVIOUS
    <3>2. serving \in [CallIds -> 0 .. MaxCalls]
      BY <3>1 DEF Init
    <3> QED
      BY <3>1, <3>2 DEF Init, RestOK
  <2> QED
    BY <2>1, <2>2, <2>3, <2>4 DEF Init, TypeOK, RestOK, Statuses
<1>4. QueueInv
  BY <1>1, <1>2 DEF Init, QueueInv, LiveData, Blocked
<1> QED
  BY <1>3, <1>4 DEF TypeInv

LEMMA StepTypes ==
  ASSUME TypeInv, [Next]_vars
  PROVE  TypeInv'
<1>1. CASE UNCHANGED vars
  BY <1>1
     DEF TypeInv, TypeOK, QueueInv, Blocked, Jobs, vars, data, fields, world, hist
<1>2. ASSUME NEW t \in Tasks, Arrive(t)
      PROVE  TypeInv'
  BY <1>2, ArriveTypes DEF TypeInv
<1>3. ASSUME NEW t \in Tasks, Advance(t)
      PROVE  TypeInv'
  BY <1>3, AdvanceTypes DEF TypeInv
<1>4. CASE PermissionRefused
  BY <1>4, RefusedTypes DEF TypeInv
<1>5. CASE MainThread
  BY <1>5, RunSetTypes, RunBroadcastTypes, RunBlockTypes
     DEF MainThread, RunBlock, TypeInv
<1> QED
  BY <1>1, <1>2, <1>3, <1>4, <1>5 DEF Next

----------------------------------------------------------------------------
(* Statuses on their way.                                                   *)

Inv1 == TypeInv /\ LastStatus

\* A job that tells no status.
LEMMA LastKept ==
  ASSUME TypeInv, LastStatus, NEW j \in Job, j.do # "status",
         main' = main \/ main' = Append(main, j),
         pending'["activity"] = pending["activity"], UNCHANGED <<value, shown>>
  PROVE  LastStatus'
<1>1. main \in Seq(Job)
  BY DEF TypeInv, TypeOK
<1>2. /\ NoTell(main') <=> NoTell(main)
      /\ EndsWith(main', status)
  <2>1. CASE main' = main
    BY <2>1 DEF LastStatus
  <2>2. CASE main' = Append(main, j)
    BY <1>1, <2>2, TellsAppended DEF LastStatus
  <2> QED
    BY <2>1, <2>2
<1> QED
  BY <1>2 DEF LastStatus, status

LEMMA LastSet ==
  ASSUME TypeInv, NEW q \in Seq(Job), NEW s \in Statuses, main' = Append(q, Tell(s)),
         value' = [value EXCEPT !["service"] = s], UNCHANGED shown, LastStatus
  PROVE  LastStatus'
<1>1. Tell(s) \in Job /\ Tell(s).do = "status" /\ Tell(s).of = s
  BY Signals
<1>2. EndsWith(main', s) /\ ~NoTell(main')
  BY <1>1, TellsAppended
<1>3. value'["service"] = s /\ value'["activity"] = value["activity"]
  BY DEF TypeInv, TypeOK
<1> QED
  BY <1>2, <1>3 DEF LastStatus, status

LEMMA ThreadLast ==
  ASSUME TypeInv, LastStatus, NEW t \in Tasks, Arrive(t) \/ Advance(t)
  PROVE  LastStatus'
<1>1. main \in Seq(Job)
  BY DEF TypeInv, TypeOK
<1>2. CASE UNCHANGED <<data, shown>>
  BY <1>2 DEF LastStatus, status, data
<1>3. ASSUME NEW l \in Places, OnMain(t, l), UNCHANGED shown
      PROVE  LastStatus'
  <2>1. Block(t, l) \in Job /\ Block(t, l).do # "status"
    BY DEF Block, Job
  <2> QED
    BY <1>3, <2>1, LastKept DEF OnMain
<1>4. ASSUME NEW v, PostValue("service", v, main), UNCHANGED <<value, shown>>
      PROVE  LastStatus'
  <2>1. SetJob("service") \in Job /\ SetJob("service").do # "status"
    BY DEF SetJob, Job, LiveData
  <2>2. main' = main \/ main' = Append(main, SetJob("service"))
    BY <1>4 DEF PostValue
  <2>3. pending'["activity"] = pending["activity"]
    BY <1>4 DEF PostValue, TypeInv, TypeOK
  <2> QED
    BY <1>4, <2>1, <2>2, <2>3, LastKept
<1>5. CASE Arrive(t)
  <2>1. CASE Restart(t)
    BY <1>2, <2>1 DEF Restart
  <2>2. CASE ~Restart(t)
    <3>1. PICK s \in {"Starting", "Stopping"} : SetStatus(s, main) /\ UNCHANGED shown
      BY <1>5, <2>2 DEF Arrive, StartCommand, StopService, OnReceive, OnRevoke
    <3>2. s \in Statuses
      BY DEF Statuses
    <3> QED
      BY <1>1, <3>1, <3>2, LastSet DEF SetStatus
  <2> QED
    BY <2>1, <2>2
<1>6. CASE Apart(t)
  BY <1>2, <1>6, ApartTypes
<1>7. CASE \/ (BuildConfig(t) /\ OnMain(t, "create")) \/ Show(t) \/ StopAndAlert(t)
           \/ EndStop(t)
  <2>1. PICK l \in {"create", "show", "alert", "end"} : OnMain(t, l) /\ UNCHANGED shown
    BY <1>7 DEF BuildConfig, Show, StopAndAlert, EndStop
  <2>2. l \in Places
    BY DEF Places
  <2> QED
    BY <1>3, <2>1, <2>2
<1>8. CASE Announce(t) \/ PostStarting(t)
  <2>1. PICK v \in {"Starting", "Started"} :
          PostValue("service", v, main) /\ UNCHANGED <<value, shown>>
    BY <1>8 DEF Announce, PostStarting
  <2> QED
    BY <1>4, <2>1
<1> QED
  BY <1>5, <1>6, <1>7, <1>8, Splits

LEMMA RefusedLast ==
  ASSUME TypeInv, LastStatus, PermissionRefused
  PROVE  LastStatus'
<1>1. SetJob("alerts") \in Job /\ SetJob("alerts").do # "status"
  BY DEF SetJob, Job, LiveData
<1>2. /\ main' = main \/ main' = Append(main, SetJob("alerts"))
      /\ pending'["activity"] = pending["activity"] /\ UNCHANGED <<value, shown>>
  BY DEF PermissionRefused, PostValue, TypeInv, TypeOK
<1> QED
  BY <1>1, <1>2, LastKept

\* What RunSet does, for each LiveData.
LEMMA Settings ==
  ASSUME TypeInv, RunSet
  PROVE  /\ Tail(main) \in Seq(Job) /\ Head(main).do = "set" /\ main # <<>>
         /\ UNCHANGED <<fields, world, task, hist>>
         /\ \/ /\ Head(main) = SetJob("service") /\ pending["service"] # "nothing"
               /\ pending' = [pending EXCEPT !["service"] = "nothing"]
               /\ value' = [value EXCEPT !["service"] = pending["service"]]
               /\ main' = Append(Tail(main), Tell(pending["service"]))
               /\ UNCHANGED shown
            \/ /\ Head(main) = SetJob("activity") /\ pending["activity"] # "nothing"
               /\ pending' = [pending EXCEPT !["activity"] = "nothing"]
               /\ value' = [value EXCEPT !["activity"] = pending["activity"]]
               /\ main' = Tail(main) /\ shown'.status = pending["activity"]
            \/ /\ Head(main) = SetJob("alerts")
               /\ pending' = [pending EXCEPT !["alerts"] = "nothing"]
               /\ main' = Tail(main) /\ shown'.status = "Stopped" /\ UNCHANGED value
<1>1. main # <<>> /\ Head(main).do = "set" /\ Tail(main) \in Seq(Job)
  BY Heading DEF RunSet
<1>2. PICK d \in LiveData : /\ Head(main) = SetJob(d) /\ pending[d] # "nothing"
                            /\ pending' = [pending EXCEPT ![d] = "nothing"]
  BY RunSetTypes
<1>3. Head(main).of = d
  BY <1>2 DEF SetJob
<1>4. /\ UNCHANGED <<fields, world, task, hist>>
      /\ \/ /\ d = "service"
            /\ value' = [value EXCEPT ![d] = pending[d]]
            /\ main' = Append(Tail(main), Tell(pending[d])) /\ UNCHANGED shown
         \/ /\ d = "activity"
            /\ value' = [value EXCEPT ![d] = pending[d]]
            /\ main' = Tail(main) /\ shown' = Event(pending[d], "none")
         \/ /\ d = "alerts" /\ main' = Tail(main)
            /\ shown' = Event("Stopped", IF HasMessage(pending[d]) THEN pending[d]
                                                                  ELSE "none")
            /\ UNCHANGED value
  BY <1>3 DEF RunSet
<1>5. \A s, a : Event(s, a).status = s
  BY DEF Event
<1>6. CASE d = "service"
  BY <1>1, <1>2, <1>4, <1>6
<1>7. CASE d = "activity"
  <2>1. shown'.status = pending["activity"]
    BY <1>4, <1>5, <1>7
  <2> QED
    BY <1>1, <1>2, <1>4, <1>7, <2>1
<1>8. CASE d = "alerts"
  <2>1. shown'.status = "Stopped"
    BY <1>4, <1>5, <1>8
  <2> QED
    BY <1>1, <1>2, <1>4, <1>8, <2>1
<1> QED
  BY <1>4, <1>6, <1>7, <1>8

LEMMA RunSetLast ==
  ASSUME TypeInv, LastStatus, RunSet
  PROVE  LastStatus'
<1>1. Tail(main) \in Seq(Job) /\ Head(main).do = "set" /\ main # <<>> /\ main \in Seq(Job)
  BY Settings DEF TypeInv, TypeOK
<1>2. /\ EndsWith(Tail(main), status)
      /\ NoTell(Tail(main)) <=> NoTell(main)
  BY <1>1, TellsTaken DEF LastStatus
<1>3. CASE Head(main) = SetJob("service")
  <2>1. /\ pending["service"] \in Statuses /\ UNCHANGED shown
        /\ value' = [value EXCEPT !["service"] = pending["service"]]
        /\ main' = Append(Tail(main), Tell(pending["service"]))
    <3>1. SetJob("service") # SetJob("activity") /\ SetJob("service") # SetJob("alerts")
      BY DEF SetJob
    <3> QED
      BY <1>3, <3>1, Settings DEF TypeInv, QueueInv, Statuses
  <2> QED
    BY <1>1, <2>1, LastSet
<1>4. CASE Head(main) = SetJob("activity")
  <2>1. /\ pending' = [pending EXCEPT !["activity"] = "nothing"]
        /\ value' = [value EXCEPT !["activity"] = pending["activity"]]
        /\ main' = Tail(main) /\ shown'.status = pending["activity"]
        /\ pending["activity"] # "nothing"
    <3>1. SetJob("activity") # SetJob("service") /\ SetJob("activity") # SetJob("alerts")
      BY DEF SetJob
    <3> QED
      BY <1>4, <3>1, Settings
  <2>2. /\ pending'["activity"] = "nothing" /\ value'["activity"] = pending["activity"]
        /\ status' = status
    BY <2>1 DEF TypeInv, TypeOK, LiveData, status
  <2> QED
    BY <1>2, <2>1, <2>2 DEF LastStatus
<1>5. CASE Head(main) = SetJob("alerts")
  <2>1. /\ pending' = [pending EXCEPT !["alerts"] = "nothing"]
        /\ main' = Tail(main) /\ shown'.status = "Stopped" /\ UNCHANGED value
    <3>1. SetJob("alerts") # SetJob("service") /\ SetJob("activity") # SetJob("alerts")
      BY DEF SetJob
    <3> QED
      BY <1>5, <3>1, Settings
  <2>2. pending'["activity"] = pending["activity"] /\ status' = status
    BY <2>1 DEF TypeInv, TypeOK, LiveData, status
  <2> QED
    BY <1>2, <2>1, <2>2 DEF LastStatus
<1> QED
  BY <1>3, <1>4, <1>5, Settings

LEMMA RunBroadcastLast ==
  ASSUME TypeInv, LastStatus, RunBroadcast
  PROVE  LastStatus'
<1>1. main # <<>> /\ main \in Seq(Job) /\ Tail(main) \in Seq(Job)
  BY Heading DEF RunBroadcast, TypeInv, TypeOK
<1>2. /\ UNCHANGED <<value, shown>>
      /\ \/ /\ Head(main).do = "status" /\ Head(main).of \in Statuses
            /\ PostValue("activity", Head(main).of, Tail(main))
         \/ /\ Head(main).do = "alert" /\ Head(main).of \in Alerts
            /\ PostValue("alerts", Head(main).of, Tail(main))
  BY RunBroadcastTypes
<1>3. \A d \in LiveData : SetJob(d) \in Job /\ SetJob(d).do # "status"
  BY DEF SetJob, Job
<1>4. ASSUME NEW d \in LiveData, NEW v, PostValue(d, v, Tail(main))
      PROVE  /\ NoTell(main') <=> NoTell(Tail(main))
             /\ EndsWith(main', status)
             /\ pending' = [pending EXCEPT ![d] = v]
  <2>1. main' = Tail(main) \/ main' = Append(Tail(main), SetJob(d))
    BY <1>4 DEF PostValue
  <2>2. EndsWith(Tail(main), status)
    BY <1>1, TellsTaken DEF LastStatus
  <2>3. CASE main' = Tail(main)
    BY <1>4, <2>2, <2>3 DEF PostValue
  <2>4. CASE main' = Append(Tail(main), SetJob(d))
    <3>1. SetJob(d) \in Job /\ SetJob(d).do # "status"
      BY <1>3
    <3>2. NoTell(main') <=> NoTell(Tail(main))
      BY <1>1, <2>4, <3>1, TellsAppended
    <3>3. EndsWith(main', status)
      BY <1>1, <2>2, <2>4, <3>1, TellsAppended
    <3> QED
      BY <1>4, <3>2, <3>3 DEF PostValue
  <2> QED
    BY <2>1, <2>3, <2>4
<1>5. status' = status
  BY <1>2 DEF status
<1>6. CASE /\ Head(main).do = "status" /\ Head(main).of \in Statuses
           /\ PostValue("activity", Head(main).of, Tail(main))
  <2>1. /\ NoTell(main') <=> NoTell(Tail(main))
        /\ EndsWith(main', status)
        /\ pending' = [pending EXCEPT !["activity"] = Head(main).of]
    BY <1>4, <1>6 DEF LiveData
  <2>2. pending'["activity"] = Head(main).of /\ Head(main).of # "nothing"
    BY <1>6, <2>1 DEF TypeInv, TypeOK, LiveData, Statuses
  <2>3. NoTell(Tail(main)) => Head(main).of = status
    BY <1>1, <1>6, TellsTaken DEF LastStatus
  <2> QED
    BY <1>2, <1>5, <2>1, <2>2, <2>3 DEF LastStatus
<1>7. CASE /\ Head(main).do = "alert" /\ Head(main).of \in Alerts
           /\ PostValue("alerts", Head(main).of, Tail(main))
  <2>1. /\ NoTell(main') <=> NoTell(Tail(main))
        /\ EndsWith(main', status)
        /\ pending' = [pending EXCEPT !["alerts"] = Head(main).of]
    BY <1>4, <1>7 DEF LiveData
  <2>2. pending'["activity"] = pending["activity"]
    BY <2>1 DEF TypeInv, TypeOK, LiveData
  <2>3. NoTell(Tail(main)) <=> NoTell(main)
    BY <1>1, <1>7, TellsTaken
  <2> QED
    BY <1>2, <1>5, <2>1, <2>2, <2>3 DEF LastStatus
<1> QED
  BY <1>2, <1>6, <1>7

\* What running a thread's block does to the queue.
LEMMA Unblocking ==
  ASSUME TypeInv, NEW t \in Tasks, RunBlock(t)
  PROVE  /\ Tail(main) \in Seq(Job) /\ main # <<>> /\ Head(main).do = "block"
         /\ \/ main' = Tail(main) /\ UNCHANGED value
            \/ /\ main' = Append(Tail(main), Tell("Stopped"))
               /\ value' = [value EXCEPT !["service"] = "Stopped"]
            \/ /\ Append(Tail(main), Warn(task[t].alert)) \in Seq(Job)
               /\ task[t].alert \in Alerts
               /\ main' = Append(Append(Tail(main), Warn(task[t].alert)), Tell("Stopped"))
               /\ value' = [value EXCEPT !["service"] = "Stopped"]
<1>1. main # <<>>
  BY DEF RunBlock, RunResetLogs, RunShow, RunEnd, RunAlert
<1>2. Tail(main) \in Seq(Job) /\ Head(main).do = "block"
  BY <1>1, Heading, RunBlockTypes DEF Block
<1>3. task[t].alert \in Alerts
  BY DEF TypeInv, TypeOK, Task
<1>4. Append(Tail(main), Warn(task[t].alert)) \in Seq(Job)
  BY <1>2, <1>3, Signals, Appended
<1> QED
  BY <1>1, <1>2, <1>3, <1>4
     DEF RunBlock, RunResetLogs, RunShow, RunEnd, RunAlert, SetStatus

LEMMA RunBlockLast ==
  ASSUME TypeInv, LastStatus, NEW t \in Tasks, RunBlock(t)
  PROVE  LastStatus'
<1>1. /\ main # <<>> /\ main \in Seq(Job) /\ Tail(main) \in Seq(Job)
      /\ Head(main).do = "block"
  BY Unblocking DEF TypeInv, TypeOK
<1>2. UNCHANGED <<pending, shown>> /\ "Stopped" \in Statuses
  BY RunBlockTypes DEF Statuses
<1>3. CASE main' = Tail(main) /\ UNCHANGED value
  <2>1. EndsWith(main', status) /\ (NoTell(main') <=> NoTell(main))
    BY <1>1, <1>3, TellsTaken DEF LastStatus
  <2> QED
    BY <1>2, <1>3, <2>1 DEF LastStatus, status
<1>4. CASE \E q \in Seq(Job) : /\ main' = Append(q, Tell("Stopped"))
                               /\ value' = [value EXCEPT !["service"] = "Stopped"]
  BY <1>2, <1>4, LastSet
<1> QED
  BY <1>1, <1>3, <1>4, Unblocking

LEMMA StepLast ==
  ASSUME TypeInv, LastStatus, [Next]_vars
  PROVE  LastStatus'
<1>1. CASE UNCHANGED vars
  BY <1>1 DEF LastStatus, status, vars, data
<1>2. CASE MainThread
  BY <1>2, RunSetLast, RunBroadcastLast, RunBlockLast DEF MainThread, RunBlock
<1> QED
  BY <1>1, <1>2, ThreadLast, RefusedLast DEF Next

----------------------------------------------------------------------------
(* The order of the queue.                                                  *)

Posts == \E t \in Tasks : Announce(t) \/ PostStarting(t)
Warns == \E t \in Tasks : RunAlert(t)

\* What a step does to the queue: it takes the first job or none, and appends one
\* job, none, or an alert and a status.
LEMMA QueueSteps ==
  ASSUME TypeInv, [Next]_vars
  PROVE  \E q \in Seq(Job) :
           /\ q = main \/ (main # <<>> /\ q = Tail(main))
           /\ \/ main' = q
              \/ \E j \in Job : /\ main' = Append(q, j) /\ j.do # "alert"
                                /\ j = SetJob("service") => Posts
              \/ /\ Warns
                 /\ \E a \in Alerts : /\ Append(q, Warn(a)) \in Seq(Job)
                                      /\ main' = Append(Append(q, Warn(a)), Tell("Stopped"))
<1> DEFINE New(q, j) == /\ j \in Job /\ main' = Append(q, j) /\ j.do # "alert"
                        /\ j = SetJob("service") => Posts
<1> USE DEF LiveData, Places
<1>1. main \in Seq(Job)
  BY DEF TypeInv, TypeOK
<1>2. /\ \A s \in Statuses : /\ Tell(s) \in Job /\ Tell(s).do # "alert"
                             /\ Tell(s) # SetJob("service")
      /\ \A t \in Tasks, l \in Places : /\ Block(t, l) \in Job /\ Block(t, l).do # "alert"
                                        /\ Block(t, l) # SetJob("service")
      /\ \A x \in LiveData : SetJob(x) \in Job /\ SetJob(x).do # "alert"
      /\ SetJob("activity") # SetJob("service") /\ SetJob("alerts") # SetJob("service")
  BY DEF Tell, Block, SetJob, Job
<1>3. ASSUME NEW t \in Tasks, Arrive(t)
      PROVE  main' = main \/ \E j : New(main, j)
  <2>1. \/ UNCHANGED data
        \/ SetStatus("Starting", main) \/ SetStatus("Stopping", main)
    BY <1>3 DEF Arrive, StartCommand, StopService, OnReceive, OnRevoke, Restart
  <2>2. {"Starting", "Stopping"} \subseteq Statuses
    BY DEF Statuses
  <2> QED
    BY <1>2, <2>1, <2>2 DEF data, SetStatus
<1>4. ASSUME NEW t \in Tasks, Advance(t)
      PROVE  main' = main \/ \E j : New(main, j)
  <2>1. CASE Apart(t)
    BY <2>1, ApartTypes DEF data
  <2>2. CASE \/ (BuildConfig(t) /\ OnMain(t, "create")) \/ Show(t) \/ StopAndAlert(t)
             \/ EndStop(t)
    <3>1. PICK l \in {"create", "show", "alert", "end"} : OnMain(t, l)
      BY <2>2 DEF Show, StopAndAlert, EndStop
    <3>2. New(main, Block(t, l))
      BY <1>2, <3>1 DEF OnMain
    <3> QED
      BY <3>2
  <2>3. CASE Announce(t) \/ PostStarting(t)
    <3>1. main' = main \/ main' = Append(main, SetJob("service"))
      BY <2>3 DEF Announce, PostStarting, PostValue
    <3>2. Posts
      BY <2>3 DEF Posts
    <3> QED
      BY <1>2, <3>1, <3>2
  <2> QED
    BY <1>4, <2>1, <2>2, <2>3, Splits
<1>5. CASE PermissionRefused
  BY <1>1, <1>2, <1>5 DEF PermissionRefused, PostValue
<1>6. ASSUME MainThread
      PROVE  /\ main # <<>> /\ Tail(main) \in Seq(Job)
             /\ \/ main' = Tail(main) \/ \E j : New(Tail(main), j)
                \/ Warns /\ \E a \in Alerts :
                     /\ Append(Tail(main), Warn(a)) \in Seq(Job)
                     /\ main' = Append(Append(Tail(main), Warn(a)), Tell("Stopped"))
  <2>1. main # <<>> /\ Tail(main) \in Seq(Job)
    BY <1>6, Heading
       DEF MainThread, RunSet, RunBroadcast, RunResetLogs, RunShow, RunEnd, RunAlert
  <2>2. CASE RunSet
    <3>1. \/ main' = Tail(main)
          \/ /\ main' = Append(Tail(main), Tell(pending["service"]))
             /\ pending["service"] # "nothing"
      BY <2>2, Settings
    <3>2. pending["service"] # "nothing" => pending["service"] \in Statuses
      BY DEF TypeInv, QueueInv, Statuses
    <3> QED
      BY <1>2, <2>1, <3>1, <3>2
  <2>3. CASE RunBroadcast
    <3>1. \/ main' = Tail(main) \/ main' = Append(Tail(main), SetJob("activity"))
          \/ main' = Append(Tail(main), SetJob("alerts"))
      BY <2>3 DEF RunBroadcast, PostValue
    <3> QED
      BY <1>2, <2>1, <3>1
  <2>4. ASSUME NEW t \in Tasks, RunResetLogs(t) \/ RunShow(t) \/ RunEnd(t)
        PROVE  main' = Tail(main) \/ \E j : New(Tail(main), j)
    <3>1. main' = Tail(main) \/ main' = Append(Tail(main), Tell("Stopped"))
      BY <2>4 DEF RunResetLogs, RunShow, RunEnd, SetStatus
    <3>2. "Stopped" \in Statuses
      BY DEF Statuses
    <3> QED
      BY <1>2, <3>1, <3>2
  <2>5. ASSUME NEW t \in Tasks, RunAlert(t)
        PROVE  Warns /\ \E a \in Alerts :
                 /\ Append(Tail(main), Warn(a)) \in Seq(Job)
                 /\ main' = Append(Append(Tail(main), Warn(a)), Tell("Stopped"))
    <3>1. task[t].alert \in Alerts
      BY DEF TypeInv, TypeOK, Task
    <3>2. Append(Tail(main), Warn(task[t].alert)) \in Seq(Job)
      BY <2>1, <3>1, Signals, Appended
    <3>3. main' = Append(Append(Tail(main), Warn(task[t].alert)), Tell("Stopped"))
      BY <2>5 DEF RunAlert, SetStatus
    <3> QED
      BY <2>5, <3>1, <3>2, <3>3 DEF Warns
  <2> QED
    BY <1>6, <2>1, <2>2, <2>3, <2>4, <2>5 DEF MainThread
<1>7. CASE UNCHANGED vars
  BY <1>1, <1>7 DEF vars, data
<1> QED
  BY <1>1, <1>3, <1>4, <1>5, <1>6, <1>7 DEF Next

\* The order of two jobs is kept, unless the first one is given once more while the
\* second is there.
LEMMA OrderKept ==
  ASSUME TypeInv, [Next]_vars, NEW x \in Job, NEW y \in Job, x # y,
         x = SetJob("service") \/ x.do = "alert", Before(main, x, y),
         y \in Jobs => ~(Posts /\ x = SetJob("service")) /\ ~(Warns /\ x.do = "alert")
  PROVE  Before(main', x, y)
<1>1. PICK q \in Seq(Job) :
        /\ q = main \/ (main # <<>> /\ q = Tail(main))
        /\ \/ main' = q
           \/ \E j \in Job : /\ main' = Append(q, j) /\ j.do # "alert"
                             /\ j = SetJob("service") => Posts
           \/ /\ Warns
              /\ \E a \in Alerts : /\ Append(q, Warn(a)) \in Seq(Job)
                                   /\ main' = Append(Append(q, Warn(a)), Tell("Stopped"))
  BY QueueSteps
<1>2. main \in Seq(Job)
  BY DEF TypeInv, TypeOK
<1>3. Before(q, x, y) /\ JobsOf(q) \subseteq Jobs
  <2>1. CASE q = main
    BY <2>1 DEF Jobs
  <2>2. CASE main # <<>> /\ q = Tail(main)
    BY <1>2, <2>2, BeforeTaken, Taken DEF Jobs
  <2> QED
    BY <1>1, <2>1, <2>2
<1>4. SetJob("service").do = "set"
  BY DEF SetJob
<1>5. ASSUME NEW j \in Job, main' = Append(q, j), j.do # "alert",
             j = SetJob("service") => Posts
      PROVE  Before(main', x, y)
  <2>1. j = x => y \notin JobsOf(q)
    BY <1>3, <1>5
  <2> QED
    BY <1>3, <1>5, <2>1, BeforeAppended
<1>6. ASSUME Warns, NEW a \in Alerts, Append(q, Warn(a)) \in Seq(Job),
             main' = Append(Append(q, Warn(a)), Tell("Stopped"))
      PROVE  Before(main', x, y)
  <2>1. /\ Warn(a) \in Job /\ Warn(a).do = "alert"
        /\ Tell("Stopped") \in Job /\ Tell("Stopped").do = "status"
    BY Signals DEF Statuses
  <2>2. Warn(a) = x => y \notin JobsOf(q)
    BY <1>3, <1>6, <2>1
  <2>3. Before(Append(q, Warn(a)), x, y)
    BY <1>3, <2>1, <2>2, BeforeAppended
  <2>4. Tell("Stopped") # x
    BY <1>4, <2>1
  <2> QED
    BY <1>6, <2>1, <2>3, <2>4, BeforeAppended
<1> QED
  BY <1>1, <1>3, <1>5, <1>6

----------------------------------------------------------------------------
(* Calls that begin to work, and reloads.                                   *)

LEMMA HistoryStays ==
  ASSUME TypeInv, [Next]_vars
  PROVE  (overlap => overlap') /\ (leaked => leaked') /\ (refused => refused')
<1>1. ASSUME NEW t \in Tasks, Arrive(t)
      PROVE  (overlap => overlap') /\ (leaked => leaked') /\ (refused => refused')
  <2>1. UNCHANGED <<refused, leaked>>
    BY <1>1
       DEF Arrive, StartCommand, StopService, OnReceive, OnRevoke, Restart, Begin
  <2>2. overlap => overlap'
    BY <1>1, Zenon
       DEF Arrive, StartCommand, StopService, OnReceive, OnRevoke, Restart
  <2> QED
    BY <2>1, <2>2
<1>2. ASSUME NEW t \in Tasks, Advance(t)
      PROVE  (overlap => overlap') /\ (leaked => leaked') /\ (refused => refused')
  <2>1. CASE ServiceReload(t) \/ StartInstance(t)
    <3>1. UNCHANGED refused
      BY <2>1 DEF ServiceReload, StartInstance
    <3>2. overlap => overlap'
      BY <2>1, Zenon DEF ServiceReload, StartInstance
    <3>3. leaked => leaked'
      BY <2>1, Zenon DEF ServiceReload, StartInstance
    <3> QED
      BY <3>1, <3>2, <3>3
  <2>2. CASE ~(ServiceReload(t) \/ StartInstance(t))
    <3>1. UNCHANGED hist
      BY <1>2, <2>2 DEF Advance, StartCommandServer, KeepCommandServer, BuildConfig,
           NewService, SetBox, Serve, Announce, Show, StopAndAlert, PostStarting,
           CloseTunnel, Unserve, CloseBox, ClearBox, CloseCommandServer, EndStop
    <3> QED
      BY <3>1 DEF hist
  <2> QED
    BY <2>1, <2>2
<1>3. CASE PermissionRefused
  BY <1>3 DEF PermissionRefused
<1>4. CASE MainThread
  BY <1>4
     DEF MainThread, RunSet, RunBroadcast, RunResetLogs, RunShow, RunEnd, RunAlert,
         hist
<1>5. CASE UNCHANGED vars
  BY <1>5 DEF vars, hist
<1> QED
  BY <1>1, <1>2, <1>3, <1>4, <1>5 DEF Next

\* A call begins to work.
Sets(t) == \/ StartCommand(t) \/ StopService(t)
           \/ ServiceReload(t) /\ task'[t].pc = "post"

LEMMA Setting ==
  ASSUME TypeInv, NEW t \in Tasks, Sets(t)
  PROVE  /\ ~Works(t) /\ \A u \in Tasks \ {t} : task'[u] = task[u]
         /\ StartCommand(t) => task'[t].kind = "start" /\ task'[t].pc = "server"
         /\ StopService(t) => task'[t].kind = "stop" /\ task'[t].pc = "fd"
         /\ ServiceReload(t) => task'[t].kind = task[t].kind
                                /\ overlap' = (overlap \/ status # "Started"
                                                 \/ BesideReload(t, "reload"))
<1>1. TypeOK
  BY DEF TypeInv
<1>2. CASE StartCommand(t)
  <2>1. Begin(t, "start", "server")
    BY <1>2 DEF StartCommand
  <2>2. /\ task[t].pc = "idle" /\ task'[t].pc = "server" /\ task'[t].kind = "start"
        /\ \A u \in Tasks \ {t} : task'[u] = task[u]
    BY <1>1, <2>1, Beginning DEF Kinds, Places
  <2> QED
    BY <1>2, <2>2 DEF Works, StartCommand, StopService, ServiceReload
<1>3. CASE StopService(t)
  <2>1. Begin(t, "stop", "fd")
    BY <1>3 DEF StopService
  <2>2. /\ task[t].pc = "idle" /\ task'[t].pc = "fd" /\ task'[t].kind = "stop"
        /\ \A u \in Tasks \ {t} : task'[u] = task[u]
    BY <1>1, <2>1, Beginning DEF Kinds, Places
  <2> QED
    BY <1>3, <2>2 DEF Works, StartCommand, StopService, Begin, ServiceReload, Busy
<1>4. CASE ServiceReload(t) /\ task'[t].pc = "post"
  <2>1. task[t].pc = "asked" /\ ~Finish(t)
    <3>1. Finish(t) => task'[t].pc = "idle"
      BY <1>1, Finishing
    <3> QED
      BY <1>4, <3>1 DEF ServiceReload
  <2>2. /\ Goto(t, "post")
        /\ overlap' = (overlap \/ status # "Started" \/ BesideReload(t, "reload"))
    BY <1>4, <2>1 DEF ServiceReload
  <2>3. Busy(t)
    BY <2>1 DEF Busy
  <2>4. Alone(t)
    BY <1>1, <2>2, <2>3, Going DEF Places
  <2> QED
    BY <1>4, <2>1, <2>2, <2>4
       DEF Works, Alone, StartCommand, StopService, Begin, Busy
<1> QED
  BY <1>2, <1>3, <1>4 DEF Sets

\* Any other step leaves a call at work what it was.
LEMMA Working ==
  ASSUME TypeInv, [Next]_vars
  PROVE  \/ \E t \in Tasks : Sets(t)
         \/ \A u \in Tasks :
              Works(u)' => Works(u) /\ task'[u].kind = task[u].kind
                           /\ task'[u].id = task[u].id
<1> DEFINE StillWorks(u) == Works(u)' => Works(u) /\ task'[u].kind = task[u].kind
                                    /\ task'[u].id = task[u].id
<1>1. TypeOK
  BY DEF TypeInv
<1>2. ASSUME NEW t \in Tasks, Arrive(t)
      PROVE  Sets(t) \/ \A u \in Tasks : StillWorks(u)
  <2>1. CASE Restart(t)
    <3>1. Begin(t, "reload", "asked")
      BY <2>1 DEF Restart
    <3>2. task'[t].pc = "asked" /\ \A u \in Tasks \ {t} : task'[u] = task[u]
      BY <1>1, <3>1, Beginning DEF Kinds, Places
    <3> QED
      BY <3>2 DEF Works
  <2> QED
    BY <1>2, <2>1 DEF Arrive, OnReceive, OnRevoke, Sets
<1>3. ASSUME NEW t \in Tasks, Advance(t)
      PROVE  Sets(t) \/ \A u \in Tasks : StillWorks(u)
  <2>1. Alone(t)
    BY <1>3, AdvanceTypes
  <2>2. CASE ServiceReload(t)
    <3>1. CASE Finish(t)
      BY <1>1, <2>1, <3>1, Finishing DEF Works, Alone
    <3>2. CASE Goto(t, "post")
      <4>1. task'[t].pc = "post"
        BY <1>1, <2>2, <3>2, Going DEF Busy, Places, ServiceReload
      <4> QED
        BY <2>2, <4>1 DEF Sets
    <3> QED
      BY <2>2, <3>1, <3>2 DEF ServiceReload
  <2>3. CASE ~ServiceReload(t)
    <3>1. Works(t)
      BY <1>3, <2>3
         DEF Advance, StartCommandServer, KeepCommandServer, BuildConfig,
             NewService, StartInstance, SetBox, Serve, Announce, Show, StopAndAlert,
             PostStarting, CloseTunnel, Unserve, CloseBox, ClearBox, CloseCommandServer,
             EndStop, Works
    <3> QED
      BY <2>1, <3>1 DEF Works, Alone
  <2> QED
    BY <2>2, <2>3
<1>4. ASSUME NEW t \in Tasks, RunBlock(t)
      PROVE  \A u \in Tasks : StillWorks(u)
  BY <1>4, RunBlockTypes DEF Works, Alone
<1>5. CASE UNCHANGED task
  BY <1>5 DEF Works
<1> QED
  BY <1>2, <1>3, <1>4, <1>5 DEF Next, MainThread, RunBlock, RunSet, RunBroadcast,
                                PermissionRefused, vars

LEMMA StepReload ==
  ASSUME TypeInv, TypeInv', ReloadInv, [Next]_vars
  PROVE  ReloadInv'
<1>0. ASSUME NEW t \in Tasks, task'[t].pc = "asked"
      PROVE  task'[t].kind = "reload"
  <2>1. CASE task'[t] = task[t]
    BY <1>0, <2>1 DEF ReloadInv
  <2>2. ASSUME Arrive(t)
        PROVE  task'[t].kind = "reload"
    <3>1. TypeOK
      BY DEF TypeInv
    <3> QED
      BY <1>0, <2>2, <3>1, Beginning
         DEF Arrive, StartCommand, StopService, OnReceive, OnRevoke, Restart, Kinds,
             Places
  <2>3. \/ task'[t] = task[t] \/ Arrive(t) \/ Advance(t) \/ RunBlock(t)
    <3>1. \A u \in Tasks : Arrive(u) \/ Advance(u) \/ RunBlock(u) =>
            \A v \in Tasks \ {u} : task'[v] = task[v]
      <4>1. ASSUME NEW u \in Tasks, Arrive(u)
            PROVE  \A v \in Tasks \ {u} : task'[v] = task[v]
        BY <4>1
           DEF Arrive, StartCommand, StopService, OnReceive, OnRevoke, Restart,
               Begin, TypeInv, TypeOK
      <4> QED
        BY <4>1, AdvanceTypes, RunBlockTypes DEF Alone
    <3> QED
      BY <3>1
         DEF Next, MainThread, RunBlock, RunSet, RunBroadcast, PermissionRefused,
             vars
  <2> QED
    BY <1>0, <2>1, <2>2, <2>3, AdvanceTypes, RunBlockTypes
<1>1. SUFFICES ASSUME ~overlap', ~leaked', NEW t \in Tasks, task'[t].kind = "reload"
               PROVE  /\ Works(t)' => \A u \in Tasks : Works(u)' => t = u
                      /\ \A l \in Places :
                           Before(main', SetJob("service"), Block(t, l))
  BY <1>0 DEF ReloadInv
<1>2. ~overlap /\ ~leaked
  BY <1>1, HistoryStays
<1>3. \A v \in Tasks : task[v].kind = "reload" =>
        /\ Works(v) => \A u \in Tasks : Works(u) => v = u
        /\ \A l \in Places : Before(main, SetJob("service"), Block(v, l))
  BY <1>2 DEF ReloadInv
<1>4. ASSUME Works(t)', NEW u \in Tasks, Works(u)'
      PROVE  t = u
  <2>1. CASE \A v \in Tasks : Works(v)' => Works(v) /\ task'[v].kind = task[v].kind
    BY <1>1, <1>3, <1>4, <2>1
  <2>2. ASSUME NEW v \in Tasks, Sets(v)
        PROVE  t = u
    <3>1. /\ ~Works(v) /\ \A w \in Tasks \ {v} : task'[w] = task[w]
          /\ StartCommand(v) => task'[v].kind = "start" /\ task'[v].pc = "server"
          /\ StopService(v) => task'[v].kind = "stop" /\ task'[v].pc = "fd"
          /\ ServiceReload(v) => task'[v].kind = task[v].kind
                                 /\ overlap' = (overlap \/ status # "Started"
                                                  \/ BesideReload(v, "reload"))
      BY <2>2, Setting
    <3>2. \A w \in Tasks \ {v} : Works(w)' => Works(w) /\ Busy(w) /\ task[w].pc # "asked"
      BY <3>1 DEF Works, Busy
    <3>3. CASE t # v /\ u # v
      BY <1>1, <1>3, <1>4, <3>1, <3>2, <3>3
    <3>4. CASE t # v /\ u = v
      <4>1. /\ Busy(t) /\ task[t].pc # "asked" /\ task[t].kind = "reload"
        BY <1>1, <1>4, <3>1, <3>2, <3>4
      <4>2. BesideReload(v, "start") /\ BesideReload(v, "stop") /\ BesideReload(v, "reload")
        BY <3>4, <4>1 DEF BesideReload
      <4>3. overlap'
        BY <2>2, <3>1, <4>2 DEF Sets, StartCommand, StopService
      <4> QED
        BY <1>1, <4>3
    <3>5. CASE t = v /\ u # v
      <4>1. ServiceReload(v)
        BY <1>1, <2>2, <3>1, <3>5 DEF Sets
      <4>2. BesideReload(v, "reload")
        BY <1>4, <3>2, <3>5 DEF BesideReload
      <4> QED
        BY <1>1, <3>1, <4>1, <4>2
    <3> QED
      BY <3>3, <3>4, <3>5
  <2> QED
    BY <2>1, <2>2, Working
<1>5. ASSUME NEW l \in Places
      PROVE  Before(main', SetJob("service"), Block(t, l))
  <2>1. CASE ~Blocked(t, l)'
    BY <2>1 DEF Blocked, Jobs, JobsOf, Before
  <2>2. CASE Blocked(t, l)'
    <3>1. task'[t].pc = "wait"
      BY <2>2 DEF TypeInv, QueueInv
    <3>2. Works(t) /\ task[t].kind = "reload"
      <4>1. CASE \A v \in Tasks : Works(v)' => Works(v) /\ task'[v].kind = task[v].kind
        BY <1>1, <3>1, <4>1 DEF Works
      <4>2. ASSUME NEW v \in Tasks, Sets(v)
            PROVE  Works(t) /\ task[t].kind = "reload"
        <5>1. t # v
          BY <3>1, <4>2, Setting DEF Sets
        <5>2. task'[t] = task[t]
          BY <4>2, <5>1, Setting
        <5> QED
          BY <1>1, <3>1, <5>2 DEF Works
      <4> QED
        BY <4>1, <4>2, Working
    <3>3. ASSUME Block(t, l) \in Jobs, NEW v \in Tasks, Announce(v) \/ PostStarting(v)
          PROVE  FALSE
      <4>1. task[t].pc = "wait"
        BY <3>3 DEF TypeInv, QueueInv, Blocked
      <4>2. Works(v) /\ task[v].pc # "wait"
        BY <3>3 DEF Announce, PostStarting, Works
      <4> QED
        BY <1>3, <3>2, <4>1, <4>2
    <3>4. /\ SetJob("service") \in Job /\ Block(t, l) \in Job
          /\ SetJob("service") # Block(t, l) /\ SetJob("service").do # "alert"
      BY DEF SetJob, Block, Job, LiveData
    <3>5. Before(main, SetJob("service"), Block(t, l))
      BY <1>3, <3>2
    <3> QED
      BY <3>3, <3>4, <3>5, OrderKept DEF Posts
  <2> QED
    BY <2>1, <2>2
<1> QED
  BY <1>4, <1>5

----------------------------------------------------------------------------
(* Who holds the status.                                                    *)

LEMMA NotWaiting ==
  ASSUME TypeInv, NEW t \in Tasks, task[t].pc # "wait"
  PROVE  /\ \A l \in Places : ~Blocked(t, l)
         /\ ~Blocked(t, "create") /\ ~Blocked(t, "alert") /\ ~Blocked(t, "show")
         /\ ~Blocked(t, "end")
  BY DEF TypeInv, QueueInv, Places

\* A thread waits for one block.
LEMMA OneBlock ==
  ASSUME TypeInv, NEW t \in Tasks, NEW l \in Places, NEW m \in Places, Blocked(t, l),
         Blocked(t, m)
  PROVE  l = m
<1>1. PICK i \in 1 .. Len(main) : main[i] = Block(t, l)
  BY DEF Blocked, Jobs, JobsOf
<1>2. PICK k \in 1 .. Len(main) : main[k] = Block(t, m)
  BY DEF Blocked, Jobs, JobsOf
<1>3. Same(main[i], main[k])
  BY <1>1, <1>2 DEF Same, Block
<1>4. i = k
  BY <1>3 DEF TypeInv, QueueInv, Once
<1> QED
  BY <1>1, <1>2, <1>4 DEF Block

\* Blocks of threads other than the one that steps.
LEMMA Others ==
  ASSUME TypeInv, NEW t \in Tasks, Arrive(t) \/ Advance(t) \/ RunBlock(t)
  PROVE  \A u \in Tasks \ {t} :
           task'[u] = task[u] /\ \A l \in Places : Blocked(u, l)' <=> Blocked(u, l)
<1>1. TypeOK /\ main \in Seq(Job) /\ Once(main)
  BY DEF TypeInv, TypeOK, QueueInv
<1>2. CASE Arrive(t)
  <2>1. \A u \in Tasks \ {t} : task'[u] = task[u]
    <3>1. PICK k \in Kinds, l \in Places \ {"idle"} : Begin(t, k, l)
      BY <1>2
         DEF Arrive, StartCommand, StopService, OnReceive, OnRevoke, Restart, Kinds,
             Places
    <3> QED
      BY <1>1, <3>1, Beginning
  <2>2. \/ UNCHANGED data
        \/ \E s \in Statuses : main' = Append(main, Tell(s))
    <3>1. {"Starting", "Stopping"} \subseteq Statuses
      BY DEF Statuses
    <3> QED
      BY <1>2, <3>1
         DEF Arrive, StartCommand, StopService, OnReceive, OnRevoke, Restart,
             SetStatus
  <2>3. CASE UNCHANGED data
    BY <2>1, <2>3 DEF data, Blocked, Jobs
  <2>4. ASSUME NEW s \in Statuses, main' = Append(main, Tell(s))
        PROVE  \A u, l : Blocked(u, l)' <=> Blocked(u, l)
    <3>1. Tell(s) \in Job /\ Tell(s).do \in {"status", "alert"}
      BY Signals
    <3> QED
      BY <1>1, <2>4, <3>1, Signalled DEF Blocked, Jobs
  <2> QED
    BY <2>1, <2>2, <2>3, <2>4
<1>3. CASE Advance(t)
  <2>1. \A u \in Tasks \ {t} : task'[u] = task[u]
    BY <1>3, AdvanceTypes DEF Alone
  <2>2. CASE Apart(t)
    BY <2>1, <2>2, ApartTypes DEF data, Blocked, Jobs
  <2>3. ASSUME NEW j \in Job, main' = main \/ main' = Append(main, j),
               \A u \in Tasks \ {t}, l \in Places : j # Block(u, l)
        PROVE  \A u \in Tasks \ {t}, l \in Places : Blocked(u, l)' <=> Blocked(u, l)
    <3>1. CASE main' = main
      BY <3>1 DEF Blocked, Jobs
    <3>2. CASE main' = Append(main, j)
      <4>1. JobsOf(main') = JobsOf(main) \cup {j}
        BY <1>1, <3>2, Appended
      <4> QED
        BY <2>3, <4>1 DEF Blocked, Jobs
    <3> QED
      BY <2>3, <3>1, <3>2
  <2>4. CASE \/ (BuildConfig(t) /\ OnMain(t, "create")) \/ Show(t) \/ StopAndAlert(t)
             \/ EndStop(t)
    <3>1. PICK l \in {"create", "show", "alert", "end"} : OnMain(t, l)
      BY <2>4 DEF Show, StopAndAlert, EndStop
    <3>2. /\ Block(t, l) \in Job /\ main' = Append(main, Block(t, l))
          /\ \A u \in Tasks \ {t}, m \in Places : Block(t, l) # Block(u, m)
      BY <3>1 DEF OnMain, Block, Job, Places
    <3> QED
      BY <2>1, <2>3, <3>2
  <2>5. CASE Announce(t) \/ PostStarting(t)
    <3>1. /\ main' = main \/ main' = Append(main, SetJob("service"))
          /\ SetJob("service") \in Job
          /\ \A u \in Tasks \ {t}, m \in Places : SetJob("service") # Block(u, m)
      BY <2>5 DEF Announce, PostStarting, PostValue, SetJob, Block, Job, LiveData
    <3> QED
      BY <2>1, <2>3, <3>1
  <2> QED
    BY <1>3, <2>2, <2>4, <2>5, Splits
<1>4. CASE RunBlock(t)
  BY <1>4, RunBlockTypes DEF Alone
<1> QED
  BY <1>2, <1>3, <1>4

\* A call that a step leaves alone.
LEMMA Untouched ==
  ASSUME NEW u \in Tasks, task'[u] = task[u],
         \A l \in Places : Blocked(u, l)' <=> Blocked(u, l)
  PROVE  /\ Works(u)' <=> Works(u)
         /\ Announced(u)' <=> Announced(u)
         /\ Leads(u)' <=> Leads(u)
         /\ UNCHANGED <<fields, world, status, pending["service"]>> /\ LeadAt(u)
              => LeadAt(u)'
<1>1. /\ Blocked(u, "create")' <=> Blocked(u, "create")
      /\ Blocked(u, "alert")' <=> Blocked(u, "alert")
      /\ Blocked(u, "show")' <=> Blocked(u, "show")
      /\ Blocked(u, "end")' <=> Blocked(u, "end")
  BY DEF Places
<1>2. /\ Works(u)' <=> Works(u)
      /\ Announced(u)' <=> Announced(u)
  BY <1>1 DEF Works, Announced
<1>3. Leads(u)' <=> Leads(u)
  BY <1>2 DEF Leads
<1>4. ASSUME UNCHANGED <<fields, world, status, pending["service"]>>, LeadAt(u)
      PROVE  LeadAt(u)'
  <2>1. /\ (Down' <=> Down) /\ (Held' <=> Held) /\ (Up' <=> Up)
        /\ Made(task[u].id)' <=> Made(task[u].id)
        /\ Made(boxService)' <=> Made(boxService)
    BY <1>4 DEF Down, Held, Up, Made, fields, world
  <2>2. Making(u)' <=> Making(u)
    BY <1>1, <1>4, <2>1 DEF Making, fields, world
  <2> QED
    BY <1>1, <1>4, <2>1, <2>2
       DEF LeadAt, StartLeads, StopLeads, ReloadLeads, fields, world
<1> QED
  BY <1>2, <1>3, <1>4

\* Nobody begins or ends to hold the status.
LEMMA LeadKept ==
  ASSUME LeadInv, ~overlap, ~leaked,
         UNCHANGED <<fields, world, status, pending["service"]>>,
         \A u \in Tasks : \/ ~Leads(u) /\ ~Leads(u)'
                          \/ /\ task'[u] = task[u]
                             /\ \A l \in Places : Blocked(u, l)' <=> Blocked(u, l)
  PROVE  LeadInv'
<1>1. \A u \in Tasks : (Leads(u)' <=> Leads(u)) /\ (Leads(u) /\ LeadAt(u) => LeadAt(u)')
  BY Untouched
<1>2. Rest' <=> Rest
  BY DEF Rest, Down, Up, Made, Held, fields, world
<1> QED
  BY <1>1, <1>2 DEF LeadInv

\* One call holds it, nobody did, or nobody does any more.
LEMMA LeadPassed ==
  ASSUME NEW t \in Tasks,
         \A u \in Tasks \ {t} :
           /\ ~Leads(u) /\ task'[u] = task[u]
           /\ \A l \in Places : Blocked(u, l)' <=> Blocked(u, l),
         Leads(t)' => LeadAt(t)', ~Leads(t)' => Rest'
  PROVE  LeadInv'
<1>1. \A u \in Tasks \ {t} : ~Leads(u)'
  BY Untouched
<1> QED
  BY <1>1 DEF LeadInv

\* What a call that holds the status does, from one place to the next.
LEMMA LeaderApart ==
  ASSUME TypeInv, TypeInv', NEW t \in Tasks, Apart(t), Works(t), LeadAt(t), ~leaked'
  PROVE  LeadAt(t)'
<1> USE DEF LeadAt, StartLeads, StopLeads, ReloadLeads, Making, Down, Held, Made, Up
<1>1. /\ UNCHANGED <<status, pending>> /\ task[t].pc # "wait" /\ task'[t].pc # "wait"
  BY ApartTypes DEF data, status
<1>2. /\ ~Blocked(t, "create") /\ ~Blocked(t, "alert") /\ ~Blocked(t, "show")
      /\ ~Blocked(t, "end")
  BY <1>1, NotWaiting
<1>3. /\ ~Blocked(t, "create")' /\ ~Blocked(t, "alert")' /\ ~Blocked(t, "show")'
      /\ ~Blocked(t, "end")'
  BY <1>1 DEF TypeInv, QueueInv, Places
<1>4. task[t].id \in CallIds /\ task[t].id # 0
  BY DEF Works, TypeInv, TypeOK, Task, CallIds
<1>5. \A l : Goto(t, l) => /\ task'[t].pc = l /\ task'[t].kind = task[t].kind
                           /\ task'[t].id = task[t].id
  BY DEF Goto, TypeInv, TypeOK, Task
<1>6. \A a : Alert(t, a) => /\ task'[t].pc = "alert" /\ task'[t].kind = task[t].kind
                            /\ task'[t].id = task[t].id
  BY DEF Alert, TypeInv, TypeOK, Task
<1>7. CASE ServiceReload(t)
  BY <1>7 DEF ServiceReload, Works
<1>8. CASE StartCommandServer(t)
  BY <1>1, <1>2, <1>3, <1>5, <1>6, <1>8 DEF StartCommandServer, fields
<1>9. CASE KeepCommandServer(t)
  BY <1>1, <1>2, <1>3, <1>4, <1>5, <1>9 DEF KeepCommandServer, world
<1>10. CASE BuildConfig(t) /\ UNCHANGED data
  BY <1>1, <1>2, <1>3, <1>5, <1>6, <1>10 DEF BuildConfig, OnMain, fields, world
<1>11. CASE NewService(t)
  BY <1>1, <1>2, <1>3, <1>5, <1>6, <1>11 DEF NewService, fields, world
<1>12. CASE StartInstance(t)
  <2>1. CASE Goto(t, "box") /\ fileDescriptor' = task[t].id /\ live' = live \cup {task[t].id}
    BY <1>1, <1>2, <1>3, <1>4, <1>5, <1>12, <2>1 DEF StartInstance
  <2>2. CASE Alert(t, "StartService") /\ UNCHANGED live /\ UNCHANGED fileDescriptor
    BY <1>1, <1>2, <1>3, <1>6, <1>12, <2>2 DEF StartInstance
  <2>3. CASE fileDescriptor' = task[t].id /\ leaked' = (leaked \/ fileDescriptor' = task[t].id)
    BY <2>3
  <2> QED
    BY <1>12, <2>1, <2>2, <2>3 DEF StartInstance
<1>13. CASE SetBox(t)
  BY <1>1, <1>2, <1>3, <1>5, <1>13 DEF SetBox, world
<1>14. CASE Serve(t)
  BY <1>1, <1>2, <1>3, <1>5, <1>14
     DEF Serve, SetService, fields, TypeInv, TypeOK, CallIds
<1>15. CASE CloseTunnel(t)
  BY <1>1, <1>2, <1>3, <1>5, <1>15 DEF CloseTunnel, world
<1>16. CASE Unserve(t)
  BY <1>1, <1>2, <1>3, <1>5, <1>16 DEF Unserve, fields
<1>17. CASE CloseBox(t)
  BY <1>1, <1>2, <1>3, <1>5, <1>17 DEF CloseBox, fields
<1>18. CASE ClearBox(t)
  BY <1>1, <1>2, <1>3, <1>5, <1>18 DEF ClearBox, world
<1>19. CASE CloseCommandServer(t)
  BY <1>1, <1>2, <1>3, <1>5, <1>19 DEF CloseCommandServer
<1> QED
  BY <1>7, <1>8, <1>9, <1>10, <1>11, <1>12, <1>13, <1>14, <1>15, <1>16, <1>17,
     <1>18, <1>19
     DEF Apart

\* It asks for its turn on the main thread, or posts a status.
LEMMA LeaderQueues ==
  ASSUME TypeInv, TypeInv', NEW t \in Tasks, Advance(t), ~Apart(t), Leads(t), LeadAt(t)
  PROVE  (Leads(t)' => LeadAt(t)') /\ (~Leads(t)' => Rest')
<1> USE DEF LeadAt, StartLeads, StopLeads, ReloadLeads, Making, Down, Held, Made, Up
<1>1. task[t].pc # "wait"
  BY
     DEF Advance, Apart, BuildConfig, Show, StopAndAlert, EndStop, Announce,
         PostStarting
<1>2. /\ ~Blocked(t, "create") /\ ~Blocked(t, "alert") /\ ~Blocked(t, "show")
      /\ ~Blocked(t, "end")
  BY <1>1, NotWaiting
<1>3. task'[t].kind = task[t].kind /\ task'[t].id = task[t].id
  <2>1. task'[t].pc # "idle"
    <3>1. \A l : Goto(t, l) => task'[t].pc = l
      BY DEF Goto, TypeInv, TypeOK, Task
    <3> QED
      BY <3>1, Splits DEF BuildConfig, Show, StopAndAlert, EndStop, Announce,
                          PostStarting, OnMain
  <2> QED
    BY <2>1, AdvanceTypes DEF Alone
<1>4. ASSUME NEW l \in {"create", "alert", "show", "end"}, OnMain(t, l)
      PROVE  /\ task'[t].pc = "wait" /\ Blocked(t, l)' /\ UNCHANGED <<status, pending>>
             /\ \A m \in Places \ {l} : ~Blocked(t, m)'
  <2>1. Busy(t) /\ l \in Places
    BY DEF Leads, Works, Busy, Places
  <2>2. /\ task'[t].pc = "wait" /\ Jobs' = Jobs \cup {Block(t, l)}
        /\ UNCHANGED <<value, pending>>
    BY <1>1, <1>4, <2>1, QueueWaits
  <2>3. \A m \in Places \ {l} : Block(t, m) # Block(t, l) /\ ~Blocked(t, m)
    BY <1>1, NotWaiting DEF Block
  <2> QED
    BY <2>2, <2>3 DEF Blocked, status
<1>5. CASE BuildConfig(t) /\ OnMain(t, "create")
  <2>1. task'[t].pc = "wait" /\ Blocked(t, "create")' /\ UNCHANGED <<status, pending>>
    BY <1>4, <1>5
  <2>2. task[t].pc = "config" /\ UNCHANGED <<fields, world>>
    BY <1>5 DEF BuildConfig
  <2>3. LeadAt(t)'
    BY <1>2, <1>3, <2>1, <2>2 DEF fields, world
  <2>4. Leads(t)'
    <3>1. ~Blocked(t, "show")'
      BY <1>4, <1>5 DEF Places
    <3> QED
      BY <2>1, <3>1 DEF Leads, Works, Announced
  <2> QED
    BY <2>3, <2>4
<1>6. CASE StopAndAlert(t)
  <2>1. /\ task'[t].pc = "wait" /\ Blocked(t, "alert")' /\ UNCHANGED <<status, pending>>
        /\ ~Blocked(t, "show")'
    BY <1>4, <1>6 DEF StopAndAlert, Places
  <2>2. /\ task[t].pc = "alert" /\ startedByUser' = FALSE
        /\ UNCHANGED <<fields, live, listening, serving>>
    BY <1>6 DEF StopAndAlert
  <2>3. LeadAt(t)'
    BY <1>2, <1>3, <2>1, <2>2 DEF fields
  <2>4. Leads(t)'
    BY <2>1 DEF Leads, Works, Announced
  <2> QED
    BY <2>3, <2>4
<1>7. CASE EndStop(t)
  <2>1. /\ task'[t].pc = "wait" /\ Blocked(t, "end")' /\ UNCHANGED <<status, pending>>
        /\ ~Blocked(t, "show")'
    BY <1>4, <1>7 DEF EndStop, Places
  <2>2. /\ task[t].pc = "end" /\ startedByUser' = FALSE
        /\ UNCHANGED <<fields, live, listening, serving>>
    BY <1>7 DEF EndStop
  <2>3. LeadAt(t)'
    BY <1>2, <1>3, <2>1, <2>2 DEF fields
  <2>4. Leads(t)'
    BY <2>1 DEF Leads, Works, Announced
  <2> QED
    BY <2>3, <2>4
<1>8. CASE Show(t)
  <2>1. task'[t].pc = "wait" /\ Blocked(t, "show")' /\ UNCHANGED <<status, pending>>
    BY <1>4, <1>8 DEF Show
  <2>2. task[t].pc = "show" /\ UNCHANGED <<fields, world>>
    BY <1>8 DEF Show
  <2>3. task[t].kind = "reload"
    BY <1>2, <2>2 DEF Leads, Announced
  <2>4. LeadAt(t)'
    BY <1>2, <1>3, <2>1, <2>2, <2>3 DEF fields, world
  <2>5. Leads(t)'
    BY <1>3, <2>1, <2>3 DEF Leads, Works, Announced
  <2> QED
    BY <2>4, <2>5
<1>9. ASSUME NEW v, NEW l, PostValue("service", v, main), Goto(t, l), UNCHANGED value
      PROVE  task'[t].pc = l /\ status' = status /\ pending'["service"] = v
  BY <1>9 DEF PostValue, Goto, status, TypeInv, TypeOK, LiveData, Task
<1>10. CASE Announce(t)
  <2>1. task'[t].pc = "show" /\ status' = status /\ pending'["service"] = "Started"
    BY <1>9, <1>10 DEF Announce
  <2>2. task[t].pc = "announce" /\ UNCHANGED <<fields, world>>
    BY <1>10 DEF Announce
  <2>3. Up'
    BY <1>2, <2>2 DEF fields, world
  <2>4. CASE task[t].kind = "start"
    <3>1. status' = "Starting"
      BY <2>1, <2>2, <2>4
    <3>2. Rest'
      BY <2>1, <2>3, <3>1 DEF Rest
    <3>3. ~Leads(t)'
      BY <1>3, <2>1, <2>4 DEF Leads, Works, Announced
    <3> QED
      BY <3>2, <3>3
  <2>5. CASE task[t].kind # "start"
    <3>1. task[t].kind = "reload" /\ status' \in {"Started", "Starting"}
      BY <1>2, <2>1, <2>2, <2>5
    <3>2. LeadAt(t)'
      BY <1>3, <2>1, <2>3, <3>1
    <3>3. Leads(t)'
      BY <1>3, <2>1, <2>5 DEF Leads, Works, Announced
    <3> QED
      BY <3>2, <3>3
  <2> QED
    BY <2>4, <2>5
<1>11. CASE PostStarting(t)
  <2>1. task'[t].pc = "fd" /\ status' = status /\ pending'["service"] = "Starting"
    BY <1>9, <1>11 DEF PostStarting
  <2>2. task[t].pc = "post" /\ UNCHANGED <<fields, world>>
    BY <1>11 DEF PostStarting
  <2>3. LeadAt(t)'
    BY <1>2, <1>3, <2>1, <2>2 DEF fields, world
  <2>4. ~Blocked(t, "show")'
    BY <2>1 DEF TypeInv, QueueInv, Places
  <2>5. Leads(t)'
    BY <2>1, <2>4 DEF Leads, Works, Announced
  <2> QED
    BY <2>3, <2>5
<1> QED
  BY <1>5, <1>6, <1>7, <1>8, <1>10, <1>11, Splits

\* Its block is run.
LEMMA LeaderRuns ==
  ASSUME TypeInv, TypeInv', ReloadInv, ~overlap, ~leaked', [Next]_vars, NEW t \in Tasks,
         RunBlock(t), Leads(t), LeadAt(t)
  PROVE  (Leads(t)' => LeadAt(t)') /\ (~Leads(t)' => Rest')
<1> USE DEF LeadAt, StartLeads, StopLeads, ReloadLeads, Making, Down, Held, Made, Up
<1>1. /\ UNCHANGED pending /\ task[t].pc = "wait" /\ task'[t].pc # "wait"
      /\ task'[t].pc # "idle" => task'[t].kind = task[t].kind /\ task'[t].id = task[t].id
  BY RunBlockTypes DEF Alone
<1>2. /\ ~Blocked(t, "create")' /\ ~Blocked(t, "alert")' /\ ~Blocked(t, "show")'
      /\ ~Blocked(t, "end")'
  BY <1>1 DEF TypeInv, QueueInv, Places
<1>3. \A l \in Places : Head(main) = Block(t, l) /\ main # <<>> => Blocked(t, l)
  BY Heading DEF Blocked
<1>4. \A s : SetStatus(s, Tail(main)) => status' = s
  BY DEF SetStatus, status, TypeInv, TypeOK
<1>5. ~leaked
  BY HistoryStays
<1>6. ASSUME NEW l \in Places, Head(main) = Block(t, l), main # <<>>,
             task[t].kind = "reload"
      PROVE  pending["service"] = "nothing"
  <2>1. Before(main, SetJob("service"), Head(main))
    BY <1>5, <1>6 DEF ReloadInv
  <2>2. SetJob("service") \notin Jobs
    BY <1>6, <2>1, BeforeTaken DEF TypeInv, TypeOK, Jobs
  <2> QED
    BY <2>2 DEF TypeInv, QueueInv, LiveData
<1>7. CASE RunResetLogs(t)
  <2>1. /\ Blocked(t, "create") /\ UNCHANGED <<value, fields, world>>
        /\ Goto(t, "create")
    BY <1>3, <1>7 DEF RunResetLogs, Places
  <2>2. ~Blocked(t, "alert") /\ ~Blocked(t, "show") /\ ~Blocked(t, "end")
    BY <2>1, OneBlock DEF Places
  <2>3. task'[t].pc = "create"
    BY <2>1 DEF Goto, TypeInv, TypeOK, Task
  <2>4. LeadAt(t)'
    BY <1>1, <1>2, <2>1, <2>2, <2>3 DEF fields, world, status
  <2>5. Leads(t)'
    BY <1>2, <2>3 DEF Leads, Works, Announced
  <2> QED
    BY <2>4, <2>5
<1>8. CASE RunShow(t)
  <2>1. /\ Blocked(t, "show") /\ UNCHANGED <<value, fields, world>>
        /\ Finish(t)
        /\ Head(main) = Block(t, "show") /\ main # <<>>
    BY <1>3, <1>8 DEF RunShow, Places
  <2>2. ~Blocked(t, "alert") /\ ~Blocked(t, "create") /\ ~Blocked(t, "end")
    BY <2>1, OneBlock DEF Places
  <2>3. task'[t].pc = "idle"
    BY <2>1, Finishing DEF TypeInv
  <2>4. task[t].kind = "reload"
    BY <1>1, <2>1, <2>2 DEF Leads, Announced
  <2>5. pending["service"] = "nothing"
    BY <1>6, <2>1, <2>4 DEF Places
  <2>6. Up /\ status = "Started"
    BY <1>1, <2>1, <2>2, <2>4, <2>5
  <2>7. Rest'
    BY <1>1, <2>1, <2>5, <2>6 DEF Rest, fields, world, status
  <2>8. ~Leads(t)'
    BY <2>3 DEF Leads, Works
  <2> QED
    BY <2>7, <2>8
<1>9. CASE RunEnd(t)
  <2>1. /\ Blocked(t, "end") /\ UNCHANGED <<fields, world>> /\ status' = "Stopped"
        /\ Finish(t)
    BY <1>3, <1>4, <1>9 DEF RunEnd, Places
  <2>2. ~Blocked(t, "alert") /\ ~Blocked(t, "create") /\ ~Blocked(t, "show")
    BY <2>1, OneBlock DEF Places
  <2>3. task'[t].pc = "idle"
    BY <2>1, Finishing DEF TypeInv
  <2>4. /\ pending["service"] = "nothing" /\ Down /\ ~startedByUser /\ ~receiverRegistered
    BY <1>1, <2>1, <2>2
  <2>5. Rest'
    BY <1>1, <2>1, <2>4 DEF Rest, fields, world
  <2>6. ~Leads(t)'
    BY <2>3 DEF Leads, Works
  <2> QED
    BY <2>5, <2>6
<1>10. CASE RunAlert(t)
  <2>1. /\ Blocked(t, "alert") /\ receiverRegistered' = FALSE /\ Finish(t)
        /\ UNCHANGED <<boxService, commandServer, fileDescriptor, world>>
        /\ Head(main) = Block(t, "alert") /\ main # <<>>
    BY <1>3, <1>10 DEF RunAlert, Places
  <2>2. status' = "Stopped"
    BY <1>10 DEF RunAlert, SetStatus, status, TypeInv, TypeOK
  <2>3. ~Blocked(t, "end") /\ ~Blocked(t, "create") /\ ~Blocked(t, "show")
    BY <2>1, OneBlock DEF Places
  <2>4. task'[t].pc = "idle"
    BY <2>1, Finishing DEF TypeInv
  <2>5. Down /\ ~startedByUser
    BY <1>1, <2>1, <2>3
  <2>6. pending["service"] = "nothing"
    <3>1. CASE task[t].kind = "reload"
      BY <1>6, <2>1, <3>1 DEF Places
    <3>2. CASE task[t].kind # "reload"
      BY <3>2
    <3> QED
      BY <3>1, <3>2
  <2>7. Rest'
    BY <1>1, <2>1, <2>2, <2>5, <2>6 DEF Rest, world
  <2>8. ~Leads(t)'
    BY <2>4 DEF Leads, Works
  <2> QED
    BY <2>7, <2>8
<1> QED
  BY <1>7, <1>8, <1>9, <1>10 DEF RunBlock

\* A call that does not hold it leaves everything as it is.
LEMMA Bystander ==
  ASSUME TypeInv, TypeInv', NEW t \in Tasks, Advance(t) \/ RunBlock(t), ~Leads(t), ~leaked',
         ~Sets(t)
  PROVE  ~Leads(t)' /\ UNCHANGED <<fields, world, status, pending["service"]>>
<1>1. CASE ServiceReload(t)
  <2>1. Finish(t)
    <3>1. Goto(t, "post") => task'[t].pc = "post"
      BY DEF Goto, TypeInv, TypeOK, Task
    <3> QED
      BY <1>1, <3>1 DEF Sets, ServiceReload
  <2>2. task'[t].pc = "idle"
    BY <2>1, Finishing DEF TypeInv
  <2> QED
    BY <1>1, <2>2 DEF Leads, Works, ServiceReload, data, status
<1>2. CASE ~ServiceReload(t)
  <2>1. Works(t)
    <3>1. CASE Advance(t)
      BY <1>2, <3>1
         DEF Advance, StartCommandServer, KeepCommandServer, BuildConfig,
             NewService, StartInstance, SetBox, Serve, Announce, Show, StopAndAlert,
             PostStarting, CloseTunnel, Unserve, CloseBox, ClearBox, CloseCommandServer,
             EndStop, Works
    <3>2. CASE RunBlock(t)
      BY <3>2, RunBlockTypes DEF Works
    <3> QED
      BY <3>1, <3>2
  <2>2. Announced(t)
    BY <2>1 DEF Leads
  <2>3. task[t].kind = "start" /\ task[t].pc \in {"show", "wait"}
    BY <2>2 DEF Announced, TypeInv, QueueInv, Places
  <2>4. CASE Advance(t)
    <3>1. task[t].pc = "show"
      <4>1. task[t].pc # "wait"
        BY <2>4
           DEF Advance, ServiceReload, StartCommandServer, KeepCommandServer,
               BuildConfig, NewService, StartInstance, SetBox, Serve, Announce, Show,
               StopAndAlert, PostStarting, CloseTunnel, Unserve, CloseBox, ClearBox,
               CloseCommandServer, EndStop
      <4> QED
        BY <2>3, <4>1
    <3>2. Show(t)
      BY <1>2, <2>4, <3>1
         DEF Advance, StartCommandServer, KeepCommandServer, BuildConfig,
             NewService, StartInstance, SetBox, Serve, Announce, StopAndAlert,
             PostStarting, CloseTunnel, Unserve, CloseBox, ClearBox, CloseCommandServer,
             EndStop
    <3>3. Busy(t) /\ OnMain(t, "show") /\ UNCHANGED <<fields, world>>
      BY <3>1, <3>2 DEF Show, Busy
    <3>4. /\ Jobs' = Jobs \cup {Block(t, "show")} /\ UNCHANGED <<value, pending>>
          /\ Alone(t) /\ task'[t].pc = "wait"
      BY <3>1, <3>3, QueueWaits DEF Places
    <3>5. Announced(t)'
      BY <2>3, <3>4 DEF Announced, Alone, Blocked
    <3> QED
      BY <3>3, <3>4, <3>5 DEF Leads, status
  <2>5. CASE RunBlock(t)
    <3>1. task[t].pc = "wait" /\ UNCHANGED pending
      BY <2>5, RunBlockTypes
    <3>2. Blocked(t, "show")
      BY <2>2, <3>1 DEF Announced
    <3>3. ~Blocked(t, "create") /\ ~Blocked(t, "end") /\ ~Blocked(t, "alert")
      BY <3>2, OneBlock DEF Places
    <3>4. RunShow(t)
      <4>1. \A l \in Places : Head(main) = Block(t, l) /\ main # <<>> => Blocked(t, l)
        BY Heading DEF Blocked
      <4> QED
        BY <2>5, <3>3, <4>1 DEF RunBlock, RunResetLogs, RunEnd, RunAlert, Places
    <3>5. Finish(t) /\ UNCHANGED <<value, fields, world>>
      BY <3>4 DEF RunShow
    <3>6. task'[t].pc = "idle"
      BY <3>5, Finishing DEF TypeInv
    <3> QED
      BY <3>1, <3>5, <3>6 DEF Leads, Works, status
  <2> QED
    BY <2>4, <2>5
<1> QED
  BY <1>1, <1>2

\* A call begins while nobody holds it.
LEMMA LeadTaken ==
  ASSUME TypeInv, TypeInv', ReloadInv, LeadInv, ~overlap', ~overlap, ~leaked, [Next]_vars,
         NEW t \in Tasks, Sets(t)
  PROVE  (\A u \in Tasks : ~Leads(u)) /\ Leads(t)' /\ LeadAt(t)'
<1> USE DEF Down, Held, Made, Up
<1>1. /\ \A u \in Tasks : Leads(u) => LeadAt(u)
      /\ (\A u \in Tasks : ~Leads(u)) => Rest
  BY DEF LeadInv
<1>2. ~Works(t) /\ ~Leads(t)
  BY Setting DEF Leads
<1>3. task'[t].pc \in {"server", "fd", "post"}
  BY Setting DEF Sets
<1>4. Leads(t)'
  <2>1. ~Blocked(t, "show")'
    BY <1>3 DEF TypeInv, QueueInv, Places
  <2> QED
    BY <1>3, <2>1 DEF Leads, Works, Announced
<1>5. \A u \in Tasks \ {t} : Leads(u) => Busy(u) /\ task[u].pc # "asked"
  BY DEF Leads, Works, Busy
<1>6. CASE StartCommand(t)
  <2>1. /\ status = "Stopped" /\ SetStatus("Starting", main) /\ receiverRegistered' = TRUE
        /\ overlap' = (overlap \/ BesideReload(t, "start"))
        /\ UNCHANGED <<boxService, commandServer, fileDescriptor, world>>
    BY <1>6 DEF StartCommand
  <2>2. \A u \in Tasks : ~Leads(u)
    BY <1>1, <2>1 DEF LeadAt, StartLeads, StopLeads, ReloadLeads
  <2>3. Down /\ pending["service"] = "nothing"
    BY <1>1, <2>1, <2>2 DEF Rest
  <2>4. status' = "Starting" /\ UNCHANGED pending
    BY <2>1 DEF SetStatus, status, TypeInv, TypeOK
  <2>5. task'[t].kind = "start" /\ task'[t].pc = "server"
    BY <1>6, Setting
  <2>6. LeadAt(t)'
    BY <2>1, <2>3, <2>4, <2>5 DEF LeadAt, StartLeads, world
  <2> QED
    BY <1>4, <2>2, <2>6
<1>7. CASE StopService(t)
  <2>1. /\ status = "Started" /\ SetStatus("Stopping", main) /\ receiverRegistered' = FALSE
        /\ overlap' = (overlap \/ BesideReload(t, "stop"))
        /\ UNCHANGED <<boxService, commandServer, fileDescriptor, world>>
    BY <1>7 DEF StopService
  <2>2. \A u \in Tasks : ~Leads(u)
    <3>1. SUFFICES ASSUME NEW u \in Tasks, Leads(u)
                   PROVE  FALSE
      OBVIOUS
    <3>2. task[u].kind = "reload"
      BY <1>1, <2>1, <3>1 DEF LeadAt, StartLeads, StopLeads
    <3>3. BesideReload(t, "stop")
      BY <1>2, <1>5, <3>1, <3>2 DEF BesideReload
    <3> QED
      BY <2>1, <3>3
  <2>3. Up /\ pending["service"] = "nothing"
    BY <1>1, <2>1, <2>2 DEF Rest
  <2>4. status' = "Stopping" /\ UNCHANGED pending
    BY <2>1 DEF SetStatus, status, TypeInv, TypeOK
  <2>5. task'[t].kind = "stop" /\ task'[t].pc = "fd"
    BY <1>7, Setting
  <2>6. LeadAt(t)'
    BY <2>1, <2>3, <2>4, <2>5 DEF LeadAt, StopLeads, world
  <2> QED
    BY <1>4, <2>2, <2>6
<1>8. CASE ServiceReload(t) /\ task'[t].pc = "post"
  <2>1. /\ task'[t].kind = task[t].kind
        /\ overlap' = (overlap \/ status # "Started" \/ BesideReload(t, "reload"))
    BY <1>8, Setting
  <2>2. status = "Started" /\ ~BesideReload(t, "reload")
    BY <2>1
  <2>3. \A u \in Tasks : ~Leads(u)
    BY <1>2, <1>5, <2>2 DEF BesideReload
  <2>4. Up /\ pending["service"] = "nothing"
    BY <1>1, <2>2, <2>3 DEF Rest
  <2>5. UNCHANGED <<status, pending, fields, world>> /\ task[t].pc = "asked"
    BY <1>8 DEF ServiceReload, data, status
  <2>6. task[t].kind = "reload"
    BY <2>5 DEF ReloadInv
  <2>7. LeadAt(t)'
    BY <1>8, <2>1, <2>2, <2>4, <2>5, <2>6 DEF LeadAt, ReloadLeads, fields, world
  <2> QED
    BY <1>4, <2>3, <2>7
<1> QED
  BY <1>6, <1>7, <1>8 DEF Sets

\* A posted status of the service is set.
LEMMA LeadSet ==
  ASSUME TypeInv, LeadInv, ~overlap, ~leaked, RunSet
  PROVE  LeadInv'
<1>1. /\ UNCHANGED <<fields, world, task>>
      /\ \A u, l : Blocked(u, l)' <=> Blocked(u, l)
  BY Settings, RunSetTypes
<1>2. CASE Head(main) # SetJob("service")
  <2>1. UNCHANGED <<status, pending["service"]>>
    BY <1>2, Settings DEF TypeInv, TypeOK, LiveData, status
  <2> QED
    BY <1>1, <2>1, LeadKept
<1>3. CASE Head(main) = SetJob("service")
  <2>1. /\ pending["service"] \in {"Starting", "Started"} /\ pending'["service"] = "nothing"
        /\ status' = pending["service"]
    <3>1. SetJob("service") # SetJob("activity") /\ SetJob("service") # SetJob("alerts")
      BY DEF SetJob
    <3>2. /\ pending["service"] # "nothing"
          /\ pending' = [pending EXCEPT !["service"] = "nothing"]
          /\ value' = [value EXCEPT !["service"] = pending["service"]]
      BY <1>3, <3>1, Settings
    <3> QED
      BY <3>2 DEF TypeInv, TypeOK, QueueInv, LiveData, status
  <2>2. /\ (Down' <=> Down) /\ (Held' <=> Held) /\ (Up' <=> Up)
        /\ \A u \in Tasks : Made(task[u].id)' <=> Made(task[u].id)
        /\ Made(boxService)' <=> Made(boxService)
    BY <1>1 DEF Down, Held, Up, Made, fields, world
  <2>3. \A u \in Tasks : Leads(u)' <=> Leads(u)
    BY <1>1, Untouched
  <2>4. ASSUME NEW u \in Tasks, Leads(u)
        PROVE  LeadAt(u)'
    <3>1. LeadAt(u)
      BY <2>4 DEF LeadInv
    <3>2. task[u].kind = "reload" /\ ReloadLeads(u)
      BY <2>1, <3>1 DEF LeadAt, StartLeads, StopLeads
    <3>3. Making(u)' <=> Making(u)
      BY <1>1, <2>2 DEF Making, fields, world
    <3>4. ReloadLeads(u)'
      BY <1>1, <2>1, <2>2, <3>2, <3>3 DEF ReloadLeads, fields, world
    <3> QED
      BY <1>1, <3>2, <3>4 DEF LeadAt
  <2>5. ASSUME \A u \in Tasks : ~Leads(u)
        PROVE  Rest'
    <3>1. Rest
      BY <2>5 DEF LeadInv
    <3> QED
      BY <2>1, <2>2, <3>1 DEF Rest
  <2> QED
    BY <2>3, <2>4, <2>5 DEF LeadInv
<1> QED
  BY <1>2, <1>3

LEMMA StepLead ==
  ASSUME TypeInv, TypeInv', ReloadInv, LeadInv, [Next]_vars
  PROVE  LeadInv'
<1>1. SUFFICES ASSUME ~overlap', ~leaked'
               PROVE  LeadInv'
  BY DEF LeadInv
<1>2. ~overlap /\ ~leaked
  BY <1>1, HistoryStays
<1>3. ASSUME NEW t \in Tasks, Arrive(t) \/ Advance(t) \/ RunBlock(t)
      PROVE  LeadInv'
  <2>1. \A u \in Tasks \ {t} :
          task'[u] = task[u] /\ \A l \in Places : Blocked(u, l)' <=> Blocked(u, l)
    BY <1>3, Others
  <2>2. CASE Sets(t)
    BY <1>1, <1>2, <2>1, <2>2, LeadTaken, LeadPassed
  <2>3. CASE ~Sets(t) /\ Arrive(t)
    <3>1. Restart(t)
      BY <2>3 DEF Arrive, OnReceive, OnRevoke, Sets
    <3>2. task[t].pc = "idle" /\ task'[t].pc = "asked"
      BY <3>1, Beginning DEF Restart, TypeInv, Kinds, Places
    <3>3. UNCHANGED <<fields, world, status, pending["service"]>>
      BY <3>1 DEF Restart, data, status
    <3>4. ~Leads(t) /\ ~Leads(t)'
      BY <3>2 DEF Leads, Works
    <3> QED
      BY <1>2, <2>1, <3>3, <3>4, LeadKept
  <2>4. CASE ~Sets(t) /\ (Advance(t) \/ RunBlock(t)) /\ ~Leads(t)
    <3>1. ~Leads(t)' /\ UNCHANGED <<fields, world, status, pending["service"]>>
      BY <1>1, <2>4, Bystander
    <3> QED
      BY <1>2, <2>1, <2>4, <3>1, LeadKept
  <2>5. CASE ~Sets(t) /\ (Advance(t) \/ RunBlock(t)) /\ Leads(t)
    <3>1. LeadAt(t) /\ \A u \in Tasks \ {t} : ~Leads(u)
      BY <1>2, <2>5 DEF LeadInv
    <3>2. (Leads(t)' => LeadAt(t)') /\ (~Leads(t)' => Rest')
      <4>1. CASE Apart(t)
        <5>1. LeadAt(t)'
          BY <1>1, <2>5, <3>1, <4>1, LeaderApart DEF Leads
        <5>2. Leads(t)'
          <6>1. task'[t].pc \notin {"wait", "asked", "show"}
            BY <4>1, ApartTypes
          <6>2. /\ ~Blocked(t, "create")' /\ ~Blocked(t, "alert")'
                /\ ~Blocked(t, "show")' /\ ~Blocked(t, "end")'
            BY <6>1 DEF TypeInv, QueueInv, Places
          <6>3. task'[t].pc # "idle"
            BY <5>1, <6>2 DEF LeadAt, StartLeads, StopLeads, ReloadLeads, Making
          <6> QED
            BY <6>1, <6>2, <6>3 DEF Leads, Works, Announced
        <5> QED
          BY <5>1, <5>2
      <4>2. CASE Advance(t) /\ ~Apart(t)
        BY <2>5, <3>1, <4>2, LeaderQueues
      <4>3. CASE RunBlock(t)
        BY <1>1, <1>2, <2>5, <3>1, <4>3, LeaderRuns
      <4> QED
        BY <2>5, <4>1, <4>2, <4>3
    <3> QED
      BY <2>1, <3>1, <3>2, LeadPassed
  <2> QED
    BY <1>3, <2>2, <2>3, <2>4, <2>5
<1>4. CASE RunSet
  BY <1>2, <1>4, LeadSet
<1>5. CASE RunBroadcast
  <2>1. /\ UNCHANGED <<fields, world, task, value>>
        /\ pending'["service"] = pending["service"]
        /\ \A u \in Tasks, l \in Places : Blocked(u, l)' <=> Blocked(u, l)
    BY <1>5, RunBroadcastTypes
  <2> QED
    BY <1>2, <2>1, LeadKept DEF status
<1>6. CASE PermissionRefused
  <2>1. /\ UNCHANGED <<fields, world, task, value>>
        /\ pending'["service"] = pending["service"]
        /\ \A u, l : Blocked(u, l)' <=> Blocked(u, l)
    BY <1>6, RefusedTypes DEF PermissionRefused
  <2> QED
    BY <1>2, <2>1, LeadKept DEF status
<1>7. CASE UNCHANGED vars
  BY <1>2, <1>7, LeadKept DEF vars, data, status, Blocked, Jobs
<1> QED
  BY <1>3, <1>4, <1>5, <1>6, <1>7 DEF Next, MainThread, RunBlock

----------------------------------------------------------------------------
(* Alerts and what is started after them.                                   *)

\* Nothing is posted when an alert is given.
LEMMA AlertAlone ==
  ASSUME TypeInv, ReloadInv, LeadInv, ~overlap, ~leaked, NEW t \in Tasks, RunAlert(t)
  PROVE  SetJob("service") \notin Jobs
<1> USE DEF Places
<1>1. Head(main) = Block(t, "alert") /\ main # <<>>
  BY DEF RunAlert
<1>2. Blocked(t, "alert") /\ task[t].pc = "wait"
  BY <1>1, Heading DEF Blocked, TypeInv, QueueInv
<1>3. ~Blocked(t, "show") /\ ~Blocked(t, "create") /\ ~Blocked(t, "end")
  BY <1>2, OneBlock
<1>4. Leads(t)
  BY <1>2, <1>3 DEF Leads, Works, Announced
<1>5. LeadAt(t)
  BY <1>4 DEF LeadInv
<1>6. CASE task[t].kind = "reload"
  <2>1. Before(main, SetJob("service"), Head(main))
    BY <1>1, <1>6 DEF ReloadInv
  <2> QED
    BY <1>1, <2>1, BeforeTaken DEF TypeInv, TypeOK, Jobs
<1>7. CASE task[t].kind # "reload"
  <2>1. pending["service"] = "nothing"
    BY <1>2, <1>3, <1>5, <1>7 DEF LeadAt, StartLeads, StopLeads
  <2> QED
    BY <2>1 DEF TypeInv, QueueInv, LiveData
<1> QED
  BY <1>6, <1>7

\* What holds while the service is started.
Clear == /\ \A a \in Alerts : Warn(a) \notin Jobs
         /\ ToldAfter(main, SetJob("alerts"))
         /\ NoTell(main) /\ pending["activity"] = "nothing" => shown.status = "Started"

\* A job that is neither a status nor an alert, nor one that sets the alerts.
LEMMA ClearKept ==
  ASSUME TypeInv, Clear, NEW j \in Job, j.do \notin {"status", "alert"},
         j # SetJob("alerts"), main' = main \/ main' = Append(main, j),
         pending'["activity"] = pending["activity"], UNCHANGED shown
  PROVE  Clear'
<1>1. main \in Seq(Job)
  BY DEF TypeInv, TypeOK
<1>2. CASE main' = main
  BY <1>2 DEF Clear, Jobs
<1>3. CASE main' = Append(main, j)
  <2>1. /\ Jobs' = Jobs \cup {j} /\ (NoTell(main') <=> NoTell(main))
        /\ ToldAfter(main', SetJob("alerts"))
    BY <1>1, <1>3, Appended, TellsAppended DEF Clear, Jobs
  <2>2. \A a \in Alerts : Warn(a) # j
    BY DEF Warn
  <2> QED
    BY <2>1, <2>2 DEF Clear
<1> QED
  BY <1>2, <1>3

LEMMA ThreadClear ==
  ASSUME TypeInv, NEW t \in Tasks, Arrive(t) \/ Advance(t), status' = "Started",
         status = "Started" => Clear
  PROVE  Clear'
<1>1. CASE UNCHANGED <<data, shown>>
  BY <1>1 DEF Clear, data, Jobs, status
<1>2. CASE Arrive(t)
  <2>1. ~(SetStatus("Starting", main) \/ SetStatus("Stopping", main))
    BY DEF SetStatus, status, TypeInv, TypeOK
  <2>2. Restart(t)
    BY <1>2, <2>1 DEF Arrive, StartCommand, StopService, OnReceive, OnRevoke
  <2> QED
    BY <1>1, <2>2 DEF Restart
<1>3. CASE Apart(t)
  BY <1>1, <1>3, ApartTypes
<1>4. CASE \/ (BuildConfig(t) /\ OnMain(t, "create")) \/ Show(t) \/ StopAndAlert(t)
           \/ EndStop(t)
  <2>1. PICK l \in {"create", "show", "alert", "end"} : OnMain(t, l) /\ UNCHANGED shown
    BY <1>4 DEF BuildConfig, Show, StopAndAlert, EndStop
  <2>2. /\ Block(t, l) \in Job /\ Block(t, l).do \notin {"status", "alert"}
        /\ Block(t, l) # SetJob("alerts")
    BY DEF Block, Job, SetJob, Places
  <2> QED
    BY <2>1, <2>2, ClearKept DEF OnMain, status
<1>5. CASE Announce(t) \/ PostStarting(t)
  <2>1. /\ main' = main \/ main' = Append(main, SetJob("service"))
        /\ pending'["activity"] = pending["activity"] /\ UNCHANGED <<value, shown>>
    BY <1>5 DEF Announce, PostStarting, PostValue, TypeInv, TypeOK, LiveData
  <2>2. /\ SetJob("service") \in Job /\ SetJob("service").do \notin {"status", "alert"}
        /\ SetJob("service") # SetJob("alerts")
    BY DEF SetJob, Job, LiveData
  <2> QED
    BY <2>1, <2>2, ClearKept DEF status
<1> QED
  BY <1>2, <1>3, <1>4, <1>5, Splits

LEMMA RunSetClear ==
  ASSUME TypeInv, LastStatus, RunSet, status' = "Started", status = "Started" => Clear,
         \A a \in Alerts : Before(main, Warn(a), SetJob("service"))
  PROVE  Clear'
<1>1. /\ Tail(main) \in Seq(Job) /\ Head(main).do = "set" /\ main # <<>>
      /\ main \in Seq(Job) /\ JobsOf(main) = JobsOf(Tail(main)) \cup {Head(main)}
  BY Settings, Taken DEF TypeInv, TypeOK
<1>2. /\ SetJob("service") # SetJob("activity") /\ SetJob("service") # SetJob("alerts")
      /\ SetJob("activity") # SetJob("alerts")
  BY DEF SetJob
<1>3. CASE Head(main) = SetJob("service")
  <2>1. /\ pending["service"] \in Statuses
        /\ main' = Append(Tail(main), Tell(pending["service"]))
    BY <1>2, <1>3, Settings DEF TypeInv, QueueInv, Statuses
  <2> DEFINE j == Tell(pending["service"])
  <2>2. j \in Job /\ j.do = "status" /\ j # SetJob("alerts")
    BY <2>1, Signals DEF SetJob
  <2>3. \A a \in Alerts : Warn(a) \notin JobsOf(main) /\ Warn(a) # j
    <3>1. ASSUME NEW a \in Alerts
          PROVE  Warn(a) \notin JobsOf(main)
      <4>1. Before(main, Warn(a), SetJob("service"))
        OBVIOUS
      <4> QED
        BY <1>1, <1>3, <4>1, BeforeTaken
    <3>2. \A a \in Alerts : Warn(a).do = "alert"
      BY DEF Warn
    <3> QED
      BY <2>2, <3>1, <3>2
  <2> HIDE DEF j
  <2>4. /\ Jobs' = JobsOf(Tail(main)) \cup {j} /\ ~NoTell(main')
        /\ ToldAfter(main', SetJob("alerts"))
    <3>1. main' = Append(Tail(main), j)
      BY <2>1 DEF j
    <3>2. JobsOf(main') = JobsOf(Tail(main)) \cup {j}
      BY <1>1, <2>2, <3>1, Appended
    <3>3. ~NoTell(main') /\ ToldAfter(main', SetJob("alerts"))
      BY <1>1, <2>2, <3>1, TellsAppended
    <3> QED
      BY <3>2, <3>3 DEF Jobs
  <2> QED
    BY <1>1, <2>3, <2>4 DEF Clear
<1>4. CASE Head(main) # SetJob("service")
  <2>1. /\ main' = Tail(main) /\ status' = status
    BY <1>2, <1>4, Settings DEF status, TypeInv, TypeOK
  <2>2. Clear
    BY <2>1
  <2>3. Jobs' \subseteq Jobs /\ ToldAfter(main', SetJob("alerts"))
    BY <1>1, <2>1, <2>2, TellsTaken DEF Clear, Jobs
  <2>4. ASSUME NoTell(main'), pending'["activity"] = "nothing"
        PROVE  shown'.status = "Started"
    <3>1. CASE Head(main) = SetJob("activity")
      <4>1. shown'.status = pending["activity"] /\ pending["activity"] # "nothing"
        BY <1>2, <3>1, Settings
      <4>2. NoTell(main)
        BY <1>1, <2>1, <2>4, TellsTaken
      <4> QED
        BY <2>1, <4>1, <4>2 DEF LastStatus
    <3>2. CASE Head(main) = SetJob("alerts")
      BY <1>1, <2>1, <2>2, <2>4, <3>2, TellsTaken DEF Clear
    <3> QED
      BY <1>4, <3>1, <3>2, Settings
  <2> QED
    BY <2>2, <2>3, <2>4 DEF Clear
<1> QED
  BY <1>3, <1>4

LEMMA RunBroadcastClear ==
  ASSUME TypeInv, RunBroadcast, Clear
  PROVE  Clear'
<1>1. /\ main # <<>> /\ main \in Seq(Job) /\ Tail(main) \in Seq(Job)
      /\ Jobs = JobsOf(Tail(main)) \cup {Head(main)}
  BY Heading DEF RunBroadcast, TypeInv, TypeOK
<1>2. /\ Head(main) \in Job /\ UNCHANGED shown
      /\ \/ /\ Head(main).do = "status" /\ Head(main).of \in Statuses
            /\ PostValue("activity", Head(main).of, Tail(main))
         \/ /\ Head(main).do = "alert" /\ Head(main).of \in Alerts
            /\ PostValue("alerts", Head(main).of, Tail(main))
  BY RunBroadcastTypes
<1>3. Head(main).do # "alert"
  <2>1. ASSUME Head(main).do = "alert"
        PROVE  FALSE
    <3>1. Head(main) \in [do : {"alert"}, of : Alerts]
      BY <1>2, <2>1 DEF Job
    <3>2. Head(main) = Warn(Head(main).of)
      BY <3>1 DEF Warn
    <3> QED
      BY <1>1, <1>2, <2>1, <3>2 DEF Clear
  <2> QED
    BY <2>1
<1>4. /\ Head(main).of \in Statuses
      /\ pending' = [pending EXCEPT !["activity"] = Head(main).of]
      /\ main' = Tail(main) \/ main' = Append(Tail(main), SetJob("activity"))
  BY <1>2, <1>3 DEF PostValue
<1>5. pending'["activity"] # "nothing"
  BY <1>4 DEF TypeInv, TypeOK, LiveData, Statuses
<1>6. ToldAfter(Tail(main), SetJob("alerts"))
  BY <1>1, TellsTaken DEF Clear
<1>7. /\ SetJob("activity") \in Job /\ SetJob("activity") # SetJob("alerts")
      /\ \A a \in Alerts : Warn(a) # SetJob("activity")
  BY DEF SetJob, Job, LiveData, Warn
<1>8. ToldAfter(main', SetJob("alerts")) /\ Jobs' \subseteq Jobs \cup {SetJob("activity")}
  <2>1. CASE main' = Tail(main)
    BY <1>1, <1>6, <2>1 DEF Jobs
  <2>2. CASE main' = Append(Tail(main), SetJob("activity"))
    <3>1. JobsOf(main') = JobsOf(Tail(main)) \cup {SetJob("activity")}
      BY <1>1, <1>7, <2>2, Appended
    <3>2. ToldAfter(main', SetJob("alerts"))
      BY <1>1, <1>6, <1>7, <2>2, TellsAppended
    <3> QED
      BY <1>1, <3>1, <3>2 DEF Jobs
  <2> QED
    BY <1>4, <2>1, <2>2
<1> QED
  BY <1>5, <1>7, <1>8 DEF Clear

LEMMA StepAlerts ==
  ASSUME TypeInv, LastStatus, ReloadInv, LeadInv, AlertsFirst, [Next]_vars
  PROVE  AlertsFirst'
<1>1. SUFFICES ASSUME ~overlap', ~leaked', ~refused'
               PROVE  /\ \A a \in Alerts : Before(main', Warn(a), SetJob("service"))
                      /\ status' = "Started" => Clear'
  BY DEF AlertsFirst, Clear
<1>2. ~overlap /\ ~leaked /\ ~refused
  BY <1>1, HistoryStays
<1>3. /\ \A a \in Alerts : Before(main, Warn(a), SetJob("service"))
      /\ status = "Started" => Clear
  BY <1>2 DEF AlertsFirst, Clear
<1>4. ASSUME NEW a \in Alerts
      PROVE  Before(main', Warn(a), SetJob("service"))
  <2>1. /\ Warn(a) \in Job /\ Warn(a).do = "alert" /\ SetJob("service") \in Job
        /\ Warn(a) # SetJob("service")
    BY DEF Warn, SetJob, Job, LiveData
  <2>2. SetJob("service") \in Jobs => ~Warns
    BY <1>2, AlertAlone DEF Warns
  <2> QED
    BY <1>3, <2>1, <2>2, OrderKept
<1>5. ASSUME status' = "Started"
      PROVE  Clear'
  <2>1. ASSUME NEW t \in Tasks, Arrive(t) \/ Advance(t)
        PROVE  Clear'
    BY <1>3, <1>5, <2>1, ThreadClear
  <2>2. CASE RunSet
    BY <1>3, <1>5, <2>2, RunSetClear
  <2>3. CASE RunBroadcast
    <3>1. status' = status
      BY <2>3, RunBroadcastTypes DEF status
    <3> QED
      BY <1>3, <1>5, <2>3, <3>1, RunBroadcastClear
  <2>4. ASSUME NEW t \in Tasks, RunBlock(t)
        PROVE  Clear'
    <3>1. value' # [value EXCEPT !["service"] = "Stopped"]
      BY <1>5 DEF status, TypeInv, TypeOK
    <3>2. /\ main' = Tail(main) /\ main # <<>> /\ Head(main).do = "block" /\ UNCHANGED value
          /\ main \in Seq(Job)
      BY <2>4, <3>1, Unblocking DEF TypeInv, TypeOK
    <3>3. Clear /\ UNCHANGED <<pending, shown>>
      BY <1>3, <1>5, <2>4, <3>2, RunBlockTypes DEF status
    <3>4. /\ Jobs' \subseteq Jobs /\ ToldAfter(main', SetJob("alerts"))
          /\ NoTell(main') <=> NoTell(main)
      BY <3>2, <3>3, Taken, TellsTaken DEF Clear, Jobs
    <3> QED
      BY <3>3, <3>4 DEF Clear
  <2>5. ~PermissionRefused
    BY <1>1 DEF PermissionRefused
  <2>6. CASE UNCHANGED vars
    BY <1>3, <1>5, <2>6 DEF vars, data, status, Clear, Jobs
  <2> QED
    BY <2>1, <2>2, <2>3, <2>4, <2>5, <2>6 DEF Next, MainThread, RunBlock
<1> QED
  BY <1>4, <1>5

----------------------------------------------------------------------------
(* The theorems.                                                            *)

LEMMA InitAndroid ==
  ASSUME Init
  PROVE  AndroidInv
<1>1. TypeInv /\ main = <<>> /\ Len(main) = 0 /\ Jobs = {}
  <2>1. main = <<>>
    BY DEF Init
  <2> QED
    BY <2>1, InitTypes DEF Jobs, JobsOf
<1>2. /\ NoTell(main) /\ \A s : EndsWith(main, s)
      /\ \A x, y : Before(main, x, y)
      /\ \A x : ToldAfter(main, x)
  BY <1>1 DEF NoTell, EndsWith, Before, ToldAfter
<1>3. LastStatus
  BY <1>2 DEF Init, LastStatus, status, LiveData, Event
<1>4. \A t \in Tasks : task[t].pc = "idle" /\ ~Works(t) /\ ~Leads(t)
  BY DEF Init, Idle, Works, Leads
<1>5. ReloadInv
  BY <1>2, <1>4 DEF ReloadInv
<1>6. LeadInv
  <2>1. Rest
    BY DEF Init, Rest, Down, status, LiveData
  <2> QED
    BY <1>4, <2>1 DEF LeadInv
<1>7. AlertsFirst
  <2>1. status # "Started"
    BY DEF Init, status
  <2> QED
    BY <1>2, <2>1 DEF AlertsFirst
<1> QED
  BY <1>1, <1>3, <1>5, <1>6, <1>7 DEF AndroidInv, TypeInv

LEMMA StepAndroid ==
  ASSUME AndroidInv, [Next]_vars
  PROVE  AndroidInv'
<1>1. TypeInv /\ LastStatus /\ ReloadInv /\ LeadInv /\ AlertsFirst
  BY DEF AndroidInv, TypeInv
<1>2. TypeInv'
  BY <1>1, StepTypes
<1>3. LastStatus' /\ ReloadInv' /\ LeadInv' /\ AlertsFirst'
  BY <1>1, <1>2, StepLast, StepReload, StepLead, StepAlerts
<1> QED
  BY <1>2, <1>3 DEF AndroidInv, TypeInv

\* The inductive invariant: what is on the main thread's queue, which call holds
\* the status and how far it has come with BoxService's fields, and which statuses
\* and alerts are on their way to the app.
THEOREM AndroidInvariant == Spec => []AndroidInv
<1>1. Init => AndroidInv
  BY InitAndroid
<1>2. AndroidInv /\ [Next]_vars => AndroidInv'
  BY StepAndroid
<1> QED
  BY <1>1, <1>2, PTL DEF Spec

\* The state of BoxService, its queue and its threads has its type.
THEOREM AndroidTypesCorrect == Spec => []TypeOK
<1>1. AndroidInv => TypeOK
  BY DEF AndroidInv
<1> QED
  BY <1>1, AndroidInvariant, PTL

\* Two calls of BoxService are at work together only when one of them has announced
\* Started, as long as no reload meets another call: the status is a lock.
THEOREM StatusIsALock == Spec => []StatusExcludes
<1>1. ASSUME AndroidInv
      PROVE  StatusExcludes
  <2>1. SUFFICES ASSUME ~overlap, ~leaked, NEW t \in Tasks, NEW u \in Tasks, t # u,
                        Busy(t), Busy(u), "asked" \notin {task[t].pc, task[u].pc}
                 PROVE  \E a \in {t, u} : task[a].kind = "start"
                                          /\ task[a].pc \in {"show", "wait"}
    BY DEF StatusExcludes
  <2>2. PICK a \in {t, u} : Announced(a)
    BY <1>1, <2>1 DEF AndroidInv, LeadInv, Leads, Works, Busy
  <2>3. Blocked(a, "show") => task[a].pc = "wait"
    BY <1>1 DEF AndroidInv, QueueInv, Places
  <2> QED
    BY <2>2, <2>3 DEF Announced
<1> QED
  BY <1>1, AndroidInvariant, PTL

\* What the status says when all is quiet is true of the instance, the tunnel, the
\* command server, the receiver and the note for the next boot.
THEOREM StatusTellsTruth == Spec => []StatusIsTrue
<1>1. ASSUME AndroidInv, Quiet, ~overlap, ~leaked
      PROVE  /\ status = "Started" =>
                  /\ live = {boxService} /\ fileDescriptor = boxService
                  /\ commandServer \in listening /\ serving[commandServer] = boxService
                  /\ receiverRegistered /\ startedByUser
             /\ status = "Stopped" =>
                  /\ live = {} /\ boxService = 0 /\ fileDescriptor = 0
                  /\ ~startedByUser /\ ~receiverRegistered
  <2>1. \A t \in Tasks : ~Leads(t)
    BY <1>1 DEF Quiet, Leads, Works, Busy
  <2>2. Rest
    BY <1>1, <2>1 DEF AndroidInv, LeadInv
  <2> QED
    BY <2>2 DEF Rest, Up, Down, Made, Held
<1>2. AndroidInv => StatusIsTrue
  BY <1>1 DEF StatusIsTrue
<1> QED
  BY <1>2, AndroidInvariant, PTL

\* Once the main thread is done the app shows whether the service is started or
\* stopped, except where a refused permission or a call beside another one hides
\* Started behind a Stopped.
THEOREM TheAppIsTold == Spec => []AppIsTold
<1>1. ASSUME AndroidInv, main = <<>>, status \in {"Started", "Stopped"}
      PROVE  \/ shown.status = status
             \/ (refused \/ overlap \/ leaked) /\ shown.status = "Stopped"
  <2>1. Len(main) = 0 /\ Jobs = {}
    BY <1>1 DEF Jobs, JobsOf
  <2>2. NoTell(main) /\ pending["activity"] = "nothing"
    BY <1>1, <2>1 DEF NoTell, AndroidInv, QueueInv, LiveData
  <2>3. shown.status \in {status, "Stopped"}
    BY <1>1, <2>2 DEF AndroidInv, LastStatus
  <2>4. ASSUME status = "Started", ~refused, ~overlap, ~leaked
        PROVE  shown.status = "Started"
    BY <1>1, <2>2, <2>4 DEF AndroidInv, AlertsFirst
  <2> QED
    BY <1>1, <2>3, <2>4
<1>2. AndroidInv => AppIsTold
  BY <1>1 DEF AppIsTold
<1> QED
  BY <1>2, AndroidInvariant, PTL

=============================================================================
