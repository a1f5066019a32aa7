--------------------------- MODULE AndroidService ---------------------------
(***************************************************************************)
(* The Android service in VPN mode: BoxService, its binder, and the        *)
(* activity that passes its status on to the app.  The status is a LiveData *)
(* set on the main thread, at once (value = s) or by a job on that thread's *)
(* queue (postValue); starting, stopping and reloading run on other threads *)
(* and use the fields of BoxService without a lock.                        *)
(*                                                                         *)
(* The activity stays bound to the service, so that one BoxService is used *)
(* throughout.  The notification, the network monitor and the logs are left *)
(* out, and so is a restart that changes the mode, which binds the activity *)
(* to another service.                                                     *)
(***************************************************************************)
EXTENDS Naturals, Sequences

CONSTANTS Tasks,       \* coroutines and command-server calls at work at once
          MaxCalls     \* bound: how many of them a behaviour begins

ASSUME MaxCallsAssumption == MaxCalls \in Nat

VARIABLES
  value, pending,      \* the LiveData of service and activity; what was posted
  main,                \* jobs on the main thread's queue
  boxService, commandServer, fileDescriptor, receiverRegistered,
                       \* fields; what a call made has its number, 0 is null
  live, listening,     \* running instances, open command sockets
  serving,             \* setService: the instance a command server was given
  startedByUser,       \* Settings
  task,                \* the threads
  shown,               \* the last event that reached the app
  calls, refused, overlap, leaked   \* calls made; history

data   == <<value, pending, main>>
fields == <<boxService, commandServer, fileDescriptor, receiverRegistered>>
world  == <<live, listening, serving, startedByUser>>
hist   == <<calls, refused, overlap, leaked>>
vars   == <<data, fields, world, shown, task, hist>>

-----------------------------------------------------------------------------

Statuses == {"Stopped", "Starting", "Started", "Stopping"}
Alerts == {"none", "EmptyConfiguration", "StartCommandServer", "CreateService",
           "StartService", "RequestPermission"}
Kinds  == {"start", "stop", "reload"}
Places == {"idle", "wait", "asked", "post", "server", "keep", "config", "create",
           "run", "box", "serve", "announce", "show", "alert",
           "fd", "unserve", "close", "clear", "shut", "end"}
CallIds == 1 .. MaxCalls
Task == [pc : Places, kind : Kinds, id : 0 .. MaxCalls, alert : Alerts]
Idle == [pc |-> "idle", kind |-> "stop", id |-> 0, alert |-> "none"]

\* What a status or an alert is for the app.
Event(s, a) == [status |-> s, alert |-> a]

LiveData == {"service", "activity", "alerts"}

\* Jobs: set a LiveData to what is pending; broadcast a status or an alert to
\* the callbacks; run a thread's withContext(Dispatchers.Main) block.
SetJob(d)   == [do |-> "set", of |-> d]
Tell(s)     == [do |-> "status", of |-> s]
Warn(a)     == [do |-> "alert", of |-> a]
Block(t, l) == [do |-> "block", of |-> t, at |-> l]
Job == [do : {"set"}, of : LiveData] \cup [do : {"status"}, of : Statuses]
         \cup [do : {"alert"}, of : Alerts]
         \cup [do : {"block"}, of : Tasks, at : Places]

TypeOK ==
  /\ value \in [{"service", "activity"} -> Statuses]
  /\ pending \in [LiveData -> Statuses \cup Alerts \cup {"nothing"}]
  /\ main \in Seq(Job)
  /\ \A f \in {boxService, commandServer, fileDescriptor} : f \in 0 .. MaxCalls
  /\ receiverRegistered \in BOOLEAN /\ startedByUser \in BOOLEAN
  /\ live \subseteq CallIds /\ listening \subseteq CallIds
  /\ serving \in [CallIds -> 0 .. MaxCalls]
  /\ task \in [Tasks -> Task]
  /\ \A t \in Tasks : task[t].pc # "idle" <=> task[t].id # 0
  /\ shown \in [status : Statuses, alert : Alerts]
  /\ calls \in 0 .. MaxCalls
  /\ \A h \in {refused, overlap, leaked} : h \in BOOLEAN

Init ==
  /\ value = [d \in {"service", "activity"} |-> "Stopped"]
  /\ pending = [d \in LiveData |-> "nothing"] /\ main = <<>>
  /\ boxService = 0 /\ commandServer = 0 /\ fileDescriptor = 0
  /\ receiverRegistered = FALSE /\ startedByUser = FALSE
  /\ live = {} /\ listening = {} /\ serving = [c \in CallIds |-> 0]
  /\ task = [t \in Tasks |-> Idle]
  /\ shown = Event("Stopped", "none")
  /\ calls = 0
  /\ refused = FALSE /\ overlap = FALSE /\ leaked = FALSE

-----------------------------------------------------------------------------

status == value["service"]
Busy(t) == task[t].pc # "idle"
Goto(t, l) == task' = [task EXCEPT ![t].pc = l]
Finish(t)  == task' = [task EXCEPT ![t] = Idle]
Alert(t, a) == task' = [task EXCEPT ![t].pc = "alert", ![t].alert = a]

\* withContext(Dispatchers.Main): the thread waits for its turn there
OnMain(t, l) ==
  /\ main' = Append(main, Block(t, l))
  /\ Goto(t, "wait")
  /\ UNCHANGED <<value, pending>>

\* Mutant of PostValue: a job is queued for every value.
PostAlways(d, v, queue) ==
  /\ pending' = [pending EXCEPT ![d] = v]
  /\ main' = Append(queue, SetJob(d))

\* postValue: a value that is pending already is replaced, not joined
PostValue(d, v, queue) ==
  /\ pending' = [pending EXCEPT ![d] = v]
  /\ main' = IF pending[d] = "nothing" THEN Append(queue, SetJob(d)) ELSE queue

\* status.value = s on the main thread, to which the binder reacts with a
\* broadcast of its own; queue holds the jobs before it
SetStatus(s, queue) ==
  /\ value' = [value EXCEPT !["service"] = s]
  /\ main' = Append(queue, Tell(s))
  /\ UNCHANGED pending

\* Would a call of this kind work beside a reload, or a reload beside any call?
BesideReload(t, kind) ==
  \E u \in Tasks \ {t} :
    /\ Busy(u) /\ task[u].pc # "asked"
    /\ kind = "reload" \/ task[u].kind = "reload"

Begin(t, kind, at) ==
  /\ ~Busy(t) /\ calls < MaxCalls
  /\ calls' = calls + 1
  /\ task' = [task EXCEPT ![t] = [pc |-> at, kind |-> kind, id |-> calls + 1,
                                  alert |-> "none"]]
  /\ UNCHANGED <<refused, leaked>>

-----------------------------------------------------------------------------
(* What arrives on the main thread.                                         *)

\* Mutant of StartCommand: the status is not looked at.
StartUnguarded(t) ==
  /\ SetStatus("Starting", main)
  /\ receiverRegistered' = TRUE
  /\ Begin(t, "start", "server")
  /\ overlap' = (overlap \/ BesideReload(t, "start"))
  /\ UNCHANGED <<boxService, commandServer, fileDescriptor, world, shown>>

\* onStartCommand, for the app, the tile, the shortcut or after a boot
StartCommand(t) ==
  /\ status = "Stopped"
  /\ SetStatus("Starting", main)
  /\ receiverRegistered' = TRUE
  /\ Begin(t, "start", "server")
  /\ overlap' = (overlap \/ BesideReload(t, "start"))
  /\ UNCHANGED <<boxService, commandServer, fileDescriptor, world, shown>>

\* stopService: by a broadcast, if the receiver is there, or by onRevoke
StopService(t) ==
  /\ status = "Started"
  /\ SetStatus("Stopping", main)
  /\ receiverRegistered' = FALSE
  /\ Begin(t, "stop", "fd")
  /\ overlap' = (overlap \/ BesideReload(t, "stop"))
  /\ UNCHANGED <<boxService, commandServer, fileDescriptor, world, shown>>

OnReceive(t) == receiverRegistered /\ StopService(t)
OnRevoke(t)  == StopService(t)

\* MethodHandler's restart asks the activity, which may lag behind, ...
Restart(t) ==
  /\ value["activity"] = "Started"
  /\ Begin(t, "reload", "asked")
  /\ UNCHANGED <<data, fields, world, shown, overlap>>

\* ... and a command server that listens calls serviceReload.
ServiceReload(t) ==
  /\ task[t].pc = "asked"
  /\ \/ listening = {} /\ Finish(t) /\ UNCHANGED overlap
     \/ /\ listening # {}
        /\ Goto(t, "post")
        /\ overlap' = (overlap \/ status # "Started" \/ BesideReload(t, "reload"))
  /\ UNCHANGED <<data, fields, world, shown, calls, refused, leaked>>

\* The user refuses a permission that the activity asked for at the outset, when
\* it had been told Stopped; the bound is one refusal.
PermissionRefused ==
  /\ ~refused
  /\ refused' = TRUE
  /\ PostValue("alerts", "RequestPermission", main)
  /\ UNCHANGED <<value, fields, world, shown, task, calls, overlap, leaked>>

-----------------------------------------------------------------------------
(* The main thread runs its queue.                                          *)

\* EventHandler leaves a null message out, and SingboxStatus.fromEvent takes an
\* alert only together with a message: without one it is a plain Stopped.
HasMessage(a) == a \in {"StartCommandServer", "CreateService", "StartService"}

\* Mutant of RunSet: a posted status is set and the binder does not see it.
RunSetSilent ==
  /\ main # <<>> /\ Head(main).do = "set"
  /\ LET d == Head(main).of
     IN  /\ pending' = [pending EXCEPT ![d] = "nothing"]
         /\ main' = Tail(main)
         /\ value' = IF d = "alerts" THEN value ELSE [value EXCEPT ![d] = pending[d]]
         /\ shown' = IF d = "activity" THEN Event(pending[d], "none") ELSE shown
  /\ UNCHANGED <<fields, world, task, hist>>

\* A posted value is set: the service's is broadcast, the activity's status and
\* alerts go to the app, an alert as a status Stopped.
RunSet ==
  /\ main # <<>> /\ Head(main).do = "set"
  /\ LET d == Head(main).of
         v == pending[d]
     IN  /\ pending' = [pending EXCEPT ![d] = "nothing"]
         /\ \/ /\ d = "service"
               /\ value' = [value EXCEPT ![d] = v]
               /\ main' = Append(Tail(main), Tell(v))
               /\ UNCHANGED shown
            \/ /\ d = "activity"
               /\ value' = [value EXCEPT ![d] = v]
               /\ main' = Tail(main)
               /\ shown' = Event(v, "none")
            \/ /\ d = "alerts"
               /\ main' = Tail(main)
               /\ shown' = Event("Stopped", IF HasMessage(v) THEN v ELSE "none")
               /\ UNCHANGED value
  /\ UNCHANGED <<fields, world, task, hist>>

\* The callback of the activity posts what it is told.
RunBroadcast ==
  /\ main # <<>>
  /\ \/ /\ Head(main).do = "status"
        /\ PostValue("activity", Head(main).of, Tail(main))
     \/ /\ Head(main).do = "alert"
        /\ PostValue("alerts", Head(main).of, Tail(main))
  /\ UNCHANGED <<value, fields, world, shown, task, hist>>

\* The log of the app is reset before an instance is created.
RunResetLogs(t) ==
  /\ main # <<>> /\ Head(main) = Block(t, "create")
  /\ Goto(t, "create")
  /\ main' = Tail(main)
  /\ UNCHANGED <<value, pending, fields, world, shown, hist>>

\* The notification is shown, and the system may refuse it.
RunShow(t) ==
  /\ main # <<>> /\ Head(main) = Block(t, "show")
  /\ main' = Tail(main)
  /\ \/ Finish(t) /\ UNCHANGED leaked
     \/ Alert(t, "StartService") /\ leaked' = TRUE
  /\ UNCHANGED <<value, pending, fields, world, shown, calls, refused, overlap>>

\* the end of stopService
RunEnd(t) ==
  /\ main # <<>> /\ Head(main) = Block(t, "end")
  /\ SetStatus("Stopped", Tail(main))
  /\ Finish(t)
  /\ UNCHANGED <<fields, world, shown, hist>>

\* Mutant of RunAlert: the app is warned, the status is left as it is.
AlertOnly(t) ==
  /\ main # <<>> /\ Head(main) = Block(t, "alert")
  /\ receiverRegistered' = FALSE
  /\ main' = Append(Tail(main), Warn(task[t].alert))
  /\ Finish(t)
  /\ UNCHANGED <<value, pending, boxService, commandServer, fileDescriptor, world,
                 shown, hist>>

\* the end of stopAndAlert
RunAlert(t) ==
  /\ main # <<>> /\ Head(main) = Block(t, "alert")
  /\ receiverRegistered' = FALSE
  /\ SetStatus("Stopped", Append(Tail(main), Warn(task[t].alert)))
  /\ Finish(t)
  /\ UNCHANGED <<boxService, commandServer, fileDescriptor, world, shown, hist>>

-----------------------------------------------------------------------------
(* Starting, in a coroutine.                                                *)

StartCommandServer(t) ==
  /\ task[t].pc = "server"
  /\ startedByUser' = TRUE
  /\ \/ Alert(t, "StartCommandServer") /\ UNCHANGED listening
     \/ Goto(t, "keep") /\ listening' = listening \cup {task[t].id}
  /\ UNCHANGED <<data, fields, live, serving, shown, hist>>

KeepCommandServer(t) ==
  /\ task[t].pc = "keep"
  /\ commandServer' = task[t].id
  /\ Goto(t, "config")
  /\ UNCHANGED <<data, boxService, fileDescriptor, receiverRegistered, world, shown,
                 hist>>

\* the path, the options and the configuration made from them
BuildConfig(t) ==
  /\ task[t].pc = "config"
  /\ \/ Alert(t, "EmptyConfiguration") /\ UNCHANGED data
     \/ OnMain(t, "create")
  /\ UNCHANGED <<fields, world, shown, hist>>

NewService(t) ==
  /\ task[t].pc = "create"
  /\ Alert(t, "CreateService") \/ Goto(t, "run")
  /\ UNCHANGED <<data, fields, world, shown, hist>>

\* newService.start() calls openTun and may fail before or after.
StartInstance(t) ==
  /\ task[t].pc = "run"
  /\ \/ /\ fileDescriptor' = task[t].id
        /\ live' = live \cup {task[t].id}
        /\ Goto(t, "box") /\ UNCHANGED leaked
     \/ /\ fileDescriptor' \in {fileDescriptor, task[t].id}
        /\ leaked' = (leaked \/ fileDescriptor' = task[t].id)
        /\ Alert(t, "StartService") /\ UNCHANGED live
  /\ UNCHANGED <<data, boxService, commandServer, receiverRegistered, listening,
                 serving, startedByUser, shown, calls, refused, overlap>>

SetBox(t) ==
  /\ task[t].pc = "box"
  /\ boxService' = task[t].id
  /\ Goto(t, "serve")
  /\ UNCHANGED <<data, commandServer, fileDescriptor, receiverRegistered, world,
                 shown, hist>>

\* commandServer?.setService(s)
SetService(s) ==
  serving' = IF commandServer = 0 THEN serving
             ELSE [serving EXCEPT ![commandServer] = s]

Serve(t) ==
  /\ task[t].pc = "serve"
  /\ SetService(boxService)
  /\ Goto(t, "announce")
  /\ UNCHANGED <<data, fields, live, listening, startedByUser, shown, hist>>

Announce(t) ==
  /\ task[t].pc = "announce"
  /\ PostValue("service", "Started", main)
  /\ Goto(t, "show")
  /\ UNCHANGED <<value, fields, world, shown, hist>>

Show(t) ==
  /\ task[t].pc = "show"
  /\ OnMain(t, "show")
  /\ UNCHANGED <<fields, world, shown, hist>>

\* Neither the tunnel, nor the instance, nor the command server is closed here.
StopAndAlert(t) ==
  /\ task[t].pc = "alert"
  /\ startedByUser' = FALSE
  /\ OnMain(t, "alert")
  /\ UNCHANGED <<fields, live, listening, serving, shown, hist>>

-----------------------------------------------------------------------------
(* Stopping and reloading.                                                  *)

PostStarting(t) ==
  /\ task[t].pc = "post"
  /\ PostValue("service", "Starting", main)
  /\ Goto(t, "fd")
  /\ UNCHANGED <<value, fields, world, shown, hist>>

CloseTunnel(t) ==
  /\ task[t].pc = "fd"
  /\ fileDescriptor' = 0
  /\ Goto(t, "unserve")
  /\ UNCHANGED <<data, boxService, commandServer, receiverRegistered, world, shown,
                 hist>>

Unserve(t) ==
  /\ task[t].pc = "unserve"
  /\ SetService(0)
  /\ Goto(t, "close")
  /\ UNCHANGED <<data, fields, live, listening, startedByUser, shown, hist>>

\* Mutant of CloseBox: the reference is dropped, the instance left running.
BoxNotClosed(t) ==
  /\ task[t].pc = "close"
  /\ Goto(t, "clear")
  /\ UNCHANGED <<data, fields, world, shown, hist>>

CloseBox(t) ==
  /\ task[t].pc = "close"
  /\ live' = live \ {boxService}
  /\ Goto(t, "clear")
  /\ UNCHANGED <<data, fields, listening, serving, startedByUser, shown, hist>>

ClearBox(t) ==
  /\ task[t].pc = "clear"
  /\ boxService' = 0
  /\ Goto(t, IF task[t].kind = "reload" THEN "config" ELSE "shut")
  /\ UNCHANGED <<data, commandServer, fileDescriptor, receiverRegistered, world,
                 shown, hist>>

CloseCommandServer(t) ==
  /\ task[t].pc = "shut"
  /\ listening' = listening \ {commandServer}
  /\ commandServer' = 0
  /\ Goto(t, "end")
  /\ UNCHANGED <<data, boxService, fileDescriptor, receiverRegistered, live,
                 serving, startedByUser, shown, hist>>

EndStop(t) ==
  /\ task[t].pc = "end"
  /\ startedByUser' = FALSE
  /\ OnMain(t, "end")
  /\ UNCHANGED <<fields, live, listening, serving, shown, hist>>

-----------------------------------------------------------------------------

Arrive(t) == StartCommand(t) \/ OnReceive(t) \/ OnRevoke(t) \/ Restart(t)

Advance(t) ==
  \/ ServiceReload(t) \/ StartCommandServer(t) \/ KeepCommandServer(t)
  \/ BuildConfig(t) \/ NewService(t) \/ StartInstance(t) \/ SetBox(t) \/ Serve(t)
  \/ Announce(t) \/ Show(t) \/ StopAndAlert(t) \/ PostStarting(t)
  \/ CloseTunnel(t) \/ Unserve(t) \/ CloseBox(t) \/ ClearBox(t)
  \/ CloseCommandServer(t) \/ EndStop(t)

MainThread ==
  \/ RunSet \/ RunBroadcast
  \/ \E t \in Tasks : RunResetLogs(t) \/ RunShow(t) \/ RunEnd(t) \/ RunAlert(t)

Next ==
  \/ \E t \in Tasks : Arrive(t) \/ Advance(t)
  \/ PermissionRefused \/ MainThread

Spec == Init /\ [][Next]_vars

\* Threads and the main looper run; nothing obliges anybody to call.
Fairness == WF_vars(MainThread) /\ \A t \in Tasks : WF_vars(Advance(t))

FairSpec == Spec /\ Fairness

-----------------------------------------------------------------------------
(* Properties.                                                              *)

Quiet == main = <<>> /\ \A t \in Tasks : ~Busy(t)

\* Once the main thread has nothing left to do the app shows whether the service
\* is started or stopped, whichever posted values replace one another.  (Starting
\* and Stopping may be hidden: an alert is posted apart from the statuses, which
\* can overtake it.)  What can hide Started behind a Stopped is a permission that
\* was refused, or the alert of a call that failed beside another one: of a
\* reload that met it, or of a start that had announced Started (leaked).
AppIsTold ==
  main = <<>> /\ status \in {"Started", "Stopped"} =>
    \/ shown.status = status
    \/ (refused \/ overlap \/ leaked) /\ shown.status = "Stopped"

\* The status is a lock as long as no reload meets another call: a start and a
\* stop are under way together only when the start has announced Started.
StatusExcludes ==
  ~overlap /\ ~leaked =>
    \A t, u \in Tasks :
      t # u /\ Busy(t) /\ Busy(u) /\ "asked" \notin {task[t].pc, task[u].pc} =>
        \E a \in {t, u} : task[a].kind = "start" /\ task[a].pc \in {"show", "wait"}

\* ... and what it says is true when it is quiet.  Started means one instance,
\* which the fields hold, a socket to reload it by, a receiver to stop it by, and
\* the note to start it again after a boot; Stopped means that nothing runs and
\* the tunnel is closed.  Starts that failed after they had opened the tunnel are
\* excepted by name (leaked).
StatusIsTrue ==
  Quiet /\ ~overlap /\ ~leaked =>
    /\ status = "Started" =>
         /\ live = {boxService} /\ fileDescriptor = boxService
         /\ commandServer \in listening /\ serving[commandServer] = boxService
         /\ receiverRegistered /\ startedByUser
    /\ status = "Stopped" =>
         /\ live = {} /\ boxService = 0 /\ fileDescriptor = 0
         /\ ~startedByUser /\ ~receiverRegistered

\* The app is told of every refused permission and of every start that failed.
AlertArrives ==
  [][RunSet /\ Head(main) = SetJob("alerts")
       => shown'.alert = pending["alerts"]]_vars

\* Starting and Stopping end.
StatusSettles ==
  status \in {"Starting", "Stopping"} ~> status \in {"Started", "Stopped"}
=============================================================================
