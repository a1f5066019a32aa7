----------------------------- MODULE Connection -----------------------------
(***************************************************************************)
(* The connection layer of the desktop app: ConnectionNotifier, its        *)
(* repository and FFISingboxService, over a core whose status check and    *)
(* write are one step (module CoreService takes them apart).               *)
(*                                                                         *)
(* Dart runs one thing at a time, but every await lets other handlers in:  *)
(* an asynchronous method is a task that moves from await to await.  The   *)
(* core writes its status, marshals it and posts it to a Dart port in      *)
(* three steps, on the thread of the call, and a thread of another call    *)
(* may come between.  The app's state is the last message taken from the   *)
(* port, or the error of the last call that failed.                        *)
(***************************************************************************)
EXTENDS Naturals, Sequences

CONSTANTS Tasks,        \* asynchronous calls that can be under way at once
          Profiles,
          MaxEvents     \* bound: clicks, profile changes, ... in a behaviour

ASSUME MaxEventsAssumption == MaxEvents \in Nat

VARIABLES
  app, startedByUser,     \* ConnectionNotifier.state; the preference
  active, seen,           \* active profile in the database, in the app
  prefs,                  \* the config options, counted in versions
  initialized, port,      \* repository's flag; the core has the status port
  status, running,        \* the core's status and the profile it runs
  options, ran,           \* its configOptions, and those it was started with
  queue,                  \* messages on their way to the app
  sending, crossed,       \* the status a call is publishing; history
  task, timer,            \* the calls under way; ConnectionWrapper's delay
  events, overlap, missed, wish   \* how many so far; history

core  == <<status, running, options, ran>>
db    == <<active, prefs>>
hist  == <<events, overlap, missed, wish>>
messages == <<queue, sending, crossed>>
vars  == <<app, startedByUser, seen, db, initialized, port, core, messages,
           task, timer, hist>>

-----------------------------------------------------------------------------

Statuses == {"Stopped", "Starting", "Started", "Stopping"}
AppStates == {"Loading", "Disconnected", "Connecting", "Connected",
              "Disconnecting", "Error"}
MaybeProfile == Profiles \cup {"nil"}
Versions == 1 .. MaxEvents + 1
Options  == {0} \cup Versions             \* 0: reset, not yet filled
Kinds    == {"connect", "disconnect", "reconnect"}
Places   == {"idle", "profile", "options", "privilege", "setup", "setupCall",
             "apply", "fill", "call", "down", "again", "build", "up", "fail",
             "blame"}
TaskRec  == [pc : Places, kind : Kinds, profile : MaybeProfile,
             options : Options]
Idle     == [pc |-> "idle", kind |-> "connect", profile |-> "nil", options |-> 0]
Message  == [status : Statuses, alert : BOOLEAN]
Sending  == [at : {"none", "written", "marshalled"}, status : Statuses,
             alert : BOOLEAN]
NotSending == [at |-> "none", status |-> "Stopped", alert |-> FALSE]

TypeOK ==
  /\ app \in AppStates /\ startedByUser \in BOOLEAN
  /\ active \in MaybeProfile /\ seen \in MaybeProfile
  /\ prefs \in Versions
  /\ initialized \in BOOLEAN /\ port \in BOOLEAN
  /\ status \in Statuses /\ running \in MaybeProfile
  /\ options \in Options /\ ran \in Options
  /\ queue \in Seq(Message)
  /\ sending \in [Tasks -> Sending] /\ crossed \in BOOLEAN
  /\ task \in [Tasks -> TaskRec]
  /\ \A t \in Tasks :
       task[t].pc \notin {"idle", "profile"} /\ task[t].kind # "disconnect"
         => task[t].profile # "nil"
  /\ timer \in BOOLEAN
  /\ events \in 0 .. MaxEvents
  /\ overlap \in BOOLEAN /\ missed \in BOOLEAN
  /\ wish \in {"none", "on", "off"}

\* The status stream is seeded with Stopped, the app's first message.
SeedQueue == <<[status |-> "Stopped", alert |-> FALSE]>>

Init ==
  /\ app = "Loading" /\ initialized = FALSE /\ port = FALSE
  /\ status = "Stopped" /\ running = "nil" /\ options = 0 /\ ran = 0
  /\ queue = SeedQueue /\ timer = TRUE
  /\ sending = [t \in Tasks |-> NotSending] /\ crossed = FALSE
  /\ task = [t \in Tasks |-> Idle]
  /\ active \in MaybeProfile /\ seen = active /\ prefs = 1
  /\ startedByUser \in BOOLEAN
  /\ events = 0 /\ overlap = FALSE /\ missed = FALSE /\ wish = "none"

-----------------------------------------------------------------------------

Publishing == {t \in Tasks : sending[t].at # "none"}
Busy == {t \in Tasks : task[t].pc # "idle"} \cup Publishing

Goto(t, l) == task' = [task EXCEPT ![t].pc = l]
End(t)     == task' = [task EXCEPT ![t] = Idle]
Return(t)  == End(t) /\ UNCHANGED <<app, startedByUser, seen, db, initialized,
                                    port, core, messages, timer, hist>>
Step(t, l) == Goto(t, l) /\ UNCHANGED <<app, startedByUser, seen, db,
                                        initialized, port, core, messages,
                                        timer, hist>>

\* propagateStatus, with an alert stopAndAlert: the core writes its status.
\* crossed notes that another call is publishing as well, whose message may
\* then be posted after this one.
Propagate(t, s, a) ==
  /\ status' = s
  /\ sending' = [sending EXCEPT ![t] = [at |-> "written", status |-> s,
                                       alert |-> a]]
  /\ crossed' = (Publishing \ {t} # {})
  /\ UNCHANGED queue

Happens == events < MaxEvents /\ events' = events + 1

\* A new asynchronous call, in a free slot.  overlap notes one that is made
\* before the previous one and all its messages are through.
Begin(t, kind, at, p) ==
  /\ t \notin Busy
  /\ task' = [task EXCEPT ![t] = [pc |-> at, kind |-> kind, profile |-> p,
                                  options |-> 0]]
  /\ overlap' = (overlap \/ Busy # {} \/ queue # <<>>)

Disconnect(t) == Begin(t, "disconnect", "call", "nil")
Connect(t)    == Begin(t, "connect", "profile", "nil")

-----------------------------------------------------------------------------
(* ConnectionNotifier.                                                      *)

\* Mutant of Toggle: the second click disconnects without taking the wish back.
ToggleForgets(t) ==
  /\ Happens
  /\ \/ /\ app = "Error"
        /\ Connect(t)
        /\ UNCHANGED <<startedByUser, wish>>
     \/ /\ app = "Disconnected"
        /\ startedByUser' = TRUE /\ wish' = "on"
        /\ Connect(t)
     \/ /\ app = "Connected"
        /\ wish' = "off"
        /\ Disconnect(t)
        /\ UNCHANGED startedByUser
  /\ UNCHANGED <<app, seen, db, initialized, port, core, messages, timer,
                 missed>>

\* Mutant of Toggle: Connected is handled like Disconnected.
ToggleConnects(t) ==
  /\ Happens
  /\ app \in {"Error", "Disconnected", "Connected"}
  /\ startedByUser' = (app # "Error" \/ startedByUser)
  /\ wish' = IF app = "Error" THEN wish ELSE "on"
  /\ Connect(t)
  /\ UNCHANGED <<app, seen, db, initialized, port, core, messages, timer,
                 missed>>

\* toggleConnection.  While the app is loading or switching it does nothing.
Toggle(t) ==
  /\ Happens
  /\ \/ /\ app = "Error"
        /\ Connect(t)
        /\ UNCHANGED <<startedByUser, wish>>
     \/ /\ app = "Disconnected"
        /\ startedByUser' = TRUE /\ wish' = "on"
        /\ Connect(t)
     \/ /\ app = "Connected"
        /\ startedByUser' = FALSE /\ wish' = "off"
        /\ Disconnect(t)
  /\ UNCHANGED <<app, seen, db, initialized, port, core, messages, timer,
                 missed>>

\* ConnectionWrapper, two seconds after the launch: mayConnect.
AutoConnect(t) ==
  /\ timer /\ timer' = FALSE
  /\ \/ /\ startedByUser /\ app = "Disconnected"
        /\ Happens
        /\ Connect(t)
     \/ /\ ~(startedByUser /\ app = "Disconnected")
        /\ UNCHANGED <<task, overlap, events>>
  /\ UNCHANGED <<app, startedByUser, seen, db, initialized, port, core,
                 messages, missed, wish>>

\* reconnect, for a caller that names the profile.
Reconnect(t, p) ==
  \/ /\ app # "Connected"
     /\ UNCHANGED <<task, startedByUser, overlap>>
  \/ /\ app = "Connected" /\ p = "nil"
     /\ Disconnect(t)
     /\ UNCHANGED startedByUser
  \/ /\ app = "Connected" /\ p # "nil"
     /\ startedByUser' = TRUE
     /\ Begin(t, "reconnect", "options", p)

\* Mutant of ProfileChanged: only a deleted profile makes the app act.
OnlyDeletionSeen(t) ==
  /\ seen # active
  /\ seen' = active
  /\ IF seen # "nil" /\ active = "nil"
     THEN Reconnect(t, active)
     ELSE UNCHANGED <<task, startedByUser, overlap>>
  /\ missed' = \/ missed
               \/ app # "Connected" /\ (status # "Stopped" \/ Busy # {})
  /\ UNCHANGED <<app, db, initialized, port, core, messages, timer, events,
                 wish>>

\* The active profile's stream delivers a change; from "none" it is not acted
\* upon.  missed notes a change the app could not act on while it switched.
ProfileChanged(t) ==
  /\ seen # active
  /\ seen' = active
  /\ IF seen # "nil"
     THEN Reconnect(t, active)
     ELSE UNCHANGED <<task, startedByUser, overlap>>
  /\ missed' = \/ missed
                \/ /\ seen = "nil" \/ app # "Connected"
                   /\ status # "Stopped" \/ Busy # {}
  /\ UNCHANGED <<app, db, initialized, port, core, messages, timer, events,
                 wish>>

\* UpdateProfile: the active profile was fetched anew and is reconnected.
ProfileUpdated(t) ==
  /\ Happens /\ seen # "nil"
  /\ Reconnect(t, seen)
  /\ UNCHANGED <<app, seen, db, initialized, port, core, messages, timer,
                 missed, wish>>

\* abortConnection, when the window is closed for good.
Abort(t) ==
  /\ Happens /\ app \in {"Connected", "Connecting"}
  /\ Disconnect(t)
  /\ UNCHANGED <<app, startedByUser, seen, db, initialized, port, core,
                 messages, timer, missed, wish>>

\* The rest of the app changes the database and the preferences.
ChangeActive ==
  /\ Happens
  /\ active' \in MaybeProfile \ {active}
  /\ UNCHANGED <<app, startedByUser, seen, prefs, initialized, port, core,
                 messages, task, timer, overlap, missed, wish>>

ChangePrefs ==
  /\ Happens
  /\ prefs' = prefs + 1
  /\ UNCHANGED <<app, startedByUser, seen, active, initialized, port, core,
                 messages, task, timer, overlap, missed, wish>>

\* The process ends, in the middle of anything, and is started again.
Relaunch ==
  /\ Happens
  /\ app' = "Loading" /\ initialized' = FALSE /\ port' = FALSE
  /\ status' = "Stopped" /\ running' = "nil" /\ options' = 0 /\ ran' = 0
  /\ queue' = SeedQueue /\ timer' = TRUE
  /\ sending' = [t \in Tasks |-> NotSending] /\ crossed' = FALSE
  /\ task' = [t \in Tasks |-> Idle]
  /\ seen' = active
  /\ overlap' = FALSE /\ missed' = FALSE
  /\ wish' = IF overlap THEN "none" ELSE wish
  /\ UNCHANGED <<startedByUser, db>>

-----------------------------------------------------------------------------
(* Messages.                                                                *)

\* watchConnectionStatus
View(s) == CASE s = "Stopped"  -> "Disconnected"
             [] s = "Starting" -> "Connecting"
             [] s = "Started"  -> "Connected"
             [] s = "Stopping" -> "Disconnecting"

\* A message becomes the app's state, whatever that was; a failure also takes
\* the user's wish back.
Deliver ==
  /\ queue # <<>>
  /\ queue' = Tail(queue)
  /\ app' = View(Head(queue).status)
  /\ startedByUser' = (startedByUser /\ ~Head(queue).alert)
  /\ UNCHANGED <<seen, db, initialized, port, core, sending, crossed, task,
                 timer, hist>>

-----------------------------------------------------------------------------
(* The awaits of connect, reconnect and disconnect.                         *)

\* await activeProfile; without one the method throws and nobody catches.
ReadProfile(t) ==
  /\ task[t].pc = "profile"
  /\ \/ seen = "nil" /\ Return(t)
     \/ /\ seen # "nil"
        /\ task' = [task EXCEPT ![t].pc = "options", ![t].profile = seen]
        /\ UNCHANGED <<app, startedByUser, seen, db, initialized, port, core,
                       messages, timer, hist>>

\* getConfigOption: the preferences, and the geo assets they name must exist.
ReadOptions(t) ==
  /\ task[t].pc = "options"
  /\ \/ Step(t, "fail")
     \/ /\ task' = [task EXCEPT
                      ![t].pc = IF task[t].kind = "connect" THEN "privilege"
                                                            ELSE "apply",
                      ![t].options = prefs]
        /\ UNCHANGED <<app, startedByUser, seen, db, initialized, port, core,
                       messages, timer, hist>>

CheckPrivilege(t) ==
  /\ task[t].pc = "privilege"
  /\ Step(t, "fail") \/ Step(t, "setup")

\* setup, once per launch
Setup(t) ==
  /\ task[t].pc = "setup"
  /\ Step(t, IF initialized THEN "apply" ELSE "setupCall")

\* ... the core takes the port before anything of it can fail
SetupCall(t) ==
  /\ task[t].pc = "setupCall"
  /\ port' = TRUE
  /\ \/ Goto(t, "fail") /\ UNCHANGED initialized
     \/ Goto(t, "apply") /\ initialized' = TRUE
  /\ UNCHANGED <<app, startedByUser, seen, db, core, messages, timer, hist>>

\* changeConfigOptions: a fresh struct, filled from JSON afterwards
ResetOptions(t) ==
  /\ task[t].pc = "apply"
  /\ options' = 0
  /\ Goto(t, "fill")
  /\ UNCHANGED <<app, startedByUser, seen, db, initialized, port, status,
                 running, ran, messages, timer, hist>>

\* Mutant of FillOptions: JSON that does not decode is not reported.
BadOptionsIgnored(t) ==
  /\ task[t].pc = "fill"
  /\ Goto(t, "call")
  /\ options' \in {options, task[t].options}
  /\ UNCHANGED <<app, startedByUser, seen, db, initialized, port, status,
                 running, ran, messages, timer, hist>>

FillOptions(t) ==
  /\ task[t].pc = "fill"
  /\ \/ Step(t, "fail")
     \/ /\ options' = task[t].options
        /\ Goto(t, "call")
        /\ UNCHANGED <<app, startedByUser, seen, db, initialized, port,
                       status, running, ran, messages, timer, hist>>

\* A call that failed: connect takes the wish back, and shows the error only
\* after that has been stored; the others show it at once.
Fail(t) ==
  /\ task[t].pc = "fail"
  /\ \/ /\ task[t].kind = "connect"
        /\ startedByUser' = FALSE
        /\ Goto(t, "blame")
        /\ UNCHANGED app
     \/ /\ task[t].kind # "connect"
        /\ app' = "Error"
        /\ End(t)
        /\ UNCHANGED startedByUser
  /\ UNCHANGED <<seen, db, initialized, port, core, messages, timer, hist>>

Blame(t) ==
  /\ task[t].pc = "blame"
  /\ app' = "Error"
  /\ End(t)
  /\ UNCHANGED <<startedByUser, seen, db, initialized, port, core, messages,
                 timer, hist>>

-----------------------------------------------------------------------------
(* The core's calls.  A call goes on when what it publishes is posted.      *)

\* the message carries the status word as it is by now
Marshal(t) ==
  /\ sending[t].at = "written"
  /\ sending' = [sending EXCEPT ![t].at = "marshalled", ![t].status = status]
  /\ UNCHANGED <<app, startedByUser, seen, db, initialized, port, core, queue,
                 crossed, task, timer, hist>>

PostStatus(t) ==
  /\ sending[t].at = "marshalled"
  /\ queue' = Append(queue, [status |-> sending[t].status,
                             alert |-> sending[t].alert])
  /\ sending' = [sending EXCEPT ![t] = NotSending]
  /\ UNCHANGED <<app, startedByUser, seen, db, initialized, port, core,
                 crossed, task, timer, hist>>

\* start wants Stopped, stop and restart want Started; on any other status
\* they return without an error and without a message.
Refused(t) ==
  /\ task[t].pc = "call"
  /\ status # (IF task[t].kind = "connect" THEN "Stopped" ELSE "Started")
  /\ Return(t)

StartCall(t) ==
  /\ task[t].pc = "call" /\ task[t].kind = "connect" /\ status = "Stopped"
  /\ Propagate(t, "Starting", FALSE)
  /\ Goto(t, "build")
  /\ UNCHANGED <<app, startedByUser, seen, db, initialized, port, running,
                 options, ran, timer, hist>>

StopCall(t) ==
  /\ task[t].pc = "call" /\ task[t].kind # "connect" /\ status = "Started"
  /\ Propagate(t, "Stopping", FALSE)
  /\ Goto(t, "down")
  /\ UNCHANGED <<app, startedByUser, seen, db, initialized, port, running,
                 options, ran, timer, hist>>

\* the instance is closed; an error on the way leaves Stopping behind
StopDone(t) ==
  /\ task[t].pc = "down"
  /\ running' = "nil" /\ ran' = 0
  /\ \/ /\ Goto(t, "fail")
        /\ UNCHANGED <<status, messages>>
     \/ /\ Propagate(t, "Stopped", FALSE)
        /\ IF task[t].kind = "reconnect" THEN Goto(t, "again") ELSE End(t)
  /\ UNCHANGED <<app, startedByUser, seen, db, initialized, port, options,
                 timer, hist>>

\* the second half of restart
StartAgain(t) ==
  /\ task[t].pc = "again"
  /\ Propagate(t, "Starting", FALSE)
  /\ Goto(t, "build")
  /\ UNCHANGED <<app, startedByUser, seen, db, initialized, port, running,
                 options, ran, timer, hist>>

\* Mutant of Build: Stopped is written and the alert not published.
AlertMissing(t) ==
  /\ task[t].pc = "build"
  /\ \/ /\ status' = "Stopped"
        /\ End(t)
        /\ UNCHANGED <<running, ran, messages>>
     \/ /\ running' = task[t].profile /\ ran' = options
        /\ Goto(t, "up")
        /\ UNCHANGED <<status, messages>>
  /\ UNCHANGED <<app, startedByUser, seen, db, initialized, port, options,
                 timer, hist>>

\* The file of the profile, with the options the core holds, or an alert.
Build(t) ==
  /\ task[t].pc = "build"
  /\ \/ /\ Propagate(t, "Stopped", TRUE)
        /\ End(t)
        /\ UNCHANGED <<running, ran>>
     \/ /\ running' = task[t].profile /\ ran' = options
        /\ Goto(t, "up")
        /\ UNCHANGED <<status, messages>>
  /\ UNCHANGED <<app, startedByUser, seen, db, initialized, port, options,
                 timer, hist>>

\* Mutant of StartDone: Started is written and not posted.
StartDoneSilent(t) ==
  /\ task[t].pc = "up"
  /\ status' = "Started"
  /\ End(t)
  /\ UNCHANGED <<app, startedByUser, seen, db, initialized, port, running,
                 options, ran, messages, timer, hist>>

StartDone(t) ==
  /\ task[t].pc = "up"
  /\ Propagate(t, "Started", FALSE)
  /\ End(t)
  /\ UNCHANGED <<app, startedByUser, seen, db, initialized, port, running,
                 options, ran, timer, hist>>

-----------------------------------------------------------------------------

Arrive(t) == Toggle(t) \/ AutoConnect(t) \/ ProfileChanged(t)
               \/ ProfileUpdated(t) \/ Abort(t)

GoOn(t) ==
  \/ ReadProfile(t) \/ ReadOptions(t) \/ CheckPrivilege(t) \/ Setup(t)
  \/ SetupCall(t) \/ ResetOptions(t) \/ FillOptions(t) \/ Fail(t) \/ Blame(t)
  \/ Refused(t) \/ StartCall(t) \/ StopCall(t) \/ StopDone(t) \/ StartAgain(t)
  \/ Build(t) \/ StartDone(t)

Advance(t) == \/ Marshal(t) \/ PostStatus(t)
              \/ t \notin Publishing /\ GoOn(t)

Next ==
  \/ \E t \in Tasks : Arrive(t) \/ Advance(t)
  \/ ChangeActive \/ ChangePrefs \/ Relaunch \/ Deliver

Spec == Init /\ [][Next]_vars

\* The event loop runs what is ready; the user owes nothing.
Fairness == WF_vars(Deliver) /\ \A t \in Tasks : WF_vars(Advance(t))

FairSpec == Spec /\ Fairness

-----------------------------------------------------------------------------
(* Properties.                                                              *)

\* Nothing under way, nothing on its way.
Settled == Busy = {} /\ queue = <<>> /\ seen = active

\* Once everything that was published has arrived, the app shows the core's
\* status, unless it shows an error.  Excepted: a status written while another
\* call was still publishing its own, for the two messages may be posted in the
\* other order; the next status written alone makes up for it.
AppShowsCore ==
  queue = <<>> /\ Publishing = {} /\ ~crossed /\ app # "Error"
    => app = View(status)

\* The tunnel carries the active profile: unless two calls overlapped, or the
\* profile changed while the app was switching (reconnect does nothing then),
\* or an error is shown.
RunsActiveProfile ==
  Settled /\ status = "Started" /\ ~overlap /\ ~missed
    => running = active \/ app = "Error"

\* The core never builds with options that were reset and not filled, unless
\* two calls overlapped.
OptionsAreWhole == running # "nil" /\ ran = 0 => overlap

\* A connect that fails leaves the tunnel down: unless calls overlapped or an
\* error was already hiding the core's status, Error does not hide a tunnel.
FailedConnectLeavesDown ==
  \A t \in Tasks :
    task[t].pc \in {"fail", "blame"} /\ task[t].kind = "connect"
    /\ ~overlap /\ app # "Error"
      => status # "Started"

\* A user who disconnected is not connected again at the next launch.
OffMeansOff == wish = "off" /\ ~overlap => ~startedByUser

\* CHANGELOG.md promises that a session the user did not end is taken up at the
\* next launch.  It is not: toggleConnection remembers the wish only from
\* Disconnected, and a failed connect takes it back, so a retry that succeeds
\* leaves the app connected and nothing remembered.
SessionIsRemembered ==
  Settled /\ app = "Connected" /\ wish = "on" /\ ~overlap => startedByUser

\* The app does not stay Connecting or Disconnecting, unless the core does
\* after an error of stop, or the messages of two calls crossed.
SwitchingEnds ==
  app \in {"Connecting", "Disconnecting"}
    ~> \/ app \notin {"Connecting", "Disconnecting"}
       \/ status = "Stopping" /\ \A t \in Tasks : task[t].pc # "down"
       \/ crossed
=============================================================================
