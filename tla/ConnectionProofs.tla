--------------------------- MODULE ConnectionProofs ---------------------------
(***************************************************************************)
(* Proofs about Connection, for any number of calls at once, any profiles  *)
(* and any bound on the events.  ConnInv is inductive: it says what the    *)
(* core's status and the queue are at every await of a call, as long as no *)
(* call was made before the previous one was through.                      *)
(***************************************************************************)
EXTENDS Connection, SequenceTheorems, TLAPS

\* The versions of the options have not run ahead of the events, and a call
\* that has read them holds options that are filled and names a profile.
Holds(r) ==
  r.pc \in {"privilege", "setup", "setupCall", "apply", "fill"} => r.options # 0
Named(r) ==
  r.pc \notin {"idle", "profile"} /\ r.kind # "disconnect" => r.profile # "nil"
CallsOK == /\ task \in [Tasks -> TaskRec]
           /\ \A t \in Tasks : Holds(task[t]) /\ Named(task[t])
PrefsCount == prefs <= events + 1
TypeInv == TypeOK /\ CallsOK /\ PrefsCount

\* Whoever waits for the queue to be empty has seen the core's last word, unless
\* publications crossed or one is under way, whose message will then be it.
Told == IF queue = <<>> THEN app \in {"Error", View(status)}
                        ELSE queue[Len(queue)].status = status

LastTold ==
  ~crossed =>
    /\ Publishing = {} => Told
    /\ \A t \in Publishing :
         /\ Publishing = {t}
         /\ sending[t].at = "marshalled" => sending[t].status = status

\* Without overlap one call at most is under way, and at each of its awaits the
\* core is as the call has left it: what a call has prepared is at work or not,
\* and nothing is published until the core is called.
Silent == queue = <<>> /\ Publishing = {}

Working == {t \in Tasks : task[t].pc # "idle"}

Asking == {"profile", "options", "privilege", "setup", "setupCall", "apply",
           "fill", "call", "fail", "blame"}

\* ... connect, from Disconnected or from an error;
ConnectAt(r) ==
  \/ /\ r.pc \in Asking /\ Silent /\ status # "Starting"
     /\ status = "Stopped" \/ app = "Error"
  \/ r.pc \in {"build", "up"} /\ status = "Starting"

\* ... disconnect, from Connected;
DisconnectAt(r) ==
  /\ app # "Error"
  /\ \/ r.pc = "call" /\ Silent /\ status = "Started"
     \/ r.pc \in {"down", "fail"} /\ status = "Stopping"

\* ... reconnect, from Connected.
ReconnectAt(r) ==
  \/ r.pc \in {"options", "apply", "fill", "call", "fail"}
     /\ Silent /\ status = "Started"
  \/ r.pc \in {"down", "fail"} /\ status = "Stopping"
  \/ r.pc = "again" /\ status = "Stopped"
  \/ r.pc \in {"build", "up"} /\ status = "Starting"

At(r) == \/ r.kind = "connect" /\ ConnectAt(r)
         \/ r.kind = "disconnect" /\ DisconnectAt(r)
         \/ r.kind = "reconnect" /\ ReconnectAt(r)

OneCall ==
  ~overlap =>
    /\ ~crossed
    /\ \A t, u \in Busy : t = u
    /\ \A t \in Working : At(task[t])
    /\ Working = {} => status # "Starting"

\* A call that starts the core has filled the options.
Filled ==
  ~overlap =>
    \A t \in Working :
      task[t].pc \in {"call", "down", "again", "build"}
      /\ task[t].kind # "disconnect" => options # 0

\* What the user ended: the tunnel is down or on its way there, the app shows an
\* error only over a core that failed to stop, which refuses to start.
Ended ==
  wish = "off" /\ ~overlap =>
    /\ ~startedByUser
    /\ app = "Error" => status = "Stopping"
    /\ \A t \in Working : /\ task[t].kind # "reconnect"
                          /\ task[t].kind = "connect" => status = "Stopping"
    /\ status = "Started" => Working # {}

\* The profile a call has named is the app's; so is that of the tunnel, unless
\* an error is shown or a call is about to end the tunnel.
Follows ==
  ~overlap /\ ~missed =>
    /\ \A t \in Working :
         /\ task[t].kind # "disconnect" /\ task[t].pc # "profile"
              => task[t].profile = seen
         /\ task[t].pc = "up" => running = seen
    /\ status = "Started" =>
         \/ running = seen
         \/ app = "Error" /\ Silent
         \/ \E t \in Working : task[t].kind # "connect"

ConnInv == /\ TypeInv /\ LastTold /\ OneCall /\ Filled /\ OptionsAreWhole
           /\ Ended /\ Follows

----------------------------------------------------------------------------
(* The helpers.                                                             *)

\* What the app makes of the core's status tells them apart.
LEMMA Views ==
  /\ \A s \in Statuses : View(s) \in AppStates \ {"Loading", "Error"}
  /\ \A r, s \in Statuses : View(r) = View(s) => r = s
  /\ View("Started") = "Connected" /\ View("Starting") = "Connecting"
  /\ View("Stopped") = "Disconnected"
  BY DEF View, Statuses, AppStates

\* A message that is posted is the last of the queue.
LEMMA Posted ==
  ASSUME TypeInv, NEW t \in Tasks, PostStatus(t)
  PROVE  /\ queue' \in Seq(Message) /\ queue' # <<>>
         /\ queue'[Len(queue')].status = sending[t].status
<1> DEFINE m == [status |-> sending[t].status, alert |-> sending[t].alert]
<1>1. m \in Message
  BY DEF Message, Sending, TypeInv, TypeOK
<1>2. queue' = Append(queue, m)
  BY DEF PostStatus
<1>3. /\ Append(queue, m) \in Seq(Message)
      /\ Append(queue, m)[Len(Append(queue, m))] = m
      /\ Append(queue, m) # <<>>
  BY <1>1, AppendProperties DEF TypeInv, TypeOK
<1> QED
  BY <1>2, <1>3

\* What is published is a status, and a call that publishes is at no await.
LEMMA Propagated ==
  ASSUME TypeInv, NEW t \in Tasks, NEW s \in Statuses, NEW a \in BOOLEAN,
         Propagate(t, s, a)
  PROVE  /\ status' = s /\ queue' = queue /\ crossed' \in BOOLEAN
         /\ sending' \in [Tasks -> Sending]
         /\ sending'[t].at = "written" /\ Publishing' = Publishing \cup {t}
         /\ ~crossed' => Publishing' = {t}
<1>1. [at |-> "written", status |-> s, alert |-> a] \in Sending
  BY DEF Sending
<1>2. /\ sending' \in [Tasks -> Sending] /\ sending'[t].at = "written"
      /\ \A u \in Tasks \ {t} : sending'[u] = sending[u]
  BY <1>1 DEF Propagate, TypeInv, TypeOK
<1>3. Publishing' = Publishing \cup {t}
  BY <1>2 DEF Publishing
<1> QED
  BY <1>2, <1>3 DEF Propagate

\* Marshalling and posting touch nothing but the message.
LEMMA Passing ==
  ASSUME TypeInv, NEW t \in Tasks, Marshal(t) \/ PostStatus(t)
  PROVE  /\ UNCHANGED <<app, startedByUser, active, seen, prefs, initialized,
                        port, status, running, options, ran, crossed, task,
                        timer, events, overlap, missed, wish>>
         /\ sending' \in [Tasks -> Sending] /\ queue' \in Seq(Message)
         /\ t \in Publishing /\ Publishing' \subseteq Publishing
<1> USE DEF db, core, hist
<1>1. CASE Marshal(t)
  <2>1. [sending[t] EXCEPT !.at = "marshalled", !.status = status] \in Sending
    BY DEF Sending, TypeInv, TypeOK
  <2>2. sending' = [sending EXCEPT ![t] = [sending[t] EXCEPT !.at = "marshalled",
                                                           !.status = status]]
    BY <1>1 DEF Marshal, TypeInv, TypeOK
  <2>3. /\ sending' \in [Tasks -> Sending]
        /\ \A u \in Tasks \ {t} : sending'[u] = sending[u]
    BY <2>1, <2>2 DEF TypeInv, TypeOK
  <2> QED
    BY <1>1, <2>3 DEF Marshal, Publishing, TypeInv, TypeOK
<1>2. CASE PostStatus(t)
  <2>1. NotSending \in Sending
    BY DEF NotSending, Sending, Statuses
  <2>2. /\ sending' \in [Tasks -> Sending]
        /\ sending'[t].at = "none"
        /\ \A u \in Tasks \ {t} : sending'[u] = sending[u]
    BY <1>2, <2>1 DEF PostStatus, NotSending, TypeInv, TypeOK
  <2> QED
    BY <1>2, <2>2, Posted DEF PostStatus, Publishing
<1> QED
  BY <1>1, <1>2

\* A record of a call, put in the place of another.
LEMMA Moved ==
  ASSUME TypeInv, NEW t \in Tasks, NEW r \in TaskRec, Holds(r), Named(r),
         task' = [task EXCEPT ![t] = r]
  PROVE  CallsOK'
  BY DEF CallsOK, Named, TypeInv, TypeOK

LEMMA Idling == Idle \in TaskRec /\ Holds(Idle) /\ Named(Idle) /\ Idle.pc = "idle"
  BY DEF Idle, TaskRec, Places, Kinds, MaybeProfile, Options, Holds, Named

\* A call begins with no options; with a profile, unless it reads that first.
LEMMA Begun ==
  ASSUME TypeInv, NEW t \in Tasks, NEW kind \in Kinds,
         NEW at \in {"profile", "options", "call"}, NEW p \in MaybeProfile,
         kind = "disconnect" \/ p # "nil" \/ at = "profile",
         Begin(t, kind, at, p)
  PROVE  CallsOK' /\ overlap' \in BOOLEAN
<1> DEFINE r == [pc |-> at, kind |-> kind, profile |-> p, options |-> 0]
<1>1. r \in TaskRec /\ Holds(r) /\ Named(r)
  BY DEF TaskRec, Places, Options, Holds, Named
<1>2. task' = [task EXCEPT ![t] = r] /\ overlap' \in BOOLEAN
  BY DEF Begin, CallsOK, Named, TypeInv, TypeOK
<1> QED
  BY <1>1, <1>2, Moved

----------------------------------------------------------------------------
(* Types.                                                                   *)

LEMMA ArriveTypes ==
  ASSUME TypeInv, NEW t \in Tasks, Arrive(t)
  PROVE  TypeInv'
<1> USE MaxEventsAssumption DEF db, core, messages
<1>1. ASSUME Connect(t) \/ Disconnect(t)
      PROVE  CallsOK' /\ overlap' \in BOOLEAN
  BY <1>1, Begun DEF Connect, Disconnect, Kinds, MaybeProfile
<1>2. ASSUME NEW p \in MaybeProfile, Reconnect(t, p)
      PROVE  CallsOK' /\ overlap' \in BOOLEAN /\ startedByUser' \in BOOLEAN
  <2>1. CASE UNCHANGED <<task, startedByUser, overlap>>
    BY <2>1 DEF CallsOK, Named, TypeInv, TypeOK
  <2>2. CASE Disconnect(t) /\ UNCHANGED startedByUser
    BY <2>2, <1>1 DEF CallsOK, Named, TypeInv, TypeOK
  <2>3. CASE p # "nil" /\ startedByUser' = TRUE /\ Begin(t, "reconnect", "options", p)
    BY <2>3, Begun DEF Kinds
  <2> QED
    BY <1>2, <2>1, <2>2, <2>3 DEF Reconnect
<1>3. CASE Toggle(t)
  <2>1. Connect(t) \/ Disconnect(t)
    BY <1>3 DEF Toggle
  <2>2. startedByUser' \in BOOLEAN /\ wish' \in {"none", "on", "off"}
    BY <1>3 DEF Toggle, CallsOK, Named, TypeInv, TypeOK
  <2>3. /\ UNCHANGED <<app, seen, db, initialized, port, core, messages, timer, missed>>
        /\ Happens
    BY <1>3 DEF Toggle
  <2> QED
    BY <2>1, <2>2, <2>3, <1>1 DEF Happens, CallsOK, Named, TypeInv, TypeOK,
       PrefsCount, Versions
<1>4. CASE AutoConnect(t)
  <2>1. events' \in 0 .. MaxEvents /\ events' \in {events, events + 1}
    BY <1>4 DEF AutoConnect, Happens, TypeInv, TypeOK
  <2>2. CallsOK' /\ overlap' \in BOOLEAN
    BY <1>4, <1>1 DEF AutoConnect, CallsOK, Named, TypeInv, TypeOK
  <2>3. timer' \in BOOLEAN /\ UNCHANGED <<app, startedByUser, seen, db, initialized,
                                      port, core, messages, missed, wish>>
    BY <1>4 DEF AutoConnect
  <2>4. PrefsCount'
    <3>1. prefs \in Nat /\ events \in Nat /\ prefs' = prefs /\ prefs <= events + 1
      BY <2>3 DEF PrefsCount, Versions, TypeInv, TypeOK
    <3>2. CASE events' = events
      BY <3>1, <3>2 DEF PrefsCount
    <3>3. CASE events' = events + 1
      BY <3>1, <3>3 DEF PrefsCount
    <3> QED
      BY <2>1, <3>2, <3>3
  <2> QED
    BY <2>1, <2>2, <2>3, <2>4 DEF CallsOK, Named, TypeInv, TypeOK
<1>5. CASE ProfileChanged(t)
  <2>1. \/ Reconnect(t, active)
        \/ UNCHANGED <<task, startedByUser, overlap>>
    BY <1>5 DEF ProfileChanged
  <2>2. /\ UNCHANGED <<app, db, initialized, port, core, messages, timer, events, wish>>
        /\ seen' = active /\ missed' \in BOOLEAN
    BY <1>5 DEF ProfileChanged, CallsOK, Named, TypeInv, TypeOK
  <2> QED
    BY <2>1, <2>2, <1>2 DEF CallsOK, Named, TypeInv, TypeOK, PrefsCount
<1>6. CASE ProfileUpdated(t)
  BY <1>6, <1>2 DEF ProfileUpdated, Happens, CallsOK, Named, TypeInv, TypeOK,
     PrefsCount, Versions
<1>7. CASE Abort(t)
  BY <1>7, <1>1 DEF Abort, Happens, CallsOK, Named, TypeInv, TypeOK,
     PrefsCount, Versions
<1> QED
  BY <1>3, <1>4, <1>5, <1>6, <1>7 DEF Arrive

\* A call moves on and keeps its profile and its options.
LEMMA Went ==
  ASSUME TypeInv, NEW t \in Tasks, NEW l \in Places, task[t].pc # "idle",
         task[t].pc = "profile" => l = "idle",
         l \in {"privilege", "setup", "setupCall", "apply", "fill"}
           => task[t].pc \in {"privilege", "setup", "setupCall", "apply"},
         Goto(t, l)
  PROVE  CallsOK'
<1> DEFINE r == [task[t] EXCEPT !.pc = l]
<1>1. task[t] \in TaskRec /\ Holds(task[t])
  BY DEF CallsOK, Named, TypeInv, TypeOK
<1>2. /\ r \in TaskRec /\ r.pc = l /\ r.kind = task[t].kind
      /\ r.profile = task[t].profile /\ r.options = task[t].options
  BY <1>1 DEF TaskRec
<1>3. Holds(r)
  BY <1>1, <1>2 DEF Holds
<1>4. Named(r)
  BY <1>2 DEF CallsOK, Named, TypeInv, TypeOK
<1> QED
  BY <1>2, <1>3, <1>4, Moved DEF Goto

LEMMA Over ==
  ASSUME TypeInv, NEW t \in Tasks, End(t)
  PROVE  CallsOK'
  BY Moved, Idling DEF End

LEMMA GoOnTypes ==
  ASSUME TypeInv, NEW t \in Tasks, GoOn(t)
  PROVE  TypeInv'
<1> USE Went, Over DEF Return, Step, Places, db, core, hist, messages
<1>1. CASE ReadProfile(t)
  <2>1. CASE Return(t)
    BY <2>1 DEF CallsOK, Named, TypeInv, TypeOK, PrefsCount
  <2>2. CASE seen # "nil" /\ task' = [task EXCEPT ![t].pc = "options", ![t].profile = seen]
    <3> DEFINE r == [task[t] EXCEPT !.pc = "options", !.profile = seen]
    <3>1. r \in TaskRec /\ r.pc = "options" /\ r.profile = seen
      BY DEF CallsOK, Named, TypeInv, TypeOK, TaskRec
    <3>2. Holds(r)
      BY <3>1 DEF Holds
    <3>3. task' = [task EXCEPT ![t] = r]
      BY <2>2
    <3> HIDE DEF r
    <3>4. UNCHANGED <<app, startedByUser, seen, db, initialized, port, core,
                      messages, timer, hist>>
      BY <1>1, <2>2 DEF ReadProfile
    <3>5. Named(r)
      BY <2>2, <3>1 DEF Named
    <3>6. CallsOK'
      BY <3>1, <3>2, <3>3, <3>5, Moved
    <3> QED
      BY <3>4, <3>6 DEF CallsOK, Named, TypeInv, TypeOK, PrefsCount
  <2> QED
    BY <1>1, <2>1, <2>2 DEF ReadProfile
<1>2. CASE ReadOptions(t)
  <2>1. CASE Step(t, "fail")
    BY <1>2, <2>1 DEF ReadOptions, CallsOK, Named, TypeInv, TypeOK, PrefsCount
  <2>2. CASE ~Step(t, "fail")
    <3> DEFINE l == IF task[t].kind = "connect" THEN "privilege" ELSE "apply"
               r == [task[t] EXCEPT !.pc = l, !.options = prefs]
    <3>1. prefs \in Options \ {0}
      BY MaxEventsAssumption DEF CallsOK, Named, TypeInv, TypeOK, Options,
         Versions
    <3>2. /\ r \in TaskRec /\ r.pc = l /\ r.profile = task[t].profile
          /\ r.kind = task[t].kind /\ r.options = prefs
      BY <3>1 DEF CallsOK, Named, TypeInv, TypeOK, TaskRec
    <3>3. Holds(r)
      BY <3>1, <3>2 DEF Holds
    <3>4. task' = [task EXCEPT ![t] = r]
      BY <1>2, <2>2 DEF ReadOptions
    <3>5. Named(r)
      BY <1>2, <3>2 DEF ReadOptions, CallsOK, Named, TypeInv, TypeOK
    <3> HIDE DEF r
    <3>6. UNCHANGED <<app, startedByUser, seen, db, initialized, port, core,
                      messages, timer, hist>>
      BY <1>2, <2>2 DEF ReadOptions
    <3> QED
      BY <3>2, <3>3, <3>4, <3>5, <3>6, Moved DEF CallsOK, Named, TypeInv,
         TypeOK, PrefsCount
  <2> QED
    BY <2>1, <2>2
<1>3. CASE CheckPrivilege(t)
  BY <1>3 DEF CheckPrivilege, CallsOK, Named, TypeInv, TypeOK, PrefsCount
<1>4. CASE Setup(t)
  BY <1>4 DEF Setup, CallsOK, Named, TypeInv, TypeOK, PrefsCount
<1>5. CASE SetupCall(t)
  BY <1>5 DEF SetupCall, CallsOK, Named, TypeInv, TypeOK, PrefsCount
<1>6. CASE ResetOptions(t)
  BY <1>6 DEF ResetOptions, Options, CallsOK, Named, TypeInv, TypeOK, PrefsCount
<1>7. CASE FillOptions(t)
  <2>1. task[t].options \in Options
    BY DEF CallsOK, Named, TypeInv, TypeOK, TaskRec
  <2> QED
    BY <1>7, <2>1 DEF FillOptions, CallsOK, Named, TypeInv, TypeOK, PrefsCount
<1>8. CASE Fail(t)
  <2>1. CASE Goto(t, "blame") /\ startedByUser' = FALSE /\ UNCHANGED app
    BY <1>8, <2>1 DEF Fail, CallsOK, Named, TypeInv, TypeOK, PrefsCount
  <2>2. CASE End(t) /\ app' = "Error" /\ UNCHANGED startedByUser
    BY <1>8, <2>2 DEF Fail, AppStates, CallsOK, Named, TypeInv, TypeOK,
       PrefsCount
  <2> QED
    BY <1>8, <2>1, <2>2 DEF Fail
<1>9. CASE Blame(t)
  BY <1>9 DEF Blame, AppStates, CallsOK, Named, TypeInv, TypeOK, PrefsCount
<1>10. CASE Refused(t)
  BY <1>10 DEF Refused, CallsOK, Named, TypeInv, TypeOK, PrefsCount
<1> DEFINE Published == /\ status' \in Statuses /\ queue' = queue
                        /\ sending' \in [Tasks -> Sending] /\ crossed' \in BOOLEAN
<1>11. CASE StartCall(t) \/ StopCall(t) \/ StartAgain(t) \/ StartDone(t)
  <2>1. ASSUME NEW s \in Statuses, Propagate(t, s, FALSE) PROVE Published
    BY <2>1, Propagated
  <2>2. Published
    BY <1>11, <2>1 DEF StartCall, StopCall, StartAgain, StartDone, Statuses
  <2>3. CallsOK'
    BY <1>11 DEF StartCall, StopCall, StartAgain, StartDone
  <2>4. UNCHANGED <<app, startedByUser, seen, db, initialized, port, running,
                    options, ran, timer, hist>>
    BY <1>11 DEF StartCall, StopCall, StartAgain, StartDone
  <2> QED
    BY <2>2, <2>3, <2>4 DEF CallsOK, Named, TypeInv, TypeOK, PrefsCount
<1>12. CASE StopDone(t)
  <2>1. Published
    BY <1>12, Propagated DEF StopDone, Statuses, TypeInv, TypeOK
  <2>2. CallsOK'
    BY <1>12 DEF StopDone
  <2>3. /\ UNCHANGED <<app, startedByUser, seen, db, initialized, port, options,
                       timer, hist>>
        /\ running' \in MaybeProfile /\ ran' \in Options
    BY <1>12 DEF StopDone, MaybeProfile, Options
  <2> QED
    BY <2>1, <2>2, <2>3 DEF CallsOK, Named, TypeInv, TypeOK, PrefsCount
<1>13. CASE Build(t)
  <2>1. Published
    BY <1>13, Propagated DEF Build, Statuses, TypeInv, TypeOK
  <2>2. task[t].profile \in MaybeProfile
    BY DEF TypeInv, TypeOK, TaskRec
  <2>3. CallsOK'
    BY <1>13 DEF Build
  <2>4. /\ UNCHANGED <<app, startedByUser, seen, db, initialized, port, options,
                       timer, hist>>
        /\ running' \in MaybeProfile /\ ran' \in Options
    BY <1>13, <2>2 DEF Build, TypeInv, TypeOK
  <2> QED
    BY <2>1, <2>3, <2>4 DEF CallsOK, Named, TypeInv, TypeOK, PrefsCount
<1> QED
  BY <1>1, <1>2, <1>3, <1>4, <1>5, <1>6, <1>7, <1>8, <1>9, <1>10, <1>11, <1>12,
     <1>13 DEF GoOn

LEMMA AdvanceTypes ==
  ASSUME TypeInv, NEW t \in Tasks, Advance(t)
  PROVE  TypeInv'
<1>1. CASE Marshal(t) \/ PostStatus(t)
  BY <1>1, Passing DEF CallsOK, Named, TypeInv, TypeOK, PrefsCount
<1> QED
  BY <1>1, GoOnTypes DEF Advance

LEMMA Types == TypeInv /\ [Next]_vars => TypeInv'
<1> SUFFICES ASSUME TypeInv, [Next]_vars PROVE TypeInv'
  OBVIOUS
<1> USE MaxEventsAssumption DEF db, core, hist, messages
<1>1. ASSUME NEW t \in Tasks, Arrive(t) \/ Advance(t) PROVE TypeInv'
  BY <1>1, ArriveTypes, AdvanceTypes
<1>2. CASE ChangeActive
  <2>1. active' \in MaybeProfile
    BY <1>2 DEF ChangeActive
  <2>2. /\ UNCHANGED <<app, startedByUser, seen, prefs, initialized, port, core,
                       messages, task, timer, overlap, missed, wish>>
        /\ events' = events + 1 /\ events' \in 0 .. MaxEvents
    BY <1>2 DEF ChangeActive, Happens, CallsOK, Named, TypeInv, TypeOK
  <2>3. PrefsCount'
    BY <2>2 DEF CallsOK, Named, TypeInv, TypeOK, PrefsCount, Versions
  <2> QED
    BY <2>1, <2>2, <2>3 DEF CallsOK, Named, TypeInv, TypeOK
<1>3. CASE ChangePrefs
  BY <1>3 DEF ChangePrefs, Happens, Versions, CallsOK, Named, TypeInv, TypeOK,
     PrefsCount
<1>4. CASE Relaunch
  <2>1. SeedQueue \in Seq(Message)
    BY DEF SeedQueue, Message, Statuses
  <2>2. /\ task' \in [Tasks -> TaskRec]
        /\ \A t \in Tasks : task'[t].pc = "idle" /\ Holds(task'[t])
    BY <1>4, Idling DEF Relaunch
  <2>3. /\ app' \in AppStates /\ initialized' \in BOOLEAN /\ port' \in BOOLEAN
        /\ status' \in Statuses /\ running' \in MaybeProfile
        /\ options' \in Options /\ ran' \in Options /\ queue' = SeedQueue
        /\ seen' \in MaybeProfile /\ timer' \in BOOLEAN /\ overlap' \in BOOLEAN
        /\ missed' \in BOOLEAN /\ crossed' \in BOOLEAN
        /\ sending' \in [Tasks -> Sending]
    BY <1>4 DEF Relaunch, NotSending, Sending, AppStates, Statuses, MaybeProfile,
                Options, TypeInv, TypeOK
  <2>4. /\ wish' \in {"none", "on", "off"} /\ events' \in 0 .. MaxEvents
        /\ events' = events + 1 /\ UNCHANGED <<startedByUser, active, prefs>>
    BY <1>4 DEF Relaunch, Happens, CallsOK, Named, TypeInv, TypeOK
  <2>5. PrefsCount'
    BY <2>4 DEF CallsOK, Named, TypeInv, TypeOK, PrefsCount, Versions
  <2> QED
    BY <2>1, <2>2, <2>3, <2>4, <2>5 DEF CallsOK, Named, TypeInv, TypeOK
<1>5. CASE Deliver
  <2>1. Head(queue) \in Message /\ Tail(queue) \in Seq(Message)
    BY <1>5, HeadTailProperties DEF Deliver, CallsOK, Named, TypeInv, TypeOK
  <2>2. Head(queue).status \in Statuses /\ Head(queue).alert \in BOOLEAN
    BY <2>1 DEF Message
  <2> QED
    BY <1>5, <2>1, <2>2, Views DEF Deliver, CallsOK, Named, TypeInv, TypeOK,
       PrefsCount
<1>6. CASE UNCHANGED vars
  BY <1>6 DEF vars, CallsOK, Named, TypeInv, TypeOK, PrefsCount
<1> QED
  BY <1>1, <1>2, <1>3, <1>4, <1>5, <1>6 DEF Next

----------------------------------------------------------------------------
(* What the app was told last.                                              *)

LEMMA ToldStep == TypeInv /\ LastTold /\ [Next]_vars => LastTold'
<1> SUFFICES ASSUME TypeInv, LastTold, [Next]_vars PROVE LastTold'
  OBVIOUS
<1> USE DEF db, core, hist, messages
<1>1. ASSUME UNCHANGED <<messages, status>>, app' \in {app, "Error"} PROVE LastTold'
  BY <1>1 DEF LastTold, Told, Publishing
<1>2. ASSUME NEW t \in Tasks, NEW s \in Statuses, NEW a \in BOOLEAN,
             Propagate(t, s, a)
      PROVE  LastTold'
  BY <1>2, Propagated DEF LastTold
<1>3. ASSUME NEW t \in Tasks, Arrive(t) PROVE LastTold'
  <2>1. UNCHANGED <<messages, status, app>>
    BY <1>3 DEF Arrive, Toggle, AutoConnect, ProfileChanged, ProfileUpdated,
       Abort
  <2> QED
    BY <2>1, <1>1
<1>4. ASSUME NEW t \in Tasks, Advance(t) PROVE LastTold'
  <2>1. CASE Fail(t) \/ Blame(t)
    <3>1. UNCHANGED <<messages, status>> /\ app' \in {app, "Error"}
      BY <2>1 DEF Fail, Blame
    <3> QED
      BY <3>1, <1>1
  <2>2. CASE \/ ReadProfile(t) \/ ReadOptions(t) \/ CheckPrivilege(t)
             \/ Setup(t) \/ SetupCall(t) \/ ResetOptions(t) \/ FillOptions(t)
             \/ Refused(t)
    <3>1. UNCHANGED <<messages, status, app>>
      BY <2>2 DEF ReadProfile, ReadOptions, CheckPrivilege, Setup, SetupCall,
         ResetOptions, FillOptions, Refused, Return, Step
    <3> QED
      BY <3>1, <1>1
  <2>3. CASE StartCall(t) \/ StopCall(t) \/ StartAgain(t) \/ StartDone(t)
    BY <2>3, <1>2 DEF StartCall, StopCall, StartAgain, StartDone, Statuses
  <2>4. CASE StopDone(t) \/ Build(t)
    <3>1. \/ UNCHANGED <<messages, status, app>>
          \/ Propagate(t, "Stopped", TRUE) \/ Propagate(t, "Stopped", FALSE)
      BY <2>4 DEF StopDone, Build
    <3> QED
      BY <3>1, <1>1, <1>2 DEF Statuses
  <2>5. CASE Marshal(t)
    <3>1. /\ UNCHANGED <<app, queue, status, crossed>> /\ t \in Publishing
          /\ sending'[t].at = "marshalled" /\ sending'[t].status = status
          /\ \A u \in Tasks \ {t} : sending'[u] = sending[u]
      BY <2>5, Passing DEF Marshal, Sending, TypeInv, TypeOK
    <3>2. Publishing' = Publishing
      BY <3>1 DEF Publishing
    <3> QED
      BY <3>1, <3>2 DEF LastTold
  <2>6. CASE PostStatus(t)
    <3>1. /\ UNCHANGED <<app, status, crossed>> /\ t \in Publishing
          /\ queue' # <<>> /\ queue'[Len(queue')].status = sending[t].status
          /\ sending'[t].at = "none" /\ sending[t].at = "marshalled"
          /\ \A u \in Tasks \ {t} : sending'[u] = sending[u]
      BY <2>6, Passing, Posted DEF PostStatus, NotSending, TypeInv, TypeOK
    <3>2. Publishing' = Publishing \ {t}
      BY <3>1 DEF Publishing
    <3> QED
      BY <3>1, <3>2 DEF LastTold, Told
  <2> QED
    BY <1>4, <2>1, <2>2, <2>3, <2>4, <2>5, <2>6 DEF Advance, GoOn
<1>5. CASE ChangeActive \/ ChangePrefs \/ UNCHANGED vars
  BY <1>5, <1>1 DEF ChangeActive, ChangePrefs, vars
<1>6. CASE Relaunch
  <2>1. Publishing' = {}
    BY <1>6 DEF Relaunch, NotSending, Publishing
  <2> QED
    BY <1>6, <2>1 DEF Relaunch, SeedQueue, LastTold, Told
<1>7. CASE Deliver
  <2>1. /\ queue \in Seq(Message) /\ queue # <<>> /\ queue' = Tail(queue)
        /\ app' = View(Head(queue).status)
        /\ UNCHANGED <<status, sending, crossed>>
    BY <1>7 DEF Deliver, TypeInv, TypeOK
  <2>2. Publishing' = Publishing
    BY <2>1 DEF Publishing
  <2>3. ASSUME queue[Len(queue)].status = status PROVE Told'
    <3>1. CASE Tail(queue) = <<>>
      <4>1. Len(queue) = 1 /\ Head(queue) = queue[1]
        <5>1. Len(Tail(queue)) = 0 /\ Len(Tail(queue)) = Len(queue) - 1
          BY <2>1, <3>1, HeadTailProperties, EmptySeq
        <5> QED
          BY <2>1, <5>1, LenProperties
      <4> QED
        BY <2>1, <2>3, <3>1, <4>1 DEF Told
    <3>2. CASE Tail(queue) # <<>>
      <4>1. Len(Tail(queue)) \in 1 .. (Len(queue) - 1)
        BY <2>1, <3>2, HeadTailProperties, EmptySeq
      <4>2. Tail(queue)[Len(Tail(queue))] = queue[Len(queue)]
        BY <2>1, <4>1, HeadTailProperties
      <4> QED
        BY <2>1, <2>3, <3>2, <4>2 DEF Told
    <3> QED
      BY <3>1, <3>2
  <2> QED
    BY <2>1, <2>2, <2>3 DEF LastTold, Told
<1> QED
  BY <1>3, <1>4, <1>5, <1>6, <1>7 DEF Next

----------------------------------------------------------------------------
(* One call under way.                                                      *)

\* A call that goes on is the only one that does, and touches neither the app's
\* profile nor the histories.
LEMMA Frame ==
  ASSUME TypeInv, NEW t \in Tasks, GoOn(t)
  PROVE  /\ t \in Busy /\ UNCHANGED <<overlap, missed, wish, seen, active>>
         /\ \A u \in Tasks \ {t} : task'[u] = task[u]
         /\ task'[t] # Idle => task'[t].kind = task[t].kind
         /\ task'[t].pc = "idle" <=> task'[t] = Idle
<1> USE DEF Goto, End, Return, Step, Idle, Busy, TypeInv, TypeOK, TaskRec, db,
        hist
<1>1. CASE ReadProfile(t)
  BY <1>1 DEF ReadProfile
<1>2. CASE ReadOptions(t)
  BY <1>2 DEF ReadOptions
<1>3. CASE CheckPrivilege(t) \/ Setup(t) \/ SetupCall(t) \/ ResetOptions(t)
  BY <1>3 DEF CheckPrivilege, Setup, SetupCall, ResetOptions
<1>4. CASE FillOptions(t) \/ Fail(t) \/ Blame(t) \/ Refused(t)
  BY <1>4 DEF FillOptions, Fail, Blame, Refused
<1>5. CASE StartCall(t) \/ StopCall(t) \/ StartAgain(t) \/ StartDone(t)
  <2>1. /\ task[t].pc # "idle" /\ UNCHANGED <<hist, seen, active>>
        /\ End(t) \/ Goto(t, "build") \/ Goto(t, "down")
    BY <1>5 DEF StartCall, StopCall, StartAgain, StartDone
  <2> QED
    BY <2>1
<1>6. CASE StopDone(t) \/ Build(t)
  <2>1. /\ task[t].pc # "idle" /\ UNCHANGED <<hist, seen, active>>
        /\ End(t) \/ Goto(t, "fail") \/ Goto(t, "again") \/ Goto(t, "up")
    BY <1>6 DEF StopDone, Build
  <2> QED
    BY <2>1
<1> QED
  BY <1>1, <1>2, <1>3, <1>4, <1>5, <1>6 DEF GoOn

\* At its next await the core is as the call has left it, or the call is over
\* and nothing is being started.
LEMMA CallGoesOn ==
  ASSUME TypeInv, NEW t \in Tasks, GoOn(t), At(task[t])
  PROVE  IF task'[t].pc = "idle" THEN status' # "Starting" ELSE At(task[t])'
<1> USE DEF At, ConnectAt, DisconnectAt, ReconnectAt, Asking, Silent, Goto, End,
        Return, Step, Idle, TypeInv, TypeOK, TaskRec, Kinds, core, Propagate,
        messages, Publishing
<1>1. CASE ReadProfile(t)
  BY <1>1 DEF ReadProfile
<1>2. CASE ReadOptions(t)
  BY <1>2 DEF ReadOptions
<1>3. CASE CheckPrivilege(t) \/ Setup(t) \/ SetupCall(t)
  BY <1>3 DEF CheckPrivilege, Setup, SetupCall
<1>4. CASE ResetOptions(t) \/ FillOptions(t)
  BY <1>4 DEF ResetOptions, FillOptions
<1>5. CASE Fail(t) \/ Blame(t) \/ Refused(t)
  BY <1>5 DEF Fail, Blame, Refused
<1>6. CASE StartCall(t) \/ StopCall(t) \/ StartAgain(t)
  <2>1. CASE StartCall(t)
    BY <1>6, <2>1 DEF StartCall
  <2>2. CASE StopCall(t)
    BY <1>6, <2>2 DEF StopCall
  <2>3. CASE StartAgain(t)
    BY <1>6, <2>3 DEF StartAgain
  <2> QED
    BY <1>6, <2>1, <2>2, <2>3
<1>7. CASE StopDone(t)
  <2>1. task[t].pc = "down" /\ task[t].kind # "connect" /\ app' = app
    BY <1>7 DEF StopDone, At, ConnectAt
  <2>2. CASE Goto(t, "fail") /\ UNCHANGED <<status, messages>>
    BY <2>1, <2>2
  <2>3. CASE Propagate(t, "Stopped", FALSE)
    <3>1. status' = "Stopped"
      BY <2>3
    <3>2. \/ End(t)
          \/ task[t].kind = "reconnect" /\ Goto(t, "again")
      BY <1>7, <2>3 DEF StopDone
    <3> QED
      BY <2>1, <3>1, <3>2
  <2> QED
    BY <1>7, <2>2, <2>3 DEF StopDone
<1>8. CASE Build(t) \/ StartDone(t)
  <2>1. task[t].pc \in {"build", "up"} /\ status = "Starting"
    BY <1>8 DEF Build, StartDone
  <2>2. CASE End(t) /\ status' # "Starting"
    BY <2>2
  <2>3. CASE Goto(t, "up") /\ status' = status
    BY <2>1, <2>3
  <2> QED
    BY <1>8, <2>2, <2>3 DEF Build, StartDone
<1> QED
  BY <1>1, <1>2, <1>3, <1>4, <1>5, <1>6, <1>7, <1>8 DEF GoOn

LEMMA Works ==
  ASSUME NEW t \in Tasks, GoOn(t)
  PROVE  t \in Working
BY DEF Working, GoOn, ReadProfile, ReadOptions, CheckPrivilege, Setup, SetupCall,
   ResetOptions, FillOptions, Fail, Blame, Refused, StartCall, StopCall,
   StopDone, StartAgain, Build, StartDone

\* A call that goes on publishes one status or none.
LEMMA GoOnPublishes ==
  ASSUME TypeInv, NEW t \in Tasks, GoOn(t)
  PROVE  /\ Publishing' \subseteq Publishing \cup {t}
         /\ crossed' => crossed \/ Publishing \ {t} # {}
<1> USE DEF messages
<1>1. CASE UNCHANGED messages
  BY <1>1 DEF Publishing
<1>2. ASSUME NEW s \in Statuses, NEW a \in BOOLEAN, Propagate(t, s, a)
      PROVE  /\ Publishing' \subseteq Publishing \cup {t}
             /\ crossed' => Publishing \ {t} # {}
  BY <1>2, Propagated DEF Propagate
<1>3. CASE StartCall(t) \/ StopCall(t) \/ StartAgain(t) \/ StartDone(t)
  BY <1>2, <1>3 DEF StartCall, StopCall, StartAgain, StartDone, Statuses
<1>4. CASE StopDone(t) \/ Build(t)
  BY <1>1, <1>2, <1>4 DEF StopDone, Build, Statuses
<1>5. CASE \/ ReadProfile(t) \/ ReadOptions(t) \/ CheckPrivilege(t)
           \/ Setup(t) \/ SetupCall(t) \/ ResetOptions(t) \/ FillOptions(t)
           \/ Fail(t) \/ Blame(t) \/ Refused(t)
  BY <1>1, <1>5 DEF ReadProfile, ReadOptions, CheckPrivilege, Setup, SetupCall,
     ResetOptions, FillOptions, Fail, Blame, Refused, Return, Step
<1> QED
  BY <1>3, <1>4, <1>5 DEF GoOn

\* What arrives begins one call, or none; what the core does is not touched.
LEMMA ArriveSteps ==
  ASSUME TypeInv, NEW t \in Tasks, Arrive(t)
  PROVE  /\ UNCHANGED <<app, queue, sending, crossed, status, running, options, ran>>
         /\ \/ UNCHANGED <<task, overlap, startedByUser, wish>>
            \/ /\ Connect(t) /\ app \in {"Error", "Disconnected"}
               /\ app = "Error" => UNCHANGED <<startedByUser, wish>>
               /\ app # "Error" => (startedByUser /\ UNCHANGED wish) \/ wish' = "on"
               /\ UNCHANGED <<seen, missed>>
            \/ /\ Disconnect(t) /\ app \in {"Connected", "Connecting"}
               /\ \/ UNCHANGED <<startedByUser, wish>>
                  \/ startedByUser' = FALSE /\ app = "Connected"
            \/ /\ app = "Connected" /\ UNCHANGED wish
               /\ Begin(t, "reconnect", "options", seen')
<1> USE DEF db, core, hist, messages
<1>1. CASE Toggle(t)
  BY <1>1 DEF Toggle
<1>2. CASE AutoConnect(t)
  BY <1>2 DEF AutoConnect, TypeInv, TypeOK
<1>3. CASE ProfileChanged(t)
  BY <1>3 DEF ProfileChanged, Reconnect
<1>4. CASE ProfileUpdated(t)
  BY <1>4 DEF ProfileUpdated, Reconnect
<1>5. CASE Abort(t)
  BY <1>5 DEF Abort
<1> QED
  BY <1>1, <1>2, <1>3, <1>4, <1>5 DEF Arrive

\* A call that overlaps none finds nothing under way and everything delivered.
LEMMA Alone ==
  ASSUME TypeInv, NEW t \in Tasks, NEW kind, NEW at, NEW p,
         Begin(t, kind, at, p), ~overlap'
  PROVE  /\ ~overlap /\ Busy = {} /\ Silent
         /\ task'[t].pc = at /\ task'[t].kind = kind /\ task'[t].profile = p
         /\ \A u \in Tasks \ {t} : task'[u].pc = "idle"
<1>1. ~overlap /\ Busy = {} /\ Silent
  BY DEF Begin, Silent, Busy, TypeInv, TypeOK
<1>2. task'[t] = [pc |-> at, kind |-> kind, profile |-> p, options |-> 0]
  BY DEF Begin, TypeInv, TypeOK
<1>3. \A u \in Tasks \ {t} : task'[u] = task[u]
  BY DEF Begin, TypeInv, TypeOK
<1>4. \A u \in Tasks \ {t} : task'[u].pc = "idle"
  BY <1>1, <1>3 DEF Busy
<1> QED
  BY <1>1, <1>2, <1>4

\* What an arrival leaves, when it overlaps nothing: nothing new, or one call
\* over a core that is still, and that runs unless the call is to connect.
LEMMA Beginning ==
  ASSUME TypeInv, LastTold, OneCall, NEW t \in Tasks, Arrive(t), ~overlap'
  PROVE  \/ UNCHANGED <<task, overlap, startedByUser, wish>>
         \/ /\ ~overlap /\ Busy = {} /\ Silent
            /\ \A u \in Tasks \ {t} : task'[u].pc = "idle"
            /\ \/ /\ task'[t].kind = "connect" /\ task'[t].pc = "profile"
                  /\ status = "Stopped" \/ app = "Error"
                  /\ app = "Error" => UNCHANGED <<startedByUser, wish>>
                  /\ app # "Error" => (startedByUser /\ UNCHANGED wish) \/ wish' = "on"
                  /\ UNCHANGED <<seen, missed>>
               \/ /\ task'[t].kind = "disconnect" /\ task'[t].pc = "call"
                  /\ status = "Started" /\ app = "Connected"
                  /\ UNCHANGED <<startedByUser, wish>> \/ startedByUser' = FALSE
               \/ /\ task'[t].kind = "reconnect" /\ task'[t].pc = "options"
                  /\ task'[t].profile = seen'
                  /\ status = "Started" /\ app = "Connected" /\ UNCHANGED wish
<1>1. ASSUME Silent, ~crossed, app # "Error" PROVE app = View(status)
  BY <1>1 DEF Silent, LastTold, Told
<1>2. ~overlap => ~crossed
  BY DEF OneCall
<1>6. status \in Statuses /\ {"Started", "Starting", "Stopped"} \subseteq Statuses
  BY DEF TypeInv, TypeOK, Statuses
<1>3. CASE Connect(t) /\ app \in {"Error", "Disconnected"}
  <2>1. /\ ~overlap /\ Busy = {} /\ Silent /\ task'[t].kind = "connect"
        /\ task'[t].pc = "profile" /\ \A u \in Tasks \ {t} : task'[u].pc = "idle"
    <3>1. Begin(t, "connect", "profile", "nil")
      BY <1>3 DEF Connect
    <3> QED
      BY <3>1, Alone
  <2>2. status = "Stopped" \/ app = "Error"
    BY <1>1, <1>2, <1>3, <1>6, <2>1, Views
  <2>3. ~UNCHANGED task
    BY <2>1 DEF Busy
  <2>4. task'[t].kind \notin {"disconnect", "reconnect"}
    BY <2>1
  <2> QED
    BY <1>3, <2>1, <2>2, <2>3, ArriveSteps DEF Connect, Disconnect, Begin, Busy,
       TypeInv, TypeOK
<1>4. CASE Disconnect(t) /\ app \in {"Connected", "Connecting"}
  <2>1. /\ ~overlap /\ Busy = {} /\ Silent /\ task'[t].kind = "disconnect"
        /\ task'[t].pc = "call" /\ \A u \in Tasks \ {t} : task'[u].pc = "idle"
    <3>1. Begin(t, "disconnect", "call", "nil")
      BY <1>4 DEF Disconnect
    <3> QED
      BY <3>1, Alone
  <2>2. status = "Started" /\ app = "Connected"
    BY <1>1, <1>2, <1>4, <1>6, <2>1, Views DEF OneCall, Working, Busy
  <2>3. UNCHANGED <<startedByUser, wish>> \/ startedByUser' = FALSE
    <3>1. ~Connect(t)
      <4>1. Begin(t, "connect", "profile", "nil") => task'[t].kind = "connect"
        BY Alone
      <4> QED
        BY <2>1, <4>1 DEF Connect
    <3>2. ~Begin(t, "reconnect", "options", seen')
      BY <2>1, Alone
    <3>3. task' # task
      BY <2>1 DEF Busy
    <3> QED
      BY <3>1, <3>2, <3>3, ArriveSteps
  <2> QED
    BY <1>4, <2>1, <2>2, <2>3, ArriveSteps
<1>5. CASE Begin(t, "reconnect", "options", seen') /\ app = "Connected" /\ UNCHANGED wish
  <2>1. /\ ~overlap /\ Busy = {} /\ Silent /\ task'[t].kind = "reconnect"
        /\ task'[t].pc = "options" /\ task'[t].profile = seen'
        /\ \A u \in Tasks \ {t} : task'[u].pc = "idle"
    <3>1. Begin(t, "reconnect", "options", seen')
      BY <1>5
    <3> QED
      BY <3>1, Alone
  <2>2. status = "Started"
    BY <1>1, <1>2, <1>5, <1>6, <2>1, Views
  <2> QED
    BY <1>5, <2>1, <2>2
<1> QED
  BY <1>3, <1>4, <1>5, ArriveSteps

\* The other steps: those of the rest of the app and the delivery of a message
\* leave the calls and the core alone, and Relaunch leaves none.
LEMMA OtherSteps ==
  ASSUME TypeInv, ChangeActive \/ ChangePrefs \/ Deliver \/ UNCHANGED vars
  PROVE  /\ UNCHANGED <<task, sending, crossed, overlap, missed, wish, seen, status,
                        running, options, ran>>
         /\ \/ UNCHANGED <<app, queue, startedByUser>>
            \/ /\ queue # <<>> /\ app' # "Error"
               /\ startedByUser' => startedByUser
<1>1. CASE ChangeActive \/ ChangePrefs \/ UNCHANGED vars
  BY <1>1 DEF ChangeActive, ChangePrefs, vars, core, db, hist, messages
<1>2. CASE Deliver
  <2>1. Head(queue).status \in Statuses
    <3>1. Head(queue) \in Message
      BY <1>2, HeadTailProperties DEF Deliver, TypeInv, TypeOK
    <3> QED
      BY <3>1 DEF Message
  <2> QED
    BY <1>2, <2>1, Views DEF Deliver, core, db, hist, TypeInv, TypeOK
<1> QED
  BY <1>1, <1>2

LEMMA NoneLeft ==
  ASSUME TypeInv, Relaunch
  PROVE  /\ Busy' = {} /\ Working' = {} /\ ~crossed'
         /\ status' = "Stopped" /\ running' = "nil" /\ ran' = 0
         /\ app' = "Loading" /\ UNCHANGED startedByUser
         /\ wish' = "off" => wish = "off" /\ ~overlap
  BY Idling DEF Relaunch, Busy, Working, Publishing, NotSending, TypeInv, TypeOK

\* One call under way: at most, and with the core as it has left it.
LEMMA OneCallStep ==
  TypeInv /\ LastTold /\ OneCall /\ [Next]_vars => OneCall'
<1> DEFINE O == /\ ~crossed
                /\ \A t, u \in Busy : t = u
                /\ \A t \in Working : At(task[t])
                /\ Working = {} => status # "Starting"
<1> SUFFICES ASSUME TypeInv, LastTold, OneCall, [Next]_vars, ~overlap' PROVE O'
  BY DEF OneCall
<1>1. ASSUME NEW t \in Tasks, Advance(t) PROVE O'
  <2>1. t \in Busy /\ ~overlap /\ \A u \in Tasks \ {t} : task'[u] = task[u]
    BY <1>1, Frame, Passing DEF Advance, Busy
  <2>2. O /\ Busy = {t} /\ Publishing \subseteq {t} /\ Working \subseteq {t}
    BY <2>1 DEF OneCall, Busy, Working
  <2>3. CASE Marshal(t) \/ PostStatus(t)
    <3>1. /\ UNCHANGED <<app, status, crossed, task>> /\ t \in Publishing
          /\ Publishing' \subseteq Publishing
      BY <2>3, Passing
    <3>2. Busy' \subseteq Busy /\ Working' = Working
      BY <3>1 DEF Busy, Working
    <3>3. ASSUME NEW u \in Working PROVE At(task[u])'
      <4>1. At(task[u]) /\ ~Silent
        BY <2>2, <3>1 DEF Silent
      <4> QED
        BY <3>1, <4>1 DEF At, ConnectAt, DisconnectAt, ReconnectAt
    <3> QED
      BY <2>2, <3>1, <3>2, <3>3
  <2>4. CASE t \notin Publishing /\ GoOn(t)
    <3>1. At(task[t])
      BY <2>2, <2>4, Works
    <3>2. IF task'[t].pc = "idle" THEN status' # "Starting" ELSE At(task[t])'
      BY <2>4, <3>1, CallGoesOn
    <3>3. Working' \subseteq {t} /\ (task'[t].pc = "idle" => Working' = {})
      BY <2>1, <2>2 DEF Working
    <3>4. ~crossed' /\ Publishing' \subseteq {t}
      BY <2>2, <2>4, GoOnPublishes
    <3>5. Busy' \subseteq {t}
      BY <3>3, <3>4 DEF Busy, Working
    <3> QED
      BY <3>2, <3>3, <3>4, <3>5 DEF Working
  <2> QED
    BY <1>1, <2>3, <2>4 DEF Advance
<1>2. ASSUME NEW t \in Tasks, Arrive(t) PROVE O'
  <2>1. UNCHANGED <<app, queue, sending, crossed, status>>
    BY <1>2, ArriveSteps
  <2>2. CASE UNCHANGED <<task, overlap, startedByUser, wish>>
    BY <2>1, <2>2 DEF OneCall, Busy, Working, Publishing, At, ConnectAt,
       DisconnectAt, ReconnectAt, Silent
  <2>3. CASE ~UNCHANGED <<task, overlap, startedByUser, wish>>
    <3>1. /\ ~overlap /\ Busy = {} /\ Silent
          /\ \A u \in Tasks \ {t} : task'[u].pc = "idle"
      BY <1>2, <2>3, Beginning
    <3>2. Silent' /\ Publishing' = {}
      BY <2>1, <3>1 DEF Silent, Publishing
    <3>3. Busy' \subseteq {t} /\ Working' \subseteq {t} /\ ~crossed
          /\ status # "Starting"
      BY <3>1, <3>2 DEF Busy, Working, OneCall
    <3>4. At(task[t])'
      <4>1. \/ /\ task'[t].kind = "connect" /\ task'[t].pc = "profile"
               /\ status = "Stopped" \/ app = "Error"
            \/ /\ task'[t].kind = "disconnect" /\ task'[t].pc = "call"
               /\ status = "Started" /\ app = "Connected"
            \/ /\ task'[t].kind = "reconnect" /\ task'[t].pc = "options"
               /\ status = "Started"
        BY <1>2, <2>3, Beginning
      <4> QED
        BY <2>1, <3>2, <3>3, <4>1 DEF At, ConnectAt, DisconnectAt, ReconnectAt,
           Asking
    <3> QED
      BY <2>1, <3>3, <3>4
  <2> QED
    BY <2>2, <2>3
<1>3. CASE ChangeActive \/ ChangePrefs \/ Deliver \/ UNCHANGED vars
  <2>1. UNCHANGED <<task, sending, crossed, overlap, status>>
    BY <1>3, OtherSteps
  <2>2. UNCHANGED <<app, queue>> \/ (~Silent /\ app' # "Error")
    BY <1>3, OtherSteps DEF Silent
  <2> QED
    BY <2>1, <2>2 DEF OneCall, Busy, Working, Publishing, At, ConnectAt,
       DisconnectAt, ReconnectAt, Silent
<1>4. CASE Relaunch
  BY <1>4, NoneLeft
<1> QED
  BY <1>1, <1>2, <1>3, <1>4 DEF Next

\* A call that starts the core has filled the options, and the core runs with
\* options that were filled.
LEMMA FilledStep ==
  /\ TypeInv /\ LastTold /\ OneCall /\ Filled /\ OptionsAreWhole /\ [Next]_vars
  => Filled' /\ OptionsAreWhole'
<1> SUFFICES ASSUME TypeInv, LastTold, OneCall, Filled, OptionsAreWhole,
                    [Next]_vars, ~overlap'
             PROVE  /\ \A t \in Working' :
                         task'[t].pc \in {"call", "down", "again", "build"}
                         /\ task'[t].kind # "disconnect" => options' # 0
                    /\ running' # "nil" => ran' # 0
  BY DEF Filled, OptionsAreWhole
<1>0. ASSUME NEW t \in Tasks, Marshal(t) \/ PostStatus(t)
      PROVE  /\ \A u \in Working' :
                  task'[u].pc \in {"call", "down", "again", "build"}
                  /\ task'[u].kind # "disconnect" => options' # 0
             /\ running' # "nil" => ran' # 0
  BY <1>0, Passing DEF Filled, OptionsAreWhole, Working
<1>1. ASSUME NEW t \in Tasks, t \notin Publishing, GoOn(t)
      PROVE  /\ \A u \in Working' :
                  task'[u].pc \in {"call", "down", "again", "build"}
                  /\ task'[u].kind # "disconnect" => options' # 0
             /\ running' # "nil" => ran' # 0
  <2>1. t \in Busy /\ ~overlap /\ \A u \in Tasks \ {t} : task'[u] = task[u]
    BY <1>1, Frame
  <2>2. t \in Working /\ Working' \subseteq {t} /\ At(task[t])
    BY <1>1, <2>1, Works DEF OneCall, Busy, Working
  <2>3. task[t].pc = "fill" => task[t].options # 0
    BY DEF TypeInv, CallsOK, Holds
  <2>4. task[t].pc \in {"call", "down", "again", "build"}
        /\ task[t].kind # "disconnect" => options # 0
    BY <2>1, <2>2 DEF Filled
  <2>5. task[t].pc = "build" => task[t].kind # "disconnect"
    BY <2>2 DEF At, DisconnectAt
  <2>6. /\ task'[t].pc \in {"call", "down", "again", "build"}
           /\ task'[t].kind # "disconnect" => options' # 0
        /\ UNCHANGED <<running, ran>> \/ running' = "nil" \/ ran' # 0
    <3> USE <2>3, <2>4, <2>5 DEF Goto, End, Return, Step, Idle, TypeInv,
            TypeOK, TaskRec,
            core
    <3>1. CASE ReadProfile(t)
      BY <3>1 DEF ReadProfile
    <3>2. CASE ReadOptions(t)
      BY <3>2 DEF ReadOptions
    <3>3. CASE CheckPrivilege(t) \/ Setup(t) \/ SetupCall(t)
      BY <3>3 DEF CheckPrivilege, Setup, SetupCall
    <3>4. CASE ResetOptions(t) \/ FillOptions(t)
      BY <3>4 DEF ResetOptions, FillOptions
    <3>5. CASE Fail(t) \/ Blame(t) \/ Refused(t)
      BY <3>5 DEF Fail, Blame, Refused
    <3>6. CASE StartCall(t) \/ StopCall(t) \/ StartAgain(t)
      <4>1. /\ UNCHANGED <<running, options, ran>>
            /\ \/ task[t].pc = "call" /\ Goto(t, "build")
               \/ task[t].pc = "call" /\ Goto(t, "down")
               \/ task[t].pc = "again" /\ Goto(t, "build")
        BY <3>6 DEF StartCall, StopCall, StartAgain
      <4> QED
        BY <4>1
    <3>7. CASE StopDone(t)
      <4>1. /\ task[t].pc = "down" /\ running' = "nil" /\ options' = options
            /\ End(t) \/ Goto(t, "fail") \/ Goto(t, "again")
        BY <3>7 DEF StopDone
      <4> QED
        BY <4>1
    <3>8. CASE Build(t) \/ StartDone(t)
      <4>1. /\ task[t].pc \in {"build", "up"} /\ (End(t) \/ Goto(t, "up"))
            /\ \/ UNCHANGED <<running, ran>>
               \/ task[t].pc = "build" /\ ran' = options
        BY <3>8 DEF Build, StartDone
      <4> QED
        BY <4>1
    <3> QED
      BY <1>1, <3>1, <3>2, <3>3, <3>4, <3>5, <3>6, <3>7, <3>8 DEF GoOn
  <2> QED
    BY <2>1, <2>2, <2>6 DEF OptionsAreWhole
<1>2. ASSUME NEW t \in Tasks, Arrive(t)
      PROVE  /\ \A u \in Working' :
                  task'[u].pc \in {"call", "down", "again", "build"}
                  /\ task'[u].kind # "disconnect" => options' # 0
             /\ running' # "nil" => ran' # 0
  <2>1. UNCHANGED <<running, options, ran>>
    BY <1>2, ArriveSteps
  <2>2. CASE UNCHANGED <<task, overlap, startedByUser, wish>>
    BY <2>1, <2>2 DEF Filled, OptionsAreWhole, Busy, Working
  <2>3. CASE ~UNCHANGED <<task, overlap, startedByUser, wish>>
    <3>1. ~overlap /\ \A u \in Tasks \ {t} : task'[u].pc = "idle"
      BY <1>2, <2>3, Beginning
    <3>2. task'[t].pc \in {"profile", "options"} \/ task'[t].kind = "disconnect"
      BY <1>2, <2>3, Beginning
    <3> QED
      BY <2>1, <3>1, <3>2 DEF OptionsAreWhole, Busy, Working
  <2> QED
    BY <2>2, <2>3
<1>3. CASE ChangeActive \/ ChangePrefs \/ Deliver \/ UNCHANGED vars
  BY <1>3, OtherSteps DEF Filled, OptionsAreWhole, Busy, Working
<1>4. CASE Relaunch
  BY <1>4, NoneLeft
<1> QED
  BY <1>0, <1>1, <1>2, <1>3, <1>4 DEF Next, Advance

\* What the user ended stays ended.
LEMMA EndedStep ==
  TypeInv /\ LastTold /\ OneCall /\ Ended /\ [Next]_vars => Ended'
<1> DEFINE E == /\ ~startedByUser
                /\ app = "Error" => status = "Stopping"
                /\ \A t \in Working : /\ task[t].kind # "reconnect"
                                      /\ task[t].kind = "connect" => status = "Stopping"
                /\ status = "Started" => Working # {}
<1> SUFFICES ASSUME TypeInv, LastTold, OneCall, Ended, [Next]_vars,
                    wish' = "off", ~overlap'
             PROVE  E'
  BY DEF Ended
<1>0. ASSUME NEW t \in Tasks, Marshal(t) \/ PostStatus(t) PROVE E'
  BY <1>0, Passing DEF Ended, Working
<1>1. ASSUME NEW t \in Tasks, t \notin Publishing, GoOn(t) PROVE E'
  <2>1. /\ t \in Busy /\ ~overlap /\ wish = "off"
        /\ \A u \in Tasks \ {t} : task'[u] = task[u]
        /\ task'[t] # Idle => task'[t].kind = task[t].kind
        /\ task'[t].pc = "idle" <=> task'[t] = Idle
    BY <1>1, Frame
  <2>2. Working = {t} /\ Working' \subseteq {t} /\ At(task[t])
    BY <1>1, <2>1, Works DEF OneCall, Busy, Working
  <2>3. /\ ~startedByUser
        /\ app = "Error" => status = "Stopping"
        /\ \/ task[t].kind = "disconnect"
           \/ task[t].kind = "connect" /\ status = "Stopping"
    BY <2>1, <2>2 DEF Ended, TypeInv, TypeOK, TaskRec, Kinds
  <2>4. /\ ~startedByUser'
        /\ app' = "Error" => status' = "Stopping"
        /\ \/ task[t].kind = "disconnect"
           \/ task[t].kind = "connect" /\ status' = "Stopping"
        /\ status' = "Started" => task'[t].pc # "idle"
    <3> USE <2>1, <2>2, <2>3
    <3>1. CASE /\ UNCHANGED <<startedByUser, app, status>>
               /\ task'[t].pc # "idle" \/ status # "Started"
      BY <3>1
    <3>2. CASE Fail(t) \/ Blame(t)
      <4>1. status = "Stopping" /\ status' = status
        BY <3>2 DEF At, DisconnectAt, Fail, Blame, core, messages
      <4>2. ~startedByUser'
        BY <3>2 DEF Fail, Blame
      <4> QED
        BY <4>1, <4>2
    <3>3. CASE StartCall(t) \/ StartAgain(t) \/ Build(t) \/ StartDone(t)
      <4>1. CASE task[t].kind = "connect" /\ status = "Stopping"
        BY <3>3, <4>1 DEF StartCall, StartAgain, Build, StartDone, At,
           ConnectAt, Asking
      <4>2. CASE task[t].kind = "disconnect"
        BY <3>3, <4>2 DEF StartCall, StartAgain, Build, StartDone, At,
           DisconnectAt
      <4> QED
        BY <4>1, <4>2
    <3>4. CASE ReadProfile(t) \/ ReadOptions(t) \/ CheckPrivilege(t)
      <4>1. UNCHANGED <<startedByUser, app, status>>
        BY <3>4 DEF ReadProfile, ReadOptions, CheckPrivilege, Return, Step, core, messages
      <4>2. status # "Started"
        BY <3>4 DEF ReadProfile, ReadOptions, CheckPrivilege, At, DisconnectAt
      <4> QED
        BY <3>1, <4>1, <4>2
    <3>5. CASE Setup(t) \/ SetupCall(t) \/ ResetOptions(t) \/ FillOptions(t)
      <4>1. UNCHANGED <<startedByUser, app, status>>
        BY <3>5 DEF Setup, SetupCall, ResetOptions, FillOptions, Step, core, messages
      <4>2. status # "Started"
        BY <3>5 DEF Setup, SetupCall, ResetOptions, FillOptions, At,
           DisconnectAt
      <4> QED
        BY <3>1, <4>1, <4>2
    <3>6. CASE Refused(t)
      <4>1. UNCHANGED <<startedByUser, app, status>> /\ status # "Started"
        BY <3>6 DEF Refused, Return, core
      <4> QED
        BY <3>1, <4>1
    <3>7. CASE StopCall(t) \/ StopDone(t)
      <4>1. task[t].kind = "disconnect"
        BY <3>7 DEF StopCall, StopDone, At, ConnectAt, Asking
      <4>2. UNCHANGED <<startedByUser, app>> /\ status' \in {"Stopping", "Stopped", status}
        BY <3>7 DEF StopCall, StopDone, Propagate
      <4>3. app # "Error"
        BY <4>1 DEF At, DisconnectAt
      <4>4. status' # "Started" \/ task'[t].pc # "idle"
        <5>1. status' = status => task'[t].pc # "idle"
          BY <3>7 DEF StopCall, StopDone, Propagate, Goto, At,
             DisconnectAt, TypeInv,
             TypeOK, TaskRec
        <5> QED
          BY <4>2, <5>1
      <4> QED
        BY <4>1, <4>2, <4>3, <4>4
    <3> QED
      BY <1>1, <3>2, <3>3, <3>4, <3>5, <3>6, <3>7 DEF GoOn
  <2> QED
    BY <2>1, <2>2, <2>4 DEF Busy, Working
<1>2. ASSUME NEW t \in Tasks, Arrive(t) PROVE E'
  <2>1. UNCHANGED <<app, queue, sending, status>>
    BY <1>2, ArriveSteps
  <2>2. CASE UNCHANGED <<task, overlap, startedByUser, wish>>
    BY <2>1, <2>2 DEF Ended, Busy, Working
  <2>3. CASE ~UNCHANGED <<task, overlap, startedByUser, wish>>
    <3>1. /\ ~overlap /\ Busy = {} /\ Silent
          /\ \A u \in Tasks \ {t} : task'[u].pc = "idle"
      BY <1>2, <2>3, Beginning
    <3>2. CASE /\ task'[t].kind = "connect" /\ task'[t].pc = "profile"
               /\ app = "Error" /\ UNCHANGED <<startedByUser, wish>>
      BY <2>1, <3>1, <3>2 DEF Ended, Busy, Working
    <3>3. CASE /\ task'[t].kind = "disconnect" /\ task'[t].pc = "call"
               /\ status = "Started" /\ app = "Connected"
               /\ UNCHANGED <<startedByUser, wish>> \/ startedByUser' = FALSE
      BY <2>1, <3>1, <3>3 DEF Ended, Busy, Working
    <3>4. CASE /\ task'[t].kind = "connect" /\ startedByUser /\ UNCHANGED wish
      BY <3>1, <3>4 DEF Ended
    <3>5. CASE status = "Started" /\ UNCHANGED wish
               /\ task'[t].kind = "reconnect"
      BY <3>1, <3>5 DEF Ended, Busy, Working
    <3> QED
      BY <1>2, <2>3, <3>2, <3>3, <3>4, <3>5, Beginning
  <2> QED
    BY <2>2, <2>3
<1>3. CASE ChangeActive \/ ChangePrefs \/ Deliver \/ UNCHANGED vars
  <2>1. /\ UNCHANGED <<task, overlap, wish, status>>
        /\ startedByUser' => startedByUser
        /\ app' = "Error" => app = "Error"
    BY <1>3, OtherSteps
  <2> QED
    BY <2>1 DEF Ended, Busy, Working
<1>4. CASE Relaunch
  BY <1>4, NoneLeft DEF Ended
<1> QED
  BY <1>0, <1>1, <1>2, <1>3, <1>4 DEF Next, Advance

\* The tunnel follows the app's profile.
LEMMA FollowsStep ==
  TypeInv /\ LastTold /\ OneCall /\ Follows /\ [Next]_vars => Follows'
<1> DEFINE F == /\ \A t \in Working :
                     /\ task[t].kind # "disconnect" /\ task[t].pc # "profile"
                          => task[t].profile = seen
                     /\ task[t].pc = "up" => running = seen
                /\ status = "Started" =>
                     \/ running = seen
                     \/ app = "Error" /\ Silent
                     \/ \E t \in Working : task[t].kind # "connect"
<1> SUFFICES ASSUME TypeInv, LastTold, OneCall, Follows, [Next]_vars,
                    ~missed', ~overlap'
             PROVE  F'
  BY DEF Follows
<1>0. ASSUME NEW t \in Tasks, Marshal(t) \/ PostStatus(t) PROVE F'
  BY <1>0, Passing DEF Follows, Working, Silent, Publishing
<1>1. ASSUME NEW t \in Tasks, t \notin Publishing, GoOn(t) PROVE F'
  <2>1. /\ t \in Busy /\ ~overlap /\ ~missed /\ seen' = seen
        /\ \A u \in Tasks \ {t} : task'[u] = task[u]
        /\ task'[t] # Idle => task'[t].kind = task[t].kind
        /\ task'[t].pc = "idle" <=> task'[t] = Idle
    BY <1>1, Frame
  <2>2. /\ Busy = {t} /\ Publishing = {} /\ Working = {t} /\ Working' \subseteq {t}
        /\ At(task[t])
    BY <1>1, <2>1, Works DEF OneCall, Busy, Working
  <2>3. /\ task[t].kind # "disconnect" /\ task[t].pc # "profile"
             => task[t].profile = seen
        /\ task[t].pc = "up" => running = seen
        /\ status = "Started" =>
             running = seen \/ (app = "Error" /\ Silent) \/ task[t].kind # "connect"
    BY <2>1, <2>2 DEF Follows
  <2>4. /\ task'[t].pc # "idle" /\ task'[t].kind # "disconnect"
           /\ task'[t].pc # "profile" => task'[t].profile = seen
        /\ task'[t].pc = "up" => running' = seen
    <3> USE <2>2, <2>3 DEF Goto, End, Return, Step, Idle, TypeInv, TypeOK,
            TaskRec, core
    <3>1. CASE ReadProfile(t)
      BY <3>1 DEF ReadProfile
    <3>2. CASE ReadOptions(t)
      BY <3>2 DEF ReadOptions
    <3>3. CASE CheckPrivilege(t) \/ Setup(t) \/ SetupCall(t)
      BY <3>3 DEF CheckPrivilege, Setup, SetupCall
    <3>4. CASE ResetOptions(t) \/ FillOptions(t)
      BY <3>4 DEF ResetOptions, FillOptions
    <3>5. CASE Fail(t) \/ Blame(t) \/ Refused(t)
      BY <3>5 DEF Fail, Blame, Refused
    <3>6. CASE StartCall(t) \/ StopCall(t) \/ StartAgain(t)
      <4>1. CASE StartCall(t)
        BY <4>1 DEF StartCall
      <4>2. CASE StopCall(t)
        BY <4>2 DEF StopCall
      <4>3. CASE StartAgain(t)
        BY <4>3 DEF StartAgain
      <4> QED
        BY <3>6, <4>1, <4>2, <4>3
    <3>7. CASE StopDone(t)
      <4>1. /\ task[t].pc = "down"
            /\ End(t) \/ Goto(t, "fail") \/ Goto(t, "again")
        BY <3>7 DEF StopDone
      <4> QED
        BY <4>1
    <3>8. CASE StartDone(t)
      BY <3>8 DEF StartDone
    <3>9. CASE Build(t)
      <4>1. task[t].pc = "build" /\ task[t].kind # "disconnect"
        BY <3>9 DEF Build, At, DisconnectAt
      <4>2. End(t) \/ (Goto(t, "up") /\ running' = task[t].profile)
        BY <3>9 DEF Build
      <4> QED
        BY <4>1, <4>2
    <3> QED
      BY <1>1, <3>1, <3>2, <3>3, <3>4, <3>5, <3>6, <3>7, <3>8, <3>9 DEF GoOn
  <2>5. ASSUME status' = "Started"
        PROVE  \/ running' = seen
               \/ app' = "Error" /\ Silent'
               \/ task'[t].pc # "idle" /\ task[t].kind # "connect"
    <3> USE <2>1, <2>2, <2>3, <2>5
    <3>1. CASE /\ UNCHANGED <<app, queue, sending, status, running>>
               /\ task'[t].pc # "idle" \/ task[t].kind = "connect"
      BY <3>1 DEF Silent, Publishing
    <3>2. CASE Fail(t) \/ Blame(t)
      <4>1. UNCHANGED <<status, queue, sending, running>>
        BY <3>2 DEF Fail, Blame, core, messages
      <4>2. CASE Fail(t) /\ task[t].kind = "connect"
        BY <3>1, <4>1, <4>2 DEF Fail
      <4>3. CASE app' = "Error"
        <5>1. Silent
          BY <3>2, <4>1 DEF Fail, Blame, At, ConnectAt, DisconnectAt,
             ReconnectAt
        <5> QED
          BY <4>1, <4>3, <5>1 DEF Silent, Publishing
      <4> QED
        BY <3>2, <4>2, <4>3 DEF Fail, Blame
    <3>3. CASE StartCall(t) \/ StartAgain(t) \/ StopCall(t) \/ StopDone(t)
      <4>1. status' # "Started"
        BY <3>3 DEF StartCall, StartAgain, StopCall, StopDone, Propagate, At,
           ConnectAt, DisconnectAt, ReconnectAt, Asking
      <4> QED
        BY <4>1
    <3>4. CASE Build(t)
      <4>1. status' # "Started"
        BY <3>4 DEF Build, Propagate, At, ConnectAt, DisconnectAt,
           ReconnectAt, Asking
      <4> QED
        BY <4>1
    <3>5. CASE StartDone(t)
      BY <3>5 DEF StartDone
    <3>6. CASE ReadProfile(t) \/ ReadOptions(t) \/ CheckPrivilege(t) \/ Refused(t)
      <4>1. UNCHANGED <<app, queue, sending, status, running>>
        BY <3>6 DEF ReadProfile, ReadOptions, CheckPrivilege, Refused,
           Return, Step, core, messages
      <4>2. task'[t].pc # "idle" \/ task[t].kind = "connect"
        <5>1. CASE ReadProfile(t)
          BY <5>1 DEF ReadProfile, At, DisconnectAt, ReconnectAt
        <5>2. CASE ReadOptions(t) \/ CheckPrivilege(t)
          BY <5>2 DEF ReadOptions, CheckPrivilege, Step, Goto,
             TypeInv, TypeOK, TaskRec
        <5>3. CASE Refused(t)
          BY <5>3, <4>1 DEF Refused, TypeInv, TypeOK, TaskRec, Kinds
        <5> QED
          BY <3>6, <5>1, <5>2, <5>3
      <4> QED
        BY <3>1, <4>1, <4>2
    <3>7. CASE Setup(t) \/ SetupCall(t) \/ ResetOptions(t) \/ FillOptions(t)
      <4>1. UNCHANGED <<app, queue, sending, status, running>>
        BY <3>7 DEF Setup, SetupCall, ResetOptions, FillOptions, Step, core, messages
      <4>2. task'[t].pc # "idle"
        BY <3>7 DEF Setup, SetupCall, ResetOptions, FillOptions, Step,
           Goto, TypeInv,
           TypeOK, TaskRec
      <4> QED
        BY <3>1, <4>1, <4>2
    <3> QED
      BY <1>1, <3>2, <3>3, <3>4, <3>5, <3>6, <3>7 DEF GoOn
  <2> QED
    BY <2>1, <2>2, <2>4, <2>5 DEF Busy, Working
<1>2. ASSUME NEW t \in Tasks, Arrive(t) PROVE F'
  <2>1. UNCHANGED <<app, queue, sending, status, running>>
    BY <1>2, ArriveSteps
  <2>2. /\ ~missed
        /\ \/ seen' = seen
           \/ status = "Stopped" /\ Busy = {}
           \/ app = "Connected"
    <3>1. CASE ProfileChanged(t)
      BY <3>1 DEF ProfileChanged, TypeInv, TypeOK
    <3>2. CASE ~ProfileChanged(t)
      BY <1>2, <3>2 DEF Arrive, Toggle, AutoConnect, ProfileUpdated,
         Abort, Reconnect
    <3> QED
      BY <3>1, <3>2
  <2>3. CASE UNCHANGED <<task, overlap, startedByUser, wish>>
    <3>1. CASE seen' = seen
      BY <2>1, <2>2, <2>3, <3>1 DEF Follows, Busy, Working, Silent, Publishing
    <3>2. CASE seen' # seen
      <4>1. ProfileChanged(t)
        BY <1>2, <3>2 DEF Arrive, Toggle, AutoConnect, ProfileUpdated, Abort
      <4>2. status = "Stopped" /\ Busy = {}
        <5>1. ASSUME ~(seen = "nil" \/ app # "Connected") PROVE FALSE
          <6>1. Disconnect(t) \/ Begin(t, "reconnect", "options", active)
            BY <4>1, <5>1 DEF ProfileChanged, Reconnect
          <6>2. task'[t] # task[t]
            BY <6>1 DEF Disconnect, Begin, Busy, TypeInv, TypeOK, TaskRec
          <6> QED
            BY <2>3, <6>2
        <5> QED
          BY <4>1, <5>1 DEF ProfileChanged, TypeInv, TypeOK
      <4> QED
        BY <2>1, <2>3, <4>2 DEF Busy, Working
    <3> QED
      BY <3>1, <3>2
  <2>4. CASE ~UNCHANGED <<task, overlap, startedByUser, wish>>
    <3>1. /\ ~overlap /\ Busy = {} /\ Silent
          /\ \A u \in Tasks \ {t} : task'[u].pc = "idle"
      BY <1>2, <2>4, Beginning
    <3>2. CASE /\ task'[t].kind = "connect" /\ task'[t].pc = "profile"
               /\ UNCHANGED <<seen, missed>>
      BY <2>1, <2>2, <3>1, <3>2 DEF Follows, Busy, Working, Silent, Publishing
    <3>3. CASE task'[t].kind = "disconnect" /\ task'[t].pc = "call"
      BY <2>1, <3>1, <3>3 DEF Busy, Working
    <3>4. CASE /\ task'[t].kind = "reconnect" /\ task'[t].pc = "options"
               /\ task'[t].profile = seen'
      BY <2>1, <3>1, <3>4 DEF Busy, Working
    <3> QED
      BY <1>2, <2>4, <3>2, <3>3, <3>4, Beginning
  <2> QED
    BY <2>3, <2>4
<1>3. CASE ChangeActive \/ ChangePrefs \/ Deliver \/ UNCHANGED vars
  <2>1. /\ UNCHANGED <<task, overlap, missed, seen, status, running>>
        /\ UNCHANGED <<app, queue, sending>> \/ ~Silent
    BY <1>3, OtherSteps DEF Silent
  <2> QED
    BY <2>1 DEF Follows, Busy, Working, Silent, Publishing
<1>4. CASE Relaunch
  BY <1>4, NoneLeft
<1> QED
  BY <1>0, <1>1, <1>2, <1>3, <1>4 DEF Next, Advance

----------------------------------------------------------------------------
(* The theorems.                                                            *)

LEMMA Initially == Init => ConnInv
<1> SUFFICES ASSUME Init PROVE ConnInv
  OBVIOUS
<1>1. SeedQueue \in Seq(Message)
  BY DEF SeedQueue, Message, Statuses
<1>2. \A t \in Tasks : task[t] = Idle
  BY DEF Init
<1>3. TypeInv
  <2>1. CallsOK
    BY Idling DEF Init, CallsOK
  <2>2. 1 \in Versions /\ 0 \in 0 .. MaxEvents
    BY MaxEventsAssumption DEF Versions
  <2> QED
    <3>1. /\ app \in AppStates /\ startedByUser \in BOOLEAN /\ active \in MaybeProfile
          /\ seen \in MaybeProfile /\ prefs = 1 /\ initialized = FALSE
          /\ port = FALSE /\ status \in Statuses /\ running \in MaybeProfile
          /\ options \in Options /\ ran \in Options /\ queue = SeedQueue
          /\ sending \in [Tasks -> Sending] /\ crossed = FALSE
          /\ timer = TRUE /\ events = 0 /\ overlap = FALSE /\ missed = FALSE
          /\ wish = "none"
      BY DEF Init, AppStates, Statuses, MaybeProfile, Options, NotSending, Sending
    <3> QED
      <4>1. TypeOK
        BY <1>1, <2>1, <2>2, <3>1 DEF TypeOK, CallsOK, Named
      <4>2. PrefsCount
        BY <3>1 DEF PrefsCount
      <4> QED
        BY <2>1, <4>1, <4>2 DEF TypeInv
<1>4. Busy = {} /\ Working = {} /\ Publishing = {} /\ ~crossed
  BY <1>2, Idling DEF Busy, Working, Publishing, NotSending, Init
<1>5. LastTold
  BY <1>4 DEF Init, LastTold, Told, SeedQueue
<1>6. status = "Stopped" /\ running = "nil" /\ wish = "none"
  BY DEF Init
<1> QED
  BY <1>3, <1>4, <1>5, <1>6 DEF ConnInv, OneCall, Filled, OptionsAreWhole,
     Ended,
     Follows

\* The invariant holds in every state of every behaviour of the layer.
THEOREM ConnInvariant == Spec => []ConnInv
<1>1. ConnInv /\ [Next]_vars => ConnInv'
  BY Types, ToldStep, OneCallStep, FilledStep, EndedStep, FollowsStep DEF
     ConnInv
<1> QED
  BY <1>1, Initially, PTL DEF Spec

\* Every variable of the connection layer keeps its type, and a call that has
\* passed its first await names a profile.
THEOREM ConnTypesCorrect == Spec => []TypeOK
<1>1. ConnInv => TypeOK
  BY DEF ConnInv, TypeInv
<1> QED
  BY <1>1, ConnInvariant, PTL

\* However the handlers interleave, once everything that was published has
\* arrived the app shows the core's status, unless it shows an error or the
\* publications of two calls crossed.
THEOREM AppIsUpToDate == Spec => []AppShowsCore
<1>1. ConnInv => AppShowsCore
  BY DEF ConnInv, LastTold, Told, AppShowsCore
<1> QED
  BY <1>1, ConnInvariant, PTL

\* Without overlap the tunnel carries the active profile, unless an error is
\* shown or the profile changed while the app was switching.
THEOREM TunnelFollowsProfile == Spec => []RunsActiveProfile
<1>1. ConnInv => RunsActiveProfile
  BY DEF ConnInv, Follows, RunsActiveProfile, Settled, Busy, Working
<1> QED
  BY <1>1, ConnInvariant, PTL

\* Without overlap the core never runs with options that were reset and not
\* filled.
THEOREM NeverHalfOptions == Spec => []OptionsAreWhole
<1>1. ConnInv => OptionsAreWhole
  BY DEF ConnInv
<1> QED
  BY <1>1, ConnInvariant, PTL

\* Without overlap a connect that fails leaves no tunnel behind its error.
THEOREM FailureLeavesDown == Spec => []FailedConnectLeavesDown
<1>1. ConnInv => FailedConnectLeavesDown
  <2> SUFFICES ASSUME ConnInv, NEW t \in Tasks, task[t].pc \in {"fail", "blame"},
                      task[t].kind = "connect", ~overlap, app # "Error"
               PROVE  status # "Started"
    BY DEF FailedConnectLeavesDown
  <2>1. At(task[t])
    BY DEF ConnInv, OneCall, Working
  <2> QED
    BY <2>1 DEF At, ConnectAt
<1> QED
  BY <1>1, ConnInvariant, PTL

\* Without overlap a user who disconnected is not taken for one who wants to be
\* connected at the next launch.
THEOREM OffIsRemembered == Spec => []OffMeansOff
<1>1. ConnInv => OffMeansOff
  BY DEF ConnInv, Ended, OffMeansOff
<1> QED
  BY <1>1, ConnInvariant, PTL
=============================================================================
