--------------------------- MODULE DesktopStreams ---------------------------
(***************************************************************************)
(* What the desktop app is told by the core while it runs: the two streams *)
(* of FFISingboxService (traffic and outbound groups), the Go clients that *)
(* feed them, and the C table of Dart functions every message goes through.*)
(*                                                                         *)
(* Three kinds of thread meet.  The main isolate runs one event at a time: *)
(* it takes a message from its inbox, lets the providers rebuild (flush),  *)
(* cancels and opens streams by synchronous calls into the library.  The   *)
(* core changes its phase on threads of its own.  A connected client reads *)
(* and posts on a third one, so a message may be posted after the client   *)
(* was stopped and its port closed.                                        *)
(***************************************************************************)
EXTENDS Naturals, Sequences, SequencesExt

CONSTANTS Runtimes,      \* the Dart VMs the library may be loaded into
          Streams,       \* the streams in use: "stats", "outbounds"
          Ports,         \* bound: the numbers of the ports streams get
          MaxSessions    \* bound: times the core starts

----------------------------------------------------------------------------
(* The symbols of the Dart API, and the version of their table.            *)

Major == 2

NativeSymbols ==
  {"Dart_PostCObject", "Dart_PostInteger", "Dart_NewNativePort",
   "Dart_CloseNativePort"}

ApiSymbols ==
  {"Dart_IsError", "Dart_IsApiError", "Dart_IsUnhandledExceptionError",
   "Dart_IsCompilationError", "Dart_IsFatalError", "Dart_GetError",
   "Dart_ErrorHasException", "Dart_ErrorGetException",
   "Dart_ErrorGetStackTrace", "Dart_NewApiError", "Dart_NewCompilationError",
   "Dart_NewUnhandledExceptionError", "Dart_PropagateError",
   "Dart_HandleFromPersistent", "Dart_HandleFromWeakPersistent",
   "Dart_NewPersistentHandle", "Dart_SetPersistentHandle",
   "Dart_DeletePersistentHandle", "Dart_NewWeakPersistentHandle",
   "Dart_DeleteWeakPersistentHandle", "Dart_NewFinalizableHandle",
   "Dart_DeleteFinalizableHandle", "Dart_CurrentIsolate", "Dart_ExitIsolate",
   "Dart_EnterIsolate", "Dart_Post", "Dart_NewSendPort", "Dart_SendPortGetId",
   "Dart_EnterScope", "Dart_ExitScope", "Dart_IsNull"}

DeprecatedSymbols ==
  {"Dart_UpdateExternalSize", "Dart_UpdateFinalizableExternalSize"}

AllSymbols == NativeSymbols \cup ApiSymbols

\* The struct NativeApi.initializeApiDLData points to: the list of functions
\* of a VM, as the set of their names.
DartApi == [major : Nat, functions : SUBSET AllSymbols]

\* Every VM of this major version has the one function the library calls.
ASSUME RuntimesAssumption ==
  /\ Runtimes \subseteq DartApi
  /\ \A r \in Runtimes : r.major = Major => "Dart_PostCObject" \in r.functions

ASSUME StreamsAssumption ==
  "outbounds" \in Streams /\ Streams \subseteq {"stats", "outbounds"}

ASSUME BoundsAssumption ==
  /\ MaxSessions \in Nat
  /\ Ports \subseteq Nat \ {0, 1}

\* A name##_DL pointer is not set, a function of the VM, or a local stub.
FindFunctionPointer(functions, name) ==
  IF name \in functions THEN "vm" ELSE "NULL"

\* The stubs of deprecated functions print a line and return.
Deprecated(name) == "stub"

\* The table of a VM that is not refused.
InitializeApiDL(api) ==
  [name \in AllSymbols \cup DeprecatedSymbols |->
     IF name \in DeprecatedSymbols THEN Deprecated(name)
     ELSE FindFunctionPointer(api.functions, name)]

----------------------------------------------------------------------------
(* The state.                                                              *)

nil == 0           \* no client, no stream, the port 0 of Go's zero value
StatusPort == 1    \* the port FFISingboxService.init opens

VARIABLES
  runtime, filled,        \* the VM; the library has filled its table from it
  statusPort, logFactory, \* Go: statusPropagationPort; logFactory is set
  client,                 \* Go: statusClient and groupClient, by their port
  conns,                  \* Go: the clients that are connected and reading
  flight,                 \* Go: messages read but not posted yet
  phase, session,         \* the core is down, up or stopping; its starts
  initialized,            \* Dart: the repository has set the core up
  open, leaked,           \* Dart: open ports; those of starts that failed
  cache, ear,             \* Dart: the stream kept, the port listened to
  want, step, view,       \* Dart: per stream: in use, what its provider has
                          \*   to do, what it shows
  inbox,                  \* Dart: messages posted to the main isolate
  connected, failed,      \* Dart: isConnected; the connection's state is an
                          \*   error
  dirty,                  \* Dart: providers have to rebuild
  held,                   \* Dart: the list a choice of proxy was made in
  crash                   \* what ended the process, "none" while it runs

libVars == <<runtime, filled, statusPort, logFactory, initialized>>
clientVars == <<client, conns, flight>>
coreVars == <<phase, session>>
streamVars == <<open, leaked, cache, ear>>
pageVars == <<want, step, view, held>>
statusVars == <<connected, failed, dirty>>
vars == <<libVars, clientVars, coreVars, streamVars, pageVars, statusVars,
          inbox, crash>>

\* The messages of this program are strings.
CObject(value) == [type |-> "kString", as_string |-> value]

\* What they say: of the core's status, whether it is Started (a number, as
\* the session whose traffic or groups a client's message is about).
NotStarted == 0
Started == 1

Message == [port : Nat, obj : [type : {"kString"}, as_string : Nat]]

\* What a provider shows: nothing yet, that nothing runs, an error, the data of
\* a session, or data that were brought back after something else was shown.
Shows(what) == [what |-> what, of |-> 0]
Data(n) == [what |-> "data", of |-> n]
Back(n) == [what |-> "back", of |-> n]

Views ==
  [what : {"off", "waiting", "empty", "error", "data", "back"}, of : Nat]

TypeOK ==
  /\ runtime \in Runtimes
  /\ filled \in BOOLEAN
  /\ statusPort \in {nil, StatusPort} /\ logFactory \in BOOLEAN
  /\ client \in [Streams -> Nat]
  /\ conns \subseteq [port : Nat, session : 1..MaxSessions]
  /\ flight \subseteq [port : Nat, session : 1..MaxSessions]
  /\ phase \in {"down", "up", "stopping"} /\ session \in 0..MaxSessions
  /\ initialized \in BOOLEAN
  /\ open \subseteq Nat /\ leaked \subseteq Nat
  /\ cache \in [Streams -> Nat] /\ ear \in [Streams -> Nat]
  /\ want \subseteq Streams
  /\ step \in [Streams -> {"idle", "cancel", "build"}]
  /\ view \in [Streams -> Views]
  /\ inbox \in Seq(Message)
  /\ connected \in BOOLEAN /\ failed \in BOOLEAN /\ dirty \in BOOLEAN
  /\ held \in Nat
  /\ crash \in {"none", "version", "table", "factory", "client"}

Init ==
  /\ runtime \in Runtimes
  /\ filled = FALSE
  /\ statusPort = nil /\ logFactory = FALSE
  /\ client = [s \in Streams |-> nil]
  /\ conns = {} /\ flight = {}
  /\ phase = "down" /\ session = 0
  /\ initialized = FALSE
  /\ open = {StatusPort} /\ leaked = {}
  /\ cache = [s \in Streams |-> nil] /\ ear = [s \in Streams |-> nil]
  /\ want = {}
  /\ step = [s \in Streams |-> "idle"]
  /\ view = [s \in Streams |-> Shows("off")]
  /\ inbox = <<>>
  /\ connected = FALSE /\ failed = FALSE /\ dirty = FALSE
  /\ held = 0
  /\ crash = "none"

Alive == crash = "none"

\* A port number that nothing refers to.  Dart never uses a number twice; here a
\* number is used again once nothing can tell.
PortsOf(messages) == {m.port : m \in messages}
Unused(port) ==
  port \notin UNION {open, PortsOf(conns), PortsOf(flight),
                     PortsOf(ToSet(inbox)), {client[s] : s \in Streams}}
FreshPort == CHOOSE port \in Ports : Unused(port)

\* The pointer name##_DL.
DL(name) == IF filled THEN InitializeApiDL(runtime)[name] ELSE "NULL"

\* The main isolate is between two events.
BetweenEvents == \A s \in Streams : step[s] = "idle"

----------------------------------------------------------------------------
(* bridge: a message is enqueued, or refused when its port is closed, which *)
(* the library only prints.                                                *)

PostCObject(port, obj) ==
  inbox' = IF port \in open
             THEN Append(inbox, [port |-> port, obj |-> obj])
             ELSE inbox

SendStringToPort(port, value) ==
  \/ /\ DL("Dart_PostCObject") = "NULL"
     /\ crash' = "table"
     /\ UNCHANGED inbox
  \/ /\ DL("Dart_PostCObject") # "NULL"
     /\ PostCObject(port, CObject(value))
     /\ UNCHANGED crash

----------------------------------------------------------------------------
(* The worker isolate sets the library up, before the first start.         *)

\* A VM of another major version: Dart_InitializeApiDL refuses it, and
\* setupOnce panics with nobody to recover.
SetupOnceRefuses ==
  /\ ~initialized /\ runtime.major # Major
  /\ crash' = "version"
  /\ UNCHANGED <<libVars, clientVars, coreVars, streamVars, pageVars,
                 statusVars, inbox>>

\* setupOnce, then setup, which may still fail to make the log factory: the
\* next connect sets up again.
Setup ==
  /\ ~initialized /\ runtime.major = Major
  /\ filled' = TRUE
  /\ statusPort' = StatusPort
  /\ \E ok \in BOOLEAN :
       /\ logFactory' = (ok \/ logFactory)
       /\ initialized' = ok
  /\ UNCHANGED <<runtime, clientVars, coreVars, streamVars, pageVars,
                 statusVars, inbox, crash>>

----------------------------------------------------------------------------
(* The core, as far as its command server and the app's isConnected are    *)
(* concerned; module CoreService has the rest.  Statuses that leave         *)
(* isConnected as it is are left out.                                      *)

CoreStarts ==
  /\ initialized /\ phase = "down" /\ session < MaxSessions
  /\ phase' = "up" /\ session' = session + 1
  /\ SendStringToPort(statusPort, Started)
  /\ UNCHANGED <<libVars, clientVars, streamVars, pageVars, statusVars>>

CoreStopping ==
  /\ phase = "up"
  /\ phase' = "stopping"
  /\ SendStringToPort(statusPort, NotStarted)
  /\ UNCHANGED <<libVars, clientVars, session, streamVars, pageVars,
                 statusVars>>

\* The command server closes its listener.
CoreStopped ==
  /\ phase = "stopping"
  /\ phase' = "down"
  /\ UNCHANGED <<libVars, clientVars, session, streamVars, pageVars,
                 statusVars, inbox, crash>>

----------------------------------------------------------------------------
(* The clients' own threads.                                               *)

\* A client takes a message off its connection.  A bound: one such message is on
\* its way at a time, of all clients.
Read(c) ==
  /\ flight = {} /\ \A i \in 1..Len(inbox) : inbox[i].port = StatusPort
  /\ flight' = {c}
  /\ UNCHANGED <<libVars, client, conns, coreVars, streamVars, pageVars,
                 statusVars, inbox, crash>>

\* WriteStatus, WriteGroups
Write(m) ==
  /\ flight' = flight \ {m}
  /\ SendStringToPort(m.port, m.session)
  /\ UNCHANGED <<libVars, client, conns, coreVars, streamVars, pageVars,
                 statusVars>>

\* A connection to a server that was closed ends, at once or never.
Lose(c) ==
  /\ phase = "down" \/ c.session # session
  /\ conns' = conns \ {c}
  /\ UNCHANGED <<libVars, client, flight, coreVars, streamVars, pageVars,
                 statusVars, inbox, crash>>

----------------------------------------------------------------------------
(* The calls of the app into the library.                                  *)

\* StartCommand: the new client replaces the old one, whatever that was doing.
\* Connect finds a server from a start until its stop, and may fail in any case.
StartCommand(s, port, ok) ==
  /\ client' = [client EXCEPT ![s] = port]
  /\ conns' = IF ok THEN conns \cup {[port |-> port, session |-> session]}
                    ELSE conns

\* Mutant of StopCommand: the client is forgotten and stays connected.
StopForgets(s) ==
  /\ client' = [client EXCEPT ![s] = nil]
  /\ UNCHANGED conns

\* StopCommand: Disconnect, and forget the client.
StopCommand(s) ==
  /\ conns' = {c \in conns : c.port # client[s]}
  /\ client' = [client EXCEPT ![s] = nil]

\* Mutant of Cancel: the stream is kept, to be handed out again.
CancelKeepsStream(s) ==
  /\ step[s] = "cancel"
  /\ step' = [step EXCEPT ![s] = IF s \in want THEN "build" ELSE "idle"]
  /\ \/ /\ ear[s] = nil
        /\ UNCHANGED <<client, conns, streamVars, crash>>
     \/ /\ ear[s] # nil
        /\ IF client[s] # nil
             THEN StopCommand(s) /\ UNCHANGED crash
             ELSE crash' = "client" /\ UNCHANGED <<client, conns>>
        /\ open' = open \ {ear[s]}
        /\ ear' = [ear EXCEPT ![s] = nil]
        /\ UNCHANGED <<cache, leaked>>
  /\ UNCHANGED <<libVars, flight, coreVars, want, view, held, statusVars,
                 inbox>>

\* The last listener of a stream is gone: stop the client, close the port,
\* forget the stream.  The provider builds again if it is still in use.
Cancel(s) ==
  /\ step[s] = "cancel"
  /\ step' = [step EXCEPT ![s] = IF s \in want THEN "build" ELSE "idle"]
  /\ \/ /\ ear[s] = nil
        /\ UNCHANGED <<client, conns, streamVars, crash>>
     \/ /\ ear[s] # nil /\ client[s] # nil
        /\ StopCommand(s)
        /\ open' = open \ {ear[s]}
        /\ cache' = [cache EXCEPT ![s] = nil]
        /\ ear' = [ear EXCEPT ![s] = nil]
        /\ UNCHANGED <<leaked, crash>>
     \/ /\ ear[s] # nil /\ client[s] = nil
        /\ crash' = "client"
        /\ UNCHANGED <<client, conns, streamVars>>
  /\ UNCHANGED <<libVars, flight, coreVars, want, view, held, statusVars,
                 inbox>>

\* The stream that is kept is handed out again.
WatchKept(s) ==
  /\ ear' = [ear EXCEPT ![s] = cache[s]]
  /\ view' = [view EXCEPT ![s] = Shows("waiting")]
  /\ UNCHANGED <<client, conns, open, leaked, cache, crash>>

\* A port is opened and a client started for it.  An error is thrown before the
\* stream is kept: the client stays assigned, and the port stays open for good,
\* for the stream that would close it is gone.
WatchNew(s) ==
  /\ \E port \in Ports : Unused(port)
  /\ LET port == FreshPort IN
       \/ /\ logFactory /\ phase # "down"
          /\ StartCommand(s, port, TRUE)
          /\ open' = open \cup {port}
          /\ cache' = [cache EXCEPT ![s] = port]
          /\ ear' = [ear EXCEPT ![s] = port]
          /\ view' = [view EXCEPT ![s] = Shows("waiting")]
          /\ UNCHANGED <<leaked, crash>>
       \/ /\ logFactory
          /\ StartCommand(s, port, FALSE)
          /\ open' = open \cup {port} /\ leaked' = leaked \cup {port}
          /\ view' = [view EXCEPT ![s] = Shows("error")]
          /\ UNCHANGED <<cache, ear, crash>>
       \/ /\ ~logFactory
          /\ crash' = "factory"
          /\ UNCHANGED <<client, conns, streamVars, view>>

\* watchStats and watchOutbounds
Watch(s) == IF cache[s] # nil THEN WatchKept(s) ELSE WatchNew(s)

\* The provider builds: a stream of the core if the service runs.
Build(s) ==
  /\ step[s] = "build"
  /\ step' = [step EXCEPT ![s] = "idle"]
  /\ \/ /\ connected
        /\ Watch(s)
     \/ /\ ~connected
        /\ view' = [view EXCEPT ![s] = Shows("empty")]
        /\ UNCHANGED <<client, conns, streamVars, crash>>
  /\ UNCHANGED <<libVars, flight, coreVars, want, held, statusVars,
                 inbox>>

----------------------------------------------------------------------------
(* The main isolate's events.                                              *)

\* Mutant of Deliver: the providers watch the service's end only.
DeliverEndsOnly ==
  /\ inbox # <<>> /\ BetweenEvents
  /\ inbox' = Tail(inbox)
  /\ LET m == Head(inbox) IN
       \/ /\ m.port = StatusPort
          /\ connected' = (m.obj.as_string = Started) /\ failed' = FALSE
          /\ dirty' = (dirty \/ failed \/ (connected /\ ~connected'))
          /\ UNCHANGED view
       \/ /\ m.port # StatusPort
          /\ view' = [s \in Streams |->
                        IF ear[s] = m.port /\ m.port \in open
                          THEN Data(m.obj.as_string) ELSE view[s]]
          /\ UNCHANGED statusVars
  /\ UNCHANGED <<libVars, clientVars, coreVars, streamVars, want, step, held,
                 crash>>

\* A status changes isConnected, or takes the place of an error, which makes
\* serviceRunning and its watchers stale; a client's message reaches the stream
\* that listens to its port, and nobody once the port is closed.
Deliver ==
  /\ inbox # <<>> /\ BetweenEvents
  /\ inbox' = Tail(inbox)
  /\ LET m == Head(inbox) IN
       \/ /\ m.port = StatusPort
          /\ connected' = (m.obj.as_string = Started) /\ failed' = FALSE
          /\ dirty' = (dirty \/ failed \/ connected' # connected)
          /\ UNCHANGED view
       \/ /\ m.port # StatusPort
          /\ view' = [s \in Streams |->
                        IF ear[s] = m.port /\ m.port \in open
                          THEN Data(m.obj.as_string) ELSE view[s]]
          /\ UNCHANGED statusVars
  /\ UNCHANGED <<libVars, clientVars, coreVars, streamVars, want, step, held,
                 crash>>

\* A connect, reconnect or disconnect of the app fails and its error becomes the
\* state of the connection, whatever the core does (module Connection: Fail and
\* Blame).  To serviceRunning any error is new, and that nothing runs.
CallFails ==
  /\ BetweenEvents
  /\ connected' = FALSE /\ failed' = TRUE /\ dirty' = TRUE
  /\ UNCHANGED <<libVars, clientVars, coreVars, streamVars, pageVars, inbox,
                 crash>>

\* Mutant of Flush: a rebuild does not cancel the stream there is.
FlushWithoutCancel ==
  /\ dirty /\ BetweenEvents
  /\ dirty' = FALSE
  /\ step' = [s \in Streams |-> IF s \in want THEN "build" ELSE "idle"]
  /\ UNCHANGED <<libVars, clientVars, coreVars, streamVars, want, view, held,
                 connected, failed, inbox, crash>>

\* The stale providers rebuild: each cancels its old stream first.
Flush ==
  /\ dirty /\ BetweenEvents
  /\ dirty' = FALSE
  /\ step' = [s \in Streams |-> IF s \in want THEN "cancel" ELSE "idle"]
  /\ UNCHANGED <<libVars, clientVars, coreVars, streamVars, want, view, held,
                 connected, failed, inbox, crash>>

\* A page that uses the stream opens ...
Open(s) ==
  /\ BetweenEvents /\ s \notin want
  /\ want' = want \cup {s}
  /\ step' = [step EXCEPT ![s] = "build"]
  /\ UNCHANGED <<libVars, clientVars, coreVars, streamVars, view, held,
                 statusVars, inbox, crash>>

\* ... and closes, and its provider is disposed of, with what it waited for.
Close(s) ==
  /\ BetweenEvents /\ s \in want
  /\ want' = want \ {s}
  /\ step' = [step EXCEPT ![s] = "cancel"]
  /\ view' = [view EXCEPT ![s] = Shows("off")]
  /\ held' = IF s = "outbounds" THEN 0 ELSE held
  /\ UNCHANGED <<libVars, clientVars, coreVars, streamVars,
                 statusVars, inbox, crash>>

\* The proxies are sorted another way, which rebuilds their provider.
Resort ==
  /\ BetweenEvents /\ "outbounds" \in want
  /\ step' = [step EXCEPT !["outbounds"] = "cancel"]
  /\ UNCHANGED <<libVars, clientVars, coreVars, streamVars, want, view, held,
                 statusVars, inbox, crash>>

\* changeProxy keeps the list it was called with while the core selects ...
ChangeProxy ==
  /\ BetweenEvents /\ held = 0 /\ view["outbounds"].what \in {"data", "back"}
  /\ held' = view["outbounds"].of
  /\ UNCHANGED <<libVars, clientVars, coreVars, streamVars, want, step, view,
                 statusVars, inbox, crash>>

\* ... and shows it again when that succeeded, whatever the provider has
\* become in between.
ProxyChanged ==
  /\ BetweenEvents /\ held # 0
  /\ held' = 0
  /\ \E ok \in BOOLEAN :
       view' = IF ok /\ view["outbounds"] # Data(held)
                 THEN [view EXCEPT !["outbounds"] = Back(held)]
                 ELSE view
  /\ UNCHANGED <<libVars, clientVars, coreVars, streamVars, want, step,
                 statusVars, inbox, crash>>

----------------------------------------------------------------------------
Next ==
  /\ Alive
  /\ \/ SetupOnceRefuses \/ Setup
     \/ CoreStarts \/ CoreStopping \/ CoreStopped
     \/ (\E c \in conns : Read(c) \/ Lose(c))
     \/ (\E m \in flight : Write(m))
     \/ (\E s \in Streams : Cancel(s) \/ Build(s) \/ Open(s) \/ Close(s))
     \/ Deliver \/ CallFails \/ Flush \/ Resort \/ ChangeProxy \/ ProxyChanged

Spec == Init /\ [][Next]_vars

----------------------------------------------------------------------------
(* The main isolate goes on while it has something to do, Go runs the       *)
(* thread of each client, which has something to read every second as long  *)
(* as its session runs.  Neither the user nor the core is obliged to do     *)
(* anything.                                                               *)

EventLoop == Deliver \/ Flush \/ \E s \in Streams : Cancel(s) \/ Build(s)

ReadFor(s) ==
  \E c \in conns : /\ phase = "up" /\ c = [port |-> ear[s], session |-> session]
                   /\ Read(c)

Fairness ==
  /\ WF_vars(Alive /\ EventLoop) /\ WF_vars(Alive /\ Flush)
  /\ \A s \in Streams : WF_vars(Alive /\ ReadFor(s))
  /\ WF_vars(Alive /\ \E m \in flight : Write(m))

FairSpec == Spec /\ Fairness

----------------------------------------------------------------------------
(* Properties.                                                             *)

\* No call into the library meets what is not there: a message goes out only
\* once the table is filled, a client is made only once there is a log factory
\* and stopped only if there is one.  Neither StartCommand, StopCommand nor
\* SendStringToPort looks.
NoNilCall == crash \notin {"table", "factory", "client"}

\* A stream that is listened to is fed by the client the library knows, no
\* other client stays connected, and no port stays open behind it but those of
\* the starts that failed, which nobody listens to.  StartCommand overwrites the
\* client it finds, and the stream, its port and its client live in three places.
ClientPerStream ==
  /\ \A s \in Streams : /\ cache[s] = ear[s]
                        /\ ear[s] # nil => client[s] = ear[s]
  /\ \A c \in conns : \E s \in Streams : c.port = ear[s]
  /\ open = UNION {{ear[s] : s \in Streams} \ {nil}, {StatusPort}, leaked}
  /\ \A s \in Streams : ear[s] \notin leaked

\* The app knows the status the core has published, and has acted on it.
UpToDate ==
  /\ ~dirty
  /\ \A i \in 1..Len(inbox) : inbox[i].port # StatusPort

\* A stream that is used while the core is up comes from the session that runs:
\* its client is connected to that session's server and nothing older is
\* shown; and nothing is shown once the core is down.  The exceptions are a call
\* that failed, after which nothing is shown until the next status although the
\* core may run, and a choice of proxy, which brings the list it was made in back.
StreamIsLive ==
  UpToDate /\ BetweenEvents => \A s \in want :
    \/ /\ phase = "up" /\ ~failed
       /\ \/ view[s].what = "error"
          \/ /\ [port |-> ear[s], session |-> session] \in conns
             /\ view[s] \in {Shows("waiting"), Data(session)}
    \/ (phase # "up" \/ failed) /\ view[s] = Shows("empty")
    \/ view[s].what = "back"

\* A page that uses a stream while the core is up gets that session's data, or
\* an error it has not been told to forget, or the list a choice of proxy brought
\* back; or else it starts over, as it does when the proxies are sorted anew, or
\* a call has failed and the app shows its error until the next status.
StatsArrive ==
  \A s \in Streams :
    (phase = "up" /\ s \in want)
      ~> \/ view[s] = Data(session)
         \/ UpToDate /\ view[s].what = "error"
         \/ view[s].what = "back"
         \/ step[s] = "cancel" \/ failed
         \/ phase # "up" \/ s \notin want \/ ~Alive
=============================================================================
