------------------------- MODULE DesktopStreamsProofs -------------------------
(***************************************************************************)
(* Proofs about DesktopStreams for any VMs, streams, ports and number of   *)
(* sessions: the types of its state, that no call into the library meets   *)
(* what is not there, that a stream, its port and its client belong        *)
(* together but for the ports of starts that failed, and that a stream in  *)
(* use is one of the session that runs, whichever calls of the app fail.   *)
(***************************************************************************)
EXTENDS DesktopStreams, SequenceTheorems, TLAPS

\* What has been set up before anything can be sent or be shown.
SetUp ==
  /\ filled => runtime.major = Major
  /\ initialized => filled /\ logFactory /\ statusPort = StatusPort
  /\ phase # "down" \/ conns # {} \/ flight # {} \/ inbox # <<>> \/ connected
       => initialized
  /\ phase # "down" => session \in 1..MaxSessions

\* No two streams have a port in common, and none has that of the statuses.
PortsDiffer ==
  /\ \A s \in Streams : ear[s] # nil =>
       /\ ear[s] # StatusPort
       /\ \A t \in Streams : ear[t] = ear[s] => t = s
  /\ \A c \in conns : c.port # nil
  /\ nil \notin leaked

StreamsInv == TypeOK /\ SetUp /\ PortsDiffer /\ NoNilCall /\ ClientPerStream

\* Nothing is set up, and there is no stream.
LEMMA StreamsInitially == Init => StreamsInv
<1> SUFFICES ASSUME Init PROVE StreamsInv
  OBVIOUS
<1> USE BoundsAssumption DEF Init
<1>1. TypeOK
  <2>1. inbox \in Seq(Message) /\ session \in 0..MaxSessions
    OBVIOUS
  <2>2. view \in [Streams -> Views]
    BY DEF Views, Shows
  <2>3. /\ client \in [Streams -> Nat] /\ cache \in [Streams -> Nat]
        /\ ear \in [Streams -> Nat]
        /\ step \in [Streams -> {"idle", "cancel", "build"}]
    BY DEF nil
  <2>4. open \subseteq Nat /\ conns \subseteq [port : Nat, session : 1..MaxSessions]
        /\ flight \subseteq [port : Nat, session : 1..MaxSessions]
    BY DEF StatusPort
  <2> QED
    BY <2>1, <2>2, <2>3, <2>4 DEF TypeOK
<1>2. SetUp /\ PortsDiffer
  BY DEF SetUp, PortsDiffer
<1>3. NoNilCall /\ ClientPerStream
  BY DEF NoNilCall, ClientPerStream
<1> QED
  BY <1>1, <1>2, <1>3 DEF StreamsInv

\* Once the table is filled, the function that posts messages is there.
LEMMA PostIsThere ==
  ASSUME TypeOK, SetUp, filled PROVE DL("Dart_PostCObject") # "NULL"
<1>1. runtime \in Runtimes /\ runtime.major = Major
  BY DEF TypeOK, SetUp
<1>2. "Dart_PostCObject" \in runtime.functions
  BY <1>1, RuntimesAssumption
<1>3. "Dart_PostCObject" \in AllSymbols \cup DeprecatedSymbols
      /\ "Dart_PostCObject" \notin DeprecatedSymbols
  BY DEF AllSymbols, NativeSymbols, DeprecatedSymbols
<1>4. InitializeApiDL(runtime)["Dart_PostCObject"] = "vm"
  BY <1>2, <1>3 DEF InitializeApiDL, FindFunctionPointer
<1> QED
  BY <1>4 DEF DL

\* A message that is sent once the app is set up is posted, or dropped.
LEMMA SendingPosts ==
  ASSUME TypeOK, SetUp, initialized, NEW port \in Nat, NEW value \in Nat,
         SendStringToPort(port, value)
  PROVE  inbox' \in Seq(Message) /\ UNCHANGED crash
<1>1. UNCHANGED crash /\ PostCObject(port, CObject(value))
  BY PostIsThere DEF SendStringToPort, SetUp
<1>2. [port |-> port, obj |-> CObject(value)] \in Message
  BY DEF Message, CObject
<1>3. inbox \in Seq(Message)
  BY DEF TypeOK
<1> QED
  BY <1>1, <1>2, <1>3, AppendProperties DEF PostCObject

\* The port a new stream gets is used for nothing else.
LEMMA FreshIsUnused ==
  ASSUME \E port \in Ports : Unused(port)
  PROVE  FreshPort \in Ports /\ Unused(FreshPort) /\ FreshPort \in Nat \ {0, 1}
  BY BoundsAssumption DEF FreshPort

----------------------------------------------------------------------------
(* The main steps, with what each of them leaves alone.                    *)

\* The types survive every step.
LEMMA StreamsTypes == TypeOK /\ SetUp /\ Next => TypeOK'
<1> SUFFICES ASSUME TypeOK, SetUp, Next PROVE TypeOK'
  OBVIOUS
<1> USE DEF TypeOK, libVars, clientVars, coreVars, streamVars, pageVars,
        statusVars, nil
<1>1. CASE SetupOnceRefuses
  BY <1>1 DEF SetupOnceRefuses
<1>2. CASE Setup
  BY <1>2 DEF Setup, StatusPort
<1>3. CASE CoreStarts
  <2>1. inbox' \in Seq(Message) /\ UNCHANGED crash
    BY <1>3, SendingPosts DEF CoreStarts, StatusPort, Started
  <2>2. session + 1 \in 0..MaxSessions
    BY <1>3, BoundsAssumption DEF CoreStarts
  <2>3. session' = session + 1 /\ phase' = "up"
        /\ UNCHANGED <<libVars, clientVars, streamVars, pageVars, statusVars>>
    BY <1>3 DEF CoreStarts
  <2> QED
    BY <2>1, <2>2, <2>3
<1>4. CASE CoreStopping
  <2>1. inbox' \in Seq(Message) /\ UNCHANGED crash
    BY <1>4, SendingPosts DEF CoreStopping, StatusPort, NotStarted, SetUp
  <2>2. phase' = "stopping"
        /\ UNCHANGED <<libVars, clientVars, session, streamVars, pageVars, statusVars>>
    BY <1>4 DEF CoreStopping
  <2> QED
    BY <2>1, <2>2
<1>5. CASE CoreStopped
  BY <1>5 DEF CoreStopped
<1>6. ASSUME NEW c \in conns, Read(c) \/ Lose(c) PROVE TypeOK'
  <2>1. CASE Read(c)
    <3>1. flight' = {c}
          /\ UNCHANGED <<libVars, client, conns, coreVars, streamVars, pageVars,
                         statusVars, inbox, crash>>
      BY <2>1 DEF Read
    <3>2. flight' \subseteq [port : Nat, session : 1..MaxSessions]
      BY <3>1
    <3> QED
      BY <3>1, <3>2
  <2>2. CASE Lose(c)
    <3>1. conns' \subseteq conns
          /\ UNCHANGED <<libVars, client, flight, coreVars, streamVars, pageVars,
                         statusVars, inbox, crash>>
      BY <2>2 DEF Lose
    <3> QED
      BY <3>1
  <2> QED
    BY <1>6, <2>1, <2>2
<1>7. ASSUME NEW m \in flight, Write(m) PROVE TypeOK'
  <2>1. m.port \in Nat /\ m.session \in Nat
    BY BoundsAssumption
  <2>2. inbox' \in Seq(Message) /\ UNCHANGED crash
    BY <1>7, <2>1, SendingPosts DEF Write, SetUp
  <2>3. flight' \subseteq flight
        /\ UNCHANGED <<libVars, client, conns, coreVars, streamVars, pageVars, statusVars>>
    BY <1>7 DEF Write
  <2> QED
    BY <2>2, <2>3
<1>8. ASSUME NEW s \in Streams, Cancel(s) PROVE TypeOK'
  <2>1. step' \in [Streams -> {"idle", "cancel", "build"}]
    BY <1>8 DEF Cancel
  <2>2. UNCHANGED <<libVars, flight, coreVars, want, view, held, statusVars, inbox>>
    BY <1>8 DEF Cancel
  <2>3. CASE UNCHANGED <<client, conns, streamVars>> /\ crash' \in {crash, "client"}
    BY <2>1, <2>2, <2>3
  <2>4. CASE /\ StopCommand(s)
             /\ open' = open \ {ear[s]}
             /\ cache' = [cache EXCEPT ![s] = nil]
             /\ ear' = [ear EXCEPT ![s] = nil]
             /\ UNCHANGED <<leaked, crash>>
    <3>1. conns' \subseteq conns /\ client' \in [Streams -> Nat]
      BY <2>4 DEF StopCommand
    <3>2. cache' \in [Streams -> Nat] /\ ear' \in [Streams -> Nat] /\ open' \subseteq Nat
      BY <2>4
    <3> QED
      BY SMTT(30), <2>1, <2>2, <2>4, <3>1, <3>2
  <2> QED
    BY <1>8, <2>3, <2>4 DEF Cancel
<1>9. ASSUME NEW s \in Streams, Build(s) PROVE TypeOK'
  <2>1. step' \in [Streams -> {"idle", "cancel", "build"}]
    BY <1>9 DEF Build
  <2>2. view' \in [Streams -> Views]
    <3>1. Shows("waiting") \in Views /\ Shows("error") \in Views
          /\ Shows("empty") \in Views
      BY DEF Shows, Views
    <3> QED
      BY <1>9, <3>1 DEF Build, Watch, WatchKept, WatchNew
  <2>3. CASE UNCHANGED <<client, conns, streamVars, crash>>
    BY <1>9, <2>1, <2>2, <2>3 DEF Build
  <2>4. CASE cache[s] # nil /\ WatchKept(s)
    BY <1>9, <2>1, <2>2, <2>4 DEF Build, WatchKept
  <2>5. CASE cache[s] = nil /\ WatchNew(s)
    <3>1. FreshPort \in Nat
      BY <2>5, FreshIsUnused DEF WatchNew
    <3>2. client' \in [Streams -> Nat]
      BY <2>5, <3>1 DEF WatchNew, StartCommand
    <3>3. conns' \subseteq [port : Nat, session : 1..MaxSessions]
      BY <2>5, <3>1 DEF WatchNew, StartCommand, SetUp
    <3>4. /\ cache' \in [Streams -> Nat] /\ ear' \in [Streams -> Nat]
          /\ open' \subseteq Nat /\ leaked' \subseteq Nat
      BY ZenonT(40), <2>5, <3>1 DEF WatchNew
    <3>5. crash' \in {crash, "factory"}
      BY <2>5 DEF WatchNew
    <3> QED
      BY ZenonT(40), <1>9, <2>1, <2>2, <3>2, <3>3, <3>4, <3>5 DEF Build
  <2> QED
    BY <1>9, <2>3, <2>4, <2>5 DEF Build, Watch
<1>10. ASSUME NEW s \in Streams, Open(s) \/ Close(s) PROVE TypeOK'
  <2>1. CASE Open(s)
    BY <2>1 DEF Open
  <2>2. CASE Close(s)
    <3>1. Shows("off") \in Views
      BY DEF Shows, Views
    <3> QED
      BY <2>2, <3>1 DEF Close
  <2> QED
    BY <1>10, <2>1, <2>2
<1>11. CASE Deliver
  <2>1. Head(inbox) \in Message /\ Tail(inbox) \in Seq(Message)
    BY <1>11, HeadTailProperties DEF Deliver
  <2>2. Head(inbox).obj.as_string \in Nat
    BY <2>1 DEF Message
  <2>3. view' \in [Streams -> Views]
    BY SMTT(30), <1>11, <2>2 DEF Deliver, Views, Data
  <2> QED
    BY ZenonT(40), <1>11, <2>1, <2>3 DEF Deliver
<1>12. CASE Flush \/ Resort
  <2>1. step' \in [Streams -> {"idle", "cancel", "build"}]
    <3>1. CASE Flush
      BY <3>1 DEF Flush
    <3>2. CASE Resort
      BY <3>2 DEF Resort
    <3> QED
      BY <1>12, <3>1, <3>2
  <2>2. dirty' \in BOOLEAN
    BY <1>12 DEF Flush, Resort
  <2>3. UNCHANGED <<libVars, clientVars, coreVars, streamVars, want, view, held,
                    connected, failed, inbox, crash>>
    BY <1>12 DEF Flush, Resort
  <2> QED
    BY <2>1, <2>2, <2>3
<1>13. CASE ChangeProxy
  BY <1>13, StreamsAssumption DEF ChangeProxy, Views
<1>14. CASE ProxyChanged
  <2>1. view' \in [Streams -> Views]
    BY <1>14, StreamsAssumption DEF ProxyChanged, Views, Back
  <2> QED
    BY <1>14, <2>1 DEF ProxyChanged
<1>15. CASE CallFails
  BY <1>15 DEF CallFails
<1> QED
  BY <1>1, <1>2, <1>3, <1>4, <1>5, <1>6, <1>7, <1>8, <1>9, <1>10, <1>11, <1>12,
     <1>13, <1>14, <1>15 DEF Next

\* What is set up stays so, and nothing is sent or shown before.
LEMMA SetUpStep == TypeOK /\ SetUp /\ Next => SetUp'
<1> SUFFICES ASSUME TypeOK, SetUp, Next PROVE SetUp'
  OBVIOUS
<1> USE DEF SetUp, libVars, clientVars, coreVars, streamVars, pageVars, statusVars
<1>1. CASE SetupOnceRefuses
  BY <1>1 DEF SetupOnceRefuses
<1>2. CASE Setup
  <2>1. /\ filled' /\ statusPort' = StatusPort /\ runtime'.major = Major
        /\ initialized' => logFactory'
    BY <1>2 DEF Setup
  <2>2. UNCHANGED <<phase, session, conns, flight, inbox, connected>> /\ ~initialized
    BY <1>2 DEF Setup
  <2> QED
    BY <2>1, <2>2
<1>3. CASE CoreStarts
  <2>1. session + 1 \in 1..MaxSessions
    BY <1>3, BoundsAssumption DEF CoreStarts, TypeOK
  <2> QED
    BY <1>3, <2>1 DEF CoreStarts
<1>4. CASE CoreStopping \/ CoreStopped
  BY <1>4 DEF CoreStopping, CoreStopped
<1>6. ASSUME NEW c \in conns, Read(c) \/ Lose(c) PROVE SetUp'
  BY <1>6 DEF Read, Lose
<1>7. ASSUME NEW m \in flight, Write(m) PROVE SetUp'
  BY <1>7 DEF Write
<1>8. ASSUME NEW s \in Streams, Cancel(s) PROVE SetUp'
  <2>1. UNCHANGED <<libVars, flight, coreVars, statusVars, inbox>>
    BY <1>8 DEF Cancel
  <2>2. conns # {} \/ conns' = {}
    BY <1>8 DEF Cancel, StopCommand
  <2> QED
    BY <2>1, <2>2
<1>9. ASSUME NEW s \in Streams, Build(s) PROVE SetUp'
  <2>1. UNCHANGED <<libVars, flight, coreVars, statusVars, inbox>>
    BY <1>9 DEF Build
  <2>2. UNCHANGED conns \/ phase # "down"
    BY <1>9 DEF Build, Watch, WatchKept, WatchNew, StartCommand
  <2> QED
    BY <2>1, <2>2
<1>10. ASSUME NEW s \in Streams, Open(s) \/ Close(s) PROVE SetUp'
  BY <1>10 DEF Open, Close
<1>11. CASE Deliver
  BY <1>11 DEF Deliver
<1>12. CASE CallFails \/ Flush \/ Resort \/ ChangeProxy \/ ProxyChanged
  BY <1>12 DEF CallFails, Flush, Resort, ChangeProxy, ProxyChanged
<1> QED
  BY <1>1, <1>2, <1>3, <1>4, <1>6, <1>7, <1>8, <1>9, <1>10, <1>11, <1>12 DEF Next

\* A step that leaves clients, streams and the end of the process alone keeps
\* what is said of them.
LEMMA StreamsAlone ==
  ASSUME PortsDiffer, NoNilCall, ClientPerStream,
         conns' \subseteq conns, UNCHANGED <<client, open, leaked, cache, ear, crash>>
  PROVE  PortsDiffer' /\ NoNilCall' /\ ClientPerStream'
<1>1. PortsDiffer' /\ NoNilCall'
  BY DEF PortsDiffer, NoNilCall
<1>2. ClientPerStream'
  BY DEF ClientPerStream
<1> QED
  BY <1>1, <1>2

\* A cancelled stream takes its client, its connection and its port with it.
LEMMA CancelStep ==
  ASSUME StreamsInv, NEW s \in Streams, Cancel(s)
  PROVE  PortsDiffer' /\ NoNilCall' /\ ClientPerStream'
<1> USE DEF StreamsInv
<1>1. CASE ear[s] = nil
  <2>1. UNCHANGED <<client, conns, streamVars, crash>>
    BY <1>1 DEF Cancel
  <2> QED
    BY <2>1, StreamsAlone DEF streamVars
<1>2. CASE ear[s] # nil
  <2>1. client[s] = ear[s] /\ ear[s] # StatusPort
    BY <1>2 DEF ClientPerStream, PortsDiffer
  <2>2. /\ conns' = {c \in conns : c.port # ear[s]}
        /\ client' = [client EXCEPT ![s] = nil]
        /\ open' = open \ {ear[s]}
        /\ cache' = [cache EXCEPT ![s] = nil]
        /\ ear' = [ear EXCEPT ![s] = nil]
        /\ UNCHANGED <<leaked, crash>>
    BY <1>2, <2>1 DEF Cancel, StopCommand
  <2>3. /\ ear'[s] = nil /\ cache'[s] = nil
        /\ \A t \in Streams \ {s} : /\ ear'[t] = ear[t] /\ cache'[t] = cache[t]
                                    /\ client'[t] = client[t]
    BY <2>2 DEF TypeOK
  <2>4. \A t \in Streams \ {s} : ear[t] # ear[s]
    BY <1>2 DEF PortsDiffer
  <2>5. PortsDiffer' /\ NoNilCall'
    BY <2>2, <2>3 DEF PortsDiffer, NoNilCall
  <2>6. \A t \in Streams : cache'[t] = ear'[t] /\ (ear'[t] # nil => client'[t] = ear'[t])
    BY <2>3 DEF ClientPerStream
  <2>7. \A c \in conns' : \E t \in Streams : c.port = ear'[t]
    BY <2>2, <2>3 DEF ClientPerStream
  <2>8. {ear'[t] : t \in Streams} \ {nil} = ({ear[t] : t \in Streams} \ {nil}) \ {ear[s]}
    BY <2>3, <2>4
  <2>9. open' = UNION {{ear'[t] : t \in Streams} \ {nil}, {StatusPort}, leaked'}
    <3>1. ear[s] \notin leaked
      BY DEF ClientPerStream
    <3> QED
      BY <2>1, <2>2, <2>8, <3>1 DEF ClientPerStream
  <2>10. \A t \in Streams : ear'[t] \notin leaked'
    BY <2>2, <2>3 DEF ClientPerStream, PortsDiffer
  <2> QED
    BY <2>5, <2>6, <2>7, <2>9, <2>10 DEF ClientPerStream
<1> QED
  BY <1>1, <1>2

\* A stream that is built gets a port and a client of its own, or none.
LEMMA BuildStep ==
  ASSUME StreamsInv, NEW s \in Streams, Build(s)
  PROVE  PortsDiffer' /\ NoNilCall' /\ ClientPerStream'
<1> USE DEF StreamsInv
<1>1. CASE UNCHANGED <<client, conns, streamVars, crash>>
  BY <1>1, StreamsAlone DEF streamVars
<1>2. CASE cache[s] # nil /\ WatchKept(s)
  <2>1. ear[s] = cache[s]
    BY DEF ClientPerStream
  <2>2. UNCHANGED <<client, conns, open, leaked, cache, ear, crash>>
    BY <1>2, <2>1 DEF WatchKept, TypeOK
  <2> QED
    BY <2>2, StreamsAlone
<1>3. CASE connected /\ cache[s] = nil /\ WatchNew(s)
  <2>1. /\ FreshPort \in Nat \ {0, 1}
        /\ FreshPort \notin open
        /\ \A c \in conns : c.port # FreshPort
    BY <1>3, FreshIsUnused DEF WatchNew, Unused, PortsOf
  <2>2. ear[s] = nil /\ logFactory
    BY <1>3 DEF ClientPerStream, SetUp
  <2>3. CASE /\ StartCommand(s, FreshPort, TRUE)
             /\ open' = open \cup {FreshPort}
             /\ cache' = [cache EXCEPT ![s] = FreshPort]
             /\ ear' = [ear EXCEPT ![s] = FreshPort]
             /\ UNCHANGED <<leaked, crash>>
    <3>1. /\ conns' = conns \cup {[port |-> FreshPort, session |-> session]}
          /\ client' = [client EXCEPT ![s] = FreshPort]
      BY <2>3 DEF StartCommand
    <3>2. /\ ear'[s] = FreshPort /\ cache'[s] = FreshPort /\ client'[s] = FreshPort
          /\ \A t \in Streams \ {s} : /\ ear'[t] = ear[t] /\ cache'[t] = cache[t]
                                      /\ client'[t] = client[t]
      BY <2>3, <3>1 DEF TypeOK
    <3>3. \A t \in Streams : ear[t] # nil => ear[t] \in open
      BY DEF ClientPerStream
    <3>4. PortsDiffer'
      BY <2>1, <2>3, <3>1, <3>2, <3>3 DEF PortsDiffer, StatusPort, nil
    <3>5. \A t \in Streams : cache'[t] = ear'[t] /\ (ear'[t] # nil => client'[t] = ear'[t])
      BY <3>2 DEF ClientPerStream
    <3>6. \A c \in conns' : \E t \in Streams : c.port = ear'[t]
      <4> SUFFICES ASSUME NEW c \in conns' PROVE \E t \in Streams : c.port = ear'[t]
        OBVIOUS
      <4>1. CASE c = [port |-> FreshPort, session |-> session]
        BY <3>2, <4>1
      <4>2. CASE c \in conns
        <5>1. PICK t \in Streams : c.port = ear[t]
          BY <4>2 DEF ClientPerStream
        <5>2. c.port # nil
          BY <4>2 DEF PortsDiffer
        <5>3. t # s
          BY <2>2, <5>1, <5>2
        <5> QED
          BY <3>2, <5>1, <5>3
      <4> QED
        BY <3>1, <4>1, <4>2
    <3>7. {ear'[t] : t \in Streams} \ {nil}
            = ({ear[t] : t \in Streams} \ {nil}) \cup {FreshPort}
      BY <2>1, <2>2, <3>2 DEF nil
    <3>8. open' = UNION {{ear'[t] : t \in Streams} \ {nil}, {StatusPort}, leaked'}
      BY <2>3, <3>7 DEF ClientPerStream
    <3>9. \A t \in Streams : ear'[t] \notin leaked'
      <4>1. leaked \subseteq open
        BY DEF ClientPerStream
      <4> QED
        BY <2>1, <2>3, <3>2, <4>1 DEF ClientPerStream
    <3> QED
      BY <2>3, <3>4, <3>5, <3>6, <3>8, <3>9 DEF ClientPerStream, NoNilCall
  <2>4. CASE /\ StartCommand(s, FreshPort, FALSE)
             /\ open' = open \cup {FreshPort} /\ leaked' = leaked \cup {FreshPort}
             /\ UNCHANGED <<cache, ear, crash>>
    <3>1. UNCHANGED <<conns, cache, ear, crash>>
          /\ client' = [client EXCEPT ![s] = FreshPort]
      BY <2>4 DEF StartCommand
    <3>2. \A t \in Streams : t # s => client'[t] = client[t]
      BY <3>1 DEF TypeOK
    <3>3. PortsDiffer' /\ NoNilCall'
      BY <2>1, <2>4, <3>1 DEF PortsDiffer, NoNilCall, nil
    <3>4. open' = UNION {{ear'[t] : t \in Streams} \ {nil}, {StatusPort}, leaked'}
      BY <2>4, <3>1 DEF ClientPerStream
    <3>5. \A t \in Streams : ear'[t] \notin leaked'
      <4>1. \A t \in Streams : ear[t] = nil \/ ear[t] \in open
        BY DEF ClientPerStream
      <4> QED
        BY <2>1, <2>4, <4>1 DEF ClientPerStream, nil
    <3>6. \A t \in Streams : cache'[t] = ear'[t] /\ (ear'[t] # nil => client'[t] = ear'[t])
      BY <2>2, <3>1, <3>2 DEF ClientPerStream
    <3>7. \A c \in conns' : \E t \in Streams : c.port = ear'[t]
      BY <3>1 DEF ClientPerStream
    <3> QED
      BY <3>3, <3>4, <3>5, <3>6, <3>7 DEF ClientPerStream
  <2> QED
    BY <1>3, <2>2, <2>3, <2>4 DEF WatchNew
<1> QED
  BY <1>1, <1>2, <1>3 DEF Build, Watch

\* Every step keeps the streams, their clients and their ports together.
LEMMA StreamsStep == StreamsInv /\ [Next]_vars => StreamsInv'
<1> SUFFICES ASSUME StreamsInv, [Next]_vars PROVE StreamsInv'
  OBVIOUS
<1> USE DEF libVars, clientVars, coreVars, streamVars, pageVars, statusVars
<1>0. TypeOK /\ SetUp /\ PortsDiffer /\ NoNilCall /\ ClientPerStream
  BY DEF StreamsInv
<1>a. CASE UNCHANGED vars
  <2>1. PortsDiffer' /\ NoNilCall' /\ ClientPerStream'
    BY <1>0, <1>a, StreamsAlone DEF vars
  <2>2. TypeOK' /\ SetUp'
    BY <1>0, <1>a DEF vars, TypeOK, SetUp
  <2> QED
    BY <2>1, <2>2 DEF StreamsInv
<1>b. CASE Next
  <2>1. TypeOK' /\ SetUp'
    BY <1>0, <1>b, StreamsTypes, SetUpStep
  <2> SUFFICES PortsDiffer' /\ NoNilCall' /\ ClientPerStream'
    BY <2>1 DEF StreamsInv
  <2>2. CASE SetupOnceRefuses
    <3>1. UNCHANGED <<client, conns, open, leaked, cache, ear>> /\ crash' = "version"
      BY <2>2 DEF SetupOnceRefuses
    <3> QED
      BY <1>0, <3>1 DEF PortsDiffer, NoNilCall, ClientPerStream
  <2>3. CASE \/ Setup \/ CoreStopped \/ Deliver \/ CallFails \/ Flush \/ Resort
             \/ ChangeProxy \/ ProxyChanged
    BY <1>0, <2>3, StreamsAlone
    DEF Setup, CoreStopped, Deliver, CallFails, Flush, Resort, ChangeProxy,
        ProxyChanged
  <2>4. CASE CoreStarts \/ CoreStopping
    <3>1. UNCHANGED crash
      BY <1>0, <2>4, SendingPosts
      DEF CoreStarts, CoreStopping, SetUp, StatusPort, Started, NotStarted
    <3> QED
      BY <1>0, <2>4, <3>1, StreamsAlone DEF CoreStarts, CoreStopping
  <2>5. ASSUME NEW c \in conns, Read(c) \/ Lose(c)
        PROVE  PortsDiffer' /\ NoNilCall' /\ ClientPerStream'
    BY <1>0, <2>5, StreamsAlone DEF Read, Lose
  <2>6. ASSUME NEW m \in flight, Write(m)
        PROVE  PortsDiffer' /\ NoNilCall' /\ ClientPerStream'
    <3>1. m.port \in Nat /\ m.session \in Nat
      BY <1>0, BoundsAssumption DEF TypeOK
    <3>2. UNCHANGED crash
      BY <1>0, <2>6, <3>1, SendingPosts DEF Write, SetUp
    <3> QED
      BY <1>0, <2>6, <3>2, StreamsAlone DEF Write
  <2>7. ASSUME NEW s \in Streams, Open(s) \/ Close(s)
        PROVE  PortsDiffer' /\ NoNilCall' /\ ClientPerStream'
    BY <1>0, <2>7, StreamsAlone DEF Open, Close
  <2> QED
    BY <1>b, <2>2, <2>3, <2>4, <2>5, <2>6, <2>7, CancelStep, BuildStep DEF Next
<1> QED
  BY <1>a, <1>b

\* The variables of DesktopStreams have the types of TypeOK.
THEOREM StreamsTypesCorrect == Spec => []TypeOK
<1>1. StreamsInv => TypeOK
  BY DEF StreamsInv
<1> QED
  BY <1>1, StreamsInitially, StreamsStep, PTL DEF Spec

\* No call into the library meets a table that is not filled, a log factory that
\* is not made or a client that is not there: NoNilCall, for any VMs that the
\* assumption allows, streams and ports.
THEOREM CallsMeetWhatTheyNeed == Spec => []NoNilCall
<1>1. StreamsInv => NoNilCall
  BY DEF StreamsInv
<1> QED
  BY <1>1, StreamsInitially, StreamsStep, PTL DEF Spec

\* A stream, its client, its connection and its port belong together, and the only
\* other ports that are open are those of starts that failed: ClientPerStream, for
\* any streams and ports and any number of failures.
THEOREM StreamsHaveTheirClients == Spec => []ClientPerStream
<1>1. StreamsInv => ClientPerStream
  BY DEF StreamsInv
<1> QED
  BY <1>1, StreamsInitially, StreamsStep, PTL DEF Spec

----------------------------------------------------------------------------
(* A stream that is used is one of the session that runs.  The app hears of *)
(* a session's end only later, so the invariant says what it is about to    *)
(* hear.                                                                    *)

\* The statuses in the order in which the main isolate hears of them: what it
\* believes now, unless an error has taken its place, and those on their way.
StatusAt(i) == IF i = 0 THEN ~failed ELSE inbox[i].port = StatusPort
Says(i) == IF i = 0 THEN connected ELSE inbox[i].obj.as_string = Started

\* What the core is, is the last the main isolate hears of it.
StatusesFollow ==
  \A i \in 0..Len(inbox) : StatusAt(i) =>
    \/ Says(i) <=> phase = "up"
    \/ \E j \in (i + 1)..Len(inbox) : StatusAt(j) /\ (Says(j) <=> phase = "up")

\* An error of a call hides the status the app has heard.
ErrorsHide == failed => ~connected

\* It is about to hear that the core is no longer up.
Ending == \E i \in 1..Len(inbox) : StatusAt(i) /\ ~Says(i)

\* No client speaks through the port of the statuses.
ClientsApart == \A m \in flight : m.port # StatusPort

\* A provider that builds is in use and has no stream, nor has one that is idle
\* and not in use.
BuildsAnew ==
  \A s \in Streams :
    /\ step[s] = "build" => s \in want /\ ear[s] = nil
    /\ step[s] = "idle" /\ s \notin want => ear[s] = nil

\* The session that runs is the one the stream was opened in: the stream is
\* connected to it and every message on its way is of it.
OfSession(s) ==
  /\ phase = "up"
  /\ [port |-> ear[s], session |-> session] \in conns
  /\ \A c \in conns \cup flight : c.port = ear[s] => c.session = session
  /\ \A i \in 1..Len(inbox) :
       inbox[i].port = ear[s] => inbox[i].obj.as_string = session
  /\ view[s] \in {Shows("waiting"), Data(session)} \/ view[s].what = "back"

\* A provider with nothing left to do shows what the app believes: a stream
\* of the session that runs, or of one whose end it is about to hear of.
Fits(s) ==
  \/ connected /\ ear[s] # nil /\ (OfSession(s) \/ Ending)
  \/ connected /\ ear[s] = nil /\ view[s].what \in {"error", "back"}
  \/ ~connected /\ ear[s] = nil /\ (view[s] = Shows("empty") \/ view[s].what = "back")

Settled(s) == s \in want /\ step[s] = "idle" /\ ~dirty

LiveInv ==
  /\ StreamsInv
  /\ StatusesFollow /\ ErrorsHide /\ ClientsApart /\ BuildsAnew
  /\ \A s \in Streams : Settled(s) => Fits(s)

----------------------------------------------------------------------------
(* The inbox, and what is sent to it.                                       *)

\* A message is posted behind the others.
LEMMA Posted ==
  ASSUME TypeOK, NEW m \in Message, inbox' = Append(inbox, m)
  PROVE  /\ Len(inbox) \in Nat /\ Len(inbox') = Len(inbox) + 1
         /\ inbox'[Len(inbox')] = m
         /\ \A i \in 1..Len(inbox) : inbox'[i] = inbox[i]
<1>1. inbox \in Seq(Message)
  BY DEF TypeOK
<1> QED
  BY <1>1, AppendProperties, LenProperties

\* The first message is taken, and the others move up.
LEMMA Taken ==
  ASSUME TypeOK, inbox # <<>>, inbox' = Tail(inbox)
  PROVE  /\ Len(inbox) \in Nat \ {0} /\ Len(inbox') = Len(inbox) - 1
         /\ Head(inbox) = inbox[1]
         /\ \A i \in 1..Len(inbox') : inbox'[i] = inbox[i + 1]
<1>1. inbox \in Seq(Message)
  BY DEF TypeOK
<1> QED
  BY <1>1, HeadTailProperties, LenProperties

\* A message that is sent to an open port is the last of the inbox.
LEMMA SendingAppends ==
  ASSUME TypeOK, SetUp, initialized, NEW port \in Nat, NEW value \in Nat,
         SendStringToPort(port, value)
  PROVE  /\ UNCHANGED crash
         /\ [port |-> port, obj |-> CObject(value)] \in Message
         /\ inbox' = IF port \in open
                       THEN Append(inbox, [port |-> port, obj |-> CObject(value)])
                       ELSE inbox
<1>1. UNCHANGED crash /\ PostCObject(port, CObject(value))
  BY PostIsThere DEF SendStringToPort, SetUp
<1> QED
  BY <1>1 DEF PostCObject, Message, CObject

\* The core's steps that publish a status.
LEMMA StatusIsSent ==
  ASSUME StreamsInv, CoreStarts \/ CoreStopping
  PROVE  \E m \in Message :
           /\ inbox' = Append(inbox, m) /\ m.port = StatusPort
           /\ m.obj.as_string = Started <=> phase' = "up"
           /\ phase = "up" => m.obj.as_string # Started
           /\ phase # "up" => phase = "down"
           /\ UNCHANGED <<clientVars, streamVars, pageVars, statusVars, crash>>
<1> USE DEF StreamsInv
<1>1. initialized /\ statusPort = StatusPort /\ StatusPort \in open
  BY DEF CoreStarts, CoreStopping, SetUp, ClientPerStream
<1>2. StatusPort \in Nat /\ Started \in Nat /\ NotStarted \in Nat
      /\ Started # NotStarted
  BY DEF StatusPort, Started, NotStarted
<1>3. PICK v \in Nat : /\ SendStringToPort(StatusPort, v)
                       /\ v = Started <=> phase' = "up"
                       /\ phase = "up" => v # Started
                       /\ phase # "up" => phase = "down"
                       /\ UNCHANGED <<clientVars, streamVars, pageVars, statusVars>>
  BY <1>1, <1>2 DEF CoreStarts, CoreStopping
<1>4. /\ UNCHANGED crash
      /\ [port |-> StatusPort, obj |-> CObject(v)] \in Message
      /\ inbox' = Append(inbox, [port |-> StatusPort, obj |-> CObject(v)])
  BY <1>1, <1>2, <1>3, SendingAppends
<1>5. [port |-> StatusPort, obj |-> CObject(v)].obj.as_string = v
  BY DEF CObject
<1> QED
  BY <1>3, <1>4, <1>5

\* A client posts what it has read, or finds its port closed.
LEMMA ClientWrites ==
  ASSUME StreamsInv, NEW m \in flight, Write(m)
  PROVE  /\ \/ UNCHANGED inbox
            \/ \E n \in Message : /\ inbox' = Append(inbox, n)
                                  /\ n.port = m.port /\ n.obj.as_string = m.session
         /\ flight' \subseteq flight
         /\ UNCHANGED <<client, conns, coreVars, streamVars, pageVars, statusVars, crash>>
<1> USE DEF StreamsInv
<1>1. m.port \in Nat /\ m.session \in Nat /\ initialized
  BY BoundsAssumption DEF TypeOK, SetUp
<1>2. /\ SendStringToPort(m.port, m.session) /\ flight' \subseteq flight
      /\ UNCHANGED <<client, conns, coreVars, streamVars, pageVars, statusVars>>
  BY DEF Write
<1>3. /\ UNCHANGED crash
      /\ [port |-> m.port, obj |-> CObject(m.session)] \in Message
      /\ UNCHANGED inbox
         \/ inbox' = Append(inbox, [port |-> m.port, obj |-> CObject(m.session)])
  BY <1>1, <1>2, SendingAppends
<1>4. [port |-> m.port, obj |-> CObject(m.session)].obj.as_string = m.session
  BY DEF CObject
<1> QED
  BY <1>2, <1>3, <1>4

----------------------------------------------------------------------------
(* The statuses and the app's belief.                                       *)

\* The last that is heard stays what the core is.
LEMMA StatusesFollowKept ==
  ASSUME StreamsInv, StatusesFollow, ClientsApart, Next
  PROVE  StatusesFollow'
<1> USE DEF libVars, clientVars, coreVars, streamVars, pageVars, statusVars
<1>0. TypeOK /\ Len(inbox) \in Nat
  BY LenProperties DEF StreamsInv, TypeOK
<1>1. ASSUME UNCHANGED <<inbox, connected, failed>>, phase' = "up" <=> phase = "up"
      PROVE  StatusesFollow'
  BY <1>1 DEF StatusesFollow, StatusAt, Says
<1>2. CASE CoreStarts \/ CoreStopping
  <2>1. PICK m \in Message : /\ inbox' = Append(inbox, m) /\ m.port = StatusPort
                             /\ m.obj.as_string = Started <=> phase' = "up"
    BY <1>2, StatusIsSent
  <2>2. Len(inbox') = Len(inbox) + 1 /\ inbox'[Len(inbox')] = m
    BY <1>0, <2>1, Posted
  <2>3. StatusAt(Len(inbox))' /\ (Says(Len(inbox))' <=> phase' = "up")
    BY <1>0, <2>1, <2>2 DEF StatusAt, Says
  <2>4. ASSUME NEW i \in 0..Len(inbox'), i # Len(inbox')
        PROVE  Len(inbox') \in (i + 1)..Len(inbox')
    BY <1>0, <2>2, <2>4
  <2> QED
    BY <2>3, <2>4 DEF StatusesFollow, StatusAt, Says
<1>3. ASSUME NEW m \in flight, Write(m) PROVE StatusesFollow'
  <2>1. /\ UNCHANGED <<phase, connected, failed>>
        /\ \/ UNCHANGED inbox
           \/ \E n \in Message : inbox' = Append(inbox, n) /\ n.port = m.port
    BY <1>3, ClientWrites
  <2>2. CASE UNCHANGED inbox
    BY <1>1, <2>1, <2>2
  <2>3. ASSUME NEW n \in Message, inbox' = Append(inbox, n), n.port = m.port
        PROVE  StatusesFollow'
    <3>1. /\ Len(inbox') = Len(inbox) + 1
          /\ inbox'[Len(inbox')] = n
          /\ \A i \in 1..Len(inbox) : inbox'[i] = inbox[i]
      BY <1>0, <2>3, Posted
    <3>2. inbox'[Len(inbox')].port # StatusPort
      BY <2>3, <3>1 DEF ClientsApart
    <3>3. ASSUME NEW i \in 0..Len(inbox')
          PROVE  /\ StatusAt(i)' <=> i \in 0..Len(inbox) /\ StatusAt(i)
                 /\ StatusAt(i)' => (Says(i)' <=> Says(i))
      BY <1>0, <2>1, <3>1, <3>2 DEF StatusAt, Says
    <3>4. ASSUME NEW i \in 0..Len(inbox'), StatusAt(i)', ~(Says(i)' <=> phase' = "up")
          PROVE  \E j \in (i + 1)..Len(inbox') :
                   StatusAt(j)' /\ (Says(j)' <=> phase' = "up")
      <4>1. i \in 0..Len(inbox) /\ StatusAt(i) /\ ~(Says(i) <=> phase = "up")
        BY <2>1, <3>3, <3>4
      <4>2. PICK j \in (i + 1)..Len(inbox) : StatusAt(j) /\ (Says(j) <=> phase = "up")
        BY <4>1 DEF StatusesFollow
      <4>3. j \in (i + 1)..Len(inbox') /\ j \in 0..Len(inbox') /\ j \in 0..Len(inbox)
        BY <1>0, <3>1
      <4>4. StatusAt(j)' /\ (Says(j)' <=> phase' = "up")
        BY <2>1, <3>3, <4>2, <4>3
      <4> QED
        BY <4>3, <4>4
    <3> QED
      BY <3>4 DEF StatusesFollow
  <2> QED
    BY <2>1, <2>2, <2>3
<1>4. CASE Deliver
  <2>1. /\ inbox # <<>> /\ inbox' = Tail(inbox) /\ UNCHANGED phase
        /\ \/ /\ Head(inbox).port = StatusPort
              /\ connected' = (Head(inbox).obj.as_string = Started)
           \/ Head(inbox).port # StatusPort /\ UNCHANGED <<connected, failed>>
    BY <1>4 DEF Deliver
  <2>2. /\ Len(inbox) \in Nat \ {0} /\ Len(inbox') = Len(inbox) - 1
        /\ Head(inbox) = inbox[1]
        /\ \A i \in 1..Len(inbox') : inbox'[i] = inbox[i + 1]
    BY <1>0, <2>1, Taken
  <2>3. ASSUME NEW j \in 2..Len(inbox)
        PROVE  /\ j - 1 \in 1..Len(inbox')
               /\ StatusAt(j - 1)' <=> StatusAt(j)
               /\ Says(j - 1)' <=> Says(j)
    <3>1. j - 1 \in 1..Len(inbox') /\ (j - 1) + 1 = j /\ j # 0 /\ j - 1 # 0
      BY <2>2
    <3>2. inbox'[j - 1] = inbox[j]
      BY <2>2, <3>1
    <3> QED
      BY <3>1, <3>2 DEF StatusAt, Says
  <2>4. ASSUME NEW i \in 0..Len(inbox'), StatusAt(i)', ~(Says(i)' <=> phase' = "up")
        PROVE  \E j \in 2..Len(inbox) :
                 j > i + 1 /\ StatusAt(j) /\ (Says(j) <=> phase = "up")
    <3>1. CASE i # 0
      <4>1. i + 1 \in 2..Len(inbox) /\ (i + 1) - 1 = i
        BY <2>2, <3>1
      <4>2. StatusAt(i + 1) /\ ~(Says(i + 1) <=> phase = "up")
        BY <2>1, <2>3, <2>4, <4>1
      <4>3. PICK j \in ((i + 1) + 1)..Len(inbox) :
              StatusAt(j) /\ (Says(j) <=> phase = "up")
        BY <2>2, <4>1, <4>2 DEF StatusesFollow
      <4> QED
        BY <2>2, <4>1, <4>3
    <3>2. CASE i = 0 /\ Head(inbox).port = StatusPort
      <4>3. connected' <=> inbox[1].obj.as_string = Started
        BY <2>1, <2>2, <3>2
      <4>4. ~(connected' <=> phase' = "up")
        BY <2>4, <3>2 DEF Says
      <4>1. 1 \in 0..Len(inbox) /\ StatusAt(1) /\ ~(Says(1) <=> phase = "up")
        BY <2>1, <2>2, <3>2, <4>3, <4>4 DEF StatusAt, Says
      <4>2. PICK j \in (1 + 1)..Len(inbox) : StatusAt(j) /\ (Says(j) <=> phase = "up")
        BY <4>1 DEF StatusesFollow
      <4> QED
        BY <2>2, <3>2, <4>2
    <3>3. CASE i = 0 /\ Head(inbox).port # StatusPort
      <4>1. 0 \in 0..Len(inbox) /\ StatusAt(0) /\ ~(Says(0) <=> phase = "up")
        BY <2>1, <2>2, <2>4, <3>3 DEF StatusAt, Says
      <4>2. PICK j \in (0 + 1)..Len(inbox) : StatusAt(j) /\ (Says(j) <=> phase = "up")
        BY <4>1 DEF StatusesFollow
      <4>3. j # 1
        BY <2>2, <3>3, <4>2 DEF StatusAt
      <4> QED
        BY <2>2, <3>3, <4>2, <4>3
    <3> QED
      BY <3>1, <3>2, <3>3
  <2>5. ASSUME NEW i \in 0..Len(inbox'), StatusAt(i)', ~(Says(i)' <=> phase' = "up")
        PROVE  \E j \in (i + 1)..Len(inbox') :
                 StatusAt(j)' /\ (Says(j)' <=> phase' = "up")
    <3>1. PICK j \in 2..Len(inbox) :
            j > i + 1 /\ StatusAt(j) /\ (Says(j) <=> phase = "up")
      BY <2>4, <2>5
    <3>2. j - 1 \in (i + 1)..Len(inbox')
      BY <2>2, <3>1
    <3>3. StatusAt(j - 1)' /\ (Says(j - 1)' <=> phase' = "up")
      BY <2>1, <2>3, <3>1
    <3> QED
      BY <3>2, <3>3
  <2> QED
    BY <2>5 DEF StatusesFollow
<1>5. CASE SetupOnceRefuses \/ Setup \/ CoreStopped
  BY <1>1, <1>5 DEF SetupOnceRefuses, Setup, CoreStopped
<1>6. CASE Flush \/ Resort \/ ChangeProxy \/ ProxyChanged
  BY <1>1, <1>6 DEF Flush, Resort, ChangeProxy, ProxyChanged
<1>7. ASSUME NEW c \in conns, Read(c) \/ Lose(c) PROVE StatusesFollow'
  BY <1>1, <1>7 DEF Read, Lose
<1>8. ASSUME NEW s \in Streams, Cancel(s) \/ Build(s) \/ Open(s) \/ Close(s)
      PROVE  StatusesFollow'
  <2>1. UNCHANGED <<inbox, connected, failed, phase>>
    BY <1>8 DEF Cancel, Build, Open, Close
  <2> QED
    BY <1>1, <2>1
<1>9. CASE CallFails
  <2>1. UNCHANGED <<inbox, phase>> /\ failed'
    BY <1>9 DEF CallFails
  <2> QED
    BY <2>1 DEF StatusesFollow, StatusAt, Says
<1> QED
  BY <1>2, <1>3, <1>4, <1>5, <1>6, <1>7, <1>8, <1>9 DEF Next

\* A status takes the place of an error, and an error of what was believed.
LEMMA ErrorsHideKept ==
  ASSUME ErrorsHide, Next
  PROVE  ErrorsHide'
<1> USE DEF statusVars, ErrorsHide
<1>2. CASE Deliver \/ CallFails \/ Flush
  BY <1>2 DEF Deliver, CallFails, Flush
<1>3. CASE CoreStarts \/ CoreStopping \/ CoreStopped \/ SetupOnceRefuses \/ Setup
  BY <1>3 DEF CoreStarts, CoreStopping, CoreStopped, SetupOnceRefuses, Setup
<1>4. CASE Resort \/ ChangeProxy \/ ProxyChanged
  BY <1>4 DEF Resort, ChangeProxy, ProxyChanged
<1>5. ASSUME NEW s \in Streams, Cancel(s) \/ Build(s) \/ Open(s) \/ Close(s)
      PROVE  ErrorsHide'
  BY <1>5 DEF Cancel, Build, Open, Close
<1>6. ASSUME NEW c \in conns, Read(c) \/ Lose(c) PROVE ErrorsHide'
  BY <1>6 DEF Read, Lose
<1>7. ASSUME NEW m \in flight, Write(m) PROVE ErrorsHide'
  BY <1>7 DEF Write
<1> QED
  BY <1>2, <1>3, <1>4, <1>5, <1>6, <1>7 DEF Next

\* No client gets the port of the statuses.
LEMMA ClientsApartKept ==
  ASSUME StreamsInv, ClientsApart, Next
  PROVE  ClientsApart'
<1> USE DEF libVars, clientVars, coreVars, streamVars, pageVars, statusVars
<1>1. ASSUME flight' \subseteq flight PROVE ClientsApart'
  BY <1>1 DEF ClientsApart
<1>2. ASSUME NEW c \in conns, Read(c) PROVE ClientsApart'
  <2>1. c.port # StatusPort
    BY DEF StreamsInv, ClientPerStream, PortsDiffer
  <2> QED
    BY <1>2, <2>1 DEF Read, ClientsApart
<1>3. ASSUME NEW m \in flight, Write(m) PROVE ClientsApart'
  BY <1>1, <1>3 DEF Write
<1>4. ASSUME NEW c \in conns, Lose(c) PROVE ClientsApart'
  BY <1>1, <1>4 DEF Lose
<1>5. ASSUME NEW s \in Streams, Cancel(s) \/ Build(s) \/ Open(s) \/ Close(s)
      PROVE  ClientsApart'
  BY <1>1, <1>5 DEF Cancel, Build, Open, Close
<1>6. CASE SetupOnceRefuses \/ Setup \/ CoreStarts \/ CoreStopping \/ CoreStopped
  BY <1>1, <1>6 DEF SetupOnceRefuses, Setup, CoreStarts, CoreStopping, CoreStopped
<1>7. CASE Deliver \/ CallFails \/ Flush \/ Resort \/ ChangeProxy \/ ProxyChanged
  BY <1>1, <1>7 DEF Deliver, CallFails, Flush, Resort, ChangeProxy, ProxyChanged
<1> QED
  BY <1>2, <1>3, <1>4, <1>5, <1>6, <1>7 DEF Next

\* A provider builds only once its old stream is gone.
LEMMA BuildsAnewKept ==
  ASSUME StreamsInv, BuildsAnew, Next
  PROVE  BuildsAnew'
<1> USE DEF libVars, clientVars, coreVars, streamVars, pageVars, statusVars
<1>0. TypeOK
  BY DEF StreamsInv
<1>1. ASSUME UNCHANGED <<step, want, ear>> PROVE BuildsAnew'
  BY <1>1 DEF BuildsAnew
<1>2. ASSUME NEW s \in Streams, Cancel(s) PROVE BuildsAnew'
  <2>1. /\ step' = [step EXCEPT ![s] = IF s \in want THEN "build" ELSE "idle"]
        /\ UNCHANGED want /\ step[s] = "cancel"
    BY <1>2 DEF Cancel
  <2>2. ear' = [ear EXCEPT ![s] = nil]
    <3>1. CASE ear[s] = nil
      BY <1>0, <1>2, <3>1 DEF Cancel, TypeOK
    <3>2. CASE ear[s] # nil
      BY <1>2, <3>2 DEF Cancel, StreamsInv, ClientPerStream
    <3> QED
      BY <3>1, <3>2
  <2>3. step'[s] = "build" => s \in want
    BY <1>0, <2>1 DEF TypeOK
  <2>4. /\ ear'[s] = nil
        /\ \A t \in Streams \ {s} : ear'[t] = ear[t] /\ step'[t] = step[t]
    BY <1>0, <2>1, <2>2 DEF TypeOK
  <2> QED
    BY <2>1, <2>3, <2>4 DEF BuildsAnew
<1>3. ASSUME NEW s \in Streams, Build(s) PROVE BuildsAnew'
  <2>1. /\ step' = [step EXCEPT ![s] = "idle"] /\ UNCHANGED want /\ step[s] = "build"
    BY <1>3 DEF Build
  <2>2. \A t \in Streams \ {s} : ear'[t] = ear[t]
    BY <1>0, <1>3 DEF Build, Watch, WatchKept, WatchNew, TypeOK
  <2>3. s \in want
    BY <2>1 DEF BuildsAnew
  <2>4. step'[s] = "idle" /\ \A t \in Streams \ {s} : step'[t] = step[t]
    BY <1>0, <2>1 DEF TypeOK
  <2> QED
    BY <2>1, <2>2, <2>3, <2>4 DEF BuildsAnew
<1>4. ASSUME NEW s \in Streams, Open(s) PROVE BuildsAnew'
  <2>1. /\ want' = want \cup {s} /\ step' = [step EXCEPT ![s] = "build"]
        /\ UNCHANGED ear /\ s \notin want /\ step[s] = "idle"
    BY <1>4 DEF Open, BetweenEvents
  <2>2. step'[s] = "build" /\ \A t \in Streams \ {s} : step'[t] = step[t]
    BY <1>0, <2>1 DEF TypeOK
  <2> QED
    BY <2>1, <2>2 DEF BuildsAnew
<1>5. ASSUME NEW s \in Streams, Close(s) PROVE BuildsAnew'
  <2>1. /\ want' = want \ {s} /\ step' = [step EXCEPT ![s] = "cancel"]
        /\ UNCHANGED ear /\ BetweenEvents
    BY <1>5 DEF Close
  <2>2. step'[s] = "cancel" /\ \A t \in Streams \ {s} : step'[t] = "idle"
    BY <1>0, <2>1 DEF TypeOK, BetweenEvents
  <2> QED
    BY <2>1, <2>2 DEF BuildsAnew, BetweenEvents
<1>6. CASE Flush
  <2>1. /\ step' = [s \in Streams |-> IF s \in want THEN "cancel" ELSE "idle"]
        /\ UNCHANGED <<ear, want>> /\ BetweenEvents
    BY <1>6 DEF Flush
  <2> QED
    BY <2>1 DEF BuildsAnew, BetweenEvents
<1>7. CASE Resort
  <2>1. /\ step' = [step EXCEPT !["outbounds"] = "cancel"]
        /\ UNCHANGED <<ear, want>>
    BY <1>7 DEF Resort
  <2>2. \A t \in Streams : step'[t] \in {step[t], "cancel"}
    BY <1>0, <2>1 DEF TypeOK
  <2> QED
    BY <2>1, <2>2 DEF BuildsAnew
<1>8. ASSUME NEW c \in conns, Read(c) \/ Lose(c) PROVE BuildsAnew'
  BY <1>1, <1>8 DEF Read, Lose
<1>9. ASSUME NEW m \in flight, Write(m) PROVE BuildsAnew'
  BY <1>1, <1>9 DEF Write
<1>10. CASE SetupOnceRefuses \/ Setup \/ CoreStarts \/ CoreStopping \/ CoreStopped
  BY <1>1, <1>10 DEF SetupOnceRefuses, Setup, CoreStarts, CoreStopping, CoreStopped
<1>11. CASE Deliver \/ CallFails \/ ChangeProxy \/ ProxyChanged
  BY <1>1, <1>11 DEF Deliver, CallFails, ChangeProxy, ProxyChanged
<1> QED
  BY <1>2, <1>3, <1>4, <1>5, <1>6, <1>7, <1>8, <1>9, <1>10, <1>11 DEF Next

----------------------------------------------------------------------------
(* What a provider shows.                                                   *)

\* What it was about to hear it still is when a message is posted.
LEMMA EndingStays ==
  ASSUME TypeOK, Ending, NEW m \in Message, inbox' = Append(inbox, m)
  PROVE  Ending'
<1>1. PICK i \in 1..Len(inbox) : StatusAt(i) /\ ~Says(i)
  BY DEF Ending
<1>2. i \in 1..Len(inbox') /\ inbox'[i] = inbox[i] /\ i # 0
  BY Posted
<1> QED
  BY <1>1, <1>2 DEF Ending, StatusAt, Says

\* It believes in a core that is no longer up only while it is about to hear.
LEMMA BeliefEnds ==
  ASSUME StreamsInv, StatusesFollow, ErrorsHide, connected, phase # "up"
  PROVE  Ending
<1>1. Len(inbox) \in Nat
  BY LenProperties DEF StreamsInv, TypeOK
<1>2. 0 \in 0..Len(inbox) /\ StatusAt(0) /\ ~(Says(0) <=> phase = "up")
  BY <1>1 DEF ErrorsHide, StatusAt, Says
<1>3. PICK j \in (0 + 1)..Len(inbox) : StatusAt(j) /\ (Says(j) <=> phase = "up")
  BY <1>2 DEF StatusesFollow
<1> QED
  BY <1>1, <1>3 DEF Ending

\* What a provider shows stays what fits while its own stream is left alone.
LEMMA FitsStays ==
  ASSUME NEW s \in Streams, Fits(s), UNCHANGED connected, ear'[s] = ear[s],
         view'[s] = view[s] \/ view'[s].what = "back" \/ ear[s] # nil,
         ear[s] # nil /\ OfSession(s) => OfSession(s)' \/ Ending',
         Ending => Ending'
  PROVE  Fits(s)'
<1>1. CASE connected /\ ear[s] # nil
  BY <1>1 DEF Fits
<1>2. CASE connected /\ ear[s] = nil
  BY <1>2 DEF Fits
<1>3. CASE ~connected
  BY <1>3 DEF Fits
<1> QED
  BY <1>1, <1>2, <1>3

\* A stream stays one of the session that runs while its client stays connected
\* and no other client comes to its port.
LEMMA OfSessionStays ==
  ASSUME NEW s \in Streams, OfSession(s), UNCHANGED <<phase, session, inbox>>,
         ear'[s] = ear[s], view'[s] = view[s] \/ view'[s].what = "back",
         [port |-> ear[s], session |-> session] \in conns',
         \A c \in conns' \cup flight' :
           c \in conns \cup flight \/ c.port # ear[s]
  PROVE  OfSession(s)'
<1>1. \A c \in conns' \cup flight' : c.port = ear[s] => c.session = session
  BY DEF OfSession
<1>2. view'[s] \in {Shows("waiting"), Data(session)} \/ view'[s].what = "back"
  BY DEF OfSession
<1> QED
  BY <1>1, <1>2 DEF OfSession

\* Neither the core's steps nor the clients' disturb what fits.
LEMMA FitsCore ==
  ASSUME LiveInv, NEW s \in Streams, Fits(s),
         CoreStarts \/ CoreStopping \/ CoreStopped
  PROVE  Fits(s)'
<1> USE DEF libVars, clientVars, coreVars, streamVars, pageVars, statusVars
<1>1. CASE CoreStarts \/ CoreStopping
  <2>1. PICK m \in Message : /\ inbox' = Append(inbox, m) /\ m.port = StatusPort
                             /\ phase = "up" => m.obj.as_string # Started
                             /\ UNCHANGED <<ear, view, connected>>
    BY <1>1, StatusIsSent DEF LiveInv
  <2>2. /\ Len(inbox) \in Nat /\ Len(inbox') = Len(inbox) + 1
        /\ inbox'[Len(inbox')] = m
    BY <2>1, Posted DEF LiveInv, StreamsInv
  <2>3. Ending => Ending'
    BY <2>1, EndingStays DEF LiveInv, StreamsInv
  <2>4. ASSUME OfSession(s) PROVE Ending'
    <3>1. m.obj.as_string # Started
      BY <2>1, <2>4 DEF OfSession
    <3>2. Len(inbox') \in 1..Len(inbox') /\ Len(inbox') # 0
      BY <2>2
    <3> QED
      BY <2>1, <2>2, <3>1, <3>2 DEF Ending, StatusAt, Says
  <2> QED
    BY <2>1, <2>3, <2>4, FitsStays
<1>2. CASE CoreStopped
  <2>1. UNCHANGED <<ear, view, connected, inbox>> /\ phase # "up"
    BY <1>2 DEF CoreStopped
  <2>2. ~OfSession(s)
    BY <2>1 DEF OfSession
  <2>3. Ending => Ending'
    BY <2>1 DEF Ending, StatusAt, Says
  <2> QED
    BY <2>1, <2>2, <2>3, FitsStays
<1> QED
  BY <1>1, <1>2

LEMMA FitsClients ==
  ASSUME LiveInv, NEW s \in Streams, Fits(s),
         \/ \E c \in conns : Read(c) \/ Lose(c)
         \/ \E m \in flight : Write(m)
  PROVE  Fits(s)'
<1> USE DEF libVars, clientVars, coreVars, streamVars, pageVars, statusVars
<1>1. ASSUME NEW c \in conns, Read(c) \/ Lose(c) PROVE Fits(s)'
  <2>1. UNCHANGED <<ear, view, connected, inbox, phase, session>>
    BY <1>1 DEF Read, Lose
  <2>2. Ending => Ending'
    BY <2>1 DEF Ending, StatusAt, Says
  <2>3. conns' \cup flight' \subseteq conns \cup flight
    BY <1>1 DEF Read, Lose
  <2>4. ASSUME OfSession(s) PROVE OfSession(s)'
    <3>1. [port |-> ear[s], session |-> session] \in conns'
      BY <1>1, <2>4 DEF Read, Lose, OfSession
    <3> QED
      BY <2>1, <2>3, <2>4, <3>1, OfSessionStays
  <2> QED
    BY <2>1, <2>2, <2>4, FitsStays
<1>2. ASSUME NEW m \in flight, Write(m) PROVE Fits(s)'
  <2>1. /\ \/ UNCHANGED inbox
           \/ \E n \in Message : /\ inbox' = Append(inbox, n)
                                 /\ n.port = m.port /\ n.obj.as_string = m.session
        /\ flight' \subseteq flight
        /\ UNCHANGED <<conns, phase, session, ear, view, connected>>
    BY <1>2, ClientWrites DEF LiveInv
  <2>2. CASE UNCHANGED inbox
    <3>1. Ending => Ending'
      BY <2>1, <2>2 DEF Ending, StatusAt, Says
    <3>2. OfSession(s) => OfSession(s)'
      BY <2>1, <2>2 DEF OfSession
    <3> QED
      BY <2>1, <3>1, <3>2, FitsStays
  <2>3. ASSUME NEW n \in Message, inbox' = Append(inbox, n),
               n.port = m.port, n.obj.as_string = m.session
        PROVE  Fits(s)'
    <3>1. /\ Len(inbox) \in Nat /\ Len(inbox') = Len(inbox) + 1
          /\ inbox'[Len(inbox')] = n
          /\ \A i \in 1..Len(inbox) : inbox'[i] = inbox[i]
      BY <2>3, Posted DEF LiveInv, StreamsInv
    <3>2. Ending => Ending'
      BY <2>3, EndingStays DEF LiveInv, StreamsInv
    <3>3. ASSUME OfSession(s) PROVE OfSession(s)'
      <4>1. n.port = ear[s] => n.obj.as_string = session
        BY <2>3, <3>3 DEF OfSession
      <4>2. ASSUME NEW i \in 1..Len(inbox'), inbox'[i].port = ear[s]
            PROVE  inbox'[i].obj.as_string = session
        <5>1. CASE i = Len(inbox')
          BY <3>1, <4>1, <4>2, <5>1
        <5>2. CASE i # Len(inbox')
          BY <3>1, <3>3, <4>2, <5>2 DEF OfSession
        <5> QED
          BY <5>1, <5>2
      <4> QED
        BY <2>1, <3>3, <4>2 DEF OfSession
    <3> QED
      BY <2>1, <3>2, <3>3, FitsStays
  <2> QED
    BY <2>1, <2>2, <2>3
<1> QED
  BY <1>1, <1>2

\* A provider that has built has what fits: a stream of the session that runs
\* when it believes in one, and of one it will hear the end of otherwise.
LEMMA BuildFits ==
  ASSUME LiveInv, NEW s \in Streams, Build(s)
  PROVE  Fits(s)'
<1> USE DEF streamVars, coreVars, statusVars
<1>0. TypeOK /\ SetUp /\ ClientPerStream /\ PortsDiffer
  BY DEF LiveInv, StreamsInv
<1>1. ear[s] = nil /\ cache[s] = nil
  BY <1>0 DEF LiveInv, BuildsAnew, Build, ClientPerStream
<1>2. UNCHANGED <<inbox, connected, flight, phase, session>>
  BY DEF Build
<1>3. Ending => Ending'
  BY <1>2 DEF Ending, StatusAt, Says
<1>4. CASE ~connected
  <2>1. view' = [view EXCEPT ![s] = Shows("empty")] /\ UNCHANGED ear
    BY <1>4 DEF Build
  <2>2. view'[s] = Shows("empty")
    BY <1>0, <2>1 DEF TypeOK
  <2> QED
    BY <1>1, <1>2, <1>4, <2>1, <2>2 DEF Fits
<1>5. CASE connected
  <2>1. WatchNew(s)
    BY <1>1, <1>5 DEF Build, Watch
  <2>2. FreshPort \in Nat \ {0, 1} /\ Unused(FreshPort)
    BY <2>1, FreshIsUnused DEF WatchNew
  <2>3. CASE /\ StartCommand(s, FreshPort, TRUE)
             /\ ear' = [ear EXCEPT ![s] = FreshPort]
             /\ view' = [view EXCEPT ![s] = Shows("waiting")]
    <3>1. ear'[s] = FreshPort /\ ear'[s] # nil /\ view'[s] = Shows("waiting")
      BY <1>0, <2>2, <2>3 DEF TypeOK, nil
    <3>2. conns' = conns \cup {[port |-> FreshPort, session |-> session]}
      BY <2>3 DEF StartCommand
    <3>3. \A c \in conns \cup flight : c.port # FreshPort
      BY <2>2 DEF Unused, PortsOf
    <3>4. \A i \in 1..Len(inbox) : inbox[i].port # FreshPort
      <4>1. inbox \in Seq(Message) /\ \A m \in ToSet(inbox) : m.port # FreshPort
        BY <1>0, <2>2 DEF Unused, PortsOf, TypeOK
      <4>2. \A i \in 1..Len(inbox) : inbox[i] \in ToSet(inbox)
        BY DEF ToSet
      <4> QED
        BY <4>1, <4>2
    <3>5. CASE phase = "up"
      <4>1. [port |-> ear'[s], session |-> session'] \in conns'
        BY <1>2, <3>1, <3>2
      <4>2. \A c \in conns' \cup flight' : c.port = ear'[s] => c.session = session'
        BY <1>2, <3>1, <3>2, <3>3
      <4>3. \A i \in 1..Len(inbox') : inbox'[i].port # ear'[s]
        BY <1>2, <3>1, <3>4
      <4>4. OfSession(s)'
        BY <1>2, <3>1, <3>5, <4>1, <4>2, <4>3 DEF OfSession
      <4> QED
        BY <1>2, <1>5, <3>1, <4>4 DEF Fits
    <3>6. CASE phase # "up"
      <4>1. Ending
        BY <1>5, <3>6, BeliefEnds DEF LiveInv
      <4> QED
        BY <1>2, <1>3, <1>5, <3>1, <4>1 DEF Fits
    <3> QED
      BY <3>5, <3>6
  <2>4. CASE view' = [view EXCEPT ![s] = Shows("error")] /\ UNCHANGED ear
    <3>1. view'[s].what = "error"
      BY <1>0, <2>4 DEF TypeOK, Shows
    <3> QED
      BY <1>1, <1>2, <1>5, <2>4, <3>1 DEF Fits
  <2>5. logFactory
    BY <1>0, <1>5 DEF SetUp
  <2> QED
    BY <2>1, <2>3, <2>4, <2>5 DEF WatchNew
<1> QED
  BY <1>4, <1>5

\* The stream of another provider comes and goes with a port of its own.
LEMMA FitsElsewhere ==
  ASSUME LiveInv, NEW s \in Streams, Fits(s), NEW t \in Streams \ {s},
         Cancel(t) \/ Build(t)
  PROVE  Fits(s)'
<1> USE DEF streamVars, coreVars, statusVars
<1>0. TypeOK /\ SetUp /\ ClientPerStream /\ PortsDiffer
  BY DEF LiveInv, StreamsInv
<1>1. UNCHANGED <<inbox, connected, flight, phase, session>>
  BY DEF Cancel, Build
<1>2. Ending => Ending'
  BY <1>1 DEF Ending, StatusAt, Says
<1>3. view'[s] = view[s]
  BY <1>0 DEF Cancel, Build, Watch, WatchKept, WatchNew, TypeOK
<1>4. ear'[s] = ear[s]
  BY <1>0 DEF Cancel, Build, Watch, WatchKept, WatchNew, TypeOK
<1>5. ASSUME ear[s] # nil, OfSession(s) PROVE OfSession(s)'
  <2>1. CASE UNCHANGED conns
    BY <1>1, <1>3, <1>4, <1>5, <2>1 DEF OfSession
  <2>2. CASE ear[t] # nil /\ StopCommand(t)
    <3>1. client[t] = ear[t] /\ ear[t] # ear[s]
      BY <1>0, <2>2 DEF ClientPerStream, PortsDiffer
    <3>2. conns' = {c \in conns : c.port # ear[t]}
      BY <2>2, <3>1 DEF StopCommand
    <3>3. [port |-> ear[s], session |-> session] \in conns'
      BY <1>5, <3>1, <3>2 DEF OfSession
    <3>4. \A c \in conns' \cup flight' : c \in conns \cup flight
      BY <1>1, <3>2
    <3> QED
      BY <1>1, <1>3, <1>4, <1>5, <3>3, <3>4, OfSessionStays
  <2>3. CASE /\ \E port \in Ports : Unused(port)
             /\ StartCommand(t, FreshPort, TRUE)
    <3>1. Unused(FreshPort)
      BY <2>3, FreshIsUnused
    <3>2. FreshPort # ear[s]
      BY <1>0, <1>5, <3>1 DEF Unused, ClientPerStream
    <3>3. conns' = conns \cup {[port |-> FreshPort, session |-> session]}
      BY <2>3 DEF StartCommand
    <3>4. [port |-> ear[s], session |-> session] \in conns'
      BY <1>5, <3>3 DEF OfSession
    <3>5. \A c \in conns' \cup flight' : c \in conns \cup flight \/ c.port # ear[s]
      BY <1>1, <3>2, <3>3
    <3> QED
      BY <1>1, <1>3, <1>4, <1>5, <3>4, <3>5, OfSessionStays
  <2> QED
    BY <2>1, <2>2, <2>3 DEF Cancel, Build, Watch, WatchKept, WatchNew, StartCommand
<1> QED
  BY <1>1, <1>2, <1>3, <1>4, <1>5, FitsStays

\* A status that tells nothing new is not the one a provider waits for, and a
\* client's message is of the session of its stream.
LEMMA FitsDeliver ==
  ASSUME LiveInv, NEW s \in Streams, Fits(s), Deliver, ~dirty'
  PROVE  Fits(s)'
<1> USE DEF streamVars, clientVars, coreVars
<1>0. TypeOK /\ ClientPerStream /\ Len(inbox) \in Nat
  BY LenProperties DEF LiveInv, StreamsInv, TypeOK
<1>1. /\ inbox # <<>> /\ inbox' = Tail(inbox)
      /\ UNCHANGED <<phase, session, conns, flight, ear, open>>
  BY DEF Deliver
<1>2. /\ Len(inbox) \in Nat \ {0} /\ Len(inbox') = Len(inbox) - 1
      /\ Head(inbox) = inbox[1]
      /\ \A i \in 1..Len(inbox') : inbox'[i] = inbox[i + 1]
  BY <1>0, <1>1, Taken
<1>3. UNCHANGED connected
  <2>1. CASE Head(inbox).port = StatusPort
    <3>1. dirty' = (dirty \/ failed \/ connected' # connected)
      BY <2>1 DEF Deliver
    <3> QED
      BY <3>1
  <2>2. CASE Head(inbox).port # StatusPort
    BY <2>2 DEF Deliver, statusVars
  <2> QED
    BY <2>1, <2>2
<1>4. ASSUME connected, Ending PROVE Ending'
  <2>1. PICK i \in 1..Len(inbox) : StatusAt(i) /\ ~Says(i)
    BY <1>4 DEF Ending
  <2>2. inbox[i].port = StatusPort /\ inbox[i].obj.as_string # Started
    BY <2>1 DEF StatusAt, Says
  <2>3. i # 1
    <3>1. SUFFICES ASSUME i = 1 PROVE FALSE
      OBVIOUS
    <3>2. connected' = (Head(inbox).obj.as_string = Started)
      BY <1>2, <2>2, <3>1 DEF Deliver
    <3>3. Head(inbox).obj.as_string # Started
      BY <1>2, <2>2, <3>1
    <3> QED
      BY <1>3, <1>4, <3>2, <3>3
  <2>4. i - 1 \in 1..Len(inbox') /\ i - 1 # 0 /\ inbox'[i - 1] = inbox[i]
    BY <1>2, <2>3
  <2> QED
    BY <2>2, <2>4 DEF Ending, StatusAt, Says
<1>5. CASE Head(inbox).port # StatusPort /\ ear[s] = Head(inbox).port
           /\ Head(inbox).port \in open
  <2>1. view'[s] = Data(Head(inbox).obj.as_string)
    BY <1>5 DEF Deliver
  <2>2. ear[s] # nil
    BY <1>0, <1>5 DEF ClientPerStream, StatusPort, nil
  <2>3. connected
    BY <2>2 DEF Fits
  <2>4. ASSUME OfSession(s) PROVE OfSession(s)'
    <3>1. 1 \in 1..Len(inbox) /\ inbox[1].port = ear[s]
      BY <1>2, <1>5
    <3>2. view'[s] = Data(session)
      BY <1>2, <2>1, <2>4, <3>1 DEF OfSession
    <3>3. \A i \in 1..Len(inbox') : i + 1 \in 1..Len(inbox)
      BY <1>2
    <3>4. \A i \in 1..Len(inbox') :
            inbox'[i].port = ear[s] => inbox'[i].obj.as_string = session
      BY <1>2, <2>4, <3>3 DEF OfSession
    <3> QED
      BY <1>1, <2>4, <3>2, <3>4 DEF OfSession
  <2> QED
    BY <1>1, <1>3, <1>4, <2>2, <2>3, <2>4 DEF Fits
<1>6. CASE ~(Head(inbox).port # StatusPort /\ ear[s] = Head(inbox).port
             /\ Head(inbox).port \in open)
  <2>1. view'[s] = view[s]
    BY <1>6 DEF Deliver
  <2>2. ASSUME OfSession(s) PROVE OfSession(s)'
    <3>1. \A i \in 1..Len(inbox') : i + 1 \in 1..Len(inbox)
      BY <1>2
    <3>2. \A i \in 1..Len(inbox') :
            inbox'[i].port = ear[s] => inbox'[i].obj.as_string = session
      BY <1>2, <2>2, <3>1 DEF OfSession
    <3> QED
      BY <1>1, <2>1, <2>2, <3>2 DEF OfSession
  <2>3. CASE connected
    BY <1>1, <1>3, <1>4, <2>1, <2>2, <2>3, FitsStays
  <2>4. CASE ~connected
    BY <1>1, <1>3, <2>1, <2>4 DEF Fits
  <2> QED
    BY <2>3, <2>4
<1> QED
  BY <1>5, <1>6

\* A step of the user or of the library's setup leaves the streams and their
\* clients alone.
LEMMA FitsAlone ==
  ASSUME NEW s \in Streams, Fits(s),
         UNCHANGED <<connected, phase, session, inbox, conns, flight, ear>>,
         view'[s] = view[s] \/ view'[s].what = "back"
  PROVE  Fits(s)'
<1>1. Ending => Ending'
  BY DEF Ending, StatusAt, Says
<1>2. OfSession(s) => OfSession(s)'
  BY DEF OfSession
<1> QED
  BY <1>1, <1>2, FitsStays

\* Whatever happens, a provider that has nothing left to do shows what fits.
LEMMA FitsKept ==
  ASSUME LiveInv, Next, NEW s \in Streams, Settled(s)'
  PROVE  Fits(s)'
<1> USE DEF libVars, clientVars, coreVars, streamVars, pageVars, statusVars
<1>0. TypeOK /\ (Settled(s) => Fits(s))
  BY DEF LiveInv, StreamsInv
<1>1. ASSUME UNCHANGED <<want, step, dirty>> PROVE Fits(s)
  BY <1>0, <1>1 DEF Settled
<1>2. CASE SetupOnceRefuses \/ Setup
  BY <1>1, <1>2, FitsAlone DEF SetupOnceRefuses, Setup
<1>3. CASE CoreStarts \/ CoreStopping \/ CoreStopped
  BY <1>1, <1>3, FitsCore DEF CoreStarts, CoreStopping, CoreStopped
<1>4. ASSUME NEW c \in conns, Read(c) \/ Lose(c) PROVE Fits(s)'
  BY <1>1, <1>4, FitsClients DEF Read, Lose
<1>5. ASSUME NEW m \in flight, Write(m) PROVE Fits(s)'
  BY <1>1, <1>5, FitsClients DEF Write
<1>6. ASSUME NEW t \in Streams, Cancel(t) PROVE Fits(s)'
  <2>1. /\ step' = [step EXCEPT ![t] = IF t \in want THEN "build" ELSE "idle"]
        /\ UNCHANGED <<want, dirty>>
    BY <1>6 DEF Cancel
  <2>2. t # s
    BY <1>0, <2>1 DEF Settled, TypeOK
  <2>3. step'[s] = step[s]
    BY <1>0, <2>1, <2>2 DEF TypeOK
  <2> QED
    BY <1>0, <1>6, <2>1, <2>2, <2>3, FitsElsewhere DEF Settled
<1>7. ASSUME NEW t \in Streams, Build(t) PROVE Fits(s)'
  <2>1. step' = [step EXCEPT ![t] = "idle"] /\ UNCHANGED <<want, dirty>>
    BY <1>7 DEF Build
  <2>2. CASE t = s
    BY <1>7, <2>2, BuildFits
  <2>3. CASE t # s
    <3>1. step'[s] = step[s]
      BY <1>0, <2>1, <2>3 DEF TypeOK
    <3> QED
      BY <1>0, <1>7, <2>1, <2>3, <3>1, FitsElsewhere DEF Settled
  <2> QED
    BY <2>2, <2>3
<1>8. ASSUME NEW t \in Streams, Open(t) \/ Close(t) PROVE Fits(s)'
  <2>1. /\ t # s /\ s \in want /\ step'[s] = step[s] /\ UNCHANGED dirty
        /\ view'[s] = view[s]
        /\ UNCHANGED <<connected, phase, session, inbox, conns, flight, ear>>
    BY <1>0, <1>8 DEF Open, Close, Settled, TypeOK
  <2> QED
    BY <1>0, <2>1, FitsAlone DEF Settled
<1>9. CASE Deliver
  <2>1. UNCHANGED <<want, step>> /\ (dirty => dirty') /\ ~dirty'
    BY <1>0, <1>9 DEF Deliver, Settled, TypeOK
  <2> QED
    BY <1>0, <1>9, <2>1, FitsDeliver DEF Settled
<1>10. CASE Flush
  BY <1>10 DEF Flush, Settled
<1>11. CASE Resort
  <2>1. /\ s # "outbounds" /\ step'[s] = step[s] /\ UNCHANGED <<want, dirty, view>>
        /\ UNCHANGED <<connected, phase, session, inbox, conns, flight, ear>>
    BY <1>0, <1>11 DEF Resort, Settled, TypeOK
  <2> QED
    BY <1>0, <2>1, FitsAlone DEF Settled
<1>12. CASE ChangeProxy
  BY <1>1, <1>12, FitsAlone DEF ChangeProxy
<1>13. CASE ProxyChanged
  <2>1. view'[s] = view[s] \/ view'[s].what = "back"
    BY <1>0, <1>13 DEF ProxyChanged, TypeOK, Back
  <2> QED
    BY <1>1, <1>13, <2>1, FitsAlone DEF ProxyChanged
<1>14. CASE CallFails
  BY <1>14 DEF CallFails, Settled
<1> QED
  BY <1>2, <1>3, <1>4, <1>5, <1>6, <1>7, <1>8, <1>9, <1>10, <1>11, <1>12, <1>13,
     <1>14 DEF Next

----------------------------------------------------------------------------
(* LiveInv is an inductive invariant.                                       *)

LEMMA LiveInitially == Init => LiveInv
<1> SUFFICES ASSUME Init PROVE LiveInv
  OBVIOUS
<1>1. StreamsInv
  BY StreamsInitially
<1>2. StatusesFollow
  <2>1. Len(inbox) = 0
    BY DEF Init
  <2> QED
    BY <2>1 DEF Init, StatusesFollow, StatusAt, Says
<1>3. ErrorsHide /\ ClientsApart /\ BuildsAnew
  BY DEF Init, ErrorsHide, ClientsApart, BuildsAnew
<1>4. \A s \in Streams : ~Settled(s)
  BY DEF Init, Settled
<1> QED
  BY <1>1, <1>2, <1>3, <1>4 DEF LiveInv

LEMMA LiveStep == LiveInv /\ [Next]_vars => LiveInv'
<1> SUFFICES ASSUME LiveInv, [Next]_vars PROVE LiveInv'
  OBVIOUS
<1>1. StreamsInv'
  BY StreamsStep DEF LiveInv
<1>2. CASE Next
  <2>1. StatusesFollow' /\ ErrorsHide' /\ ClientsApart' /\ BuildsAnew'
    BY <1>2, StatusesFollowKept, ErrorsHideKept, ClientsApartKept, BuildsAnewKept
    DEF LiveInv
  <2>2. \A s \in Streams : Settled(s)' => Fits(s)'
    BY <1>2, FitsKept
  <2> QED
    BY <1>1, <2>1, <2>2 DEF LiveInv
<1>3. CASE UNCHANGED vars
  <2> USE <1>3 DEF vars, libVars, clientVars, coreVars, streamVars, pageVars, statusVars
  <2>1. StatusesFollow' /\ ErrorsHide' /\ ClientsApart' /\ BuildsAnew'
    BY DEF LiveInv, StatusesFollow, StatusAt, Says, ErrorsHide, ClientsApart,
           BuildsAnew
  <2>2. ASSUME NEW s \in Streams, Settled(s)' PROVE Fits(s)'
    <3>1. Settled(s)
      BY <2>2 DEF Settled
    <3> QED
      BY <3>1, FitsAlone DEF LiveInv
  <2> QED
    BY <1>1, <2>1, <2>2 DEF LiveInv
<1> QED
  BY <1>2, <1>3

\* A stream that is used while the core is up comes from the session that runs,
\* and nothing is shown once the core is down or after a call of the app that
\* failed, when the app has heard of it and has acted on it: StreamIsLive, for
\* any streams, ports and number of sessions.
THEOREM StreamsAreLive == Spec => []StreamIsLive
<1>1. LiveInv => StreamIsLive
  <2> SUFFICES ASSUME LiveInv, UpToDate, BetweenEvents, NEW s \in want
               PROVE  \/ /\ phase = "up" /\ ~failed
                         /\ \/ view[s].what = "error"
                            \/ /\ [port |-> ear[s], session |-> session] \in conns
                               /\ view[s] \in {Shows("waiting"), Data(session)}
                      \/ (phase # "up" \/ failed) /\ view[s] = Shows("empty")
                      \/ view[s].what = "back"
    BY DEF StreamIsLive
  <2>1. s \in Streams /\ Len(inbox) \in Nat
    BY LenProperties DEF LiveInv, StreamsInv, TypeOK
  <2>2. Fits(s)
    BY <2>1 DEF LiveInv, Settled, UpToDate, BetweenEvents
  <2>3. ~Ending
    BY <2>1 DEF Ending, StatusAt, UpToDate
  <2>4. CASE failed
    BY <2>2, <2>4 DEF LiveInv, ErrorsHide, Fits
  <2>5. CASE ~failed
    <3>1. connected <=> phase = "up"
      <4>1. 0 \in 0..Len(inbox) /\ StatusAt(0)
        BY <2>1, <2>5 DEF StatusAt
      <4>2. \A j \in (0 + 1)..Len(inbox) : ~StatusAt(j)
        BY <2>1 DEF StatusAt, UpToDate
      <4>3. Says(0) <=> phase = "up"
        BY <4>1, <4>2 DEF LiveInv, StatusesFollow
      <4> QED
        BY <4>3 DEF Says
    <3> QED
      BY <2>2, <2>3, <2>5, <3>1 DEF Fits, OfSession
  <2> QED
    BY <2>4, <2>5
<1> QED
  BY <1>1, LiveInitially, LiveStep, PTL DEF Spec
=============================================================================
