------------------------- MODULE NetworkMonitorProofs -------------------------
(***************************************************************************)
(* Proofs about NetworkMonitor: that the core has the system's network     *)
(* when nothing is on its way, for any networks, callbacks and starts.     *)
(***************************************************************************)
EXTENDS NetworkMonitor, SequenceTheorems, TLAPS

\* What the system told when it told e last, and that e may be told to who knows
\* n: a network that is changed or lost was known.
After(e) == IF e.kind = "lost" THEN NoNetwork ELSE e.network
Follows(e, n) == e.kind \in {"changed", "lost"} => e.network = n

\* A callback of the present registration is under way; what the actor knows when
\* the next is.
Current == callback # NoEvent /\ ~callback.late
Known == IF Current THEN After(callback) ELSE network

\* The network at the end of the queue is the system's.
EndsWithActive ==
  IF callbacks = <<>>
  THEN Known = active \/ (crossed /\ callback = NoEvent /\ active = NoNetwork)
  ELSE Follows(Head(callbacks), Known) /\ After(callbacks[Len(callbacks)]) = active

\* Each callback follows the one before.
Consecutive ==
  \A i \in 2..Len(callbacks) : Follows(callbacks[i], After(callbacks[i - 1]))

Told ==
  registered => /\ EndsWithActive /\ Consecutive
                /\ Current => Follows(callback, network)

\* A callback that outlives its registration finds the actor without a network;
\* none begins without a registration.
Registration ==
  /\ registered => listens
  /\ ~registered => callbacks = <<>> /\ ~Current
  /\ ~listens => network = NoNetwork \/ crossed
  /\ callback.late => network = NoNetwork
  /\ callback = NoEvent \/ (callback.kind # "none" /\ callback.network \in Networks)

\* The core that the actor tells is the service's, the network its own.
Telling ==
  /\ actor.at = "free" => actor = Free
  /\ actor.at # "free" => actor.network = network
  /\ actor.at = "tell" => /\ actor.core = core /\ core # noCore
                          /\ service \in {"look", "tell", "on", "stop", "off"}
  /\ IF service \in {"look", "tell", "on"} THEN listener = core /\ core # noCore
                                           ELSE listener = noCore
  /\ service \in {"read", "await", "assign", "create"} => core < MaxCores

Quiet == registered /\ ~crossed /\ callbacks = <<>> /\ ~Current

\* The monitor has the network, from the service's assignment on ...
MonitorHasNetwork ==
  Quiet /\ service \in {"create", "look", "tell", "on", "stop"}
    => defaultNetwork = active

\* ... and the core, from the service's call on, but for the actor's.
CoreIsTold ==
  Quiet /\ service = "on" /\ actor.at = "free" /\ active # NoNetwork
    => told = active

NetworkInv ==
  /\ NetworkTypeOK /\ Registration /\ Told /\ Telling
  /\ MonitorHasNetwork /\ CoreIsTold

\* What is sent, queued and called has its type.
LEMMA EventTypes ==
  /\ NoEvent \in SentEvents /\ Free \in ActorCalls
  /\ QueuedEvents \subseteq SentEvents
  /\ \A e \in SentEvents : [e EXCEPT !.late = e # NoEvent] \in SentEvents
  /\ \A k \in EventKinds, n \in Networks : Event(k, n) \in QueuedEvents
  /\ \A n \in AnyNetwork :
       /\ [Free EXCEPT !.at = "look", !.network = n] \in ActorCalls
       /\ \A c \in ActorCalls, l \in 0..MaxCores :
            [c EXCEPT !.at = "tell", !.core = l] \in ActorCalls
<1> USE NetworkAssumption
    DEF SentEvents, QueuedEvents, ActorCalls, EventKinds, AnyNetwork, NoEvent,
        Event, Free, noCore
<1>1. NoEvent \in SentEvents
  OBVIOUS
<1>2. Free \in ActorCalls
  OBVIOUS
<1>3. QueuedEvents \subseteq SentEvents
  OBVIOUS
<1>4. ASSUME NEW e \in SentEvents, NEW b \in BOOLEAN
      PROVE  [e EXCEPT !.late = b] \in SentEvents
  OBVIOUS
<1>5. ASSUME NEW e \in SentEvents PROVE [e EXCEPT !.late = e # NoEvent] \in SentEvents
  <2>1. (e # NoEvent) \in BOOLEAN
    OBVIOUS
  <2> QED
    BY <1>4, <2>1
<1>6. \A k \in EventKinds, n \in Networks : Event(k, n) \in QueuedEvents
  OBVIOUS
<1>a. ASSUME NEW c \in ActorCalls, NEW a \in {"look", "tell"}
      PROVE  [c EXCEPT !.at = a] \in ActorCalls
  OBVIOUS
<1>b. ASSUME NEW c \in ActorCalls, NEW n \in AnyNetwork
      PROVE  [c EXCEPT !.network = n] \in ActorCalls
  OBVIOUS
<1>c. ASSUME NEW c \in ActorCalls, NEW l \in 0..MaxCores
      PROVE  [c EXCEPT !.core = l] \in ActorCalls
  OBVIOUS
<1> HIDE DEF ActorCalls, Free, AnyNetwork
<1>7. ASSUME NEW n \in AnyNetwork
      PROVE  [Free EXCEPT !.at = "look", !.network = n] \in ActorCalls
  <2>1. [[Free EXCEPT !.at = "look"] EXCEPT !.network = n] \in ActorCalls
    BY <1>2, <1>a, <1>b
  <2> QED
    BY <2>1
<1>8. ASSUME NEW c \in ActorCalls, NEW l \in 0..MaxCores
      PROVE  [c EXCEPT !.at = "tell", !.core = l] \in ActorCalls
  <2>1. [[c EXCEPT !.at = "tell"] EXCEPT !.core = l] \in ActorCalls
    BY <1>a, <1>c
  <2> QED
    BY <2>1
<1> HIDE DEF SentEvents, QueuedEvents, ActorCalls, Event, Free, NoEvent
<1> QED
  BY <1>1, <1>2, <1>3, <1>5, <1>6, <1>7, <1>8

\* Nothing is registered, known or told.
LEMMA NetworkInitially == NetworkInit => NetworkInv
<1> SUFFICES ASSUME NetworkInit PROVE NetworkInv
  OBVIOUS
<1> USE NetworkAssumption DEF NetworkInit
<1>1. NetworkTypeOK
  <2>1. noCore \in 0..MaxCores /\ NoNetwork \in AnyNetwork
        /\ <<>> \in Seq(QueuedEvents)
    BY DEF noCore, AnyNetwork
  <2>2. registered \in BOOLEAN /\ listens \in BOOLEAN /\ crossed \in BOOLEAN
    OBVIOUS
  <2>3. callback \in SentEvents /\ actor \in ActorCalls
    BY EventTypes
  <2> QED
    BY <2>1, <2>2, <2>3 DEF NetworkTypeOK
<1>2. Registration /\ Told /\ Telling
  BY DEF Registration, Told, Telling, Current, NoEvent, Event, Free, noCore
<1>3. MonitorHasNetwork /\ CoreIsTold
  BY DEF MonitorHasNetwork, CoreIsTold, Quiet
<1> QED
  BY <1>1, <1>2, <1>3 DEF NetworkInv

\* Every step keeps the types.
LEMMA NetworkTypeStep == NetworkInv /\ [NetworkNext]_networkVars => NetworkTypeOK'
<1> SUFFICES ASSUME NetworkTypeOK, Telling, [NetworkNext]_networkVars
             PROVE  NetworkTypeOK'
  BY DEF NetworkInv
<1> USE NetworkAssumption
    DEF NetworkTypeOK, AnyNetwork, systemVars, actorVars, monitorVars,
        serviceVars, noCore, Notify, NoNotice
<1>1. CASE NetworkChanges
  <2>1. PICK n \in AnyNetwork, kind \in EventKinds :
          /\ kind # "changed" => n # active
          /\ kind = "changed" => n = active
          /\ kind = "lost" <=> n = NoNetwork
          /\ active' = n
          /\ callbacks' = IF ~registered THEN <<>> ELSE Append(callbacks,
                            Event(kind, IF kind = "lost" THEN active ELSE n))
    BY <1>1 DEF NetworkChanges
  <2>2. Event(kind, IF kind = "lost" THEN active ELSE n) \in QueuedEvents
    BY <2>1, EventTypes
  <2>3. callbacks' \in Seq(QueuedEvents)
    BY <2>1, <2>2
  <2> QED
    BY <1>1, <2>1, <2>3 DEF NetworkChanges
<1>2. CASE OnCallback
  <2>1. Head(callbacks) \in QueuedEvents /\ Tail(callbacks) \in Seq(QueuedEvents)
    BY <1>2, HeadTailProperties DEF OnCallback
  <2>2. callback' \in SentEvents /\ callbacks' \in Seq(QueuedEvents)
    BY <1>2, <2>1, EventTypes DEF OnCallback
  <2> QED
    BY <1>2, <2>2 DEF OnCallback
<1>3. CASE Take
  <2>1. actor' \in ActorCalls /\ callback' \in SentEvents
    BY <1>3, EventTypes DEF Take, TakeLost, TakeAvailable, TakeChanged
  <2>2. network' \in AnyNetwork /\ defaultNetwork' \in AnyNetwork
    BY <1>3 DEF Take, TakeLost, TakeAvailable, TakeChanged
  <2>3. crossed' \in BOOLEAN
    <3>1. callback.late \in BOOLEAN
      BY DEF SentEvents
    <3> QED
      BY <1>3, <3>1 DEF Take, TakeLost, TakeAvailable, TakeChanged
  <2>4. service' \in {service, "assign"} /\ seen' \in AnyNetwork
    BY <1>3 DEF Take, TakeLost, TakeAvailable, TakeChanged
  <2>5. UNCHANGED <<systemVars, listens, listener, core, told>>
    BY <1>3 DEF Take
  <2> QED
    BY <2>1, <2>2, <2>3, <2>4, <2>5
<1>4. CASE ActorLooks
  <2>1. actor' \in ActorCalls
    <3>1. CASE listener = noCore
      BY <1>4, <3>1, EventTypes DEF ActorLooks
    <3>2. CASE listener # noCore
      BY <1>4, <3>2, EventTypes DEF ActorLooks
    <3> QED
      BY <3>1, <3>2
  <2> QED
    BY <1>4, <2>1 DEF ActorLooks
<1>5. CASE ActorTells
  <2>1. actor.network \in AnyNetwork
    BY DEF ActorCalls
  <2> QED
    <3>1. actor' \in ActorCalls
      BY <1>5, EventTypes DEF ActorTells
    <3>2. told' \in AnyNetwork
      BY <1>5, <2>1 DEF ActorTells, Tell
    <3> QED
      BY <1>5, <3>1, <3>2 DEF ActorTells
<1>6. CASE StartListening
  <2>1. callbacks' \in Seq(QueuedEvents) /\ registered' \in BOOLEAN
    <3>1. active # NoNetwork => Event("available", active) \in QueuedEvents
      <4>1. "available" \in EventKinds
        BY DEF EventKinds
      <4> QED
        BY <4>1, EventTypes
    <3>2. active # NoNetwork => <<Event("available", active)>> \in Seq(QueuedEvents)
      BY <3>1
    <3>3. CASE listens
      BY <1>6, <3>3 DEF StartListening
    <3>4. CASE ~listens
      <4>1. RegisterCallback
        BY <1>6, <3>4 DEF StartListening
      <4>2. CASE active = NoNetwork
        <5>1. <<>> \in Seq(QueuedEvents)
          OBVIOUS
        <5>2. \/ registered' = TRUE /\ callbacks' = <<>>
              \/ UNCHANGED <<registered, callbacks>>
          BY <4>1, <4>2 DEF RegisterCallback
        <5> QED
          BY <5>1, <5>2
      <4>3. CASE active # NoNetwork
        BY <3>2, <4>1, <4>3 DEF RegisterCallback
      <4> QED
        BY <4>2, <4>3
    <3> QED
      BY <3>3, <3>4
  <2>2. actor' \in ActorCalls /\ defaultNetwork' \in AnyNetwork
    BY <1>6, EventTypes DEF StartListening
  <2>3. UNCHANGED <<oldSdk, active, callback, network, listener, seen, core, told,
                    crossed>> /\ listens' = TRUE /\ service' = "read"
    BY <1>6 DEF StartListening
  <2> QED
    BY <2>1, <2>2, <2>3
<1>7. CASE ReadActive
  BY <1>7 DEF ReadActive
<1>8. CASE AssignActive
  BY <1>8 DEF AssignActive
<1>9. CASE SetListener
  <2>1. core + 1 \in 0..MaxCores
    BY <1>9 DEF SetListener, Telling
  <2> QED
    BY <1>9, <2>1 DEF SetListener
<1>10. CASE ServiceLooks
  BY <1>10 DEF ServiceLooks
<1>11. CASE ServiceTells
  BY <1>11 DEF ServiceTells, Tell
<1>12. CASE LeaveListening
  BY <1>12 DEF LeaveListening
<1>13. CASE CloseMonitor
  BY <1>13 DEF CloseMonitor
<1>14. CASE StopListening
  <2>1. callback' \in SentEvents /\ callbacks' \in Seq(QueuedEvents)
    <3>1. callback' = [callback EXCEPT !.late = callback # NoEvent]
          /\ callbacks' = <<>>
      BY <1>14 DEF StopListening
    <3>2. [callback EXCEPT !.late = callback # NoEvent] \in SentEvents
      BY EventTypes
    <3> QED
      BY <3>1, <3>2
  <2>2. /\ listens' \in BOOLEAN /\ registered' \in BOOLEAN /\ crossed' \in BOOLEAN
        /\ network' = NoNetwork /\ service' = "off"
        /\ UNCHANGED <<oldSdk, active, actor, monitorVars, seen, core, told>>
    BY <1>14 DEF StopListening
  <2> QED
    BY <2>1, <2>2
<1>15. CASE UNCHANGED networkVars
  BY <1>15 DEF networkVars
<1> QED
  BY <1>1, <1>2, <1>3, <1>4, <1>5, <1>6, <1>7, <1>8, <1>9, <1>10, <1>11, <1>12,
     <1>13, <1>14, <1>15 DEF NetworkNext

\* An event that outlives its registration is the same, late; and none stays none.
LEMMA LateEvents ==
  ASSUME NEW e \in SentEvents, NEW f, f = [e EXCEPT !.late = e # NoEvent]
  PROVE  \/ e = NoEvent /\ f = NoEvent
         \/ e # NoEvent /\ f.late /\ f.kind = e.kind /\ f.network = e.network
<1>1. CASE e = NoEvent
  BY <1>1 DEF NoEvent, Event
<1>2. CASE e # NoEvent
  BY <1>2 DEF SentEvents
<1> QED
  BY <1>1, <1>2

\* A registration ends with its queue; what is left of it is late.
LEMMA RegistrationStep == NetworkInv /\ [NetworkNext]_networkVars => Registration'
<1> SUFFICES ASSUME NetworkInv, [NetworkNext]_networkVars PROVE Registration'
  OBVIOUS
<1>0. NetworkTypeOK /\ Registration /\ Told
  BY DEF NetworkInv
<1> USE NetworkAssumption, <1>0
    DEF Registration, Current, systemVars, actorVars, monitorVars, serviceVars,
        Notify, NoNotice
<1>n. ~NoEvent.late
  BY DEF NoEvent, Event
<1>1. CASE NetworkChanges
  BY <1>1 DEF NetworkChanges
<1>2. CASE OnCallback
  <2>1. registered /\ listens
    BY <1>2 DEF OnCallback
  <2>2. Head(callbacks) \in QueuedEvents
    BY <1>2, HeadTailProperties DEF OnCallback, NetworkTypeOK
  <2>3. /\ callback'.kind # "none" /\ callback'.network \in Networks
        /\ ~callback'.late
    BY <1>2, <2>2 DEF OnCallback, QueuedEvents, EventKinds
  <2> QED
    BY <1>2, <2>1, <2>3 DEF OnCallback
<1>3. CASE Take
  <2>1. callback' = NoEvent /\ UNCHANGED <<systemVars, listens>>
    BY <1>3 DEF Take
  <2>2. ~listens => network' = NoNetwork \/ crossed'
    <3> SUFFICES ASSUME ~listens PROVE network' = NoNetwork \/ crossed'
      OBVIOUS
    <3>1. PICK n \in Networks : TakeLost(n) \/ TakeAvailable(n) \/ TakeChanged(n)
      BY <1>3 DEF Take
    <3>2. callback = NoEvent \/ callback.late
      OBVIOUS
    <3>3. callback # NoEvent
      BY <3>1 DEF TakeLost, TakeAvailable, TakeChanged, Calls, NoEvent, Event
    <3> QED
      BY <3>1, <3>2, <3>3 DEF TakeLost, TakeAvailable, TakeChanged
  <2> QED
    BY <1>n, <2>1, <2>2
<1>4. CASE ActorLooks
  BY <1>4 DEF ActorLooks
<1>5. CASE ActorTells
  BY <1>5 DEF ActorTells
<1>6. CASE StartListening
  <2>1. listens' = TRUE /\ UNCHANGED <<callback, network>>
    BY <1>6 DEF StartListening
  <2>2. ~registered' => callbacks' = <<>> /\ ~Current
    BY <1>6 DEF StartListening, RegisterCallback
  <2> QED
    BY <2>1, <2>2
<1>7. CASE ReadActive
  BY <1>7 DEF ReadActive
<1>8. CASE AssignActive
  BY <1>8 DEF AssignActive
<1>9. CASE SetListener
  BY <1>9 DEF SetListener
<1>10. CASE ServiceLooks
  BY <1>10 DEF ServiceLooks
<1>11. CASE ServiceTells
  BY <1>11 DEF ServiceTells
<1>12. CASE LeaveListening
  BY <1>12 DEF LeaveListening
<1>13. CASE CloseMonitor
  BY <1>13 DEF CloseMonitor
<1>14. CASE StopListening
  <2>1. /\ callback' = [callback EXCEPT !.late = callback # NoEvent]
        /\ ~registered' /\ ~listens' /\ callbacks' = <<>> /\ network' = NoNetwork
    BY <1>14 DEF StopListening
  <2>2. \/ callback = NoEvent /\ callback' = NoEvent
        \/ /\ callback # NoEvent /\ callback'.late
           /\ callback'.kind = callback.kind
           /\ callback'.network = callback.network
    BY <2>1, LateEvents DEF NetworkTypeOK
  <2> QED
    BY <1>n, <2>1, <2>2
<1>15. CASE UNCHANGED networkVars
  BY <1>15 DEF networkVars
<1> QED
  BY <1>1, <1>2, <1>3, <1>4, <1>5, <1>6, <1>7, <1>8, <1>9, <1>10, <1>11, <1>12,
     <1>13, <1>14, <1>15 DEF NetworkNext

\* The actor's network changes only while the actor is free, and the service
\* begins a core only when it has seen the last one's calls end.
LEMMA TellingStep == NetworkInv /\ [NetworkNext]_networkVars => Telling'
<1> SUFFICES ASSUME NetworkInv, [NetworkNext]_networkVars PROVE Telling'
  OBVIOUS
<1>0. NetworkTypeOK /\ Telling
  BY DEF NetworkInv
<1>f. Free.at = "free"
  BY DEF Free
<1>n. ASSUME NEW n
      PROVE  /\ [Free EXCEPT !.at = "look", !.network = n].at = "look"
             /\ [Free EXCEPT !.at = "look", !.network = n].network = n
  BY DEF Free
<1> USE NetworkAssumption, <1>0, <1>f, <1>n
    DEF Telling, systemVars, actorVars, monitorVars, serviceVars, Notify, NoNotice,
        noCore
<1>1. CASE NetworkChanges
  BY <1>1 DEF NetworkChanges
<1>2. CASE OnCallback
  BY <1>2 DEF OnCallback
<1>3. CASE Take
  <2>1. actor = Free /\ UNCHANGED <<core, listener>>
    BY <1>3 DEF Take
  <2>2. \/ actor' = Free
        \/ actor' = [Free EXCEPT !.at = "look", !.network = network']
    BY <1>3 DEF Take, TakeLost, TakeAvailable, TakeChanged
  <2>3. service' = service \/ (service = "await" /\ service' = "assign")
    BY <1>3 DEF Take, TakeLost, TakeAvailable, TakeChanged
  <2> QED
    BY <2>1, <2>2, <2>3
<1>4. CASE ActorLooks
  <2>1. CASE listener = noCore
    BY <1>4, <2>1 DEF ActorLooks
  <2>2. CASE listener # noCore
    <3>1. actor'.at = "tell" /\ actor'.core = listener
          /\ actor'.network = actor.network
      BY <1>4, <2>2 DEF ActorLooks, NetworkTypeOK, ActorCalls
    <3> QED
      BY <1>4, <2>2, <3>1 DEF ActorLooks
  <2> QED
    BY <2>1, <2>2
<1>5. CASE ActorTells
  BY <1>5 DEF ActorTells
<1>6. CASE StartListening
  <2>1. actor = Free /\ UNCHANGED <<network, core, listener>>
        /\ service = "off" /\ service' = "read" /\ core < MaxCores
    BY <1>6 DEF StartListening
  <2>2. \/ actor' = Free
        \/ actor' = [Free EXCEPT !.at = "look", !.network = network]
    BY <1>6 DEF StartListening
  <2> QED
    BY <2>1, <2>2
<1>7. CASE ReadActive
  BY <1>7 DEF ReadActive
<1>8. CASE AssignActive
  BY <1>8 DEF AssignActive
<1>9. CASE SetListener
  BY <1>9 DEF SetListener, NetworkTypeOK
<1>10. CASE ServiceLooks
  BY <1>10 DEF ServiceLooks
<1>11. CASE ServiceTells
  BY <1>11 DEF ServiceTells
<1>12. CASE LeaveListening
  BY <1>12 DEF LeaveListening
<1>13. CASE CloseMonitor
  BY <1>13 DEF CloseMonitor
<1>14. CASE StopListening
  BY <1>14 DEF StopListening
<1>15. CASE UNCHANGED networkVars
  BY <1>15 DEF networkVars
<1> QED
  BY <1>1, <1>2, <1>3, <1>4, <1>5, <1>6, <1>7, <1>8, <1>9, <1>10, <1>11, <1>12,
     <1>13, <1>14, <1>15 DEF NetworkNext

\* What the actor does with a callback: one of this registration brings it to the
\* network the callback left, and the monitor with it; a late one does nothing, or
\* brings a network that is not the system's.
LEMMA TakeEffect ==
  ASSUME NetworkInv, Take, registered
  PROVE  \/ /\ Current /\ network' = After(callback)
            /\ defaultNetwork' = network' /\ actor'.at = "look"
         \/ /\ callback.late /\ network = NoNetwork
            /\ UNCHANGED <<network, defaultNetwork, actor, service, crossed>>
         \/ callback.late /\ network = NoNetwork /\ crossed'
<1>1. Registration /\ Told /\ NetworkTypeOK
  BY DEF NetworkInv
<1>2. PICK n \in Networks : TakeLost(n) \/ TakeAvailable(n) \/ TakeChanged(n)
  BY DEF Take
<1>3. callback # NoEvent /\ callback.network = n /\ listens
  BY <1>1, <1>2 DEF TakeLost, TakeAvailable, TakeChanged, Calls, NoEvent, Event,
                    Registration
<1>4. \A m : [Free EXCEPT !.at = "look", !.network = m].at = "look"
  BY DEF Free
<1>5. CASE ~callback.late
  <2>1. Current /\ Follows(callback, network)
    BY <1>1, <1>3, <1>5 DEF Current, Told
  <2>2. CASE TakeLost(n)
    <3>1. network = n
      BY <1>3, <2>1, <2>2 DEF Follows, TakeLost, Calls
    <3> QED
      BY <1>3, <1>4, <2>1, <2>2, <3>1 DEF TakeLost, Calls, Notify, After
  <2>3. CASE TakeAvailable(n)
    BY <1>3, <1>4, <2>1, <2>3 DEF TakeAvailable, Calls, Notify, After
  <2>4. CASE TakeChanged(n)
    <3>1. network = n
      BY <1>3, <2>1, <2>4 DEF Follows, TakeChanged, Calls
    <3> QED
      BY <1>3, <1>4, <2>1, <2>4, <3>1 DEF TakeChanged, Calls, Notify, After
  <2> QED
    BY <1>2, <2>2, <2>3, <2>4
<1>6. CASE callback.late
  <2>1. network = NoNetwork /\ network # n
    BY <1>1, <1>6, NetworkAssumption DEF Registration
  <2>2. CASE TakeLost(n)
    BY <1>6, <2>1, <2>2 DEF TakeLost, NoNotice
  <2>3. CASE TakeAvailable(n)
    BY <1>6, <2>1, <2>3 DEF TakeAvailable
  <2>4. CASE TakeChanged(n)
    BY <1>6, <2>1, <2>4 DEF TakeChanged, NoNotice
  <2> QED
    BY <1>2, <2>2, <2>3, <2>4
<1> QED
  BY <1>5, <1>6

\* Whoever leaves callbacks, network and system alone leaves their order alone.
LEMMA ToldStays ==
  ASSUME Told, crossed => crossed',
         UNCHANGED <<active, registered, callbacks, callback, network>>
  PROVE  Told'
  BY DEF Told, EndsWithActive, Consecutive, Current, Known, After, Follows

\* The system tells its networks in order, and the actor takes them so.
LEMMA ToldStep == NetworkInv /\ [NetworkNext]_networkVars => Told'
<1> SUFFICES ASSUME NetworkInv, [NetworkNext]_networkVars, registered' PROVE Told'
  BY DEF Told
<1>0. NetworkTypeOK /\ Registration /\ Told
  BY DEF NetworkInv
<1>l. Len(callbacks) \in Nat /\ (callbacks = <<>> <=> Len(callbacks) = 0)
  BY <1>0, LenProperties, EmptySeq DEF NetworkTypeOK
<1>1. CASE NetworkChanges
  <2>1. PICK n \in AnyNetwork, kind \in EventKinds :
          /\ kind = "changed" => n = active
          /\ kind # "changed" => n # active
          /\ kind = "lost" <=> n = NoNetwork
          /\ active' = n
          /\ callbacks' = IF ~registered THEN <<>> ELSE Append(callbacks,
                            Event(kind, IF kind = "lost" THEN active ELSE n))
    BY <1>1 DEF NetworkChanges
  <2> DEFINE e == Event(kind, IF kind = "lost" THEN active ELSE n)
  <2>2. registered /\ UNCHANGED <<callback, network, crossed, registered>>
    BY <1>1 DEF NetworkChanges, actorVars
  <2>3. e \in QueuedEvents
    BY <1>0, <2>1, EventTypes DEF NetworkTypeOK, AnyNetwork
  <2>4. /\ callbacks' # <<>> /\ Len(callbacks') = Len(callbacks) + 1
        /\ \A i \in 1..Len(callbacks) : callbacks'[i] = callbacks[i]
        /\ callbacks'[Len(callbacks) + 1] = e
        /\ Head(callbacks') = IF callbacks = <<>> THEN e ELSE Head(callbacks)
    BY <1>0, <2>1, <2>2, <2>3, AppendProperties, HeadTailAppend
       DEF NetworkTypeOK
  <2>5. After(e) = n
    BY <2>1 DEF After, Event
  <2>6. active # NoNetwork => Follows(e, active)
    BY <2>1 DEF Follows, Event
  <2>7. active = NoNetwork => kind = "available"
    BY <2>1 DEF EventKinds
  <2>8. \A m : active = NoNetwork => Follows(e, m)
    BY <2>7 DEF Follows, Event
  <2>9. Known' = Known /\ Current' = Current
    BY <2>2 DEF Known, Current, After
  <2> HIDE DEF e
  <2>10. EndsWithActive'
    <3>1. After(callbacks'[Len(callbacks')]) = active'
      BY <1>l, <2>1, <2>4, <2>5
    <3>2. Follows(Head(callbacks'), Known)
      <4>1. CASE callbacks = <<>>
        BY <1>0, <2>2, <2>4, <2>6, <2>8, <4>1 DEF Told, EndsWithActive
      <4>2. CASE callbacks # <<>>
        BY <1>0, <2>2, <2>4, <4>2 DEF Told, EndsWithActive
      <4> QED
        BY <4>1, <4>2
    <3> QED
      BY <2>4, <2>9, <3>1, <3>2 DEF EndsWithActive, After, Follows
  <2>11. Consecutive'
    <3> SUFFICES ASSUME NEW i \in 2..Len(callbacks')
                 PROVE  Follows(callbacks'[i], After(callbacks'[i - 1]))
      BY DEF Consecutive, Follows, After
    <3>1. CASE i \in 2..Len(callbacks)
      <4>1. i - 1 \in 1..Len(callbacks) /\ i \in 1..Len(callbacks)
        BY <1>l, <3>1
      <4> QED
        BY <1>0, <2>2, <2>4, <3>1, <4>1 DEF Told, Consecutive
    <3>2. CASE i = Len(callbacks) + 1
      <4>1. Len(callbacks) \in 1..Len(callbacks) /\ i - 1 = Len(callbacks)
            /\ callbacks # <<>>
        BY <1>l, <2>4, <3>2
      <4>2. After(callbacks'[i - 1]) = active
        BY <1>0, <2>2, <2>4, <4>1 DEF Told, EndsWithActive
      <4> QED
        BY <2>4, <2>6, <2>8, <3>2, <4>2
    <3> QED
      BY <1>l, <2>4, <3>1, <3>2
  <2>12. Current' => Follows(callback', network')
    BY <1>0, <2>2, <2>9 DEF Told, Follows
  <2> QED
    BY <2>10, <2>11, <2>12 DEF Told
<1>2. CASE OnCallback
  <2>1. /\ registered /\ callbacks # <<>> /\ callback = NoEvent
        /\ callback' = Head(callbacks) /\ callbacks' = Tail(callbacks)
        /\ UNCHANGED <<network, active, crossed>>
    BY <1>0, <1>2 DEF OnCallback, Registration
  <2>2. /\ Head(callbacks) \in QueuedEvents
        /\ Len(callbacks') = Len(callbacks) - 1
        /\ \A i \in 1..Len(callbacks') : callbacks'[i] = callbacks[i + 1]
        /\ callbacks' \in Seq(QueuedEvents)
    BY <1>0, <2>1, HeadTailProperties DEF NetworkTypeOK
  <2>3. Head(callbacks) = callbacks[1]
    BY <1>0, <2>1 DEF NetworkTypeOK
  <2>4. Current' /\ Known' = After(callbacks[1]) /\ Known = network
    <3>1. ~callback'.late /\ callback'.kind # "none"
      BY <2>1, <2>2 DEF QueuedEvents, EventKinds
    <3>2. callback' # NoEvent
      BY <3>1 DEF NoEvent, Event
    <3> QED
      BY <2>1, <2>3, <3>1, <3>2 DEF Current, Known, After
  <2>5. Follows(callback', network')
    BY <1>0, <2>1, <2>4 DEF Told, EndsWithActive, Follows
  <2>6. EndsWithActive'
    <3>1. CASE Len(callbacks) = 1
      <4>1. callbacks' = <<>>
        BY <2>2, <3>1, EmptySeq
      <4>2. After(callbacks[1]) = active
        BY <1>0, <2>1, <3>1 DEF Told, EndsWithActive
      <4> QED
        BY <2>1, <2>4, <4>1, <4>2 DEF EndsWithActive
    <3>2. CASE Len(callbacks) > 1
      <4>1. /\ callbacks' # <<>> /\ Head(callbacks') = callbacks[2]
            /\ callbacks'[Len(callbacks')] = callbacks[Len(callbacks)]
        BY <1>l, <2>2, <3>2
      <4>2. Follows(callbacks[2], After(callbacks[1]))
        <5>1. 2 \in 2..Len(callbacks) /\ 2 - 1 = 1
          BY <1>l, <3>2
        <5> QED
          BY <1>0, <2>1, <5>1 DEF Told, Consecutive
      <4>3. After(callbacks[Len(callbacks)]) = active
        BY <1>0, <2>1 DEF Told, EndsWithActive
      <4> QED
        BY <2>1, <2>4, <4>1, <4>2, <4>3 DEF EndsWithActive, Follows, After
    <3> QED
      <4>1. Len(callbacks) # 0
        BY <1>l, <2>1
      <4>2. Len(callbacks) = 1 \/ Len(callbacks) > 1
        <5>1. Len(callbacks) \in Nat
          BY <1>l
        <5> QED
          BY <4>1, <5>1
      <4> QED
        BY <3>1, <3>2, <4>2
  <2>7. Consecutive'
    <3> SUFFICES ASSUME NEW i \in 2..Len(callbacks')
                 PROVE  Follows(callbacks'[i], After(callbacks'[i - 1]))
      BY DEF Consecutive, Follows, After
    <3>1. /\ i + 1 \in 2..Len(callbacks) /\ (i + 1) - 1 = i /\ (i - 1) + 1 = i
          /\ i \in 1..Len(callbacks') /\ i - 1 \in 1..Len(callbacks')
      BY <1>l, <2>2
    <3>2. Follows(callbacks[i + 1], After(callbacks[i]))
      BY <1>0, <2>1, <3>1 DEF Told, Consecutive
    <3> QED
      BY <2>2, <3>1, <3>2
  <2> QED
    BY <2>4, <2>5, <2>6, <2>7 DEF Told
<1>3. CASE Take
  <2>1. registered /\ UNCHANGED <<active, callbacks>> /\ callback' = NoEvent
    BY <1>3 DEF Take, systemVars
  <2>2. ~Current' /\ Known' = network'
    BY <2>1 DEF Current, Known
  <2>3. Consecutive'
    BY <1>0, <2>1 DEF Told, Consecutive, Follows, After
  <2>4. callback # NoEvent
    BY <1>3 DEF Take, TakeLost, TakeAvailable, TakeChanged, Calls, NoEvent, Event
  <2>5. EndsWithActive /\ callbacks = <<>> => Known = active
    BY <2>4 DEF EndsWithActive
  <2>6. EndsWithActive'
    <3>1. CASE Current /\ network' = After(callback)
      <4>1. Known' = Known
        BY <2>2, <3>1 DEF Known
      <4> QED
        BY <1>0, <2>1, <2>5, <4>1 DEF Told, EndsWithActive, Follows, After
    <3>2. CASE callback.late /\ network = NoNetwork /\ UNCHANGED <<network, crossed>>
      <4>1. Known' = Known
        BY <2>2, <3>2 DEF Known, Current
      <4> QED
        BY <1>0, <2>1, <2>5, <4>1 DEF Told, EndsWithActive, Follows, After
    <3>3. CASE callback.late /\ network = NoNetwork /\ crossed'
      <4>1. Known = NoNetwork
        BY <3>3 DEF Known, Current
      <4>2. CASE callbacks = <<>>
        BY <1>0, <2>1, <2>5, <3>3, <4>1, <4>2 DEF Told, EndsWithActive
      <4>3. CASE callbacks # <<>>
        <5>1. Follows(Head(callbacks), NoNetwork)
              /\ After(callbacks[Len(callbacks)]) = active
          BY <1>0, <2>1, <4>1, <4>3 DEF Told, EndsWithActive
        <5>2. Head(callbacks) \in QueuedEvents
          BY <1>0, <4>3, HeadTailProperties DEF NetworkTypeOK
        <5>3. \A m : Follows(Head(callbacks), m)
          BY <5>1, <5>2, NetworkAssumption DEF Follows, QueuedEvents
        <5> QED
          BY <2>1, <4>3, <5>1, <5>3 DEF EndsWithActive, After, Follows
      <4> QED
        BY <4>2, <4>3
    <3> QED
      BY <1>3, <2>1, <3>1, <3>2, <3>3, TakeEffect
  <2> QED
    BY <2>2, <2>3, <2>6 DEF Told
<1>4. CASE StartListening
  <2>1. UNCHANGED <<active, callback, network, crossed>>
    BY <1>4 DEF StartListening
  <2>2. CASE listens
    <3>1. UNCHANGED <<registered, callbacks>>
      BY <1>4, <2>2 DEF StartListening
    <3> QED
      BY <1>0, <2>1, <3>1, ToldStays
  <2>3. CASE ~listens
    <3>1. ~registered /\ ~Current /\ callbacks = <<>>
      BY <1>0, <2>3 DEF Registration
    <3>2. callbacks' = IF active = NoNetwork THEN <<>>
                       ELSE <<Event("available", active)>>
      BY <1>4, <2>3, <3>1 DEF StartListening, RegisterCallback
    <3>3. ~Current' /\ Known' = network
      BY <2>1, <3>1 DEF Current, Known
    <3>4. network = NoNetwork \/ (crossed /\ callback = NoEvent)
      BY <1>0, <2>3, <3>1 DEF Registration, Current
    <3>5. EndsWithActive'
      <4>1. CASE active = NoNetwork
        BY <2>1, <3>2, <3>3, <3>4, <4>1 DEF EndsWithActive
      <4>2. CASE active # NoNetwork
        <5>1. Event("available", active).kind = "available"
              /\ Event("available", active).network = active
          BY DEF Event
        <5>2. /\ callbacks' # <<>> /\ Head(callbacks') = Event("available", active)
              /\ callbacks'[Len(callbacks')] = Event("available", active)
          <6> HIDE DEF Event
          <6> QED
            BY <3>2, <4>2
        <5> QED
          BY <2>1, <5>1, <5>2 DEF EndsWithActive, Follows, After
      <4> QED
        BY <4>1, <4>2
    <3>6. Consecutive'
      <4>1. 2..Len(callbacks') = {}
        BY <3>2
      <4> QED
        BY <4>1 DEF Consecutive
    <3> QED
      BY <3>3, <3>5, <3>6 DEF Told
  <2> QED
    BY <2>2, <2>3
<1>5. CASE ActorLooks \/ ActorTells \/ ReadActive \/ SetListener \/ ServiceLooks
           \/ LeaveListening \/ CloseMonitor \/ UNCHANGED networkVars
  <2>1. UNCHANGED <<active, registered, callbacks, callback, network, crossed>>
    BY <1>5 DEF ActorLooks, ActorTells, ReadActive, SetListener, ServiceLooks,
                LeaveListening, CloseMonitor, systemVars, actorVars, networkVars
  <2> QED
    BY <1>0, <2>1, ToldStays
<1>6. CASE AssignActive \/ ServiceTells
  <2>1. UNCHANGED <<active, registered, callbacks, callback, network>>
    BY <1>6 DEF AssignActive, ServiceTells, systemVars, actorVars
  <2>2. crossed => crossed'
    BY <1>6 DEF AssignActive, ServiceTells
  <2> QED
    BY <1>0, <2>1, <2>2, ToldStays
<1>7. CASE StopListening
  BY <1>7 DEF StopListening
<1> QED
  BY <1>1, <1>2, <1>3, <1>4, <1>5, <1>6, <1>7 DEF NetworkNext

\* With nothing on its way the actor has the system's network.
LEMMA QuietIsKnown ==
  ASSUME NetworkInv, Quiet
  PROVE  network = active \/ ~registered
  BY DEF NetworkInv, Told, EndsWithActive, Known, Quiet

\* A step that leaves these alone cannot make things quiet.
LEMMA QuietStays ==
  ASSUME Quiet', UNCHANGED <<registered, callbacks, callback>>, crossed => crossed'
  PROVE  Quiet
  BY DEF Quiet, Current

\* ... nor can any other but the actor's taking.
LEMMA QuietBefore ==
  ASSUME NetworkInv, NetworkNext, ~StartListening, Quiet'
  PROVE  Quiet \/ (Take /\ Current /\ registered /\ callbacks = <<>>)
<1>0. NetworkTypeOK /\ Registration /\ Told
  BY DEF NetworkInv
<1>1. CASE NetworkChanges
  <2>1. registered => callbacks' # <<>>
    BY <1>0, <1>1 DEF NetworkChanges, NetworkTypeOK
  <2> QED
    BY <1>1, <2>1 DEF NetworkChanges, Quiet
<1>2. CASE OnCallback
  <2>1. registered /\ callback' = Head(callbacks)
    BY <1>0, <1>2 DEF OnCallback, Registration
  <2>2. Head(callbacks) \in QueuedEvents
    BY <1>0, <1>2, HeadTailProperties DEF OnCallback, NetworkTypeOK
  <2>3. ~callback'.late /\ callback'.kind # "none"
    BY <2>1, <2>2 DEF QueuedEvents, EventKinds
  <2>4. callback' # NoEvent
    BY <2>3 DEF NoEvent, Event
  <2> QED
    BY <2>3, <2>4 DEF Quiet, Current
<1>3. CASE Take
  <2>1. registered /\ callbacks = <<>> /\ ~crossed'
    BY <1>3 DEF Take, systemVars, Quiet
  <2>2. CASE Current
    BY <1>3, <2>1, <2>2
  <2>3. CASE ~Current
    BY <1>3, <2>1, <2>3, TakeEffect DEF Quiet
  <2> QED
    BY <2>2, <2>3
<1>4. CASE \/ ActorLooks \/ ActorTells \/ ReadActive \/ SetListener
           \/ ServiceLooks \/ LeaveListening \/ CloseMonitor
  <2>1. UNCHANGED <<registered, callbacks, callback, crossed>>
    BY <1>4 DEF ActorLooks, ActorTells, ReadActive, SetListener, ServiceLooks,
                LeaveListening, CloseMonitor, systemVars, actorVars
  <2> QED
    BY <2>1, QuietStays
<1>5. CASE AssignActive \/ ServiceTells
  <2>1. UNCHANGED <<registered, callbacks, callback>>
    BY <1>5 DEF AssignActive, ServiceTells, systemVars, actorVars
  <2>2. crossed => crossed'
    BY <1>5 DEF AssignActive, ServiceTells
  <2> QED
    BY <2>1, <2>2, QuietStays
<1>6. CASE StopListening
  BY <1>6 DEF StopListening, Quiet
<1> QED
  BY <1>1, <1>2, <1>3, <1>4, <1>5, <1>6 DEF NetworkNext

\* The callback that ends the quiet tells the monitor of the system's network.
LEMMA LastCallback ==
  ASSUME NetworkInv, Take, Current, registered, callbacks = <<>>
  PROVE  defaultNetwork' = active' /\ actor'.at # "free"
<1>1. Known = active
  BY DEF NetworkInv, Told, EndsWithActive, Current
<1>2. ~callback.late
  BY DEF Current
<1>3. /\ network' = After(callback) /\ defaultNetwork' = network'
      /\ actor'.at = "look"
  BY <1>2, TakeEffect
<1>4. active' = active
  BY DEF Take, systemVars
<1> QED
  BY <1>1, <1>3, <1>4 DEF Known

\* What the service assigns is the system's, or crosses a callback.
LEMMA MonitorStep ==
  NetworkInv /\ [NetworkNext]_networkVars => MonitorHasNetwork'
<1> SUFFICES ASSUME NetworkInv, [NetworkNext]_networkVars, Quiet',
                    service' \in {"create", "look", "tell", "on", "stop"}
             PROVE  defaultNetwork' = active'
  BY DEF MonitorHasNetwork
<1>0. MonitorHasNetwork
  BY DEF NetworkInv
<1>1. CASE UNCHANGED networkVars
  <2>1. Quiet /\ UNCHANGED <<service, defaultNetwork, active>>
    BY <1>1, QuietStays DEF networkVars, systemVars, actorVars, serviceVars,
                            monitorVars
  <2> QED
    BY <1>0, <2>1 DEF MonitorHasNetwork
<1>2. CASE StartListening
  BY <1>2 DEF StartListening
<1>3. CASE NetworkNext /\ ~StartListening
  <2>1. CASE Take /\ Current /\ registered /\ callbacks = <<>>
    BY <2>1, LastCallback
  <2>2. CASE Quiet
    <3>1. CASE NetworkChanges
      <4>1. callbacks' # <<>>
        BY <2>2, <3>1 DEF NetworkChanges, Quiet, NetworkInv, NetworkTypeOK
      <4> QED
        BY <4>1 DEF Quiet
    <3>2. CASE OnCallback
      BY <2>2, <3>2 DEF OnCallback, Quiet
    <3>3. CASE Take
      <4>1. UNCHANGED <<defaultNetwork, service, active>>
        BY <2>2, <3>3, TakeEffect DEF Quiet, Take, systemVars
      <4> QED
        BY <1>0, <2>2, <4>1 DEF MonitorHasNetwork
    <3>4. CASE AssignActive
      BY <3>4 DEF AssignActive, Quiet, systemVars
    <3>5. CASE \/ ActorLooks \/ ActorTells \/ SetListener \/ ServiceLooks
               \/ ServiceTells \/ LeaveListening \/ CloseMonitor
      <4>1. UNCHANGED <<defaultNetwork, active>>
            /\ service \in {"create", "look", "tell", "on", "stop"}
        BY <3>5 DEF ActorLooks, ActorTells, SetListener, ServiceLooks,
             ServiceTells, LeaveListening, CloseMonitor, systemVars, monitorVars,
             serviceVars
      <4> QED
        BY <1>0, <2>2, <4>1 DEF MonitorHasNetwork
    <3>6. CASE ReadActive \/ StopListening
      BY <3>6 DEF ReadActive, StopListening
    <3> QED
      BY <1>3, <3>1, <3>2, <3>3, <3>4, <3>5, <3>6 DEF NetworkNext
  <2> QED
    BY <1>3, <2>1, <2>2, QuietBefore
<1> QED
  BY <1>1, <1>2, <1>3

\* The core hears of the network from the actor, or from its own start.
LEMMA CoreStep == NetworkInv /\ [NetworkNext]_networkVars => CoreIsTold'
<1> SUFFICES ASSUME NetworkInv, [NetworkNext]_networkVars, Quiet',
                    service' = "on", actor'.at = "free", active' # NoNetwork
             PROVE  told' = active'
  BY DEF CoreIsTold
<1>0. CoreIsTold /\ MonitorHasNetwork /\ Telling /\ NetworkTypeOK
  BY DEF NetworkInv
<1>1. CASE UNCHANGED networkVars
  <2>1. Quiet /\ UNCHANGED <<service, told, active, actor>>
    BY <1>1, QuietStays DEF networkVars, systemVars, actorVars, serviceVars,
                            monitorVars
  <2> QED
    BY <1>0, <2>1 DEF CoreIsTold
<1>2. CASE StartListening
  BY <1>2 DEF StartListening
<1>3. CASE NetworkNext /\ ~StartListening
  <2>1. CASE Take /\ Current /\ registered /\ callbacks = <<>>
    BY <2>1, LastCallback
  <2>2. CASE Quiet
    <3>1. CASE NetworkChanges
      <4>1. callbacks' # <<>>
        BY <2>2, <3>1 DEF NetworkChanges, Quiet, NetworkInv, NetworkTypeOK
      <4> QED
        BY <4>1 DEF Quiet
    <3>2. CASE OnCallback
      BY <2>2, <3>2 DEF OnCallback, Quiet
    <3>3. CASE Take
      <4>1. UNCHANGED <<told, service, active, actor>>
        BY <2>2, <3>3, TakeEffect DEF Quiet, Take, systemVars
      <4> QED
        BY <1>0, <2>2, <4>1 DEF CoreIsTold
    <3>4. CASE ActorLooks
      <4>1. service = "on" /\ listener # noCore
        BY <1>0, <3>4 DEF ActorLooks, serviceVars, Telling
      <4>2. actor'.at = "tell"
        BY <1>0, <3>4, <4>1 DEF ActorLooks, NetworkTypeOK, ActorCalls
      <4> QED
        BY <4>2
    <3>5. CASE ActorTells
      <4>1. actor.network = network /\ actor.core = core
            /\ UNCHANGED <<active, service>>
        BY <1>0, <3>5 DEF ActorTells, Telling, systemVars, serviceVars
      <4>2. network = active
        BY <2>2, QuietIsKnown DEF Quiet
      <4> QED
        BY <3>5, <4>1, <4>2 DEF ActorTells, Tell
    <3>6. CASE ServiceTells
      <4>1. service = "tell" /\ defaultNetwork = active /\ UNCHANGED active
        BY <1>0, <2>2, <3>6 DEF ServiceTells, MonitorHasNetwork, systemVars
      <4>2. seen = defaultNetwork
        BY <3>6 DEF ServiceTells, Quiet
      <4> QED
        BY <3>6, <4>1, <4>2 DEF ServiceTells, Tell
    <3>7. CASE \/ ReadActive \/ AssignActive \/ SetListener \/ ServiceLooks
               \/ LeaveListening \/ CloseMonitor \/ StopListening
      BY <3>7 DEF ReadActive, AssignActive, SetListener, ServiceLooks,
                  LeaveListening, CloseMonitor, StopListening
    <3> QED
      BY <1>3, <3>1, <3>2, <3>3, <3>4, <3>5, <3>6, <3>7 DEF NetworkNext
  <2> QED
    BY <1>3, <2>1, <2>2, QuietBefore
<1> QED
  BY <1>1, <1>2, <1>3

LEMMA NetworkStep == NetworkInv /\ [NetworkNext]_networkVars => NetworkInv'
  BY NetworkTypeStep, RegistrationStep, ToldStep, TellingStep, MonitorStep,
     CoreStep DEF NetworkInv

\* The network monitor's variables have the types of NetworkTypeOK.
THEOREM NetworkTypesCorrect == NetworkSpec => []NetworkTypeOK
<1>1. NetworkInv => NetworkTypeOK
  BY DEF NetworkInv
<1> QED
  BY <1>1, NetworkInitially, NetworkStep, PTL DEF NetworkSpec

\* With nothing on its way the monitor and the core have the system's network,
\* unless the service's start crossed a callback: CoreHasNetwork, for any
\* networks, and any number of callbacks and starts.
THEOREM CoreKnowsNetwork == NetworkSpec => []CoreHasNetwork
<1>1. NetworkInv => CoreHasNetwork
  <2> SUFFICES ASSUME NetworkInv, registered, service = "on", ~crossed,
                      callbacks = <<>>, callback = NoEvent, actor = Free
               PROVE  defaultNetwork = active /\ (active # NoNetwork => told = active)
    BY DEF CoreHasNetwork
  <2>1. Quiet /\ actor.at = "free"
    BY DEF Quiet, Current, Free
  <2> QED
    BY <2>1 DEF NetworkInv, MonitorHasNetwork, CoreIsTold
<1> QED
  BY <1>1, NetworkInitially, NetworkStep, PTL DEF NetworkSpec
===============================================================================
