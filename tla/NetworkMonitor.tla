---------------------------- MODULE NetworkMonitor ----------------------------
(***************************************************************************)
(* How the Android service learns of the phone's default network: the      *)
(* system's callback, the actor of DefaultNetworkListener that takes its   *)
(* messages one at a time, the two fields of DefaultNetworkMonitor, and    *)
(* the core, which is told the interface to send through.                  *)
(*                                                                         *)
(* Three threads write and read the fields without a lock: the service's,  *)
(* the core's when it starts its monitor (in the middle of the service's   *)
(* start), and the callback's, on which the actor runs.                    *)
(***************************************************************************)
EXTENDS Naturals, Sequences

CONSTANTS Networks,     \* the interface of a network is the network here
          NoNetwork,    \* null
          MaxCores,     \* bound: starts of the service
          MaxCallbacks  \* bound: callbacks that wait for their thread

ASSUME NetworkAssumption ==
  NoNetwork \notin Networks /\ MaxCores \in Nat /\ MaxCallbacks \in Nat \ {0}

AnyNetwork == Networks \cup {NoNetwork}
noCore == 0
\* late: history, the callback was unregistered since
Event(kind, n) == [kind |-> kind, network |-> n, late |-> FALSE]
NoEvent == Event("none", NoNetwork)
Free == [at |-> "free", network |-> NoNetwork, core |-> noCore]

VARIABLES
  oldSdk,         \* no ConnectivityManager.activeNetwork (before API 23)
  active,         \* the system's default network
  registered,     \* the system knows the callback
  callbacks,      \* what it has to tell it
  callback,       \* what the callback's thread is about to send to the actor
  listens,        \* actor: listeners is not empty; its one key is the monitor
  network,        \* actor: network
  actor,          \* the call of the listener that the actor is in
  defaultNetwork, listener,  \* the monitor's fields
  service, seen,  \* the service's thread, and the network it has read
  core, told,     \* the number of the core's start, and what that was told
  crossed         \* history: a network was written or told that the
                  \*   system had replaced, and no callback came since

systemVars == <<oldSdk, active, registered, callbacks>>
actorVars == <<callback, listens, network, actor>>
monitorVars == <<defaultNetwork, listener>>
serviceVars == <<service, seen, core>>
networkVars == <<systemVars, actorVars, monitorVars, serviceVars, told, crossed>>

EventKinds == {"available", "changed", "lost"}
QueuedEvents == [kind : EventKinds, network : Networks, late : {FALSE}]
SentEvents == [kind : EventKinds \cup {"none"}, network : AnyNetwork, late : BOOLEAN]
ActorCalls == [at : {"free", "look", "tell"}, network : AnyNetwork,
               core : 0..MaxCores]

NetworkTypeOK ==
  /\ oldSdk \in BOOLEAN /\ active \in AnyNetwork /\ registered \in BOOLEAN
  /\ callbacks \in Seq(QueuedEvents) /\ callback \in SentEvents
  /\ listens \in BOOLEAN /\ network \in AnyNetwork
  /\ actor \in ActorCalls
  /\ defaultNetwork \in AnyNetwork /\ listener \in 0..MaxCores
  /\ service \in {"off", "read", "await", "assign", "create", "look", "tell",
                  "on", "stop"}
  /\ seen \in AnyNetwork /\ core \in 0..MaxCores /\ told \in AnyNetwork
  /\ crossed \in BOOLEAN

NetworkInit ==
  /\ oldSdk \in BOOLEAN /\ active \in AnyNetwork
  /\ registered = FALSE /\ callbacks = <<>> /\ callback = NoEvent
  /\ listens = FALSE /\ network = NoNetwork /\ actor = Free
  /\ defaultNetwork = NoNetwork /\ listener = noCore
  /\ service = "off" /\ seen = NoNetwork /\ core = noCore
  /\ told = NoNetwork /\ crossed = FALSE

----------------------------------------------------------------------------
(* The system.                                                             *)

\* The default network changes, or only its capabilities do.
NetworkChanges ==
  /\ Len(callbacks) < MaxCallbacks
  /\ \E n \in AnyNetwork, kind \in EventKinds :
       /\ kind = "changed" => n = active
       /\ kind # "changed" => n # active
       /\ kind = "lost" <=> n = NoNetwork
       /\ active' = n
       /\ callbacks' =
            IF ~registered THEN <<>>
            ELSE Append(callbacks, Event(kind, IF kind = "lost" THEN active ELSE n))
  /\ UNCHANGED <<oldSdk, registered, actorVars, monitorVars, serviceVars, told,
                 crossed>>

\* register: the callback is told the present network first.  On API
\* 23 the request may fail, which is caught, and nothing is ever told.
RegisterCallback ==
  \/ /\ registered' = TRUE
     /\ callbacks' = IF active = NoNetwork THEN <<>>
                     ELSE <<Event("available", active)>>
  \/ /\ ~oldSdk /\ UNCHANGED <<registered, callbacks>>

\* A callback begins; it blocks its thread until the actor takes the message.
OnCallback ==
  /\ callback = NoEvent /\ callbacks # <<>>
  /\ callback' = Head(callbacks) /\ callbacks' = Tail(callbacks)
  /\ UNCHANGED <<oldSdk, active, registered, listens, network, actor,
                 monitorVars, serviceVars, told, crossed>>

----------------------------------------------------------------------------
(* The actor.                                                              *)

\* The monitor's listener with a network: the field, and then the core.
Notify(n) ==
  /\ defaultNetwork' = n
  /\ actor' = [Free EXCEPT !.at = "look", !.network = n]

Calls(kind, n) == callback.kind = kind /\ callback.network = n

NoNotice == UNCHANGED <<defaultNetwork, actor>>

\* Mutant of TakeLost: the listeners are not called.
TakeLostQuietly(n) ==
  /\ Calls("lost", n)
  /\ network' = IF network = n THEN NoNetwork ELSE network
  /\ NoNotice
  /\ UNCHANGED <<service, seen, crossed>>

TakeLost(n) ==
  /\ Calls("lost", n)
  /\ \/ /\ network = n /\ network' = NoNetwork
        /\ IF listens THEN Notify(NoNetwork) ELSE NoNotice
        /\ crossed' = callback.late
     \/ /\ network # n /\ NoNotice
        /\ UNCHANGED <<network, crossed>>
  /\ UNCHANGED <<service, seen>>

\* Put: whoever waits for a network gets this one.
TakeAvailable(n) ==
  /\ Calls("available", n)
  /\ network' = n
  /\ IF listens THEN Notify(n) ELSE NoNotice
  /\ \/ /\ service = "await" /\ service' = "assign" /\ seen' = n
     \/ /\ service # "await" /\ UNCHANGED <<service, seen>>
  /\ crossed' = callback.late

TakeChanged(n) ==
  /\ Calls("changed", n)
  /\ IF listens /\ network = n THEN Notify(n) ELSE NoNotice
  /\ UNCHANGED <<network, service, seen, crossed>>

\* The actor takes what the callback's thread sends.
Take ==
  /\ actor = Free
  /\ \E n \in Networks : TakeLost(n) \/ TakeAvailable(n) \/ TakeChanged(n)
  /\ callback' = NoEvent
  /\ UNCHANGED <<systemVars, listens, listener, core, told>>

\* updateDefaultInterface, if the system knows the network's link.  A core that
\* is gone hears nothing.
Tell(c, n) ==
  \/ /\ n # NoNetwork /\ c = core /\ told' = n
  \/ /\ n = NoNetwork \/ c # core \/ n # active
     /\ UNCHANGED told

\* checkDefaultInterfaceUpdate on the actor: is there a listener?
ActorLooks ==
  /\ actor.at = "look"
  /\ actor' = IF listener = noCore THEN Free
              ELSE [actor EXCEPT !.at = "tell", !.core = listener]
  /\ UNCHANGED <<systemVars, callback, listens, network, monitorVars,
                 serviceVars, told, crossed>>

ActorTells ==
  /\ actor.at = "tell"
  /\ Tell(actor.core, actor.network)
  /\ actor' = Free
  /\ UNCHANGED <<systemVars, callback, listens, network, monitorVars,
                 serviceVars, crossed>>

----------------------------------------------------------------------------
(* The service.                                                            *)

\* DefaultNetworkMonitor.start: the first listener registers the callback; the
\* network the actor knows, which may be left from before, is told at once.
StartListening ==
  /\ service = "off" /\ core < MaxCores /\ actor = Free
  /\ service' = "read"
  /\ listens' = TRUE
  /\ IF listens THEN UNCHANGED <<registered, callbacks>> ELSE RegisterCallback
  /\ IF network # NoNetwork THEN Notify(network) ELSE NoNotice
  /\ UNCHANGED <<oldSdk, active, callback, network, listener, seen, core, told,
                 crossed>>

\* ... and then the system's active network is read, or the actor asked for one,
\* which it may have to wait for ...
ReadActive ==
  /\ service = "read"
  /\ \/ /\ ~oldSdk
        /\ seen' = active /\ service' = "assign"
     \/ /\ oldSdk /\ actor = Free /\ network # NoNetwork
        /\ seen' = network /\ service' = "assign"
     \/ /\ oldSdk /\ actor = Free /\ network = NoNetwork
        /\ service' = "await" /\ UNCHANGED seen
  /\ UNCHANGED <<systemVars, actorVars, monitorVars, core, told, crossed>>

\* ... and assigned, whatever a callback has assigned in between.
AssignActive ==
  /\ service = "assign"
  /\ defaultNetwork' = seen
  /\ crossed' = (crossed \/ seen # active)
  /\ service' = "create"
  /\ UNCHANGED <<systemVars, actorVars, listener, seen, core, told>>

\* The core starts its monitor: setListener ...
SetListener ==
  /\ service = "create" /\ service' = "look"
  /\ core' = core + 1 /\ listener' = core'
  /\ told' = NoNetwork
  /\ UNCHANGED <<systemVars, actorVars, defaultNetwork, seen, crossed>>

\* ... which reads the network ...
ServiceLooks ==
  /\ service = "look" /\ service' = "tell"
  /\ seen' = defaultNetwork
  /\ UNCHANGED <<systemVars, actorVars, monitorVars, core, told, crossed>>

\* ... and tells it.
ServiceTells ==
  /\ service = "tell" /\ service' = "on"
  /\ Tell(core, seen)
  /\ crossed' = (crossed \/ seen # defaultNetwork)
  /\ UNCHANGED <<systemVars, actorVars, monitorVars, seen, core>>

\* The core fails before or after that, or is reloaded: nobody calls stop.
LeaveListening ==
  /\ service \in {"create", "on"} /\ service' = "off"
  /\ listener' = noCore
  /\ UNCHANGED <<systemVars, actorVars, defaultNetwork, seen, core, told,
                 crossed>>

\* The core is closed, with its monitor ...
CloseMonitor ==
  /\ service = "on" /\ service' = "stop"
  /\ listener' = noCore
  /\ UNCHANGED <<systemVars, actorVars, defaultNetwork, seen, core, told,
                 crossed>>

\* ... and DefaultNetworkMonitor.stop removes the only listener, and with it the
\* callback, but not a message that its thread is about to send.
StopListening ==
  /\ service = "stop" /\ actor = Free /\ service' = "off"
  /\ listens' = FALSE /\ network' = NoNetwork
  /\ registered' = FALSE /\ callbacks' = <<>>
  /\ callback' = [callback EXCEPT !.late = callback # NoEvent]
  /\ crossed' = FALSE
  /\ UNCHANGED <<oldSdk, active, actor, monitorVars, seen, core, told>>

NetworkNext ==
  \/ NetworkChanges \/ OnCallback \/ Take \/ ActorLooks \/ ActorTells
  \/ StartListening \/ ReadActive \/ AssignActive \/ SetListener \/ ServiceLooks
  \/ ServiceTells \/ LeaveListening \/ CloseMonitor \/ StopListening

NetworkSpec == NetworkInit /\ [][NetworkNext]_networkVars

----------------------------------------------------------------------------
(* Properties.                                                             *)

\* Once every callback has been taken, the monitor and the running core have the
\* system's default network, unless the service's start has written or told one
\* that a callback had already replaced, which nothing puts right but the next
\* network.  The fields have no lock, and neither has their order of writing.
CoreHasNetwork ==
  registered /\ service = "on" /\ ~crossed
    /\ callbacks = <<>> /\ callback = NoEvent /\ actor = Free =>
      /\ defaultNetwork = active
      /\ active # NoNetwork => told = active
=============================================================================
