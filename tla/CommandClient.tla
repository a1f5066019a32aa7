---------------------------- MODULE CommandClient ----------------------------
(***************************************************************************)
(* The command client of the Android app (one for the traffic, one for the *)
(* groups, one for the notification): connect() leaves the connecting to a *)
(* job, which tries ten times and only then puts the client where          *)
(* disconnect() would find it.                                             *)
(***************************************************************************)
EXTENDS Naturals

CONSTANTS MaxTries,     \* ten in the code
          MaxClients    \* bound: calls of connect

ASSUME CommandClientAssumption == MaxTries \in Nat \ {0} /\ MaxClients \in Nat

Clients == 1..MaxClients
noClient == 0

VARIABLES
  field,      \* the property commandClient
  job,        \* per client: its coroutine: not started, trying, connected, over
  tries,      \* per client: tries that have failed
  linked,     \* clients with a connection to the core's server
  server,     \* the core's command server listens
  listening,  \* Dart listens to the event channel: the sink is there
  late        \* history: connect or disconnect was called beside a job

jobVars == <<field, job, tries, linked>>
commandVars == <<jobVars, server, listening, late>>

ClientTypeOK ==
  /\ field \in Clients \cup {noClient}
  /\ job \in [Clients -> {"none", "trying", "connected", "over"}]
  /\ tries \in [Clients -> 0..MaxTries]
  /\ linked \subseteq Clients
  /\ server \in BOOLEAN /\ listening \in BOOLEAN /\ late \in BOOLEAN

ClientInit ==
  /\ field = noClient
  /\ job = [c \in Clients |-> "none"]
  /\ tries = [c \in Clients |-> 0]
  /\ linked = {}
  /\ server = FALSE /\ listening = FALSE /\ late = FALSE

Pending(c) == job[c] \in {"trying", "connected"}

\* Mutant of Disconnect: the client is forgotten, not disconnected.
DisconnectForgets ==
  /\ field' = noClient
  /\ late' = (late \/ \E c \in Clients : Pending(c))
  /\ UNCHANGED linked

\* disconnect() knows of the client in the field only.
Disconnect ==
  /\ linked' = linked \ {field}
  /\ field' = noClient
  /\ late' = (late \/ \E c \in Clients : Pending(c))

\* onListen, or the screen goes on: connect() disconnects, and launches the job
\* of a new client.
OnListen ==
  /\ \E c \in Clients :
       /\ job[c] = "none" /\ \A d \in 1..(c - 1) : job[d] # "none"
       /\ job' = [job EXCEPT ![c] = "trying"]
  /\ Disconnect
  /\ listening' = TRUE
  /\ UNCHANGED <<tries, server>>

\* onCancel, or the screen goes off
OnCancel ==
  /\ listening
  /\ Disconnect
  /\ listening' = FALSE
  /\ UNCHANGED <<job, tries, server>>

\* One more try, which may find a server; the tenth that fails ends the job.
Try(c) ==
  /\ job[c] = "trying"
  /\ \/ /\ server
        /\ linked' = linked \cup {c}
        /\ job' = [job EXCEPT ![c] = "connected"]
        /\ UNCHANGED tries
     \/ /\ tries' = [tries EXCEPT ![c] = @ + 1]
        /\ job' = [job EXCEPT ![c] = IF tries'[c] = MaxTries THEN "over" ELSE @]
        /\ UNCHANGED linked
  /\ UNCHANGED <<field, server, listening, late>>

\* The job of a connected client looks whether its scope is still active, and
\* puts the client into the field, over whatever is there.
Assign(c) ==
  /\ job[c] = "connected"
  /\ field' = c
  /\ job' = [job EXCEPT ![c] = "over"]
  /\ UNCHANGED <<tries, linked, server, listening, late>>

\* The engine is detached and the activity's scope cancelled: jobs end, and a
\* client that has just connected is disconnected by its own.
Detach ==
  /\ listening' = FALSE
  /\ linked' = {c \in linked : c # field /\ job[c] # "connected"}
  /\ field' = noClient
  /\ job' = [c \in Clients |-> IF Pending(c) THEN "over" ELSE job[c]]
  /\ UNCHANGED <<tries, server, late>>

ServerStarts ==
  /\ ~server /\ server' = TRUE
  /\ UNCHANGED <<jobVars, listening, late>>

\* A server that goes ends its connections; the clients stay where they are.
ServerStops ==
  /\ server /\ server' = FALSE
  /\ linked' = {}
  /\ UNCHANGED <<field, job, tries, listening, late>>

ClientNext ==
  \/ OnListen \/ OnCancel \/ Detach \/ ServerStarts \/ ServerStops
  \/ \E c \in Clients : Try(c) \/ Assign(c)

ClientSpec == ClientInit /\ [][ClientNext]_commandVars

----------------------------------------------------------------------------
(* Properties.                                                             *)

\* Every connection belongs to the client that disconnect() would find, or to
\* one whose job is about to put it there, and to nobody once Dart has stopped
\* listening; as long as nobody called connect or disconnect while a job was
\* under way, which takes up to four seconds and is not waited for.
ClientsAreKnown ==
  ~late =>
    /\ \A c \in linked : c = field \/ job[c] = "connected"
    /\ ~listening => linked = {}
=============================================================================
