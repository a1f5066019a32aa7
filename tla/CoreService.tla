---------------------------- MODULE CoreService ----------------------------
(***************************************************************************)
(* The desktop core, libcore/custom.  The Dart side calls the exported     *)
(* functions start, stop and restart from a pool of isolates, so on        *)
(* several threads at once, and a client of the command socket makes the   *)
(* command server call ServiceReload on a goroutine of its own.  They      *)
(* share unsynchronized globals; every access to one of them is a step.    *)
(*                                                                         *)
(* The repository has called setup and changeConfigOptions before the      *)
(* first of these calls (module Connection).                               *)
(***************************************************************************)
EXTENDS Naturals

CONSTANTS Threads,     \* worker isolates and command-server goroutines
          Paths,       \* configuration files a caller may name
          MaxCalls     \* bound: how many calls a behaviour makes

ASSUME MaxCallsAssumption == MaxCalls \in Nat

VARIABLES
  status, activeConfigPath,    \* globals of the package
  box, commandServer,          \* ... the call that made what they hold; 0 is nil
  live, listening, serving,    \* running instances, open sockets, SetService
  built,                       \* the file each call's instance was built from
  posted,                      \* the last message sent to the Dart port
  pc, call, pub,               \* per thread: its place, its call, what it posts
  calls, tags, wedged, crashed \* calls made; history; the process died

globals == <<status, activeConfigPath, box, commandServer>>
world   == <<live, listening, serving, built>>
hist    == <<calls, tags, wedged, crashed>>
vars    == <<globals, world, posted, pc, call, pub, hist>>

-----------------------------------------------------------------------------

Statuses == {"Stopped", "Starting", "Started", "Stopping"}
Alerts   == {"none", "EmptyConfiguration", "StartCommandServer",
             "CreateService", "StartService"}
Ops      == {"start", "stop", "restart", "reload"}
Labels   == {"idle", "guard", "found", "stopGuard", "stopFound",
             "write", "marshal", "post",
             "path", "read", "server", "listen", "create", "run", "box", "serve",
             "check", "unserve", "held", "close", "clear", "shut", "drop"}
Tags     == {"window", "tail", "reload", "mid"}
CallIds  == 1 .. MaxCalls
CallRec  == [op : Ops, id : 0 .. MaxCalls, path : Paths \cup {"nil"}]
NoCall   == [op |-> "stop", id |-> 0, path |-> "nil"]
Message  == [status : Statuses, alert : Alerts]
Publication == [to : Statuses, alert : Alerts, sent : Statuses]
Outgoing(s, a) == [to |-> s, alert |-> a, sent |-> s]
NoPublication == Outgoing("Stopped", "none")

TypeOK ==
  /\ status \in Statuses
  /\ activeConfigPath \in Paths \cup {"nil"}
  /\ box \in 0 .. MaxCalls
  /\ commandServer \in 0 .. MaxCalls
  /\ live \subseteq CallIds
  /\ listening \subseteq CallIds
  /\ serving \in [CallIds -> 0 .. MaxCalls]
  /\ built \in [CallIds -> Paths \cup {"nil"}]
  /\ posted \in Message
  /\ pc \in [Threads -> Labels]
  /\ call \in [Threads -> CallRec]
  /\ \A t \in Threads : pc[t] # "idle" => call[t].id # 0
  /\ pub \in [Threads -> Publication]
  /\ calls \in 0 .. MaxCalls
  /\ tags \subseteq Tags
  /\ wedged \in BOOLEAN
  /\ crashed \in BOOLEAN

Init ==
  /\ status = "Stopped" /\ activeConfigPath = "nil"
  /\ box = 0 /\ commandServer = 0
  /\ live = {} /\ listening = {}
  /\ serving = [c \in CallIds |-> 0]
  /\ built = [c \in CallIds |-> "nil"]
  /\ posted = [status |-> "Stopped", alert |-> "none"]
  /\ pc = [t \in Threads |-> "idle"]
  /\ call = [t \in Threads |-> NoCall]
  /\ pub = [t \in Threads |-> NoPublication]
  /\ calls = 0 /\ tags = {} /\ wedged = FALSE /\ crashed = FALSE

-----------------------------------------------------------------------------
(* Where a thread stands with respect to the status word, which start, stop *)
(* and restart use as if it were a lock.                                    *)

Op(t) == call[t].op
Posting(t) == pc[t] \in {"marshal", "post"}

\* restart, between the Stopped of its stop and the Starting of its start
BetweenHalves(t) ==
  /\ Op(t) = "restart"
  /\ \/ pc[t] = "write" /\ pub[t].to = "Starting"
     \/ Posting(t) /\ pub[t].to = "Stopped" /\ pub[t].alert = "none"

\* past its check of the status, the status of its own not yet written
Window(t) ==
  \/ pc[t] \in {"found", "stopFound"}
  \/ pc[t] = "stopGuard" /\ Op(t) = "restart"
  \/ pc[t] = "write" /\ pub[t].to \in {"Starting", "Stopping"}
  \/ BetweenHalves(t)

\* Starting or Stopping written, the outcome not yet
Body == {"path", "read", "server", "listen", "create", "run", "box", "serve",
         "check", "unserve", "held", "close", "clear", "shut", "drop"}
Mid(t) ==
  \/ pc[t] \in Body
  \/ Posting(t) /\ pub[t].to \in {"Starting", "Stopping"}
  \/ pc[t] = "write" /\ pub[t].to \in {"Started", "Stopped"}

\* the outcome written, its message still on the way to the port
Announcing(t) ==
  Posting(t) /\ pub[t].to \in {"Started", "Stopped"} /\ ~BetweenHalves(t)

\* What a call finds other threads doing at the moment it goes past its check.
Entry(t, o) ==
  LET others == Threads \ {t}
  IN  (IF \E u \in others : Window(u) THEN {"window"} ELSE {})
      \cup (IF \E u \in others : Announcing(u) THEN {"tail"} ELSE {})
      \cup (IF \E u \in others : Mid(u)
            THEN {IF o = "reload" THEN "reload" ELSE "mid"} ELSE {})

\* No call has gone past its check beside another that was still at work.
Serial == tags \cap {"window", "reload", "mid"} = {}

-----------------------------------------------------------------------------
(* Helpers.                                                                 *)

Goto(t, l) == pc' = [pc EXCEPT ![t] = l]

\* the start of propagateStatus(s), and with an alert of stopAndAlert
Publish(t, s, a) ==
  /\ Goto(t, "write")
  /\ pub' = [pub EXCEPT ![t] = Outgoing(s, a)]

\* the function returns to its caller
Leave(t) ==
  /\ Goto(t, "idle")
  /\ call' = [call EXCEPT ![t] = NoCall]
  /\ pub' = [pub EXCEPT ![t] = NoPublication]

Return(t) == Leave(t) /\ UNCHANGED <<globals, world, posted, hist>>

\* Mutant of StopAndAlert: the error is dropped and nobody is told.
AlertDropped(t, a) == Return(t)

\* stopAndAlert: the error becomes a message, the caller is told nothing.
StopAndAlert(t, a) ==
  /\ Publish(t, "Stopped", a)
  /\ UNCHANGED <<globals, world, posted, call, hist>>

\* A nil dereference.  DeferPanicToError turns it into an error of the exported
\* function; nothing guards the goroutine of a reload.
Panic(t) ==
  /\ UNCHANGED <<globals, world, posted, calls, tags>>
  /\ \/ /\ Op(t) = "reload"
        /\ crashed' = TRUE
        /\ UNCHANGED <<pc, call, pub, wedged>>
     \/ /\ Op(t) # "reload"
        /\ Leave(t)
        /\ wedged' = TRUE
        /\ UNCHANGED crashed

-----------------------------------------------------------------------------
(* Calls arrive.                                                            *)

Invoke(t, o, p) ==
  /\ pc[t] = "idle" /\ calls < MaxCalls
  /\ calls' = calls + 1
  /\ call' = [call EXCEPT ![t] = [op |-> o, id |-> calls + 1, path |-> p]]
  /\ UNCHANGED <<globals, world, posted, wedged, crashed>>

CallStart(t) ==
  /\ \E p \in Paths : Invoke(t, "start", p)
  /\ Goto(t, "guard")
  /\ UNCHANGED <<pub, tags>>

CallRestart(t) ==
  /\ \E p \in Paths : Invoke(t, "restart", p)
  /\ Goto(t, "guard")
  /\ UNCHANGED <<pub, tags>>

CallStop(t) ==
  /\ Invoke(t, "stop", "nil")
  /\ Goto(t, "stopGuard")
  /\ UNCHANGED <<pub, tags>>

\* ServiceReload, and SetSystemProxyEnabled which is the same call: any client
\* of a socket that is still open can ask for it, and nothing is checked.
CallReload(t) ==
  /\ listening # {}
  /\ Invoke(t, "reload", "nil")
  /\ Publish(t, "Starting", "none")
  /\ tags' = tags \cup Entry(t, "reload")

-----------------------------------------------------------------------------
(* propagateStatus and stopAndAlert: write the word, marshal it, post it.   *)

\* Mutant of WriteStatus: the message is made before the word is written.
MarshalledFirst(t) ==
  /\ pc[t] = "write"
  /\ status' = pub[t].to
  /\ pub' = [pub EXCEPT ![t].sent = status]
  /\ wedged' = (wedged /\ pub[t].to \in {"Starting", "Stopping"})
  /\ Goto(t, "post")
  /\ UNCHANGED <<activeConfigPath, box, commandServer, world, posted, call,
                 calls, tags, crashed>>

WriteStatus(t) ==
  /\ pc[t] = "write"
  /\ status' = pub[t].to
  /\ wedged' = (wedged /\ pub[t].to \in {"Starting", "Stopping"})
  /\ Goto(t, "marshal")
  /\ UNCHANGED <<activeConfigPath, box, commandServer, world, posted, call, pub,
                 calls, tags, crashed>>

\* The message is made from the global, not from the argument.
Marshal(t) ==
  /\ pc[t] = "marshal"
  /\ pub' = [pub EXCEPT ![t] = [to |-> pub[t].to, alert |-> pub[t].alert,
                               sent |-> status]]
  /\ Goto(t, "post")
  /\ UNCHANGED <<globals, world, posted, call, hist>>

\* Post, and go on to what the call does next.
Post(t) ==
  /\ pc[t] = "post"
  /\ posted' = [status |-> pub[t].sent, alert |-> pub[t].alert]
  /\ \/ /\ pub[t].to = "Starting"
        /\ Goto(t, IF Op(t) = "reload" THEN "check" ELSE "path")
        /\ UNCHANGED <<call, pub>>
     \/ /\ pub[t].to = "Stopping"
        /\ Goto(t, "unserve")
        /\ UNCHANGED <<call, pub>>
     \/ /\ BetweenHalves(t)
        /\ Publish(t, "Starting", "none")
        /\ UNCHANGED call
     \/ /\ Announcing(t)
        /\ Leave(t)
  /\ UNCHANGED <<globals, world, hist>>

-----------------------------------------------------------------------------
(* start, and the head of restart.                                          *)

\* Mutant of StartGuard: the status is not looked at.
StartUnguarded(t) ==
  /\ pc[t] = "guard" /\ Op(t) = "start"
  /\ tags' = tags \cup Entry(t, "start")
  /\ Publish(t, "Starting", "none")
  /\ UNCHANGED <<globals, world, posted, call, calls, wedged, crashed>>

\* start wants the status Stopped, and returns "" on any other.
StartGuard(t) ==
  /\ pc[t] = "guard" /\ Op(t) = "start"
  /\ \/ status # "Stopped" /\ Return(t)
     \/ /\ status = "Stopped"
        /\ tags' = tags \cup Entry(t, "start")
        /\ Publish(t, "Starting", "none")
        /\ UNCHANGED <<globals, world, posted, call, calls, wedged, crashed>>

\* restart wants it Started.
RestartGuard(t) ==
  /\ pc[t] = "guard" /\ Op(t) = "restart"
  /\ \/ status # "Started" /\ Return(t)
     \/ /\ status = "Started"
        /\ tags' = tags \cup Entry(t, "restart")
        /\ Goto(t, "found")
        /\ UNCHANGED <<globals, world, posted, call, pub, calls, wedged, crashed>>

\* restart looks for the instance; without one it returns an error.
RestartFound(t) ==
  /\ pc[t] = "found"
  /\ \/ box = 0 /\ Return(t)
     \/ /\ box # 0
        /\ Goto(t, "stopGuard")
        /\ UNCHANGED <<globals, world, posted, call, pub, hist>>

\* Mutant of SetPath: restart keeps the file of the start before it.
PathKeptByRestart(t) ==
  /\ pc[t] = "path"
  /\ activeConfigPath' = IF Op(t) = "restart" THEN activeConfigPath
                                              ELSE call[t].path
  /\ Goto(t, "read")
  /\ UNCHANGED <<status, box, commandServer, world, posted, call, pub, hist>>

SetPath(t) ==
  /\ pc[t] = "path"
  /\ activeConfigPath' = call[t].path
  /\ Goto(t, "read")
  /\ UNCHANGED <<status, box, commandServer, world, posted, call, pub, hist>>

-----------------------------------------------------------------------------
(* startService.                                                            *)

\* The file is read, parsed and made into the options of an instance.
ReadConfig(t) ==
  /\ pc[t] = "read"
  /\ \/ StopAndAlert(t, "EmptyConfiguration")
     \/ /\ built' = [built EXCEPT ![call[t].id] = activeConfigPath]
        /\ Goto(t, "server")
        /\ UNCHANGED <<globals, live, listening, serving, posted, call, pub, hist>>

\* startCommandServer assigns the global first ...
NewCommandServer(t) ==
  /\ pc[t] = "server"
  /\ commandServer' = call[t].id
  /\ Goto(t, "listen")
  /\ UNCHANGED <<status, activeConfigPath, box, world, posted, call, pub, hist>>

\* ... and starts whatever the global holds then.
Listen(t) ==
  /\ pc[t] = "listen"
  /\ \/ commandServer = 0 /\ Panic(t)
     \/ commandServer # 0 /\ StopAndAlert(t, "StartCommandServer")
     \/ /\ commandServer # 0
        /\ listening' = listening \cup {commandServer}
        /\ Goto(t, "create")
        /\ UNCHANGED <<globals, live, serving, built, posted, call, pub, hist>>

CreateInstance(t) ==
  /\ pc[t] = "create"
  /\ \/ StopAndAlert(t, "CreateService")
     \/ Goto(t, "run") /\ UNCHANGED <<globals, world, posted, call, pub, hist>>

StartInstance(t) ==
  /\ pc[t] = "run"
  /\ \/ StopAndAlert(t, "StartService")
     \/ /\ live' = live \cup {call[t].id}
        /\ Goto(t, "box")
        /\ UNCHANGED <<globals, listening, serving, built, posted, call, pub, hist>>

\* Mutant of SetBox: the instance is started and forgotten.
BoxForgotten(t) ==
  /\ pc[t] = "box"
  /\ Goto(t, "serve")
  /\ UNCHANGED <<globals, world, posted, call, pub, hist>>

SetBox(t) ==
  /\ pc[t] = "box"
  /\ box' = call[t].id
  /\ Goto(t, "serve")
  /\ UNCHANGED <<status, activeConfigPath, commandServer, world, posted, call,
                 pub, hist>>

Serve(t) ==
  /\ pc[t] = "serve"
  /\ \/ commandServer = 0 /\ Panic(t)
     \/ /\ commandServer # 0
        /\ serving' = [serving EXCEPT ![commandServer] = box]
        /\ Publish(t, "Started", "none")
        /\ UNCHANGED <<globals, live, listening, built, posted, call, hist>>

-----------------------------------------------------------------------------
(* stop, on its own or called by restart; ServiceReload takes some of the   *)
(* same steps in another order.                                             *)

StopGuard(t) ==
  /\ pc[t] = "stopGuard"
  /\ \/ status # "Started" /\ Op(t) = "stop" /\ Return(t)
     \/ \* stop returned "", so restart carries on
        /\ status # "Started" /\ Op(t) = "restart"
        /\ Publish(t, "Starting", "none")
        /\ UNCHANGED <<globals, world, posted, call, hist>>
     \/ /\ status = "Started"
        /\ tags' = IF Op(t) = "stop" THEN tags \cup Entry(t, "stop") ELSE tags
        /\ Goto(t, "stopFound")
        /\ UNCHANGED <<globals, world, posted, call, pub, calls, wedged, crashed>>

\* "instance not found"
StopFound(t) ==
  /\ pc[t] = "stopFound"
  /\ \/ box = 0 /\ Return(t)
     \/ /\ box # 0
        /\ Publish(t, "Stopping", "none")
        /\ UNCHANGED <<globals, world, posted, call, hist>>

\* Mutant of CheckServer: the server is not asked for.
ServerUnchecked(t) ==
  /\ pc[t] = "check"
  /\ Goto(t, "unserve")
  /\ UNCHANGED <<globals, world, posted, call, pub, hist>>

\* ServiceReload asks for the server before it uses it.
CheckServer(t) ==
  /\ pc[t] = "check"
  /\ Goto(t, IF commandServer = 0 THEN "held" ELSE "unserve")
  /\ UNCHANGED <<globals, world, posted, call, pub, hist>>

\* commandServer.SetService(nil)
Unserve(t) ==
  /\ pc[t] = "unserve"
  /\ \/ commandServer = 0 /\ Panic(t)
     \/ /\ commandServer # 0
        /\ serving' = [serving EXCEPT ![commandServer] = 0]
        /\ Goto(t, IF Op(t) = "reload" THEN "drop" ELSE "close")
        /\ UNCHANGED <<globals, live, listening, built, posted, call, pub, hist>>

\* ServiceReload asks for the instance before it closes it.
CheckBox(t) ==
  /\ pc[t] = "held"
  /\ Goto(t, IF box = 0 THEN "read" ELSE "close")
  /\ UNCHANGED <<globals, world, posted, call, pub, hist>>

\* Mutant of CloseBox: the reference is dropped, the instance left running.
BoxNotClosed(t) ==
  /\ pc[t] = "close"
  /\ Goto(t, "clear")
  /\ UNCHANGED <<globals, world, posted, call, pub, hist>>

\* Close ends the instance even when it reports an error; stop then returns
\* the error with everything else left as it is, a reload ignores it.
CloseBox(t) ==
  /\ pc[t] = "close"
  /\ \/ box = 0 /\ Panic(t)
     \/ /\ box # 0
        /\ live' = live \ {box}
        /\ Goto(t, "clear")
        /\ UNCHANGED <<globals, listening, serving, built, posted, call, pub, hist>>
     \/ /\ box # 0 /\ Op(t) # "reload"
        /\ live' = live \ {box}
        /\ Leave(t)
        /\ wedged' = TRUE
        /\ UNCHANGED <<globals, listening, serving, built, posted, calls, tags,
                       crashed>>

ClearBox(t) ==
  /\ pc[t] = "clear"
  /\ box' = 0
  /\ Goto(t, IF Op(t) = "reload" THEN "read" ELSE "shut")
  /\ UNCHANGED <<status, activeConfigPath, commandServer, world, posted, call,
                 pub, hist>>

\* commandServer.Close(), again with an error that ends the call
CloseServer(t) ==
  /\ pc[t] = "shut"
  /\ \/ commandServer = 0 /\ Panic(t)
     \/ /\ commandServer # 0
        /\ listening' = listening \ {commandServer}
        /\ Goto(t, "drop")
        /\ UNCHANGED <<globals, live, serving, built, posted, call, pub, hist>>
     \/ /\ commandServer # 0
        /\ listening' = listening \ {commandServer}
        /\ Leave(t)
        /\ wedged' = TRUE
        /\ UNCHANGED <<globals, live, serving, built, posted, calls, tags, crashed>>

\* stop drops the server it closed; a reload drops one that is still open.
DropServer(t) ==
  /\ pc[t] = "drop"
  /\ commandServer' = 0
  /\ IF Op(t) = "reload"
     THEN Goto(t, "held") /\ UNCHANGED pub
     ELSE Publish(t, "Stopped", "none")
  /\ UNCHANGED <<status, activeConfigPath, box, world, posted, call, hist>>

-----------------------------------------------------------------------------

Call(t) == CallStart(t) \/ CallRestart(t) \/ CallStop(t) \/ CallReload(t)

Step(t) ==
  \/ WriteStatus(t) \/ Marshal(t) \/ Post(t)
  \/ StartGuard(t) \/ RestartGuard(t) \/ RestartFound(t) \/ SetPath(t)
  \/ ReadConfig(t) \/ NewCommandServer(t) \/ Listen(t)
  \/ CreateInstance(t) \/ StartInstance(t) \/ SetBox(t) \/ Serve(t)
  \/ StopGuard(t) \/ StopFound(t) \/ CheckServer(t) \/ Unserve(t)
  \/ CheckBox(t) \/ CloseBox(t) \/ ClearBox(t) \/ CloseServer(t)
  \/ DropServer(t)

Next == ~crashed /\ \E t \in Threads : Call(t) \/ Step(t)

Spec == Init /\ [][Next]_vars

\* Go runs every goroutine that can run; nothing obliges anybody to call.
Fairness == \A t \in Threads : WF_vars(~crashed /\ Step(t))

FairSpec == Spec /\ Fairness

-----------------------------------------------------------------------------
(* Properties.                                                              *)

\* No call is between its check of the status and its outcome.
Quiet == \A t \in Threads : ~Window(t) /\ ~Mid(t)

\* Starting and Stopping are promises: while the core shows one of them, a call
\* is still working towards Started or Stopped, or the last one that was gave up
\* with an error to its caller.  Holds however the calls interleave.
NoSilentWedge ==
  status \in {"Starting", "Stopping"} /\ ~wedged => \E t \in Threads : Mid(t)

\* The status word works as a lock: a call can go past its check beside one that
\* has already announced Starting or Stopping only after two calls met in the
\* gap between a check and its write, or ServiceReload, which checks nothing,
\* came in beside another call.
StatusExcludes == "mid" \in tags => tags \cap {"window", "reload"} # {}

\* As long as calls do not overlap, the core's answer is true when nobody is at
\* work: Started means exactly one instance runs and box holds it, Stopped means
\* none runs and box is nil.
StatusIsTrue ==
  Serial /\ Quiet =>
    /\ status = "Started" => box # 0 /\ live = {box}
    /\ status = "Stopped" => box = 0 /\ live = {}

\* ... and the instance that start(p) or restart(p) runs was built from p, and
\* the command server that the status and group clients connect to serves what
\* box holds.
RunsWhatWasAsked ==
  Serial =>
    /\ \A t \in Threads :
         pc[t] \in {"run", "box", "serve"} /\ Op(t) # "reload"
           => built[call[t].id] = call[t].path
    /\ Quiet /\ status = "Started" =>
         commandServer \in listening /\ serving[commandServer] = box

\* The nil dereferences of Serve, Unserve, CloseBox, CloseServer and Listen need
\* two overlapping calls; with none the process never dies in a reload.
CrashNeedsOverlap == crashed => ~Serial

\* If no call overlapped another, not even the posting of its last message,
\* the last message the app was sent shows the core's status.
LastMessageIsTrue ==
  tags = {} /\ (\A t \in Threads : pc[t] = "idle") => posted.status = status

\* A call in progress ends: Starting and Stopping do not last, except after an
\* error has been returned or the process has died.
StatusSettles ==
  status \in {"Starting", "Stopping"}
    ~> \/ status \in {"Started", "Stopped"}
       \/ wedged \/ crashed

-----------------------------------------------------------------------------
(* Why StatusIsTrue holds: the inductive invariant.                         *)

Working(t) == Window(t) \/ Mid(t)

\* Which calls come to which places.
PlaceOfOp ==
  \A t \in Threads :
    /\ pc[t] \in {"check", "held"} => Op(t) = "reload"
    /\ pc[t] \in {"guard", "path"} => Op(t) \in {"start", "restart"}
    /\ pc[t] = "found" => Op(t) = "restart"
    /\ pc[t] \in {"stopGuard", "stopFound", "shut"} => Op(t) \in {"stop", "restart"}
    /\ pc[t] \in {"unserve", "close", "clear", "drop"} => Op(t) # "start"
    /\ pc[t] \in {"write", "marshal", "post"} /\ pub[t].to = "Stopping"
         => Op(t) \in {"stop", "restart"}
    /\ pc[t] \in {"write", "marshal", "post"} /\ pub[t].to = "Starting"
         => Op(t) \in {"start", "restart", "reload"}

\* Without overlap one thread at most is at work, and it has put the status in
\* transit once it is past the gap.
Solo ==
  Serial =>
    /\ \A t, u \in Threads : Working(t) /\ Working(u) => t = u
    /\ \A t \in Threads : Mid(t) => status \in {"Starting", "Stopping"}

Down   == box = 0 /\ live = {}
Up     == box # 0 /\ live = {box}
Served == /\ commandServer \in listening /\ serving[commandServer] = box

\* What the status says when no thread is past the gap.
Rest ==
  /\ live \subseteq {box}
  /\ status = "Started" => Up /\ Served
  /\ status = "Stopped" => Down

AtRest == Serial /\ (\A t \in Threads : ~Mid(t)) => Rest

\* The half of a call that leads to Started.
Startup(t) ==
  \/ pc[t] \in {"path", "read", "server", "listen", "create", "run", "box", "serve"}
  \/ pc[t] \in Body /\ Op(t) = "reload"
  \/ pc[t] = "write" /\ pub[t].to = "Started"
  \/ Posting(t) /\ pub[t].to = "Starting"

\* What the working thread has done so far.
Progress(t) ==
  /\ Startup(t) => status = "Starting"
  /\ Window(t) /\ Op(t) # "reload" =>
       status = IF Op(t) = "start" \/ BetweenHalves(t) THEN "Stopped" ELSE "Started"
  /\ Posting(t) /\ pub[t].to = "Starting" =>
       IF Op(t) = "reload" THEN live \subseteq {box} ELSE Down
  /\ pc[t] \in {"path", "read", "server", "listen", "create", "run", "shut"} => Down
  /\ pc[t] \in {"listen", "create", "run", "box", "serve"} =>
       commandServer = call[t].id
  /\ pc[t] \in {"create", "run", "box", "serve"} => commandServer \in listening
  /\ pc[t] = "box" => box = 0 /\ live = {call[t].id}
  /\ pc[t] = "serve" => Up
  /\ pc[t] = "write" /\ pub[t].to = "Started" => Up /\ Served
  /\ pc[t] = "write" /\ pub[t].to = "Stopped" => Down
  /\ Posting(t) /\ pub[t].to = "Stopping" => Up /\ Served
  /\ pc[t] = "unserve" /\ Op(t) # "reload" => Up /\ Served
  /\ pc[t] \in {"check", "unserve", "drop", "held", "close"} => live \subseteq {box}
  /\ pc[t] = "unserve" => commandServer # 0
  /\ pc[t] = "close" => box # 0
  /\ pc[t] \in {"close", "clear"} /\ Op(t) # "reload" => commandServer # 0
  /\ pc[t] = "clear" => live = {}
  /\ pc[t] = "shut" => commandServer # 0
  /\ pc[t] = "drop" /\ Op(t) # "reload" => Down
  /\ pc[t] = "read" /\ Op(t) # "reload" => activeConfigPath = call[t].path
  /\ pc[t] \in {"server", "listen", "create", "run", "box", "serve"}
       /\ Op(t) # "reload" => built[call[t].id] = call[t].path

CoreInv ==
  /\ PlaceOfOp
  /\ Solo
  /\ AtRest
  /\ Serial => ~crashed /\ \A t \in Threads : Progress(t)

\* As long as calls do not overlap, the core is the four-phase service of
\* ServiceLifecycle: whatever start, stop, restart and ServiceReload do, and
\* whichever of their steps fail, is a step of that cycle.
Lifecycle == INSTANCE ServiceLifecycle
  WITH phase <- status, up <- (live # {}), trusted <- Serial
ImplementsLifecycle == Lifecycle!Spec
=============================================================================
