------------------------- MODULE CoreServiceProofs -------------------------
(***************************************************************************)
(* Theorems about CoreService, for every set of threads and of paths and   *)
(* every bound on the calls: its types, what its steps may do, and its     *)
(* safety invariants, which follow from CoreInv, an inductive one.         *)
(***************************************************************************)
EXTENDS CoreService, TLAPS

(* The type invariant.                                                      *)

LEMMA OutgoingType ==
  ASSUME NEW s \in Statuses, NEW a \in Alerts
  PROVE  Outgoing(s, a) \in Publication
  BY DEF Outgoing, Publication

LEMMA NoPublicationType == NoPublication \in Publication
  BY OutgoingType DEF NoPublication, Statuses, Alerts

LEMMA NoCallType == NoCall \in CallRec
  BY MaxCallsAssumption DEF NoCall, CallRec, Ops

LEMMA Ids ==
  /\ 0 \in 0 .. MaxCalls
  /\ \A i \in 0 .. MaxCalls : i # 0 => i \in CallIds
  /\ \A i \in CallIds : i \in 0 .. MaxCalls /\ i # 0
  BY MaxCallsAssumption DEF CallIds

\* What the helpers do to the typed state of the thread that uses them.
LEMMA LeaveType ==
  ASSUME TypeOK, NEW t \in Threads, Leave(t)
  PROVE  /\ pc' \in [Threads -> Labels]
         /\ call' \in [Threads -> CallRec]
         /\ pub' \in [Threads -> Publication]
         /\ \A u \in Threads : pc'[u] # "idle" => call'[u].id # 0
  BY NoPublicationType, NoCallType DEF Leave, Goto, TypeOK, Labels

LEMMA PublishType ==
  ASSUME TypeOK, NEW t \in Threads, NEW s \in Statuses, NEW a \in Alerts,
         Publish(t, s, a), call' = call, pc[t] # "idle"
  PROVE  /\ pc' \in [Threads -> Labels]
         /\ pub' \in [Threads -> Publication]
         /\ \A u \in Threads : pc'[u] # "idle" => call'[u].id # 0
  BY OutgoingType DEF Publish, Goto, TypeOK, Labels

LEMMA GotoType ==
  ASSUME TypeOK, NEW t \in Threads, NEW l \in Labels,
         Goto(t, l), call' = call, pc[t] # "idle"
  PROVE  /\ pc' \in [Threads -> Labels]
         /\ \A u \in Threads : pc'[u] # "idle" => call'[u].id # 0
  BY DEF Goto, TypeOK

LEMMA EntryType ==
  ASSUME NEW t, NEW o
  PROVE  Entry(t, o) \subseteq Tags
  BY DEF Entry, Tags

LEMMA ReturnType ==
  ASSUME TypeOK, NEW t \in Threads, Return(t)
  PROVE  TypeOK'
  BY LeaveType DEF Return, TypeOK, globals, world, hist

LEMMA StopAndAlertType ==
  ASSUME TypeOK, NEW t \in Threads, NEW a \in Alerts,
         StopAndAlert(t, a), pc[t] # "idle"
  PROVE  TypeOK'
<1>1. "Stopped" \in Statuses
  BY DEF Statuses
<1>2. Publish(t, "Stopped", a) /\ call' = call
  BY DEF StopAndAlert
<1>3. QED
  BY <1>1, <1>2, PublishType
  DEF StopAndAlert, TypeOK, globals, world, hist

LEMMA PanicType ==
  ASSUME TypeOK, NEW t \in Threads, Panic(t)
  PROVE  TypeOK'
  BY LeaveType DEF Panic, TypeOK, globals, world

LEMMA InvokeType ==
  ASSUME TypeOK, NEW t \in Threads, NEW o \in Ops, NEW p \in Paths \cup {"nil"},
         Invoke(t, o, p)
  PROVE  /\ call' \in [Threads -> CallRec]
         /\ call'[t].id # 0
         /\ \A u \in Threads : u # t => call'[u] = call[u]
         /\ calls' \in 0 .. MaxCalls
<1>1. calls + 1 \in 0 .. MaxCalls /\ calls + 1 # 0
  BY MaxCallsAssumption DEF Invoke, TypeOK
<1>2. [op |-> o, id |-> calls + 1, path |-> p] \in CallRec
  BY <1>1 DEF CallRec
<1>3. QED
  BY <1>1, <1>2 DEF Invoke, TypeOK

LEMMA CallKeepsType ==
  ASSUME TypeOK, NEW t \in Threads, Call(t)
  PROVE  TypeOK'
<1> USE DEF Ops, Labels
<1>1. ASSUME CallStart(t) PROVE TypeOK'
  <2>1. PICK p \in Paths : Invoke(t, "start", p)
    BY <1>1 DEF CallStart
  <2>2. QED
    BY <1>1, <2>1, InvokeType
    DEF CallStart, Invoke, Goto, TypeOK, globals, world
<1>2. ASSUME CallRestart(t) PROVE TypeOK'
  <2>1. PICK p \in Paths : Invoke(t, "restart", p)
    BY <1>2 DEF CallRestart
  <2>2. QED
    BY <1>2, <2>1, InvokeType
    DEF CallRestart, Invoke, Goto, TypeOK, globals, world
<1>3. ASSUME CallStop(t) PROVE TypeOK'
  BY <1>3, InvokeType
  DEF CallStop, Invoke, Goto, TypeOK, globals, world
<1>4. ASSUME CallReload(t) PROVE TypeOK'
  <2>1. /\ call' \in [Threads -> CallRec] /\ call'[t].id # 0
        /\ \A u \in Threads : u # t => call'[u] = call[u]
        /\ calls' \in 0 .. MaxCalls
    BY <1>4, InvokeType DEF CallReload
  <2>2. Outgoing("Starting", "none") \in Publication
    BY OutgoingType DEF Statuses, Alerts
  <2>3. tags' \subseteq Tags
    BY <1>4, EntryType DEF CallReload, TypeOK
  <2>4. QED
    BY <1>4, <2>1, <2>2, <2>3
    DEF CallReload, Invoke, Publish, Goto, TypeOK, globals, world
<1>5. QED
  BY <1>1, <1>2, <1>3, <1>4 DEF Call

LEMMA StepKeepsType ==
  ASSUME TypeOK, NEW t \in Threads, Step(t)
  PROVE  TypeOK'
<1> USE DEF globals, world, hist
<1>1. ASSUME WriteStatus(t) PROVE TypeOK'
  BY <1>1, GotoType
  DEF WriteStatus, TypeOK, Labels, Statuses, Alerts, Publication
<1>2. ASSUME Marshal(t) PROVE TypeOK'
  BY <1>2, GotoType
  DEF Marshal, TypeOK, Labels, Statuses, Alerts, Publication
<1>3. ASSUME Post(t) PROVE TypeOK'
  BY <1>3, GotoType, PublishType, LeaveType
  DEF Post, TypeOK, Labels, Statuses, Alerts, Message, Publication
<1>4. ASSUME StartGuard(t) PROVE TypeOK'
  BY <1>4, ReturnType, PublishType, EntryType
  DEF StartGuard, TypeOK, Labels, Statuses, Alerts, CallIds
<1>5. ASSUME RestartGuard(t) PROVE TypeOK'
  BY <1>5, ReturnType, GotoType, EntryType
  DEF RestartGuard, TypeOK, Labels, Statuses, Alerts, CallIds
<1>6. ASSUME RestartFound(t) PROVE TypeOK'
  BY <1>6, ReturnType, GotoType
  DEF RestartFound, TypeOK, Labels, Statuses, Alerts, CallIds
<1>7. ASSUME SetPath(t) PROVE TypeOK'
  BY <1>7, GotoType
  DEF SetPath, TypeOK, Labels, Statuses, Alerts, CallRec
<1>8. ASSUME ReadConfig(t) PROVE TypeOK'
  BY <1>8, StopAndAlertType, GotoType
  DEF ReadConfig, TypeOK, Labels, Statuses, Alerts, CallRec
<1>9. ASSUME NewCommandServer(t) PROVE TypeOK'
  BY <1>9, GotoType
  DEF NewCommandServer, TypeOK, Labels, Statuses, Alerts, CallRec
<1>10. ASSUME Listen(t) PROVE TypeOK'
  BY <1>10, Ids, StopAndAlertType, PanicType, GotoType
  DEF Listen, TypeOK, Labels, Statuses, Alerts
<1>11. ASSUME CreateInstance(t) PROVE TypeOK'
  BY <1>11, StopAndAlertType, GotoType
  DEF CreateInstance, TypeOK, Labels, Statuses, Alerts, CallIds
<1>12. ASSUME StartInstance(t) PROVE TypeOK'
  BY <1>12, Ids, StopAndAlertType, GotoType
  DEF StartInstance, TypeOK, Labels, Statuses, Alerts, CallRec
<1>13. ASSUME SetBox(t) PROVE TypeOK'
  BY <1>13, GotoType
  DEF SetBox, TypeOK, Labels, Statuses, Alerts, CallRec
<1>14. ASSUME Serve(t) PROVE TypeOK'
  BY <1>14, PanicType, PublishType
  DEF Serve, TypeOK, Labels, Statuses, Alerts, CallIds
<1>15. ASSUME StopGuard(t) PROVE TypeOK'
  BY <1>15, ReturnType, PublishType, GotoType, EntryType
  DEF StopGuard, TypeOK, Labels, Statuses, Alerts, CallIds
<1>16. ASSUME StopFound(t) PROVE TypeOK'
  BY <1>16, ReturnType, PublishType
  DEF StopFound, TypeOK, Labels, Statuses, Alerts, CallIds
<1>17. ASSUME CheckServer(t) PROVE TypeOK'
  BY <1>17, GotoType
  DEF CheckServer, TypeOK, Labels, Statuses, Alerts, CallIds
<1>18. ASSUME Unserve(t) PROVE TypeOK'
  BY <1>18, Ids, PanicType, GotoType
  DEF Unserve, TypeOK, Labels, Statuses, Alerts
<1>19. ASSUME CheckBox(t) PROVE TypeOK'
  BY <1>19, GotoType
  DEF CheckBox, TypeOK, Labels, Statuses, Alerts, CallIds
<1>20. ASSUME CloseBox(t) PROVE TypeOK'
  BY <1>20, PanicType, GotoType, LeaveType
  DEF CloseBox, TypeOK, Labels, Statuses, Alerts, CallIds
<1>21. ASSUME ClearBox(t) PROVE TypeOK'
  BY <1>21, Ids, GotoType
  DEF ClearBox, TypeOK, Labels, Statuses, Alerts
<1>22. ASSUME CloseServer(t) PROVE TypeOK'
  BY <1>22, PanicType, GotoType, LeaveType
  DEF CloseServer, TypeOK, Labels, Statuses, Alerts, CallIds
<1>23. ASSUME DropServer(t) PROVE TypeOK'
  BY <1>23, Ids, GotoType, PublishType
  DEF DropServer, TypeOK, Labels, Statuses, Alerts
<1>24. QED
  BY <1>1, <1>2, <1>3, <1>4, <1>5, <1>6, <1>7, <1>8, <1>9, <1>10, <1>11,
    <1>12, <1>13, <1>14, <1>15, <1>16, <1>17, <1>18, <1>19, <1>20, <1>21,
    <1>22, <1>23 DEF Step

\* Every variable of the core keeps its type in every behaviour: no reference
\* points past the calls made so far, and every thread is at a known place.
THEOREM TypeCorrect == Spec => []TypeOK
<1>1. Init => TypeOK
  <2>1. SUFFICES ASSUME Init PROVE TypeOK
    OBVIOUS
  <2>2. /\ status \in Statuses /\ posted \in Message
        /\ box \in 0 .. MaxCalls /\ commandServer \in 0 .. MaxCalls
        /\ calls \in 0 .. MaxCalls
    BY <2>1, Ids DEF Init, Statuses, Message, Alerts
  <2>3. /\ serving \in [CallIds -> 0 .. MaxCalls]
        /\ built \in [CallIds -> Paths \cup {"nil"}]
    BY <2>1, Ids DEF Init
  <2>4. /\ pc \in [Threads -> Labels]
        /\ call \in [Threads -> CallRec]
        /\ pub \in [Threads -> Publication]
        /\ \A t \in Threads : pc[t] # "idle" => call[t].id # 0
    BY <2>1, NoCallType, NoPublicationType DEF Init, Labels
  <2>5. QED
    BY <2>1, <2>2, <2>3, <2>4 DEF Init, TypeOK
<1>2. TypeOK /\ [Next]_vars => TypeOK'
  <2>1. SUFFICES ASSUME TypeOK, [Next]_vars PROVE TypeOK'
    OBVIOUS
  <2>2. CASE Next
    BY <2>1, <2>2, CallKeepsType, StepKeepsType DEF Next
  <2>3. CASE UNCHANGED vars
    BY <2>1, <2>3 DEF vars, globals, world, hist, TypeOK
  <2>4. QED
    BY <2>1, <2>2, <2>3
<1>3. QED
  BY <1>1, <1>2, PTL DEF Spec


(***************************************************************************)
(* A step of a thread is invisible in the other threads.                   *)
(***************************************************************************)

LEMMA Frame ==
  ASSUME TypeOK, NEW t \in Threads, Call(t) \/ Step(t),
         NEW u \in Threads, u # t
  PROVE  pc'[u] = pc[u] /\ call'[u] = call[u] /\ pub'[u] = pub[u]
<1> USE DEF TypeOK, Goto, Publish, Leave, Return, StopAndAlert, Panic, globals,
            world, hist
<1>1. CASE Call(t)
  BY <1>1 DEF Call, CallStart, CallRestart, CallStop, CallReload, Invoke
<1>2. CASE Step(t)
  <2>1. CASE WriteStatus(t) \/ Marshal(t) \/ Post(t)
    BY <2>1 DEF WriteStatus, Marshal, Post
  <2>2. CASE StartGuard(t) \/ RestartGuard(t) \/ RestartFound(t) \/ SetPath(t)
    BY <2>2 DEF StartGuard, RestartGuard, RestartFound, SetPath
  <2>3. CASE ReadConfig(t) \/ NewCommandServer(t) \/ Listen(t)
    BY <2>3 DEF ReadConfig, NewCommandServer, Listen
  <2>4. CASE CreateInstance(t) \/ StartInstance(t) \/ SetBox(t) \/ Serve(t)
    BY <2>4 DEF CreateInstance, StartInstance, SetBox, Serve
  <2>5. CASE StopGuard(t) \/ StopFound(t) \/ CheckServer(t) \/ Unserve(t)
    BY <2>5 DEF StopGuard, StopFound, CheckServer, Unserve
  <2>6. CASE CheckBox(t) \/ CloseBox(t) \/ ClearBox(t)
    BY <2>6 DEF CheckBox, CloseBox, ClearBox
  <2>7. CASE CloseServer(t) \/ DropServer(t)
    BY <2>7 DEF CloseServer, DropServer
  <2>8. QED
    BY <1>2, <2>1, <2>2, <2>3, <2>4, <2>5, <2>6, <2>7 DEF Step
<1>3. QED
  BY <1>1, <1>2

LEMMA FrameViews ==
  ASSUME TypeOK, NEW t \in Threads, Call(t) \/ Step(t),
         NEW u \in Threads, u # t
  PROVE  /\ Window(u)' <=> Window(u)
         /\ Mid(u)' <=> Mid(u)
         /\ Working(u)' <=> Working(u)
<1>1. pc'[u] = pc[u] /\ call'[u] = call[u] /\ pub'[u] = pub[u]
  BY Frame
<1>2. QED
  BY <1>1 DEF Window, Mid, Working, BetweenHalves, Posting, Op

LEMMA TagsGrow ==
  ASSUME TypeOK, NEW t \in Threads, Call(t) \/ Step(t)
  PROVE  tags \subseteq tags'
<1> USE DEF TypeOK, Return, StopAndAlert, Panic, hist
<1>1. CASE Call(t)
  BY <1>1 DEF Call, CallStart, CallRestart, CallStop, CallReload
<1>2. CASE Step(t)
  BY <1>2 DEF Step, WriteStatus, Marshal, Post, StartGuard, RestartGuard,
     RestartFound, SetPath, ReadConfig, NewCommandServer, Listen, CreateInstance,
     StartInstance, SetBox, Serve, StopGuard, StopFound, CheckServer, Unserve,
     CheckBox, CloseBox, ClearBox, CloseServer, DropServer
<1>3. QED
  BY <1>1, <1>2

LEMMA SerialBackwards ==
  ASSUME TypeOK, NEW t \in Threads, Call(t) \/ Step(t), Serial'
  PROVE  Serial
  BY TagsGrow DEF Serial

(***************************************************************************)
(* NoSilentWedge: every step that is not a write of the status keeps a     *)
(* thread on its way to the outcome, or reports an error.                  *)
(***************************************************************************)

LEMMA WriteKeepsPromise ==
  ASSUME TypeOK, NEW t \in Threads, WriteStatus(t)
  PROVE  NoSilentWedge'
<1>1. pc'[t] = "marshal" /\ pub' = pub /\ status' = pub[t].to
  BY DEF WriteStatus, TypeOK, Goto
<1>2. QED
  BY <1>1 DEF NoSilentWedge, Mid, Posting

\* Any other step leaves the status and forgets no error, and a thread that is
\* on its way stays on it or reports one.
LEMMA StepsKeepGoing ==
  ASSUME TypeOK, NEW t \in Threads, Call(t) \/ Step(t), ~WriteStatus(t)
  PROVE  /\ status' = status
         /\ wedged => wedged'
         /\ Mid(t) => Mid(t)' \/ wedged'
<1> USE DEF TypeOK, Goto, Publish, Outgoing, Leave, Return, StopAndAlert, globals,
            world, hist, Mid, Body, Posting, Publication, Statuses, Panic
<1>1. CASE Call(t)
  BY <1>1 DEF Call, CallStart, CallRestart, CallStop, CallReload, Invoke
<1>2. CASE Step(t)
  <2>1. CASE Marshal(t)
    BY <2>1 DEF Marshal
  <2>2. CASE Post(t)
    BY <2>2 DEF Post, BetweenHalves, Announcing
  <2>3. CASE StartGuard(t) \/ RestartGuard(t) \/ RestartFound(t) \/ SetPath(t)
    BY <2>3 DEF StartGuard, RestartGuard, RestartFound, SetPath
  <2>4. CASE ReadConfig(t) \/ NewCommandServer(t) \/ Listen(t)
    BY <2>4 DEF ReadConfig, NewCommandServer, Listen
  <2>5. CASE CreateInstance(t) \/ StartInstance(t) \/ SetBox(t) \/ Serve(t)
    BY <2>5 DEF CreateInstance, StartInstance, SetBox, Serve
  <2>6. CASE StopGuard(t) \/ StopFound(t)
    BY <2>6 DEF StopGuard, StopFound
  <2>7. CASE CheckServer(t) \/ Unserve(t) \/ CheckBox(t) \/ CloseBox(t)
    BY <2>7 DEF CheckServer, Unserve, CheckBox, CloseBox
  <2>8. CASE ClearBox(t) \/ CloseServer(t) \/ DropServer(t)
    BY <2>8 DEF ClearBox, CloseServer, DropServer
  <2>9. QED
    BY <1>2, <2>1, <2>2, <2>3, <2>4, <2>5, <2>6, <2>7, <2>8 DEF Step
<1>3. QED
  BY <1>1, <1>2

\* Starting and Stopping always have a call behind them, or an error that was
\* returned: however start, stop, restart and ServiceReload interleave.
THEOREM PromisesAreKept == Spec => []NoSilentWedge
<1>1. Init => NoSilentWedge
  BY DEF Init, NoSilentWedge
<1>2. TypeOK /\ NoSilentWedge /\ [Next]_vars => NoSilentWedge'
  <2>1. SUFFICES ASSUME TypeOK, NoSilentWedge, [Next]_vars
                 PROVE  NoSilentWedge'
    OBVIOUS
  <2>2. CASE UNCHANGED vars
    BY <2>1, <2>2 DEF vars, globals, hist, NoSilentWedge, Mid, Posting
  <2>3. ASSUME NEW t \in Threads, Call(t) \/ Step(t) PROVE NoSilentWedge'
    <3>1. CASE WriteStatus(t)
      BY <2>1, <3>1, WriteKeepsPromise
    <3>2. CASE ~WriteStatus(t)
      BY <2>1, <2>3, <3>2, StepsKeepGoing, FrameViews DEF NoSilentWedge
    <3>3. QED
      BY <3>1, <3>2
  <2>4. QED
    BY <2>1, <2>2, <2>3 DEF Next
<1>3. QED
  BY <1>1, <1>2, TypeCorrect, PTL DEF Spec

(***************************************************************************)
(* CoreInv.  One thread at a time is at work: what it needs to know is     *)
(* Fit, and every step of its own keeps it.                                *)
(***************************************************************************)

Alone(t) == \A u \in Threads : u # t => ~Working(u)

Transit == status \in {"Starting", "Stopping"}

Fit(t) ==
  /\ Progress(t)
  /\ Mid(t) => Transit
  /\ ~Mid(t) => Rest

\* the globals and what they refer to
Ground == <<globals, world, crashed>>

\* Outside Window and Mid nothing is promised of a thread.
LEMMA NothingPromised ==
  ASSUME NEW t \in Threads, ~Working(t)
  PROVE  Progress(t)
  BY DEF Working, Window, Mid, Body, Posting, Progress, Startup, BetweenHalves

\* ... and a thread that is there, before its step or after it, touches nothing.
LEMMA OnlyWorkersTouch ==
  ASSUME TypeOK, NEW t \in Threads, Call(t) \/ Step(t), ~Working(t)
  PROVE  UNCHANGED Ground
<1> USE DEF TypeOK, Goto, Publish, Leave, Return, StopAndAlert, Panic,
            hist, Ground, Working, Window, Mid, Body, Posting,
            Announcing, BetweenHalves, Publication, Statuses
<1>1. CASE Call(t)
  BY <1>1 DEF Call, CallStart, CallRestart, CallStop, CallReload, Invoke
<1>2. CASE Step(t)
  <2>1. CASE WriteStatus(t) \/ Marshal(t) \/ Post(t)
    BY <2>1 DEF WriteStatus, Marshal, Post
  <2>3. CASE StartGuard(t) \/ RestartGuard(t) \/ RestartFound(t) \/ SetPath(t)
    BY <2>3 DEF StartGuard, RestartGuard, RestartFound, SetPath
  <2>4. CASE ReadConfig(t) \/ NewCommandServer(t) \/ Listen(t)
    BY <2>4 DEF ReadConfig, NewCommandServer, Listen
  <2>5. CASE CreateInstance(t) \/ StartInstance(t) \/ SetBox(t) \/ Serve(t)
    BY <2>5 DEF CreateInstance, StartInstance, SetBox, Serve
  <2>6. CASE StopGuard(t) \/ StopFound(t)
    BY <2>6 DEF StopGuard, StopFound
  <2>7. CASE CheckServer(t) \/ Unserve(t) \/ CheckBox(t) \/ CloseBox(t)
    BY <2>7 DEF CheckServer, Unserve, CheckBox, CloseBox
  <2>8. CASE ClearBox(t) \/ CloseServer(t) \/ DropServer(t)
    BY <2>8 DEF ClearBox, CloseServer, DropServer
  <2>9. QED
    BY <1>2, <2>1, <2>3, <2>4, <2>5, <2>6, <2>7, <2>8 DEF Step
<1>3. QED
  BY <1>1, <1>2

\* Where a call goes past its check, what others are doing is noted in tags.
LEMMA EntriesAreNoted ==
  ASSUME TypeOK, PlaceOfOp, NEW t \in Threads, Call(t) \/ Step(t),
         ~Working(t), Working(t)'
  PROVE  \E o : tags' = tags \cup Entry(t, o)
<1> USE DEF TypeOK, Goto, Publish, Outgoing, Leave, Return, StopAndAlert, Panic,
            hist, Working, Window, Mid, Body, Posting,
            Announcing, BetweenHalves, Publication, Statuses, NoPublication
<1>1. CASE Call(t)
  <2>1. CASE CallReload(t)
    BY <2>1 DEF CallReload
  <2>2. CASE CallStart(t) \/ CallRestart(t)
    BY <2>2 DEF CallStart, CallRestart
  <2>3. CASE CallStop(t)
    <3>1. pc'[t] = "stopGuard" /\ call'[t].op = "stop"
      BY <2>3 DEF CallStop, Invoke
    <3>2. QED
      BY <3>1 DEF Op
  <2>4. QED
    BY <1>1, <2>1, <2>2, <2>3 DEF Call
<1>2. CASE StartGuard(t) \/ RestartGuard(t)
  BY <1>2 DEF StartGuard, RestartGuard, Op
<1>3. CASE StopGuard(t)
  BY <1>3 DEF StopGuard, Op, PlaceOfOp
<1>4. CASE WriteStatus(t) \/ Marshal(t) \/ Post(t)
  BY <1>4 DEF WriteStatus, Marshal, Post, Op
<1>5. CASE Step(t) /\ pc[t] \in Body \cup {"found", "stopFound"}
  BY <1>5
<1>6. QED
  BY <1>1, <1>2, <1>3, <1>4, <1>5
  DEF Step, RestartFound, SetPath, ReadConfig, NewCommandServer, Listen,
      CreateInstance, StartInstance, SetBox, Serve, StopFound, CheckServer,
      Unserve, CheckBox, CloseBox, ClearBox, CloseServer, DropServer

\* A call that goes past its check without being noted in tags is alone.
LEMMA EntersAlone ==
  ASSUME TypeOK, PlaceOfOp, NEW t \in Threads, Call(t) \/ Step(t), Serial',
         ~Working(t), Working(t)'
  PROVE  Alone(t)
<1>1. ASSUME NEW o, tags' = tags \cup Entry(t, o) PROVE Alone(t)
  BY <1>1 DEF Serial, Entry, Alone, Working
<1>2. QED
  BY <1>1, EntriesAreNoted

\* PlaceOfOp, for one thread.
At(t) ==
  /\ pc[t] \in {"check", "held"} => Op(t) = "reload"
  /\ pc[t] \in {"guard", "path"} => Op(t) \in {"start", "restart"}
  /\ pc[t] = "found" => Op(t) = "restart"
  /\ pc[t] \in {"stopGuard", "stopFound", "shut"} => Op(t) \in {"stop", "restart"}
  /\ pc[t] \in {"unserve", "close", "clear", "drop"} => Op(t) # "start"
  /\ pc[t] \in {"write", "marshal", "post"} /\ pub[t].to = "Stopping"
       => Op(t) \in {"stop", "restart"}
  /\ pc[t] \in {"write", "marshal", "post"} /\ pub[t].to = "Starting"
       => Op(t) \in {"start", "restart", "reload"}

LEMMA PlaceKept ==
  ASSUME TypeOK, PlaceOfOp, NEW t \in Threads, Call(t) \/ Step(t)
  PROVE  PlaceOfOp'
<1>1. At(t)
  BY DEF At, PlaceOfOp
<1>2. At(t)'
  <2> USE <1>1 DEF TypeOK, Goto, Publish, Outgoing, Leave, Return, StopAndAlert,
          Panic, hist, At, Op, BetweenHalves, Announcing, Posting, Publication,
          Statuses, CallRec, Ops
  <2>1. CASE CallStart(t) \/ CallRestart(t) \/ CallStop(t)
    BY <2>1 DEF CallStart, CallRestart, CallStop, Invoke
  <2>2. CASE CallReload(t)
    <3>1. pc'[t] = "write" /\ pub'[t].to = "Starting" /\ call'[t].op = "reload"
      BY <2>2 DEF CallReload, Invoke
    <3>2. QED
      BY <3>1
  <2>3. CASE WriteStatus(t) \/ Marshal(t)
    BY <2>3 DEF WriteStatus, Marshal
  <2>4. CASE Post(t)
    BY <2>4 DEF Post
  <2>5. CASE StartGuard(t) \/ RestartGuard(t) \/ RestartFound(t) \/ SetPath(t)
    BY <2>5 DEF StartGuard, RestartGuard, RestartFound, SetPath
  <2>6. CASE ReadConfig(t) \/ NewCommandServer(t) \/ Listen(t)
    BY <2>6 DEF ReadConfig, NewCommandServer, Listen
  <2>7. CASE CreateInstance(t) \/ StartInstance(t) \/ SetBox(t) \/ Serve(t)
    BY <2>7 DEF CreateInstance, StartInstance, SetBox, Serve
  <2>8. CASE StopGuard(t) \/ StopFound(t)
    BY <2>8 DEF StopGuard, StopFound
  <2>9. CASE CheckServer(t) \/ Unserve(t) \/ CheckBox(t) \/ CloseBox(t)
    BY <2>9 DEF CheckServer, Unserve, CheckBox, CloseBox
  <2>10. CASE ClearBox(t) \/ CloseServer(t)
    BY <2>10 DEF ClearBox, CloseServer
  <2>12. CASE DropServer(t)
    BY <2>12 DEF DropServer
  <2>11. QED
    BY <2>12, <2>1, <2>2, <2>3, <2>4, <2>5, <2>6, <2>7, <2>8, <2>9, <2>10
      DEF Call, Step
<1>3. ASSUME NEW u \in Threads, u # t PROVE At(u)'
  <2>1. At(u)
    BY DEF At, PlaceOfOp
  <2>2. QED
    BY <2>1, <1>3, Frame DEF At, Op
<1>4. QED
  BY <1>2, <1>3 DEF At, PlaceOfOp

LEMMA Publishing ==
  ASSUME TypeOK, NEW t \in Threads, NEW s, NEW a, Publish(t, s, a)
  PROVE  pc'[t] = "write" /\ pub'[t].to = s /\ pub'[t].alert = a
  BY DEF TypeOK, Publish, Goto, Outgoing

LEMMA AlertFit ==
  ASSUME TypeOK, NEW t \in Threads, NEW a, StopAndAlert(t, a), Down, Transit
  PROVE  Fit(t)' /\ crashed' = crashed
<1>1. pc'[t] = "write" /\ pub'[t].to = "Stopped"
  BY Publishing DEF StopAndAlert
<1>2. status' = status /\ box' = box /\ live' = live /\ crashed' = crashed
  BY DEF StopAndAlert, globals, world, hist
<1>3. QED
  BY <1>1, <1>2 DEF Fit, Progress, Startup, Mid, Body, Posting, Window,
    BetweenHalves,
     Transit, Down

LEMMA ReturnFit ==
  ASSUME TypeOK, NEW t \in Threads, Return(t), Fit(t), ~Mid(t)
  PROVE  Fit(t)' /\ crashed' = crashed
<1>1. pc'[t] = "idle"
  BY DEF Return, Leave, Goto, TypeOK
<1>2. UNCHANGED Ground
  BY DEF Return, Ground, hist
<1>3. Rest'
  BY <1>2 DEF Fit, Rest, Ground, globals, world, Up, Down, Served
<1>4. QED
  BY <1>1, <1>2, <1>3 DEF Fit, Progress, Startup, Mid, Body, Posting, Window,
     BetweenHalves, Ground

\* Every step keeps what the one thread at work needs; it never panics.
LEMMA FitKept ==
  ASSUME TypeOK, PlaceOfOp, NEW t \in Threads, Step(t), Fit(t)
  PROVE  Fit(t)' /\ crashed' = crashed
<1> USE DEF TypeOK, Goto, Leave, Return, globals, world, hist, PlaceOfOp, Op,
        BetweenHalves, Announcing, Posting, Publication, Statuses, Fit,
        Progress, Startup, Mid, Body, Window, Transit, Rest,
        Up, Down, Served, CallIds, NoPublication, NoCall
<1>0. pc[t] # "idle" => call[t].id \in CallIds /\ call[t].id # 0
  BY Ids DEF CallRec
<1>1. CASE WriteStatus(t)
  BY <1>1 DEF WriteStatus
<1>2. CASE Marshal(t)
  BY <1>2 DEF Marshal
<1>3. CASE Post(t)
  BY <1>3, Publishing DEF Post
<1>4. CASE StartGuard(t)
  <2>1. CASE Return(t)
    BY <2>1, <1>4, ReturnFit DEF StartGuard
  <2>2. CASE Publish(t, "Starting", "none") /\ status = "Stopped"
    <3>1. pc'[t] = "write" /\ pub'[t].to = "Starting"
      BY <2>2, Publishing
    <3>2. QED
      BY <1>4, <2>2, <3>1 DEF StartGuard
  <2>3. QED
    BY <1>4, <2>1, <2>2 DEF StartGuard
<1>5. CASE RestartGuard(t)
  <2>1. CASE Return(t)
    BY <2>1, <1>5, ReturnFit DEF RestartGuard
  <2>2. CASE ~Return(t)
    <3>1. pc'[t] = "found" /\ status' = "Started" /\ call' = call
          /\ UNCHANGED Ground
      BY <1>5, <2>2 DEF RestartGuard, Ground
    <3>2. QED
      BY <3>1, <1>5 DEF Ground, RestartGuard
  <2>3. QED
    BY <2>1, <2>2
<1>6. CASE RestartFound(t)
  <2>1. CASE Return(t)
    BY <2>1, <1>6, ReturnFit DEF RestartFound
  <2>2. CASE ~Return(t)
    <3>1. pc'[t] = "stopGuard" /\ pc[t] = "found" /\ call' = call /\ UNCHANGED Ground
      BY <1>6, <2>2 DEF RestartFound, Ground
    <3>2. QED
      BY <3>1, <1>6 DEF Ground
  <2>3. QED
    BY <2>1, <2>2
<1>7. CASE SetPath(t)
  BY <1>7 DEF SetPath
<1>8. CASE ReadConfig(t)
  <2>1. CASE StopAndAlert(t, "EmptyConfiguration")
    BY <1>8, <2>1, AlertFit DEF ReadConfig
  <2>2. CASE ~StopAndAlert(t, "EmptyConfiguration")
    <3>1. /\ pc'[t] = "server" /\ pc[t] = "read" /\ call' = call
          /\ UNCHANGED <<globals, live, crashed>>
          /\ built'[call[t].id] = activeConfigPath
      BY <1>0, <1>8, <2>2 DEF ReadConfig
    <3>2. QED
      BY <3>1
  <2>3. QED
    BY <1>8, <2>1, <2>2 DEF ReadConfig
<1>9. CASE NewCommandServer(t)
  BY <1>9 DEF NewCommandServer
<1>10. CASE Listen(t)
  <2>1. commandServer = call[t].id /\ commandServer # 0 /\ Down /\ Transit
    BY <1>0, <1>10 DEF Listen
  <2>2. CASE StopAndAlert(t, "StartCommandServer")
    BY <2>1, <2>2, AlertFit
  <2>3. CASE ~StopAndAlert(t, "StartCommandServer")
    BY <1>0, <1>10, <2>1, <2>3 DEF Listen
  <2>4. QED
    BY <1>10, <2>1, <2>2, <2>3 DEF Listen
<1>11. CASE CreateInstance(t)
  <2>1. CASE StopAndAlert(t, "CreateService")
    BY <1>11, <2>1, AlertFit DEF CreateInstance
  <2>2. CASE ~StopAndAlert(t, "CreateService")
    BY <1>11, <2>2 DEF CreateInstance
  <2>3. QED
    BY <1>11, <2>1, <2>2 DEF CreateInstance
<1>12. CASE StartInstance(t)
  <2>1. CASE StopAndAlert(t, "StartService")
    BY <1>12, <2>1, AlertFit DEF StartInstance
  <2>2. CASE ~StopAndAlert(t, "StartService")
    BY <1>12, <2>2 DEF StartInstance
  <2>3. QED
    BY <1>12, <2>1, <2>2 DEF StartInstance
<1>13. CASE SetBox(t)
  BY <1>13 DEF SetBox
<1>14. CASE Serve(t)
  <2>1. commandServer = call[t].id /\ commandServer \in listening
        /\ commandServer \in CallIds /\ commandServer # 0 /\ Up
    BY <1>0, <1>14 DEF Serve
  <2>2. /\ serving' = [serving EXCEPT ![commandServer] = box]
        /\ Publish(t, "Started", "none")
        /\ UNCHANGED <<globals, live, listening, crashed>>
    BY <1>14, <2>1 DEF Serve
  <2>3. pc'[t] = "write" /\ pub'[t].to = "Started"
    BY <2>2, Publishing
  <2>4. Up' /\ Served' /\ status' = status /\ crashed' = crashed
    BY <2>1, <2>2
  <2>5. QED
    BY <1>14, <2>3, <2>4 DEF Serve
<1>15. CASE StopGuard(t)
  <2>1. CASE Return(t)
    BY <2>1, <1>15, ReturnFit DEF StopGuard
  <2>2. CASE status # "Started" /\ Op(t) = "restart"
    BY <2>2, <1>15 DEF StopGuard
  <2>3. CASE status = "Started" /\ ~Return(t)
    <3>1. pc'[t] = "stopFound" /\ call' = call /\ UNCHANGED Ground
      BY <1>15, <2>3 DEF StopGuard, Ground
    <3>2. QED
      BY <2>3, <3>1, <1>15 DEF StopGuard, Ground
  <2>4. QED
    BY <1>15, <2>1, <2>2, <2>3 DEF StopGuard
<1>16. CASE StopFound(t)
  <2>1. CASE Return(t)
    BY <2>1, <1>16, ReturnFit DEF StopFound
  <2>2. CASE Publish(t, "Stopping", "none")
    <3>1. pc'[t] = "write" /\ pub'[t].to = "Stopping"
      BY <2>2, Publishing
    <3>2. call' = call /\ UNCHANGED Ground /\ status = "Started"
      BY <1>16, <2>2 DEF StopFound, Ground, Publish
    <3>3. QED
      BY <1>16, <3>1, <3>2 DEF Ground, StopFound
  <2>3. QED
    BY <1>16, <2>1, <2>2 DEF StopFound
<1>17. CASE CheckServer(t)
  BY <1>17 DEF CheckServer
<1>18. CASE Unserve(t)
  <2>1. commandServer # 0 /\ live \subseteq {box} /\ Transit
    BY <1>18 DEF Unserve
  <2>2. Goto(t, IF Op(t) = "reload" THEN "drop" ELSE "close")
        /\ UNCHANGED <<globals, live, listening, call, crashed>>
    BY <1>18, <2>1 DEF Unserve
  <2>3. CASE Op(t) = "reload"
    BY <1>18, <2>1, <2>2, <2>3 DEF Unserve
  <2>4. CASE Op(t) # "reload"
    BY <1>18, <2>1, <2>2, <2>4 DEF Unserve
  <2>5. QED
    BY <2>3, <2>4
<1>19. CASE CheckBox(t)
  BY <1>19 DEF CheckBox
<1>20. CASE CloseBox(t)
  <2>1. box # 0 /\ live \subseteq {box} /\ Transit
    BY <1>20 DEF CloseBox
  <2>2. live' = {} /\ UNCHANGED <<globals, crashed>>
    BY <1>20, <2>1 DEF CloseBox, hist
  <2>3. CASE Goto(t, "clear") /\ UNCHANGED <<listening, serving, built, call, pub>>
    <3>1. pc'[t] = "clear"
      BY <2>3
    <3>2. QED
      BY <1>20, <2>1, <2>2, <2>3, <3>1 DEF CloseBox
  <2>4. CASE Leave(t)
    <3>1. pc'[t] = "idle"
      BY <2>4 DEF Leave
    <3>2. QED
      BY <2>1, <2>2, <3>1
  <2>5. QED
    BY <1>20, <2>1, <2>3, <2>4 DEF CloseBox
<1>21. CASE ClearBox(t)
  BY <1>21 DEF ClearBox
<1>22. CASE CloseServer(t)
  <2>1. commandServer # 0 /\ Down /\ Transit
    BY <1>22 DEF CloseServer
  <2>2. UNCHANGED <<globals, live, crashed>>
    BY <1>22, <2>1 DEF CloseServer, hist
  <2>3. CASE Goto(t, "drop") /\ UNCHANGED <<serving, built, call, pub>>
    <3>1. pc'[t] = "drop"
      BY <2>3
    <3>2. QED
      BY <1>22, <2>1, <2>2, <2>3, <3>1 DEF CloseServer
  <2>4. CASE Leave(t)
    <3>1. pc'[t] = "idle"
      BY <2>4 DEF Leave
    <3>2. QED
      BY <2>1, <2>2, <3>1
  <2>5. QED
    BY <1>22, <2>1, <2>3, <2>4 DEF CloseServer
<1>23. CASE DropServer(t)
  BY <1>23, Publishing DEF DropServer
<1>24. QED
  BY <1>1, <1>2, <1>3, <1>4, <1>5, <1>6, <1>7, <1>8, <1>9, <1>10, <1>11,
    <1>12, <1>13, <1>14, <1>15, <1>16, <1>17, <1>18, <1>19, <1>20, <1>21,
    <1>22, <1>23 DEF Step

LEMMA CallFit ==
  ASSUME TypeOK, NEW t \in Threads, Call(t), Fit(t)
  PROVE  Fit(t)' /\ crashed' = crashed
<1> USE DEF Fit, Progress, Startup, Mid, Body, Posting, Window, BetweenHalves,
        Op, Rest,
        Up, Down, Served, Ground, globals, world, TypeOK, Invoke, Goto
<1>1. pc[t] = "idle"
  BY DEF Call, CallStart, CallRestart, CallStop, CallReload
<1>2. UNCHANGED Ground
  BY <1>1, OnlyWorkersTouch DEF Working
<1>3. CASE CallStart(t) \/ CallRestart(t)
  <2>1. pc'[t] = "guard"
    BY <1>3 DEF CallStart, CallRestart
  <2>2. QED
    BY <1>1, <1>2, <2>1
<1>4. CASE CallStop(t)
  <2>1. pc'[t] = "stopGuard" /\ call'[t].op = "stop"
    BY <1>4 DEF CallStop
  <2>2. QED
    BY <1>1, <1>2, <2>1
<1>5. CASE CallReload(t)
  <2>1. pc'[t] = "write" /\ pub'[t].to = "Starting" /\ call'[t].op = "reload"
    BY <1>5, Publishing DEF CallReload
  <2>2. QED
    BY <1>1, <1>2, <2>1
<1>6. QED
  BY <1>3, <1>4, <1>5 DEF Call

\* What is promised of a thread depends on the ground and on itself alone.
LEMMA SameGround ==
  ASSUME NEW u, pc'[u] = pc[u], call'[u] = call[u], pub'[u] = pub[u],
         UNCHANGED Ground, Progress(u)
  PROVE  Progress(u)'
  BY DEF Ground, globals, world, Progress, Startup, Window, BetweenHalves,
    Posting, Op,
     Up, Down, Served

LEMMA CoreInvKept ==
  ASSUME TypeOK, CoreInv, ~crashed, NEW t \in Threads, Call(t) \/ Step(t)
  PROVE  CoreInv'
<1>1. PlaceOfOp'
  BY PlaceKept DEF CoreInv
<1>2. SUFFICES ASSUME Serial' PROVE CoreInv'
  BY <1>1 DEF CoreInv, Solo, AtRest
<1>3. Serial
  BY <1>2, SerialBackwards
<1>4. (Working(t) \/ Working(t)') => Alone(t)
  BY <1>2, <1>3, EntersAlone DEF CoreInv, Solo, Alone
<1>5. Alone(t) => Fit(t)
  BY <1>3 DEF Alone, Working, CoreInv, Solo, AtRest, Fit, Transit
<1>6. CASE Working(t) \/ Working(t)'
  <2>1. Alone(t) /\ Fit(t)' /\ ~crashed'
    BY <1>4, <1>5, <1>6, FitKept, CallFit DEF CoreInv
  <2>2. ASSUME NEW u \in Threads, u # t
        PROVE  ~Working(u)' /\ Progress(u)'
    <3>1. ~Working(u)'
      BY <2>1, <2>2, FrameViews DEF Alone
    <3>2. QED
      BY <3>1 DEF Working, Window, Mid, Body, Posting, Progress, Startup,
        BetweenHalves
  <2>3. Solo'
    BY <2>1, <2>2 DEF Solo, Fit, Transit, Working
  <2>4. AtRest'
    BY <2>1 DEF AtRest, Fit
  <2>5. QED
    BY <1>1, <2>1, <2>2, <2>3, <2>4 DEF CoreInv, Fit
<1>7. CASE ~Working(t) /\ ~Working(t)'
  <2>1. UNCHANGED Ground
    BY <1>7, OnlyWorkersTouch
  <2>2. \A u \in Threads : /\ Working(u)' <=> Working(u)
                          /\ Mid(u)' <=> Mid(u)
    BY <1>7, FrameViews DEF Working
  <2>3. Solo'
    <3>0. /\ \A u, v \in Threads : Working(u) /\ Working(v) => u = v
          /\ \A u \in Threads : Mid(u) => status \in {"Starting", "Stopping"}
      BY <1>3 DEF CoreInv, Solo
    <3>1. ASSUME NEW u \in Threads, NEW v \in Threads, Working(u)', Working(v)'
          PROVE  u = v
      <4>1. u # t /\ v # t
        BY <1>7, <3>1
      <4>2. Working(u) /\ Working(v)
        BY <3>1, <4>1, FrameViews
      <4>3. QED
        BY <3>0, <4>2
    <3>2. status' = status
      BY <2>1 DEF Ground, globals
    <3>3. ASSUME NEW u \in Threads, Mid(u)'
          PROVE  status' \in {"Starting", "Stopping"}
      <4>1. u # t
        BY <1>7, <3>3 DEF Working
      <4>2. Mid(u)
        BY <3>3, <4>1, FrameViews
      <4>3. QED
        BY <3>0, <3>2, <4>2
    <3>4. QED
      BY <3>1, <3>3 DEF Solo
  <2>4. AtRest'
    <3>1. Rest => Rest'
      BY <2>1 DEF Rest, Ground, globals, world, Up, Down, Served
    <3>2. QED
      BY <1>3, <2>2, <3>1 DEF CoreInv, AtRest
  <2>5. \A u \in Threads : Progress(u)'
    <3>1. Progress(t)'
      BY <1>7 DEF Working, Window, Mid, Body, Posting, Progress, Startup,
        BetweenHalves
    <3>2. \A u \in Threads : u # t => Progress(u)'
      BY <1>3, <2>1, Frame, SameGround DEF CoreInv
    <3>3. QED
      BY <3>1, <3>2
  <2>6. ~crashed'
    BY <2>1 DEF Ground
  <2>7. QED
    BY <1>1, <2>3, <2>4, <2>5, <2>6 DEF CoreInv
<1>8. QED
  BY <1>6, <1>7

\* While no call overlaps another, one thread at most is at work and it finds
\* the globals as it left them: the inductive invariant behind the theorems
\* below, whatever fails inside start, stop, restart and ServiceReload.
THEOREM CoreInvariant == Spec => []CoreInv
<1>1. Init => CoreInv
  <2>1. SUFFICES ASSUME Init PROVE CoreInv
    OBVIOUS
  <2>2. \A t \in Threads : pc[t] = "idle"
    BY <2>1 DEF Init
  <2>3. status = "Stopped" /\ box = 0 /\ live = {} /\ ~crashed
    BY <2>1 DEF Init
  <2>4. QED
    BY <2>2, <2>3
    DEF CoreInv, PlaceOfOp, Solo, AtRest, Rest, Down, Progress, Startup,
    Working, Window,
        Mid, Body, Posting, BetweenHalves
<1>2. TypeOK /\ CoreInv /\ [Next]_vars => CoreInv'
  <2>1. SUFFICES ASSUME TypeOK, CoreInv, [Next]_vars PROVE CoreInv'
    OBVIOUS
  <2>2. CASE UNCHANGED vars
    BY <2>1, <2>2
    DEF vars, globals, world, hist, CoreInv, PlaceOfOp, Solo, AtRest, Rest, Up,
        Down, Served, Progress, Startup, Working, Window, Mid, Posting,
        BetweenHalves,
        Op, Serial
  <2>3. CASE Next
    BY <2>1, <2>3, CoreInvKept DEF Next
  <2>4. QED
    BY <2>1, <2>2, <2>3
<1>3. QED
  BY <1>1, <1>2, TypeCorrect, PTL DEF Spec

\* Without overlap the status tells the truth when nobody is at work: Started,
\* exactly one instance runs and box holds it; Stopped, none does.
THEOREM StatusTruth == Spec => []StatusIsTrue
<1>1. CoreInv => StatusIsTrue
  BY DEF CoreInv, StatusIsTrue, Quiet, AtRest, Rest, Up, Down
<1>2. QED
  BY <1>1, CoreInvariant, PTL

\* ... the instance that start(p) and restart(p) run is built from p, and the
\* command server serves what box holds.
THEOREM RequestHonoured == Spec => []RunsWhatWasAsked
<1>1. CoreInv => RunsWhatWasAsked
  BY DEF CoreInv, RunsWhatWasAsked, Quiet, AtRest, Rest, Served, Progress
<1>2. QED
  BY <1>1, CoreInvariant, PTL

\* ... and the process does not die of a nil dereference in a reload.
THEOREM NoLoneCrash == Spec => []CrashNeedsOverlap
<1>1. CoreInv => CrashNeedsOverlap
  BY DEF CoreInv, CrashNeedsOverlap
<1>2. QED
  BY <1>1, CoreInvariant, PTL

(***************************************************************************)
(* StatusExcludes: the checks of start, stop and restart refuse a status   *)
(* in transit, and before the first overlap that is the status of any      *)
(* call that is past the gap.                                              *)
(***************************************************************************)

LEMMA EntriesCheck ==
  ASSUME TypeOK, NEW t \in Threads, Call(t) \/ Step(t)
  PROVE  \/ tags' = tags
         \/ tags' = tags \cup Entry(t, "reload")
         \/ ~Transit /\ \E o \in Ops : tags' = tags \cup Entry(t, o)
<1> USE DEF Return, StopAndAlert, Panic, hist, Transit, Ops
<1>1. CASE Call(t)
  BY <1>1 DEF Call, CallStart, CallRestart, CallStop, CallReload
<1>2. CASE StartGuard(t)
  BY <1>2 DEF StartGuard
<1>3. CASE RestartGuard(t)
  BY <1>3 DEF RestartGuard
<1>4. CASE StopGuard(t)
  BY <1>4 DEF StopGuard
<1>5. CASE Step(t) /\ ~StartGuard(t) /\ ~RestartGuard(t) /\ ~StopGuard(t)
  BY <1>5 DEF Step, WriteStatus, Marshal, Post, RestartFound, SetPath, ReadConfig,
     NewCommandServer, Listen, CreateInstance, StartInstance, SetBox, Serve,
     StopFound, CheckServer, Unserve, CheckBox, CloseBox, ClearBox, CloseServer,
     DropServer
<1>6. QED
  BY <1>1, <1>2, <1>3, <1>4, <1>5

\* The status word excludes: a call goes past its check beside one that is in
\* transit only after two calls met in the gap, or beside a ServiceReload.
THEOREM StatusIsALock == Spec => []StatusExcludes
<1>1. Init => StatusExcludes
  BY DEF Init, StatusExcludes
<1>2. TypeOK /\ CoreInv /\ StatusExcludes /\ [Next]_vars => StatusExcludes'
  <2>1. SUFFICES ASSUME TypeOK, CoreInv, StatusExcludes, [Next]_vars,
                        "mid" \in tags'
                 PROVE  tags' \cap {"window", "reload"} # {}
    BY DEF StatusExcludes
  <2>2. CASE "mid" \in tags
    <3>1. tags \subseteq tags'
      BY <2>1, TagsGrow DEF Next, vars, hist
    <3>2. QED
      BY <2>1, <2>2, <3>1 DEF StatusExcludes
  <2>3. CASE "mid" \notin tags
    <3>1. PICK t \in Threads : Call(t) \/ Step(t)
      BY <2>1, <2>3 DEF Next, vars, hist
    <3>2. SUFFICES ASSUME tags \cap {"window", "reload"} = {} PROVE FALSE
      BY <2>1, <3>1, TagsGrow
    <3>3. Serial
      BY <2>3, <3>2 DEF Serial
    <3>4. "mid" \notin Entry(t, "reload")
      BY DEF Entry
    <3>5. PICK o \in Ops : ~Transit /\ tags' = tags \cup Entry(t, o)
      BY <2>1, <2>3, <3>1, <3>4, EntriesCheck
    <3>6. \E u \in Threads : Mid(u)
      BY <2>1, <2>3, <3>5 DEF Entry
    <3>7. QED
      BY <2>1, <3>3, <3>5, <3>6 DEF CoreInv, Solo, Transit
  <2>4. QED
    BY <2>2, <2>3
<1>3. QED
  BY <1>1, <1>2, TypeCorrect, CoreInvariant, PTL DEF Spec

(***************************************************************************)
(* LastMessageIsTrue: while not even the posting of a last message is      *)
(* overlapped, one thread at most is engaged, and the message it makes is  *)
(* that of the word it has just written.                                   *)
(***************************************************************************)

Engaged(t) == Working(t) \/ Announcing(t)

OneEngaged == \A t, u \in Threads : Engaged(t) /\ Engaged(u) => t = u

MessageInv ==
  tags = {} =>
    /\ OneEngaged
    /\ (\A t \in Threads : ~Posting(t)) => posted.status = status
    /\ \A t \in Threads : pc[t] = "post" => pub[t].sent = status

\* A thread that writes the word or posts a message is engaged.
LEMMA PostersEngage ==
  ASSUME TypeOK, NEW t \in Threads, pc[t] = "write" \/ Posting(t)
  PROVE  Engaged(t)
<1>1. pub[t].to \in Statuses
  BY DEF TypeOK, Publication
<1>2. QED
  BY <1>1 DEF Engaged, Working, Window, Mid, Announcing, Posting, Statuses

\* The word is written, then marshalled, then posted, and nothing else changes it
\* or the message.
LEMMA MessageSteps ==
  ASSUME TypeOK, NEW t \in Threads, Call(t) \/ Step(t)
  PROVE  /\ WriteStatus(t) \/ status' = status
         /\ Post(t) \/ posted' = posted
         /\ Posting(t) => Marshal(t) \/ Post(t)
         /\ Posting(t)' => WriteStatus(t) \/ Marshal(t)
         /\ WriteStatus(t) => pc'[t] = "marshal"
         /\ Marshal(t) => pc'[t] = "post" /\ pub'[t].sent = status
         /\ Post(t) => posted'.status = pub[t].sent
<1> USE DEF TypeOK, Goto, Publish, Leave, Return, StopAndAlert, Panic, globals,
            world, hist, Posting
<1>1. CASE Call(t)
  BY <1>1 DEF Call, CallStart, CallRestart, CallStop, CallReload, Invoke,
    WriteStatus, Marshal, Post
<1>2. CASE WriteStatus(t)
  BY <1>2 DEF WriteStatus, Marshal, Post
<1>3. CASE Marshal(t)
  BY <1>3 DEF WriteStatus, Marshal, Post
<1>4. CASE Post(t)
  BY <1>4 DEF WriteStatus, Marshal, Post
<1>5. CASE StartGuard(t) \/ RestartGuard(t) \/ RestartFound(t) \/ SetPath(t)
  BY <1>5 DEF StartGuard, RestartGuard, RestartFound, SetPath, WriteStatus, Marshal, Post
<1>6. CASE ReadConfig(t) \/ NewCommandServer(t) \/ Listen(t) \/ CreateInstance(t)
  BY <1>6 DEF ReadConfig, NewCommandServer, Listen, CreateInstance, WriteStatus,
    Marshal, Post
<1>7. CASE StartInstance(t) \/ SetBox(t) \/ Serve(t) \/ StopGuard(t) \/ StopFound(t)
  BY <1>7 DEF StartInstance, SetBox, Serve, StopGuard, StopFound, WriteStatus,
    Marshal, Post
<1>8. CASE CheckServer(t) \/ Unserve(t) \/ CheckBox(t) \/ CloseBox(t)
  BY <1>8 DEF CheckServer, Unserve, CheckBox, CloseBox, WriteStatus, Marshal, Post
<1>9. CASE ClearBox(t) \/ CloseServer(t) \/ DropServer(t)
  BY <1>9 DEF ClearBox, CloseServer, DropServer, WriteStatus, Marshal, Post
<1>10. QED
  BY <1>1, <1>2, <1>3, <1>4, <1>5, <1>6, <1>7, <1>8, <1>9 DEF Step

\* A thread becomes engaged past its check, or is already.
LEMMA EngagesAlone ==
  ASSUME TypeOK, PlaceOfOp, NEW t \in Threads, Call(t) \/ Step(t), tags' = {},
         ~Engaged(t), Engaged(t)'
  PROVE  \A u \in Threads : u # t => ~Engaged(u)
<1>1. ~Posting(t)'
  <2>1. pc[t] # "write" /\ ~Posting(t)
    BY PostersEngage
  <2>2. ~WriteStatus(t) /\ ~Marshal(t)
    BY <2>1 DEF WriteStatus, Marshal, Posting
  <2>3. QED
    BY <2>2, MessageSteps
<1>2. ~Working(t) /\ Working(t)'
  BY <1>1 DEF Engaged, Announcing
<1>3. PICK o : tags' = tags \cup Entry(t, o)
  BY <1>2, EntriesAreNoted
<1>4. QED
  BY <1>3 DEF Entry, Engaged, Working

LEMMA OneEngagedKept ==
  ASSUME TypeOK, PlaceOfOp, OneEngaged, NEW t \in Threads, Call(t) \/ Step(t),
         tags' = {}
  PROVE  OneEngaged'
<1>1. ASSUME NEW u \in Threads, u # t PROVE Engaged(u)' <=> Engaged(u)
  <2>1. pc'[u] = pc[u] /\ call'[u] = call[u] /\ pub'[u] = pub[u]
    BY <1>1, Frame
  <2>2. QED
    BY <2>1 DEF Engaged, Working, Window, Mid, Announcing, BetweenHalves, Posting, Op
<1>2. ASSUME NEW u \in Threads, u # t, Engaged(t)' PROVE ~Engaged(u)'
  <2>1. CASE Engaged(t)
    BY <1>1, <1>2, <2>1 DEF OneEngaged
  <2>2. CASE ~Engaged(t)
    BY <1>1, <1>2, <2>2, EngagesAlone
  <2>3. QED
    BY <2>1, <2>2
<1>3. QED
  BY <1>1, <1>2 DEF OneEngaged

LEMMA MessageInvKept ==
  ASSUME TypeOK, PlaceOfOp, MessageInv, NEW t \in Threads, Call(t) \/ Step(t)
  PROVE  MessageInv'
<1> SUFFICES ASSUME tags' = {} PROVE MessageInv'
  BY DEF MessageInv
<1>1. /\ tags = {} /\ OneEngaged
      /\ (\A u \in Threads : ~Posting(u)) => posted.status = status
      /\ \A u \in Threads : pc[u] = "post" => pub[u].sent = status
  BY TagsGrow DEF MessageInv
<1>2. OneEngaged'
  BY <1>1, OneEngagedKept
<1>3. \A u \in Threads : u # t =>
        /\ pc'[u] = pc[u] /\ pub'[u] = pub[u]
        /\ pc[t] = "write" \/ Posting(t) => ~Posting(u)
  BY <1>1, Frame, PostersEngage DEF OneEngaged
<1>4. CASE WriteStatus(t)
  <2>1. pc[t] = "write" /\ pc'[t] = "marshal"
    BY <1>4, MessageSteps DEF WriteStatus
  <2>2. \A u \in Threads : pc'[u] # "post"
    BY <1>3, <2>1 DEF Posting
  <2>3. Posting(t)'
    BY <2>1 DEF Posting
  <2>4. QED
    BY <1>2, <2>2, <2>3 DEF MessageInv
<1>5. CASE Marshal(t)
  <2>1. /\ pc'[t] = "post" /\ pub'[t].sent = status /\ status' = status
        /\ Posting(t) /\ Posting(t)'
    BY <1>5, MessageSteps DEF Marshal, Posting, globals
  <2>2. \A u \in Threads : pc'[u] = "post" => u = t
    BY <1>3, <2>1 DEF Posting
  <2>3. QED
    BY <1>2, <2>1, <2>2 DEF MessageInv
<1>6. CASE Post(t)
  <2>1. Posting(t) /\ pc[t] = "post" /\ posted'.status = pub[t].sent /\ status' = status
    BY <1>6, MessageSteps DEF Post, Posting, globals
  <2>2. posted'.status = status'
    BY <1>1, <2>1
  <2>3. pc'[t] # "post"
    BY <1>6, MessageSteps DEF Posting, WriteStatus, Marshal, Post
  <2>4. \A u \in Threads : pc'[u] # "post"
    BY <1>3, <2>1, <2>3 DEF Posting
  <2>5. QED
    BY <1>2, <2>2, <2>4 DEF MessageInv
<1>7. CASE ~WriteStatus(t) /\ ~Marshal(t) /\ ~Post(t)
  <2>1. /\ status' = status /\ posted' = posted /\ ~Posting(t) /\ ~Posting(t)'
    BY <1>7, MessageSteps
  <2>2. ASSUME NEW u \in Threads
        PROVE  /\ Posting(u) => Posting(u)'
               /\ pc'[u] = "post" => pc[u] = "post" /\ pub'[u] = pub[u]
    BY <1>3, <2>1 DEF Posting
  <2>3. (\A u \in Threads : ~Posting(u)') => posted'.status = status'
    <3>1. posted.status = status => posted'.status = status'
      BY <2>1
    <3>2. QED
      BY <1>1, <2>2, <3>1
  <2>4. \A u \in Threads : pc'[u] = "post" => pub'[u].sent = status'
    BY <1>1, <2>1, <2>2
  <2>5. QED
    BY <1>2, <2>3, <2>4 DEF MessageInv
<1>8. QED
  BY <1>4, <1>5, <1>6, <1>7

\* As long as no call was beside another, not even beside the posting of its last
\* message, the last message the app was sent shows the core's status.
THEOREM LastMessageTrue == Spec => []LastMessageIsTrue
<1>1. Init => MessageInv
  <2> SUFFICES ASSUME Init PROVE MessageInv
    OBVIOUS
  <2>1. \A t \in Threads : pc[t] = "idle" /\ ~Engaged(t)
    BY DEF Init, Engaged, Working, Window, Mid, Body, Announcing, BetweenHalves, Posting
  <2>2. posted.status = status
    BY DEF Init
  <2>3. QED
    BY <2>1, <2>2 DEF MessageInv, OneEngaged
<1>2. TypeOK /\ CoreInv /\ MessageInv /\ [Next]_vars => MessageInv'
  <2> SUFFICES ASSUME TypeOK, CoreInv, MessageInv, [Next]_vars PROVE MessageInv'
    OBVIOUS
  <2>1. CASE UNCHANGED vars
    BY <2>1 DEF vars, globals, world, hist, MessageInv, OneEngaged, Engaged, Working,
      Window, Mid, Announcing, BetweenHalves, Posting, Op
  <2>2. CASE Next
    BY <2>2, MessageInvKept DEF Next, CoreInv
  <2>3. QED
    BY <2>1, <2>2
<1>3. MessageInv => LastMessageIsTrue
  BY DEF MessageInv, LastMessageIsTrue, Posting
<1>4. QED
  BY <1>1, <1>2, <1>3, TypeCorrect, CoreInvariant, PTL DEF Spec

(***************************************************************************)
(* The core implements ServiceLifecycle while calls do not overlap.  Only  *)
(* three steps show in the abstract state.                                 *)
(***************************************************************************)

LEMMA HiddenSteps ==
  ASSUME NEW t \in Threads, Call(t) \/ Step(t),
         ~WriteStatus(t), ~StartInstance(t), ~CloseBox(t)
  PROVE  UNCHANGED <<status, live>>
<1> USE DEF globals, world, Return, StopAndAlert, Panic
<1>1. CASE Call(t)
  BY <1>1 DEF Call, CallStart, CallRestart, CallStop, CallReload, Invoke
<1>2. CASE Step(t)
  BY <1>2 DEF Step, Marshal, Post, StartGuard, RestartGuard, RestartFound,
     SetPath, ReadConfig, NewCommandServer, Listen, CreateInstance, SetBox, Serve,
     StopGuard, StopFound, CheckServer, Unserve, CheckBox, ClearBox, CloseServer,
     DropServer
<1>3. QED
  BY <1>1, <1>2

LEMMA WriteShows ==
  ASSUME TypeOK, PlaceOfOp, NEW t \in Threads, WriteStatus(t), Fit(t),
         Serial, Serial'
  PROVE  Lifecycle!Next
<1>1. /\ pc[t] = "write" /\ status' = pub[t].to /\ live' = live
      /\ pub[t].to \in Statuses /\ status \in Statuses
  BY DEF WriteStatus, TypeOK, Publication, world
<1>2. CASE pub[t].to = "Starting"
  BY <1>1, <1>2 DEF Lifecycle!Next, Lifecycle!Begin, Lifecycle!Move, Statuses
<1>3. CASE pub[t].to = "Started"
  <2>1. status = "Starting" /\ live # {}
    BY <1>1, <1>3 DEF Fit, Progress, Startup, Up
  <2>2. QED
    BY <1>1, <1>3, <2>1 DEF Lifecycle!Next, Lifecycle!Announce, Lifecycle!Move
<1>4. CASE pub[t].to = "Stopping"
  <2>1. status = "Started"
    BY <1>1, <1>4 DEF Fit, Progress, Window, PlaceOfOp, BetweenHalves, Posting
  <2>2. QED
    BY <1>1, <1>4, <2>1 DEF Lifecycle!Next, Lifecycle!Leave, Lifecycle!Move
<1>5. CASE pub[t].to = "Stopped"
  <2>1. status \in {"Starting", "Stopping"} /\ live = {}
    BY <1>1, <1>5 DEF Fit, Progress, Mid, Transit, Down
  <2>2. QED
    BY <1>1, <1>5, <2>1
    DEF Lifecycle!Next, Lifecycle!Fail, Lifecycle!Finish, Lifecycle!Move
<1>6. QED
  BY <1>1, <1>2, <1>3, <1>4, <1>5 DEF Statuses

LEMMA StartShows ==
  ASSUME TypeOK, NEW t \in Threads, StartInstance(t), Fit(t), Serial, Serial'
  PROVE  [Lifecycle!Next]_(Lifecycle!lifecycleVars)
<1>1. status = "Starting" /\ live = {} /\ status' = status
  BY DEF StartInstance, Fit, Progress, Startup, Down, StopAndAlert, globals
<1>2. CASE live' = {}
  BY <1>1, <1>2 DEF Lifecycle!lifecycleVars
<1>3. CASE live' # {}
  BY <1>1, <1>3 DEF Lifecycle!Next, Lifecycle!Raise
<1>4. QED
  BY <1>2, <1>3

LEMMA CloseShows ==
  ASSUME TypeOK, NEW t \in Threads, CloseBox(t), Fit(t), Serial, Serial'
  PROVE  [Lifecycle!Next]_(Lifecycle!lifecycleVars)
<1>1. status \in {"Starting", "Stopping"} /\ live \subseteq {box} /\ box # 0
  BY DEF CloseBox, Fit, Progress, Mid, Body, Transit
<1>2. status' = status /\ live' = live \ {box}
  BY <1>1 DEF CloseBox, Panic, globals
<1>3. live' = {}
  BY <1>1, <1>2
<1>4. CASE live = {}
  BY <1>2, <1>3, <1>4 DEF Lifecycle!lifecycleVars
<1>5. CASE live # {}
  BY <1>1, <1>2, <1>3, <1>5 DEF Lifecycle!Next, Lifecycle!Lower
<1>6. QED
  BY <1>4, <1>5

LEMMA LifecycleStep ==
  ASSUME TypeOK, CoreInv, [Next]_vars
  PROVE  [Lifecycle!Next]_(Lifecycle!lifecycleVars)
<1>1. CASE UNCHANGED vars
  BY <1>1 DEF vars, globals, world, hist, Lifecycle!lifecycleVars, Serial
<1>2. CASE ~Serial'
  BY <1>2 DEF Lifecycle!Next
<1>3. ASSUME NEW t \in Threads, Call(t) \/ Step(t), Serial'
      PROVE  [Lifecycle!Next]_(Lifecycle!lifecycleVars)
  <2>1. Serial
    BY <1>3, SerialBackwards
  <2>2. CASE UNCHANGED <<status, live>>
    BY <1>3, <2>1, <2>2 DEF Lifecycle!lifecycleVars, Serial
  <2>3. CASE Working(t)
    <3>1. Fit(t)
      BY <2>1, <2>3
      DEF CoreInv, Solo, AtRest, Working, Fit, Transit
    <3>2. QED
      BY <1>3, <2>1, <2>2, <3>1, HiddenSteps, WriteShows, StartShows, CloseShows
      DEF CoreInv
  <2>4. CASE ~Working(t)
    BY <1>3, <2>2, <2>4, OnlyWorkersTouch DEF Ground, globals, world
  <2>5. QED
    BY <2>3, <2>4
<1>4. QED
  BY <1>1, <1>2, <1>3 DEF Next

\* As long as calls do not overlap, every behaviour of the core is one of the
\* four-phase service: the tunnel is up whenever Started is shown, down whenever
\* Stopped is, and a failed start says so.
THEOREM CoreImplementsLifecycle == Spec => ImplementsLifecycle
<1>1. Init => Lifecycle!Init
  BY DEF Init, Lifecycle!Init, Serial
<1>2. TypeOK /\ CoreInv /\ [Next]_vars
        => [Lifecycle!Next]_(Lifecycle!lifecycleVars)
  BY LifecycleStep
<1>3. QED
  BY <1>1, <1>2, TypeCorrect, CoreInvariant, PTL
  DEF Spec, ImplementsLifecycle, Lifecycle!Spec
=============================================================================
