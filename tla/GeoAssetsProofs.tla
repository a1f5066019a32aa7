-------------------------- MODULE GeoAssetsProofs --------------------------
(***************************************************************************)
(* Theorems about GeoAssets, for any assets, calls in progress, releases   *)
(* and number of calls.                                                    *)
(***************************************************************************)
EXTENDS GeoAssets, TLAPS

(* The type invariant.                                                      *)

\* Facts about the constants, and the contents a file can have.
LEMMA Constants ==
  /\ 0 .. MaxVersion \subseteq Content
  /\ Missing \in Content /\ Bundled \in Content /\ Torn \in Content
  /\ 0 \in 0 .. MaxVersion
  /\ defaultGeoip \in Assets /\ defaultGeosite \in Assets
  /\ Geoip \subseteq Assets /\ Geosite \subseteq Assets
  BY AssetsAssumption, BoundsAssumption
  DEF Content, Missing, Bundled, Torn, Assets

LEMMA IdleType == Idle \in Task
<1>1. "idle" \in Places
  BY DEF Places
<1>2. 0 \in 0 .. MaxVersion /\ defaultGeoip \in Assets /\ defaultGeosite \in Geosite
  BY Constants, AssetsAssumption
<1>3. QED
  BY <1>1, <1>2 DEF Idle, Task

\* What a step does to the record of a call and to a row.
LEMMA PlaceType ==
  ASSUME NEW r \in Task, NEW l \in Places
  PROVE  [r EXCEPT !.pc = l] \in Task
  BY DEF Task

LEMMA TagType ==
  ASSUME NEW r \in Task, NEW v \in 0 .. MaxVersion
  PROVE  [r EXCEPT !.tag = v] \in Task /\ [r EXCEPT !.have = v] \in Task
  BY DEF Task

LEMMA OpenType ==
  ASSUME NEW r \in Task, NEW o \in {"temp", "file", "gone"}
  PROVE  [r EXCEPT !.open = o] \in Task
  BY DEF Task

LEMMA AssetType ==
  ASSUME NEW r \in Task, NEW a \in Assets, NEW b \in Geosite
  PROVE  [r EXCEPT !.asset = a] \in Task /\ [r EXCEPT !.geosite = b] \in Task
  BY DEF Task

LEMMA MissingType ==
  ASSUME NEW r \in Task, NEW m \in SUBSET Assets
  PROVE  [r EXCEPT !.missing = m] \in Task
  BY DEF Task

LEMMA RowType ==
  ASSUME NEW r \in Row, NEW v \in 0 .. MaxVersion, NEW b \in BOOLEAN
  PROVE  /\ [r EXCEPT !.version = v] \in Row
         /\ [r EXCEPT !.active = b] \in Row
  BY DEF Row

LEMMA ReleaseType ==
  ASSUME TypeOK
  PROVE  /\ latest \in 0 .. MaxVersion
         /\ latest < MaxVersion => latest + 1 \in Versions
  BY BoundsAssumption DEF TypeOK, Versions

LEMMA GotoType ==
  ASSUME TypeOK, NEW t \in Tasks, NEW l \in Places, Goto(t, l)
  PROVE  task' \in [Tasks -> Task]
  BY PlaceType DEF Goto, TypeOK

LEMMA FinishType ==
  ASSUME TypeOK, NEW t \in Tasks, Finish(t)
  PROVE  task' \in [Tasks -> Task]
  BY IdleType DEF Finish, TypeOK

LEMMA BeginType ==
  ASSUME TypeOK, NEW t \in Tasks, NEW begun \in Task, Begin(t, begun)
  PROVE  task' \in [Tasks -> Task] /\ calls' \in 0 .. MaxCalls
  BY BoundsAssumption DEF Begin, TypeOK

LEMMA OpenedType ==
  ASSUME TypeOK, NEW a \in Assets, NEW now \in {Renamed, Deleted}
  PROVE  Opened(a, now) \in [Tasks -> Task]
<1>1. ASSUME NEW u \in Tasks PROVE now[task[u].open] \in {"temp", "file", "gone"}
  BY DEF TypeOK, Task, Renamed, Deleted
<1>2. QED
  BY <1>1, OpenType DEF Opened, TypeOK

LEMMA TypeStep ==
  ASSUME TypeOK, [Next]_vars
  PROVE  TypeOK'
<1> USE DEF Phases, Places
<1>1. ASSUME FindBundled PROVE TypeOK'
  BY <1>1, Constants DEF FindBundled, InitAsset, AfterAsset, TypeOK, disk
<1>2. ASSUME WriteBundled PROVE TypeOK'
  BY <1>2, Constants DEF WriteBundled, InitAsset, AfterAsset, TypeOK, disk
<1>3. ASSUME Relaunch PROVE TypeOK'
  BY <1>3, IdleType DEF Relaunch, Idle, TypeOK, disk
<1>4. ASSUME Release PROVE TypeOK'
  BY <1>4, ReleaseType DEF Release, TypeOK, disk
<1>5. ASSUME NEW a \in Assets, MarkAsActive(a) PROVE TypeOK'
  <2>1. \A b \in Assets, v \in BOOLEAN : [rows[b] EXCEPT !.active = v] \in Row
    BY RowType, Constants DEF TypeOK
  <2>2. rows' \in [Assets -> Row]
    BY <2>1, <1>5 DEF MarkAsActive, TypeOK
  <2>3. QED
    BY <2>2, <1>5 DEF MarkAsActive, TypeOK, disk
<1>6. ASSUME NEW t \in Tasks, NEW a \in Assets, Fetch(t, a) PROVE TypeOK'
  <2>1. rows[a].version \in 0 .. MaxVersion
    BY DEF TypeOK, Row
  <2>2. [Idle EXCEPT !.pc = "ask", !.asset = a, !.have = rows[a].version] \in Task
    BY <2>1, IdleType, PlaceType, AssetType, TagType, AssetsAssumption
  <2>3. task' \in [Tasks -> Task] /\ calls' \in 0 .. MaxCalls
    BY <2>2, <1>6, BeginType DEF Fetch
  <2>4. QED
    BY <2>3, <1>6 DEF Fetch, TypeOK, disk
<1>7. ASSUME NEW t \in Tasks, Fail(t) PROVE TypeOK'
  BY <1>7, FinishType DEF Fail, At, Finish, Idle, TypeOK, disk
<1>8. ASSUME NEW t \in Tasks, AskRelease(t) PROVE TypeOK'
  <2>1. [task[t] EXCEPT !.pc = "compare", !.tag = latest] \in Task
    BY PlaceType, TagType, ReleaseType DEF TypeOK
  <2>2. QED
    BY <2>1, <1>8 DEF AskRelease, TypeOK, disk
<1>9. ASSUME NEW t \in Tasks, Compare(t) PROVE TypeOK'
  BY <1>9, GotoType DEF Compare, At, Goto, TypeOK, disk
<1>10. ASSUME NEW t \in Tasks, LookForFile(t) PROVE TypeOK'
  BY <1>10, GotoType, FinishType DEF LookForFile, At, Goto, Finish, Idle,
    TypeOK, disk
<1>11. ASSUME NEW t \in Tasks, Download(t) PROVE TypeOK'
  <2>1. [task[t] EXCEPT !.pc = "receive", !.open = "temp"] \in Task
    BY PlaceType, OpenType DEF TypeOK
  <2>2. QED
    BY <2>1, <1>11, Constants DEF Download, TypeOK, disk
<1>12. ASSUME NEW t \in Tasks, Receive(t) PROVE TypeOK'
  <2>1. [task[t] EXCEPT !.pc = "rename", !.open = "gone"] \in Task
    BY PlaceType, OpenType DEF TypeOK
  <2>2. task' \in [Tasks -> Task]
    BY <2>1, <1>12 DEF Receive, TypeOK
  <2>3. task[t].tag \in Content
    BY Constants DEF TypeOK, Task
  <2>4. QED
    BY <2>2, <2>3, <1>12, Constants DEF Receive, TypeOK, disk
<1>13. ASSUME NEW t \in Tasks, DownloadFails(t) PROVE TypeOK'
  <2>1. Opened(task[t].asset, Deleted) \in [Tasks -> Task]
    BY OpenedType DEF TypeOK, Task
  <2>2. QED
    BY <2>1, <1>13, IdleType, Constants DEF DownloadFails, TypeOK, disk
<1>14. ASSUME NEW t \in Tasks, Rename(t) PROVE TypeOK'
  <2>1. task[t].asset \in Assets
    BY DEF TypeOK, Task
  <2>2. ASSUME temp[task[t].asset] # Missing PROVE task' \in [Tasks -> Task]
    <3> DEFINE opened == Opened(task[t].asset, Renamed)
    <3>1. opened \in [Tasks -> Task]
      BY <2>1, OpenedType
    <3>2. [opened[t] EXCEPT !.pc = "patch"] \in Task
      BY <3>1, PlaceType
    <3>3. task' = [opened EXCEPT ![t] = [opened[t] EXCEPT !.pc = "patch"]]
      BY <2>2, <1>14 DEF Rename
    <3>4. QED
      BY <3>1, <3>2, <3>3
  <2>3. QED
    BY <2>1, <2>2, <1>14, FinishType, Constants DEF Rename, TypeOK, disk
<1>15. ASSUME NEW t \in Tasks, Patch(t) PROVE TypeOK'
  <2>1. [rows[task[t].asset] EXCEPT !.version = task[t].tag] \in Row
    BY RowType DEF TypeOK, Task
  <2>2. QED
    BY <2>1, <1>15, FinishType DEF Patch, TypeOK, disk
<1>16. ASSUME NEW t \in Tasks, AddRecommended(t) PROVE TypeOK'
  <2>1. [Idle EXCEPT !.pc = "insert", !.missing = {a \in Assets : ~rows[a].there}]
          \in Task
    BY IdleType, PlaceType, MissingType
  <2>2. task' \in [Tasks -> Task] /\ calls' \in 0 .. MaxCalls
    BY <2>1, <1>16, BeginType DEF AddRecommended
  <2>3. QED
    BY <2>2, <1>16 DEF AddRecommended, TypeOK, disk
<1>17. ASSUME NEW t \in Tasks, InsertNext(t) PROVE TypeOK'
  <2>1. PICK a \in task[t].missing :
          \/ /\ rows' = [rows EXCEPT ![a] = [there |-> TRUE, active |-> FALSE, version |-> 0]]
             /\ task' = [task EXCEPT ![t].missing = @ \ {a}]
          \/ Finish(t) /\ UNCHANGED rows
    BY <1>17 DEF InsertNext
  <2>2. [task[t] EXCEPT !.missing = @ \ {a}] \in Task
    BY MissingType DEF TypeOK, Task
  <2>3. [there |-> TRUE, active |-> FALSE, version |-> 0] \in Row
    BY Constants DEF Row
  <2>4. rows' \in [Assets -> Row] /\ task' \in [Tasks -> Task]
    BY <2>1, <2>2, <2>3, FinishType DEF TypeOK
  <2>5. QED
    BY <2>4, <1>17 DEF InsertNext, TypeOK, disk
<1>18. ASSUME NEW t \in Tasks, InsertDone(t) PROVE TypeOK'
  BY <1>18, FinishType DEF InsertDone, At, Finish, Idle, TypeOK, disk
<1>19. ASSUME NEW t \in Tasks, Connect(t) PROVE TypeOK'
  <2>1. [Idle EXCEPT !.pc = "geoip"] \in Task
    BY IdleType, PlaceType
  <2>2. task' \in [Tasks -> Task] /\ calls' \in 0 .. MaxCalls
    BY <2>1, <1>19, BeginType DEF Connect
  <2>3. QED
    BY <2>2, <1>19 DEF Connect, TypeOK, disk
<1>20. ASSUME NEW t \in Tasks, ReadGeoip(t) PROVE TypeOK'
  <2>1. \A a \in Geoip : [task[t] EXCEPT !.pc = "geosite", !.asset = a] \in Task
    BY PlaceType, AssetType, Constants, AssetsAssumption DEF TypeOK
  <2>2. task' \in [Tasks -> Task]
    BY <2>1, <1>20, FinishType DEF ReadGeoip, TypeOK
  <2>3. QED
    BY <2>2, <1>20 DEF ReadGeoip, TypeOK, disk
<1>21. ASSUME NEW t \in Tasks, ReadGeosite(t) PROVE TypeOK'
  <2>1. \A a \in Geosite : [task[t] EXCEPT !.pc = "hasGeoip", !.geosite = a] \in Task
    BY PlaceType, AssetType, Constants, AssetsAssumption DEF TypeOK
  <2>2. task' \in [Tasks -> Task]
    BY <2>1, <1>21, FinishType DEF ReadGeosite, TypeOK
  <2>3. QED
    BY <2>2, <1>21 DEF ReadGeosite, TypeOK, disk
<1>22. ASSUME NEW t \in Tasks, CheckGeoip(t) PROVE TypeOK'
  BY <1>22, GotoType, FinishType DEF CheckGeoip, At, Goto, Finish, Idle,
    TypeOK, disk
<1>23. ASSUME NEW t \in Tasks, CheckGeosite(t) PROVE TypeOK'
  BY <1>23, GotoType, FinishType DEF CheckGeosite, At, Goto, Finish, Idle,
    TypeOK, disk
<1>24. ASSUME NEW t \in Tasks, Start(t) PROVE TypeOK'
  BY <1>24, FinishType DEF Start, At, Goto, Finish, Idle, TypeOK, disk
<1>25. CASE UNCHANGED vars
  BY <1>25 DEF vars, disk, TypeOK
<1>26. QED
  BY <1>1, <1>2, <1>3, <1>4, <1>5, <1>6, <1>7, <1>8, <1>9, <1>10, <1>11,
    <1>12, <1>13, <1>14, <1>15, <1>16, <1>17, <1>18, <1>19, <1>20, <1>21,
    <1>22, <1>23, <1>24, <1>25 DEF Next, Step

-----------------------------------------------------------------------------
(* What steps do, summed up.                                                *)

UpdatePlaces == {"ask"} \cup Fetching

\* The steps that are no part of an update, and the end of one.
Other(t) ==
  \/ Fail(t) \/ AddRecommended(t) \/ InsertNext(t) \/ InsertDone(t)
  \/ Connect(t) \/ ReadGeoip(t) \/ ReadGeosite(t)
  \/ CheckGeoip(t) \/ CheckGeosite(t) \/ Start(t)

\* They leave updates, files and versions alone, and a row they insert is new.
LEMMA OtherSteps ==
  ASSUME TypeOK, NEW t \in Tasks, Other(t)
  PROVE  /\ \A u \in Tasks : task'[u].pc \in UpdatePlaces => task'[u] = task[u]
         /\ UNCHANGED <<disk, latest, phase, raced>>
         /\ \A a \in Assets :
              \/ rows'[a] = rows[a]
              \/ /\ ~rows[a].there
                 /\ rows'[a] = [there |-> TRUE, active |-> FALSE, version |-> 0]
         /\ phase = "up" \/ ~At(t, "idle")
<1>1. CASE Fail(t)
  BY <1>1 DEF Fail, At, Finish, Idle, UpdatePlaces, Fetching, TypeOK, Task
<1>2. CASE AddRecommended(t)
  BY <1>2 DEF AddRecommended, Begin, At, Idle, UpdatePlaces, Fetching, TypeOK,
    Task
<1>3. CASE InsertNext(t)
  <2>1. PICK a \in task[t].missing :
          \/ /\ ~rows[a].there
             /\ rows' = [rows EXCEPT ![a] = [there |-> TRUE, active |-> FALSE, version |-> 0]]
             /\ task' = [task EXCEPT ![t].missing = @ \ {a}]
          \/ Finish(t) /\ UNCHANGED rows
    BY <1>3 DEF InsertNext
  <2>2. \A u \in Tasks : task'[u].pc \in UpdatePlaces => task'[u] = task[u]
    BY <1>3, <2>1 DEF InsertNext, At, Finish, Idle, UpdatePlaces, Fetching, TypeOK, Task
  <2>3. QED
    BY <1>3, <2>1, <2>2 DEF InsertNext, At, TypeOK
<1>4. CASE InsertDone(t)
  BY <1>4 DEF InsertDone, At, Finish, Idle, UpdatePlaces, Fetching, TypeOK,
    Task
<1>5. CASE Connect(t)
  BY <1>5 DEF Connect, Begin, At, Idle, UpdatePlaces, Fetching, TypeOK, Task
<1>6. CASE ReadGeoip(t)
  BY <1>6 DEF ReadGeoip, At, Finish, Idle, UpdatePlaces, Fetching, TypeOK,
    Task
<1>7. CASE ReadGeosite(t)
  BY <1>7 DEF ReadGeosite, At, Finish, Idle, UpdatePlaces, Fetching, TypeOK,
    Task
<1>8. CASE CheckGeoip(t)
  BY <1>8 DEF CheckGeoip, At, Goto, Finish, Idle, UpdatePlaces, Fetching,
    TypeOK, Task
<1>9. CASE CheckGeosite(t)
  BY <1>9 DEF CheckGeosite, At, Goto, Finish, Idle, UpdatePlaces, Fetching,
    TypeOK, Task
<1>10. CASE Start(t)
  BY <1>10 DEF Start, At, Goto, Finish, Idle, UpdatePlaces, Fetching, TypeOK,
    Task
<1>11. QED
  BY <1>1, <1>2, <1>3, <1>4, <1>5, <1>6, <1>7, <1>8, <1>9, <1>10 DEF Other

\* What an open file has become is all that changes in the record of a call.
LEMMA OpenedFields ==
  ASSUME TypeOK, NEW a \in Assets, NEW now \in {Renamed, Deleted}, NEW u \in Tasks
  PROVE  LET r == Opened(a, now)[u]
         IN  /\ r.pc = task[u].pc /\ r.asset = task[u].asset
             /\ r.geosite = task[u].geosite /\ r.tag = task[u].tag
             /\ r.open # task[u].open => task[u].pc = "receive" /\ task[u].asset = a
  BY DEF Opened, At, TypeOK, Task

Updates(t) ==
  \/ AskRelease(t) \/ Compare(t) \/ LookForFile(t) \/ Download(t)
  \/ Receive(t) \/ DownloadFails(t) \/ Rename(t) \/ Patch(t)

\* The steps of an update change its own asset and its own call.
LEMMA UpdateSteps ==
  ASSUME TypeOK, NEW t \in Tasks, Updates(t)
  PROVE  /\ Updating(t, task[t].asset)
         /\ \A u \in Tasks \ {t} :
              /\ task'[u].pc = task[u].pc /\ task'[u].asset = task[u].asset
              /\ task'[u].geosite = task[u].geosite /\ task'[u].tag = task[u].tag
              /\ task'[u].open # task[u].open => task[u].asset = task[t].asset
         /\ task'[t].pc \in UpdatePlaces => task'[t].asset = task[t].asset
         /\ task'[t].pc \in Fetching =>
              \/ task'[t].tag = latest
              \/ task'[t].tag = task[t].tag /\ task[t].pc \in Fetching
         /\ task'[t].pc \in UpdatePlaces \cup {"idle"}
         /\ UNCHANGED <<latest, phase, raced>>
         /\ \A a \in Assets \ {task[t].asset} :
              rows'[a] = rows[a] /\ file'[a] = file[a] /\ temp'[a] = temp[a]
         /\ \A a \in Assets :
              /\ rows'[a].there = rows[a].there /\ rows'[a].active = rows[a].active
              /\ \/ rows'[a].version = rows[a].version
                 \/ At(t, "patch") /\ rows'[a].version = task[t].tag
<1>1. CASE AskRelease(t)
  BY <1>1 DEF AskRelease, At, Updating, disk, UpdatePlaces, Fetching, TypeOK,
    Task, Row
<1>2. CASE Compare(t)
  BY <1>2 DEF Compare, At, Goto, Updating, disk, UpdatePlaces, Fetching,
    TypeOK, Task, Row
<1>3. CASE LookForFile(t)
  BY <1>3 DEF LookForFile, At, Goto, Finish, Idle, Updating, disk,
    UpdatePlaces, Fetching, TypeOK, Task, Row
<1>4. CASE Download(t)
  BY <1>4 DEF Download, At, Updating, disk, UpdatePlaces, Fetching, TypeOK,
    Task, Row
<1>5. CASE Receive(t)
  BY <1>5 DEF Receive, At, Updating, disk, UpdatePlaces, Fetching, TypeOK,
    Task, Row
<1>6. CASE DownloadFails(t)
  BY <1>6, OpenedFields DEF DownloadFails, At, Idle, Updating, disk,
    UpdatePlaces, Fetching, TypeOK, Task, Row
<1>7. CASE Rename(t)
  <2> USE DEF Rename, At, Updating, disk, UpdatePlaces, Fetching, TypeOK
  <2>1. task[t].asset \in Assets
    BY DEF Task
  <2>2. CASE temp[task[t].asset] = Missing
    BY <1>7, <2>1, <2>2 DEF Finish, Idle, Task
  <2>3. CASE temp[task[t].asset] # Missing
    <3> DEFINE opened == Opened(task[t].asset, Renamed)
    <3>1. opened \in [Tasks -> Task]
      BY <2>1, OpenedType
    <3>2. task' = [opened EXCEPT ![t].pc = "patch"]
      BY <1>7, <2>3
    <3>3. \A u \in Tasks :
            /\ u # t => task'[u] = opened[u]
            /\ task'[t].pc = "patch" /\ task'[t].asset = opened[t].asset
            /\ task'[t].tag = opened[t].tag
      BY <3>1, <3>2 DEF Task
    <3>4. QED
      BY <1>7, <2>1, <2>3, <3>3, OpenedFields DEF At
  <2>4. QED
    BY <2>2, <2>3
<1>8. CASE Patch(t)
  BY <1>8 DEF Patch, At, Finish, Idle, Updating, disk, UpdatePlaces, Fetching,
    TypeOK, Task, Row
<1>9. QED
  BY <1>1, <1>2, <1>3, <1>4, <1>5, <1>6, <1>7, <1>8 DEF Updates

\* A step is one of these.
LEMMA Steps ==
  ASSUME [Next]_vars
  PROVE  \/ FindBundled \/ WriteBundled \/ Relaunch \/ Release
         \/ \E a \in Assets : MarkAsActive(a)
         \/ \E t \in Tasks, a \in Assets : Fetch(t, a)
         \/ \E t \in Tasks : Updates(t)
         \/ \E t \in Tasks : Other(t)
         \/ UNCHANGED vars
<1>1. ASSUME NEW t \in Tasks, Step(t) PROVE Updates(t) \/ Other(t)
  BY <1>1 DEF Step, Updates, Other
<1>2. QED
  BY <1>1 DEF Next

-----------------------------------------------------------------------------
(* Every conjunct of the invariant is kept by every step.                   *)

\* Calls are made when the app is up.
LEMMA CalmStep ==
  ASSUME TypeOK, Calm, [Next]_vars
  PROVE  Calm'
<1>1. ASSUME FindBundled PROVE Calm'
  BY <1>1 DEF FindBundled, InitAsset, AfterAsset, Calm, At, TypeOK
<1>2. ASSUME WriteBundled PROVE Calm'
  BY <1>2 DEF WriteBundled, InitAsset, AfterAsset, Calm, At, TypeOK
<1>3. ASSUME Relaunch PROVE Calm'
  BY <1>3 DEF Relaunch, Idle, Calm, At, TypeOK
<1>4. ASSUME Release PROVE Calm'
  BY <1>4 DEF Release, Calm, At, TypeOK
<1>5. ASSUME NEW a \in Assets, MarkAsActive(a) PROVE Calm'
  BY <1>5 DEF MarkAsActive, SameType, Calm, At, TypeOK
<1>6. ASSUME NEW t \in Tasks, NEW a \in Assets, Fetch(t, a) PROVE Calm'
  BY <1>6 DEF Fetch, Begin, At, Idle, Calm, TypeOK
<1>7. ASSUME NEW t \in Tasks, Updates(t) PROVE Calm'
  BY <1>7, UpdateSteps DEF Calm, At, Updating
<1>8. ASSUME NEW t \in Tasks, Other(t) PROVE Calm'
  BY <1>8, OtherSteps DEF Calm, At
<1>9. CASE UNCHANGED vars
  BY <1>9 DEF vars, disk, Calm, At
<1>10. QED
  BY <1>1, <1>2, <1>3, <1>4, <1>5, <1>6, <1>7, <1>8, <1>9, Steps

\* A bundled file is written by init alone, before any call.
LEMMA HalfWrittenStep ==
  ASSUME TypeOK, Calm, HalfWritten, [Next]_vars
  PROVE  HalfWritten'
<1>1. ASSUME FindBundled PROVE HalfWritten'
  BY <1>1, Constants DEF FindBundled, InitAsset, AfterAsset, HalfWritten,
    TypeOK
<1>2. ASSUME WriteBundled PROVE HalfWritten'
  BY <1>2, Constants DEF WriteBundled, InitAsset, AfterAsset, HalfWritten,
    TypeOK
<1>3. ASSUME Relaunch PROVE HalfWritten'
  BY <1>3 DEF Relaunch, Idle, HalfWritten, InitAsset, disk
<1>4. ASSUME Release PROVE HalfWritten'
  BY <1>4 DEF Release, HalfWritten, InitAsset, disk
<1>5. ASSUME NEW a \in Assets, MarkAsActive(a) PROVE HalfWritten'
  BY <1>5 DEF MarkAsActive, SameType, HalfWritten, InitAsset, disk
<1>6. ASSUME NEW t \in Tasks, NEW a \in Assets, Fetch(t, a) PROVE HalfWritten'
  BY <1>6 DEF Fetch, Begin, At, Idle, HalfWritten, InitAsset, disk
<1>7. ASSUME NEW t \in Tasks, Updates(t) PROVE HalfWritten'
  BY <1>7, UpdateSteps DEF Calm, At, Updating, HalfWritten
<1>8. ASSUME NEW t \in Tasks, Other(t) PROVE HalfWritten'
  BY <1>8, OtherSteps DEF HalfWritten, InitAsset, disk
<1>9. CASE UNCHANGED vars
  BY <1>9 DEF vars, disk, HalfWritten, InitAsset
<1>10. QED
  BY <1>1, <1>2, <1>3, <1>4, <1>5, <1>6, <1>7, <1>8, <1>9, Steps

\* Rows are inserted and never removed.
LEMMA InTableStep ==
  ASSUME TypeOK, InTable, [Next]_vars
  PROVE  InTable'
<1>1. ASSUME FindBundled PROVE InTable'
  BY <1>1 DEF FindBundled, InitAsset, AfterAsset, InTable, Updating, TypeOK,
    Row, Task
<1>2. ASSUME WriteBundled PROVE InTable'
  BY <1>2 DEF WriteBundled, InitAsset, AfterAsset, InTable, Updating, TypeOK,
    Row, Task
<1>3. ASSUME Relaunch PROVE InTable'
  BY <1>3 DEF Relaunch, Idle, InTable, Updating, TypeOK, Row, Task
<1>4. ASSUME Release PROVE InTable'
  BY <1>4 DEF Release, InTable, Updating, TypeOK, Row, Task
<1>5. ASSUME NEW a \in Assets, MarkAsActive(a) PROVE InTable'
  BY <1>5 DEF MarkAsActive, SameType, InTable, Updating, TypeOK, Row, Task
<1>6. ASSUME NEW t \in Tasks, NEW a \in Assets, Fetch(t, a) PROVE InTable'
  BY <1>6 DEF Fetch, Begin, At, Idle, InTable, Updating, TypeOK, Row, Task
<1>7. ASSUME NEW t \in Tasks, Updates(t) PROVE InTable'
  BY <1>7, UpdateSteps DEF InTable, Updating, UpdatePlaces, Fetching
<1>8. ASSUME NEW t \in Tasks, Other(t) PROVE InTable'
  BY <1>8, OtherSteps DEF InTable, Updating, UpdatePlaces, Fetching, Row
<1>9. CASE UNCHANGED vars
  BY <1>9 DEF vars, disk, InTable, Updating
<1>10. QED
  BY <1>1, <1>2, <1>3, <1>4, <1>5, <1>6, <1>7, <1>8, <1>9, Steps

\* A version is written from what the provider answered.
LEMMA PublishedStep ==
  ASSUME TypeOK, Published, [Next]_vars
  PROVE  Published'
<1>1. ASSUME FindBundled PROVE Published'
  BY <1>1, BoundsAssumption DEF FindBundled, InitAsset, AfterAsset, Published,
    Fetching, TypeOK, Row, Task, Versions
<1>2. ASSUME WriteBundled PROVE Published'
  BY <1>2, BoundsAssumption DEF WriteBundled, InitAsset, AfterAsset,
    Published, Fetching, TypeOK, Row, Task, Versions
<1>3. ASSUME Relaunch PROVE Published'
  BY <1>3, BoundsAssumption DEF Relaunch, Idle, Published, Fetching, TypeOK,
    Row, Task, Versions
<1>4. ASSUME Release PROVE Published'
  BY <1>4, BoundsAssumption DEF Release, Published, Fetching, TypeOK, Row,
    Task, Versions
<1>5. ASSUME NEW a \in Assets, MarkAsActive(a) PROVE Published'
  BY <1>5, BoundsAssumption DEF MarkAsActive, SameType, Published, Fetching,
    TypeOK, Row, Task, Versions
<1>6. ASSUME NEW t \in Tasks, NEW a \in Assets, Fetch(t, a) PROVE Published'
  BY <1>6, BoundsAssumption DEF Fetch, Begin, At, Idle, Published, Fetching,
    TypeOK, Row, Task, Versions
<1>7. ASSUME NEW t \in Tasks, Updates(t) PROVE Published'
  BY <1>7, UpdateSteps, BoundsAssumption DEF Published, Fetching, At, TypeOK,
    Versions
<1>8. ASSUME NEW t \in Tasks, Other(t) PROVE Published'
  BY <1>8, OtherSteps, BoundsAssumption DEF Published, UpdatePlaces, Fetching,
    TypeOK, Versions
<1>9. CASE UNCHANGED vars
  BY <1>9 DEF vars, disk, Published, Fetching
<1>10. QED
  BY <1>1, <1>2, <1>3, <1>4, <1>5, <1>6, <1>7, <1>8, <1>9, Steps

\* An update that meets another sets raced.
LEMMA AloneStep ==
  ASSUME TypeOK, Alone, [Next]_vars
  PROVE  Alone'
<1>1. ASSUME FindBundled PROVE Alone'
  BY <1>1 DEF FindBundled, InitAsset, AfterAsset, Alone, Updating
<1>2. ASSUME WriteBundled PROVE Alone'
  BY <1>2 DEF WriteBundled, InitAsset, AfterAsset, Alone, Updating
<1>3. ASSUME Relaunch PROVE Alone'
  BY <1>3 DEF Relaunch, Idle, Alone, Updating
<1>4. ASSUME Release PROVE Alone'
  BY <1>4 DEF Release, Alone, Updating
<1>5. ASSUME NEW a \in Assets, MarkAsActive(a) PROVE Alone'
  BY <1>5 DEF MarkAsActive, SameType, Alone, Updating
<1>6. ASSUME NEW t \in Tasks, NEW a \in Assets, Fetch(t, a) PROVE Alone'
  <2>1. /\ \A u \in Tasks : u # t => task'[u] = task[u]
        /\ task'[t].asset = a /\ ~Updating(t, a)
    BY <1>6 DEF Fetch, Begin, At, Idle, Updating, TypeOK, Task
  <2>2. ASSUME NEW u \in Tasks, u # t, NEW b \in Assets
        PROVE  Updating(u, b)' <=> Updating(u, b)
    BY <2>1, <2>2 DEF Updating
  <2>3. ASSUME NEW b \in Assets PROVE Updating(t, b)' => b = a
    BY <2>1 DEF Updating
  <2>4. ~raced' => ~raced /\ \A u \in Tasks : ~Updating(u, a)
    BY <1>6 DEF Fetch
  <2>5. SUFFICES ASSUME ~raced', NEW u \in Tasks, NEW v \in Tasks, NEW b \in Assets,
                        Updating(u, b)', Updating(v, b)'
                 PROVE  u = v
    BY DEF Alone
  <2>6. CASE u # t /\ v # t
    BY <2>2, <2>4, <2>5, <2>6 DEF Alone
  <2>7. CASE u = t \/ v = t
    BY <2>2, <2>3, <2>4, <2>5, <2>7
  <2>8. QED
    BY <2>6, <2>7
<1>7. ASSUME NEW t \in Tasks, Updates(t) PROVE Alone'
  BY <1>7, UpdateSteps DEF Alone, Updating, UpdatePlaces, Fetching
<1>8. ASSUME NEW t \in Tasks, Other(t) PROVE Alone'
  BY <1>8, OtherSteps DEF Alone, Updating, UpdatePlaces, Fetching
<1>9. CASE UNCHANGED vars
  BY <1>9 DEF vars, disk, Alone, Updating
<1>10. QED
  BY <1>1, <1>2, <1>3, <1>4, <1>5, <1>6, <1>7, <1>8, <1>9, Steps

\* Another call's part of Progress is left alone by an update.
LEMMA OthersProgress ==
  ASSUME TypeOK, Alone, Progress, ~raced, NEW t \in Tasks, Updates(t),
         NEW u \in Tasks, u # t
  PROVE  LET a == task'[u].asset
         IN  /\ task'[u].pc \in Fetching => rows'[a].version <= task'[u].tag
             /\ task'[u].pc = "receive" => task'[u].open = "temp"
             /\ task'[u].pc = "rename" => temp'[a] = task'[u].tag
             /\ task'[u].pc = "patch" => file'[a] = task'[u].tag
<1>1. /\ Updating(t, task[t].asset) /\ task[u].asset \in Assets
      /\ task'[u].pc = task[u].pc /\ task'[u].asset = task[u].asset
      /\ task'[u].tag = task[u].tag
      /\ task'[u].open # task[u].open => task[u].asset = task[t].asset
  BY UpdateSteps DEF TypeOK, Task
<1>2. CASE task[u].pc \notin Fetching
  BY <1>1, <1>2 DEF Fetching
<1>3. CASE task[u].pc \in Fetching
  <2>1. Updating(u, task[u].asset)
    BY <1>3 DEF Updating, Fetching
  <2>2. task[u].asset # task[t].asset
    BY <1>1, <2>1 DEF Alone
  <2>3. /\ rows'[task[u].asset] = rows[task[u].asset]
        /\ file'[task[u].asset] = file[task[u].asset]
        /\ temp'[task[u].asset] = temp[task[u].asset]
    BY <1>1, <2>2, UpdateSteps
  <2>4. QED
    BY <1>1, <1>3, <2>2, <2>3 DEF Progress, At, Fetching
<1>4. QED
  BY <1>2, <1>3

\* An update's own part.
LEMMA OwnProgress ==
  ASSUME TypeOK, Published, Progress, ~raced, NEW t \in Tasks, Updates(t)
  PROVE  LET a == task'[t].asset
         IN  /\ task'[t].pc \in Fetching => rows'[a].version <= task'[t].tag
             /\ task'[t].pc = "receive" => task'[t].open = "temp"
             /\ task'[t].pc = "rename" => temp'[a] = task'[t].tag
             /\ task'[t].pc = "patch" => file'[a] = task'[t].tag
<1> USE DEF Progress, At, Fetching, TypeOK, Task
<1>1. CASE AskRelease(t)
  BY <1>1, ReleaseType DEF AskRelease, Published
<1>2. CASE Compare(t)
  BY <1>2 DEF Compare, Goto
<1>3. CASE LookForFile(t)
  BY <1>3 DEF LookForFile, Goto, Finish, Idle
<1>4. CASE Download(t)
  BY <1>4, Constants DEF Download, disk
<1>5. CASE Receive(t)
  BY <1>5, Constants DEF Receive, disk
<1>6. CASE DownloadFails(t)
  BY <1>6 DEF DownloadFails, Opened, Deleted, Idle
<1>7. CASE Rename(t)
  BY <1>7 DEF Rename, Goto, Finish, Idle, Opened, Renamed, disk
<1>8. CASE Patch(t)
  BY <1>8 DEF Patch, Finish, Idle, Row
<1>9. QED
  BY <1>1, <1>2, <1>3, <1>4, <1>5, <1>6, <1>7, <1>8 DEF Updates

\* An update that is alone finds what it left.
LEMMA ProgressStep ==
  ASSUME TypeOK, Calm, InTable, Published, Alone, Progress, [Next]_vars
  PROVE  Progress'
<1>1. ASSUME FindBundled PROVE Progress'
  BY <1>1 DEF FindBundled, InitAsset, AfterAsset, Calm, Progress, At, Fetching
<1>2. ASSUME WriteBundled PROVE Progress'
  BY <1>2 DEF WriteBundled, InitAsset, AfterAsset, Calm, Progress, At,
    Fetching
<1>3. ASSUME Relaunch PROVE Progress'
  BY <1>3 DEF Relaunch, Idle, Progress, At, Fetching, disk
<1>4. ASSUME Release PROVE Progress'
  BY <1>4 DEF Release, Progress, At, Fetching, disk
<1>5. ASSUME NEW a \in Assets, MarkAsActive(a) PROVE Progress'
  BY <1>5 DEF MarkAsActive, SameType, Progress, At, Fetching, disk, TypeOK,
    Task, Row
<1>6. ASSUME NEW t \in Tasks, NEW a \in Assets, Fetch(t, a) PROVE Progress'
  BY <1>6 DEF Fetch, Begin, At, Idle, Progress, Fetching, disk, TypeOK, Task
<1>7. ASSUME NEW t \in Tasks, Updates(t) PROVE Progress'
  <2>1. SUFFICES ASSUME ~raced, NEW u \in Tasks
                 PROVE  LET a == task'[u].asset
                        IN  /\ task'[u].pc \in Fetching => rows'[a].version <= task'[u].tag
                            /\ task'[u].pc = "receive" => task'[u].open = "temp"
                            /\ task'[u].pc = "rename" => temp'[a] = task'[u].tag
                            /\ task'[u].pc = "patch" => file'[a] = task'[u].tag
    BY <1>7, UpdateSteps DEF Progress, At, Fetching
  <2>2. CASE u = t
    BY <1>7, <2>1, <2>2, OwnProgress
  <2>3. CASE u # t
    BY <1>7, <2>1, <2>3, OthersProgress
  <2>4. QED
    BY <2>2, <2>3
<1>8. ASSUME NEW t \in Tasks, Other(t) PROVE Progress'
  <2>1. ASSUME NEW u \in Tasks, task'[u].pc \in Fetching
        PROVE  task'[u] = task[u] /\ rows'[task[u].asset] = rows[task[u].asset]
    <3>1. task'[u] = task[u]
      BY <1>8, <2>1, OtherSteps DEF UpdatePlaces
    <3>2. rows[task[u].asset].there /\ task[u].asset \in Assets
      BY <2>1, <3>1 DEF InTable, Updating, Fetching, TypeOK, Task
    <3>3. QED
      BY <1>8, <3>1, <3>2, OtherSteps
  <2>2. UNCHANGED <<file, temp, raced>>
    BY <1>8, OtherSteps DEF disk
  <2>3. QED
    BY <2>1, <2>2 DEF Progress, At, Fetching
<1>9. CASE UNCHANGED vars
  BY <1>9 DEF vars, disk, Progress, At, Fetching
<1>10. QED
  BY <1>1, <1>2, <1>3, <1>4, <1>5, <1>6, <1>7, <1>8, <1>9, Steps

\* Only a selection changes which assets are active.
LEMMA SameActive ==
  ASSUME OneActive, \A a \in Assets : rows'[a].active <=> rows[a].active
  PROVE  OneActive'
  BY Constants DEF OneActive

\* A selection moves the active flag within its type.
LEMMA OneActiveStep ==
  ASSUME TypeOK, InTable, OneActive, [Next]_vars
  PROVE  OneActive'
<1>1. ASSUME FindBundled PROVE OneActive'
  BY <1>1, SameActive DEF FindBundled, InitAsset, AfterAsset
<1>2. ASSUME WriteBundled PROVE OneActive'
  BY <1>2, SameActive DEF WriteBundled, InitAsset, AfterAsset
<1>3. ASSUME Relaunch PROVE OneActive'
  BY <1>3, SameActive DEF Relaunch, Idle
<1>4. ASSUME Release PROVE OneActive'
  BY <1>4, SameActive DEF Release
<1>5. ASSUME NEW a \in Assets, MarkAsActive(a) PROVE OneActive'
  <2>1. \A b \in Assets :
          rows'[b].active <=> IF b \in SameType(a) THEN b = a ELSE rows[b].active
    BY <1>5, AssetsAssumption DEF MarkAsActive, SameType, TypeOK, Row, Assets
  <2>2. SUFFICES ASSUME NEW type \in {Geoip, Geosite}
                 PROVE  \E b \in type : \A c \in type : rows'[c].active <=> c = b
    BY DEF OneActive
  <2>3. CASE type = SameType(a)
    <3>1. a \in type /\ type \subseteq Assets
      BY <2>3, Constants DEF SameType, Assets
    <3>2. QED
      BY <2>1, <2>3, <3>1
  <2>4. CASE type # SameType(a)
    <3>1. \A c \in type : c \in Assets /\ c \notin SameType(a)
      BY <2>2, <2>4, AssetsAssumption DEF SameType, Assets
    <3>2. \A c \in type : rows'[c].active <=> rows[c].active
      BY <2>1, <3>1
    <3>3. QED
      BY <2>2, <3>2 DEF OneActive
  <2>5. QED
    BY <2>3, <2>4
<1>6. ASSUME NEW t \in Tasks, NEW a \in Assets, Fetch(t, a) PROVE OneActive'
  BY <1>6, SameActive DEF Fetch, Begin, At, Idle
<1>7. ASSUME NEW t \in Tasks, Updates(t) PROVE OneActive'
  BY <1>7, SameActive, UpdateSteps
<1>8. ASSUME NEW t \in Tasks, Other(t) PROVE OneActive'
  <2>1. \A a \in Assets : rows'[a].active <=> rows[a].active
    BY <1>8, OtherSteps DEF InTable
  <2>2. QED
    BY <2>1, SameActive
<1>9. CASE UNCHANGED vars
  BY <1>9, SameActive DEF vars, disk
<1>10. QED
  BY <1>1, <1>2, <1>3, <1>4, <1>5, <1>6, <1>7, <1>8, <1>9, Steps

\* No step takes a file away.
LEMMA FilesStay ==
  ASSUME TypeOK, Published, [Next]_vars, NEW a \in Assets, file'[a] = Missing
  PROVE  file[a] = Missing
<1> USE DEF TypeOK, Missing, Torn, Bundled
<1>1. CASE FindBundled
  BY <1>1, Constants, BoundsAssumption DEF FindBundled, disk
<1>2. CASE WriteBundled
  BY <1>2, Constants, BoundsAssumption DEF WriteBundled, disk
<1>3. CASE Relaunch
  BY <1>3, Constants, BoundsAssumption DEF Relaunch, disk
<1>4. CASE Release
  BY <1>4, Constants, BoundsAssumption DEF Release, disk
<1>5. ASSUME NEW b \in Assets, MarkAsActive(b) PROVE file[a] = Missing
  BY <1>5 DEF MarkAsActive, disk
<1>6. ASSUME NEW t \in Tasks, NEW b \in Assets, Fetch(t, b) PROVE file[a] = Missing
  BY <1>6 DEF Fetch, disk
<1>7. ASSUME NEW t \in Tasks, Updates(t) PROVE file[a] = Missing
  <2>1. CASE AskRelease(t)
    BY <2>1 DEF AskRelease, disk
  <2>2. CASE Compare(t)
    BY <2>2 DEF Compare, disk
  <2>3. CASE LookForFile(t)
    BY <2>3 DEF LookForFile, disk
  <2>4. CASE Download(t)
    BY <2>4 DEF Download, disk
  <2>5. CASE Receive(t)
    BY <2>5, BoundsAssumption DEF Receive, disk, Published, Fetching, At, Task
  <2>6. CASE DownloadFails(t)
    BY <2>6 DEF DownloadFails, disk
  <2>7. CASE Rename(t)
    BY <2>7 DEF Rename, disk, At
  <2>8. CASE Patch(t)
    BY <2>8 DEF Patch, disk
  <2>9. QED
    BY <1>7, <2>1, <2>2, <2>3, <2>4, <2>5, <2>6, <2>7, <2>8 DEF Updates
<1>8. ASSUME NEW t \in Tasks, Other(t) PROVE file[a] = Missing
  BY <1>8, OtherSteps DEF disk
<1>9. CASE UNCHANGED vars
  BY <1>9 DEF vars, disk
<1>10. QED
  BY <1>1, <1>2, <1>3, <1>4, <1>5, <1>6, <1>7, <1>8, <1>9, Steps

\* A call works on assets of the table.
LEMMA WorksOnAssets ==
  ASSUME TypeOK, NEW t \in Tasks
  PROVE  task[t].asset \in Assets /\ task[t].geosite \in Assets
  BY AssetsAssumption DEF TypeOK, Task, Assets

\* What a connect has found stays.
LEMMA ConnectHasFilesStep ==
  ASSUME TypeOK, Published, ConnectHasFiles, [Next]_vars
  PROVE  ConnectHasFiles'
<1>1. ASSUME FindBundled PROVE ConnectHasFiles'
  BY <1>1, FilesStay, WorksOnAssets DEF FindBundled, InitAsset, AfterAsset,
    ConnectHasFiles, disk
<1>2. ASSUME WriteBundled PROVE ConnectHasFiles'
  BY <1>2, FilesStay, WorksOnAssets DEF WriteBundled, InitAsset, AfterAsset,
    ConnectHasFiles, disk
<1>3. ASSUME Release PROVE ConnectHasFiles'
  BY <1>3, FilesStay, WorksOnAssets DEF Release, ConnectHasFiles, disk
<1>4. ASSUME NEW a \in Assets, MarkAsActive(a) PROVE ConnectHasFiles'
  BY <1>4, FilesStay, WorksOnAssets DEF MarkAsActive, SameType,
    ConnectHasFiles, disk
<1>5. ASSUME Relaunch PROVE ConnectHasFiles'
  BY <1>5 DEF Relaunch, Idle, ConnectHasFiles
<1>6. ASSUME NEW t \in Tasks, NEW a \in Assets, Fetch(t, a) PROVE ConnectHasFiles'
  BY <1>6 DEF Fetch, Begin, At, Idle, ConnectHasFiles, disk, TypeOK, Task
<1>7. ASSUME NEW t \in Tasks, Updates(t) PROVE ConnectHasFiles'
  <2>1. ASSUME NEW u \in Tasks, task'[u].pc \in {"hasGeosite", "start"}
        PROVE  /\ task[u].pc = task'[u].pc /\ task[u].asset = task'[u].asset
               /\ task[u].geosite = task'[u].geosite
    BY <1>7, <2>1, UpdateSteps DEF UpdatePlaces, Fetching
  <2>2. QED
    BY <2>1, WorksOnAssets, FilesStay DEF ConnectHasFiles
<1>8. ASSUME NEW t \in Tasks, Other(t) PROVE ConnectHasFiles'
  <2>1. UNCHANGED file
    BY <1>8, OtherSteps DEF disk
  <2>2. CASE Fail(t)
    BY <2>1, <2>2 DEF Fail, At, Finish, Idle, disk, ConnectHasFiles, TypeOK,
      Task
  <2>3. CASE AddRecommended(t)
    BY <2>1, <2>3 DEF AddRecommended, Begin, At, Idle, disk, ConnectHasFiles,
      TypeOK, Task
  <2>4. CASE InsertNext(t)
    BY <2>1, <2>4 DEF InsertNext, At, Finish, Idle, disk, ConnectHasFiles,
      TypeOK, Task
  <2>5. CASE InsertDone(t)
    BY <2>1, <2>5 DEF InsertDone, At, Finish, Idle, disk, ConnectHasFiles,
      TypeOK, Task
  <2>6. CASE Connect(t)
    BY <2>1, <2>6 DEF Connect, Begin, At, Idle, disk, ConnectHasFiles, TypeOK,
      Task
  <2>7. CASE ReadGeoip(t)
    BY <2>1, <2>7 DEF ReadGeoip, At, Finish, Idle, disk, ConnectHasFiles,
      TypeOK, Task
  <2>8. CASE ReadGeosite(t)
    BY <2>1, <2>8 DEF ReadGeosite, At, Finish, Idle, disk, ConnectHasFiles,
      TypeOK, Task
  <2>9. CASE CheckGeoip(t)
    BY <2>1, <2>9 DEF CheckGeoip, At, Goto, Finish, Idle, disk,
      ConnectHasFiles, TypeOK, Task
  <2>10. CASE CheckGeosite(t)
    BY <2>1, <2>10 DEF CheckGeosite, At, Goto, Finish, Idle, disk,
      ConnectHasFiles, TypeOK, Task
  <2>11. CASE Start(t)
    BY <2>1, <2>11 DEF Start, At, Goto, Finish, Idle, disk, ConnectHasFiles,
      TypeOK, Task
  <2>12. QED
    BY <1>8, <2>2, <2>3, <2>4, <2>5, <2>6, <2>7, <2>8, <2>9, <2>10, <2>11 DEF Other
<1>9. CASE UNCHANGED vars
  BY <1>9 DEF vars, disk, ConnectHasFiles
<1>10. QED
  BY <1>1, <1>2, <1>3, <1>4, <1>5, <1>6, <1>7, <1>8, <1>9, Steps

\* An update that is alone leaves file and version as they are, or the file is
\* the release it found and the version no later one.
LEMMA OwnFile ==
  ASSUME TypeOK, Published, Progress, ~raced, NEW t \in Tasks, Updates(t)
  PROVE  LET a == task[t].asset
         IN  \/ file'[a] = file[a] /\ rows'[a].version = rows[a].version
             \/ /\ task[t].tag \in Versions
                /\ file'[a] = task[t].tag
                /\ rows'[a].version <= task[t].tag
<1> USE DEF Updates, disk, At
<1>1. CASE Receive(t)
  BY <1>1 DEF Receive, Progress
<1>2. CASE Rename(t)
  <2>1. task[t].tag \in Versions
    BY <1>2, BoundsAssumption DEF Rename, Published, Fetching, TypeOK, Versions
  <2>2. task[t].asset \in Assets
    BY WorksOnAssets
  <2>3. QED
    BY <1>2, <2>1, <2>2 DEF Rename, Finish, Progress, Fetching, TypeOK
<1>3. CASE Patch(t)
  <2>1. task[t].tag \in Versions
    BY <1>3, BoundsAssumption DEF Patch, Published, Fetching, TypeOK, Versions
  <2>2. task[t].asset \in Assets
    BY WorksOnAssets
  <2>3. QED
    BY <1>3, <2>1, <2>2 DEF Patch, Progress, Fetching, TypeOK, Row, Versions
<1>4. CASE ~Receive(t) /\ ~Rename(t) /\ ~Patch(t)
  BY <1>4 DEF AskRelease, Compare, LookForFile, Download, DownloadFails
<1>5. QED
  BY <1>1, <1>2, <1>3, <1>4

\* No step forgets a race.
LEMMA SameRaced ==
  ASSUME TypeOK, [Next]_vars, ~raced'
  PROVE  ~raced
<1>1. CASE UNCHANGED raced
  BY <1>1
<1>2. ASSUME NEW t \in Tasks, NEW a \in Assets, Fetch(t, a) PROVE ~raced
  BY <1>2 DEF Fetch
<1>3. ASSUME NEW t \in Tasks, Updates(t) PROVE ~raced
  BY <1>3, UpdateSteps
<1>4. ASSUME NEW t \in Tasks, Other(t) PROVE ~raced
  BY <1>4, OtherSteps
<1>5. QED
  BY <1>1, <1>2, <1>3, <1>4, Steps
  DEF FindBundled, WriteBundled, Relaunch, Release, MarkAsActive, vars

\* A file changes by a rename of a finished download, or in init.
LEMMA FileIsWholeStep ==
  ASSUME TypeOK, Published, HalfWritten, Progress, FileIsWhole, VersionIsInFile, [Next]_vars
  PROVE  FileIsWhole'
<1>1. ASSUME FindBundled PROVE FileIsWhole'
  BY <1>1, SameRaced, Constants, BoundsAssumption DEF FindBundled, InitAsset,
    AfterAsset, FileIsWhole, VersionIsInFile, HalfWritten, TypeOK, Row,
    Defaults, Missing, Torn, Bundled
<1>2. ASSUME WriteBundled PROVE FileIsWhole'
  BY <1>2, SameRaced, Constants, BoundsAssumption DEF WriteBundled, InitAsset,
    AfterAsset, FileIsWhole, VersionIsInFile, HalfWritten, TypeOK, Row,
    Defaults, Missing, Torn, Bundled
<1>3. ASSUME Relaunch PROVE FileIsWhole'
  BY <1>3 DEF Relaunch, Idle, FileIsWhole, disk
<1>4. ASSUME Release PROVE FileIsWhole'
  BY <1>4 DEF Release, FileIsWhole, disk
<1>5. ASSUME NEW a \in Assets, MarkAsActive(a) PROVE FileIsWhole'
  BY <1>5 DEF MarkAsActive, SameType, FileIsWhole, disk, TypeOK, Row
<1>6. ASSUME NEW t \in Tasks, NEW a \in Assets, Fetch(t, a) PROVE FileIsWhole'
  BY <1>6, SameRaced DEF Fetch, Begin, At, Idle, FileIsWhole, disk
<1>7. ASSUME NEW t \in Tasks, Updates(t) PROVE FileIsWhole'
  <2>1. SUFFICES ASSUME ~raced', NEW b \in Assets
                 PROVE  file'[b] = Torn => b \in Defaults /\ rows'[b].version = 0
    BY DEF FileIsWhole
  <2>2. ~raced
    BY SameRaced, <2>1
  <2>3. CASE b = task[t].asset
    BY <1>7, <2>1, <2>2, <2>3, OwnFile, BoundsAssumption
      DEF FileIsWhole, VersionIsInFile, TypeOK, Row, Versions, Torn
  <2>4. CASE b # task[t].asset
    BY <1>7, <2>1, <2>2, <2>4, UpdateSteps DEF FileIsWhole
  <2>5. QED
    BY <2>3, <2>4
<1>8. ASSUME NEW t \in Tasks, Other(t) PROVE FileIsWhole'
  <2>1. ~raced' => ~raced
    BY SameRaced
  <2>2. UNCHANGED file
    BY <1>8, OtherSteps DEF disk
  <2>3. \A b \in Assets : rows'[b].version = rows[b].version \/ rows'[b].version = 0
    BY <1>8, OtherSteps
  <2>4. QED
    BY <2>1, <2>2, <2>3 DEF FileIsWhole
<1>9. CASE UNCHANGED vars
  BY <1>9 DEF vars, disk, FileIsWhole
<1>10. QED
  BY <1>1, <1>2, <1>3, <1>4, <1>5, <1>6, <1>7, <1>8, <1>9, Steps

\* The file is renamed before the row is written.
LEMMA VersionIsInFileStep ==
  ASSUME TypeOK, Published, HalfWritten, Progress, FileIsWhole, VersionIsInFile, [Next]_vars
  PROVE  VersionIsInFile'
<1>1. ASSUME FindBundled PROVE VersionIsInFile'
  BY <1>1, SameRaced, Constants, BoundsAssumption DEF FindBundled, InitAsset,
    AfterAsset, FileIsWhole, VersionIsInFile, HalfWritten, TypeOK, Row,
    Defaults, Missing, Torn, Bundled
<1>2. ASSUME WriteBundled PROVE VersionIsInFile'
  BY <1>2, SameRaced, Constants, BoundsAssumption DEF WriteBundled, InitAsset,
    AfterAsset, FileIsWhole, VersionIsInFile, HalfWritten, TypeOK, Row,
    Defaults, Missing, Torn, Bundled
<1>3. ASSUME Relaunch PROVE VersionIsInFile'
  BY <1>3 DEF Relaunch, Idle, VersionIsInFile, disk
<1>4. ASSUME Release PROVE VersionIsInFile'
  BY <1>4 DEF Release, VersionIsInFile, disk
<1>5. ASSUME NEW a \in Assets, MarkAsActive(a) PROVE VersionIsInFile'
  BY <1>5 DEF MarkAsActive, SameType, VersionIsInFile, disk, TypeOK, Row
<1>6. ASSUME NEW t \in Tasks, NEW a \in Assets, Fetch(t, a) PROVE VersionIsInFile'
  BY <1>6, SameRaced DEF Fetch, Begin, At, Idle, VersionIsInFile, disk
<1>7. ASSUME NEW t \in Tasks, Updates(t) PROVE VersionIsInFile'
  <2>1. SUFFICES ASSUME ~raced', NEW b \in Assets
                 PROVE  rows'[b].version # 0 => file'[b] \in rows'[b].version .. MaxVersion
    BY DEF VersionIsInFile
  <2>2. ~raced
    BY SameRaced, <2>1
  <2>3. CASE b = task[t].asset
    BY <1>7, <2>1, <2>2, <2>3, OwnFile, BoundsAssumption
      DEF FileIsWhole, VersionIsInFile, TypeOK, Row, Versions, Torn
  <2>4. CASE b # task[t].asset
    BY <1>7, <2>1, <2>2, <2>4, UpdateSteps DEF VersionIsInFile
  <2>5. QED
    BY <2>3, <2>4
<1>8. ASSUME NEW t \in Tasks, Other(t) PROVE VersionIsInFile'
  <2>1. ~raced' => ~raced
    BY SameRaced
  <2>2. UNCHANGED file
    BY <1>8, OtherSteps DEF disk
  <2>3. \A b \in Assets : rows'[b].version = rows[b].version \/ rows'[b].version = 0
    BY <1>8, OtherSteps
  <2>4. QED
    BY <2>1, <2>2, <2>3 DEF VersionIsInFile
<1>9. CASE UNCHANGED vars
  BY <1>9 DEF vars, disk, VersionIsInFile
<1>10. QED
  BY <1>1, <1>2, <1>3, <1>4, <1>5, <1>6, <1>7, <1>8, <1>9, Steps

-----------------------------------------------------------------------------
(* The theorems.                                                            *)

\* Rows, files, and calls keep their types in every behaviour.
THEOREM TypeCorrect == Spec => []TypeOK
<1>1. Init => TypeOK
  <2>1. SUFFICES ASSUME Init PROVE TypeOK
    OBVIOUS
  <2>2. \A a \in Assets :
          [there |-> a \in Defaults, active |-> a \in Defaults, version |-> 0] \in Row
    BY Constants DEF Row
  <2>3. latest \in Versions /\ calls \in 0 .. MaxCalls
    BY <2>1, BoundsAssumption DEF Init, Versions
  <2>4. QED
    BY <2>1, <2>2, <2>3, IdleType, Constants DEF Init, TypeOK, Phases
<1>2. TypeOK /\ [Next]_vars => TypeOK'
  BY TypeStep
<1>3. QED
  BY <1>1, <1>2, PTL DEF Spec

\* The inductive invariant: who may work when, on what, with what behind it.
THEOREM Invariance == Spec => []GeoInv
<1>1. Init => GeoInv
  <2>1. SUFFICES ASSUME Init PROVE GeoInv
    OBVIOUS
  <2>2. \A t \in Tasks : task[t].pc = "idle"
    BY <2>1 DEF Init, Idle
  <2>3. \A a \in Assets : /\ rows[a].there = (a \in Defaults)
                          /\ rows[a].active = (a \in Defaults)
                          /\ rows[a].version = 0 /\ file[a] = Missing
    BY <2>1 DEF Init
  <2>4. Calm /\ HalfWritten /\ Alone /\ Progress /\ ConnectHasFiles
    BY <2>1, <2>2 DEF Init, Calm, HalfWritten, Alone, Progress, ConnectHasFiles,
       At, Updating, Fetching
  <2>5. InTable /\ Published
    BY <2>1, <2>2, <2>3 DEF Init, InTable, Published, Updating, Fetching
  <2>6. OneActive
    <3>1. /\ \A b \in Geoip : b \in Assets /\ (b \in Defaults <=> b = defaultGeoip)
          /\ \A b \in Geosite : b \in Assets /\ (b \in Defaults <=> b = defaultGeosite)
      BY AssetsAssumption DEF Assets, Defaults
    <3>2. /\ \A b \in Geoip : rows[b].active <=> b = defaultGeoip
          /\ \A b \in Geosite : rows[b].active <=> b = defaultGeosite
      BY <2>3, <3>1
    <3>3. QED
      BY <3>2, AssetsAssumption DEF OneActive
  <2>7. FileIsWhole /\ VersionIsInFile
    BY <2>3, BoundsAssumption DEF FileIsWhole, VersionIsInFile, Missing, Torn
  <2>8. QED
    BY <2>4, <2>5, <2>6, <2>7 DEF GeoInv
<1>2. TypeOK /\ GeoInv /\ [Next]_vars => GeoInv'
  <2>1. SUFFICES ASSUME TypeOK, GeoInv, [Next]_vars PROVE GeoInv'
    OBVIOUS
  <2>2. Calm' /\ HalfWritten' /\ InTable' /\ Published' /\ Alone'
    BY <2>1, CalmStep, HalfWrittenStep, InTableStep, PublishedStep, AloneStep
    DEF GeoInv
  <2>3. Progress' /\ OneActive' /\ ConnectHasFiles'
    BY <2>1, ProgressStep, OneActiveStep, ConnectHasFilesStep DEF GeoInv
  <2>4. FileIsWhole' /\ VersionIsInFile'
    BY <2>1, FileIsWholeStep, VersionIsInFileStep DEF GeoInv
  <2>5. QED
    BY <2>2, <2>3, <2>4 DEF GeoInv
<1>3. QED
  BY <1>1, <1>2, TypeCorrect, PTL DEF Spec

\* Each type has exactly one active asset, whatever the calls do.
THEOREM AlwaysOneActive == Spec => []OneActive
<1>1. GeoInv => OneActive
  BY DEF GeoInv
<1>2. QED
  BY <1>1, Invariance, PTL

\* A connect starts with files that are there.
THEOREM ConnectsHaveFiles == Spec => []ConnectHasFiles
<1>1. GeoInv => ConnectHasFiles
  BY DEF GeoInv
<1>2. QED
  BY <1>1, Invariance, PTL

\* Without a race only a bundled file can be torn.
THEOREM FilesAreWhole == Spec => []FileIsWhole
<1>1. GeoInv => FileIsWhole
  BY DEF GeoInv
<1>2. QED
  BY <1>1, Invariance, PTL

\* Without a race the table claims no release that is not in the file.
THEOREM VersionsAreInFiles == Spec => []VersionIsInFile
<1>1. GeoInv => VersionIsInFile
  BY DEF GeoInv
<1>2. QED
  BY <1>1, Invariance, PTL
=============================================================================
