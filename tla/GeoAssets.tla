----------------------------- MODULE GeoAssets -----------------------------
(***************************************************************************)
(* The geoip and geosite databases: a table of assets, of which one of each *)
(* type is active, a file for each, and the connects that use the active   *)
(* pair.  Steps go from await to await; the process may end anywhere.      *)
(*                                                                         *)
(* An asset's file holds a release of its provider, by number, or what the *)
(* app was bundled with.  Times of checks and the list's watcher are left  *)
(* out; nobody but the app touches the files, which are POSIX ones: a file  *)
(* that is open is renamed and deleted like any other.                      *)
(***************************************************************************)
EXTENDS Naturals

CONSTANTS Geoip, Geosite,            \* recommendedGeoAssets of each type
          defaultGeoip, defaultGeosite,
          Tasks,                     \* asynchronous calls in progress
          MaxVersion,                \* bound: releases of a provider
          MaxCalls                   \* bound: updates, insertions and connects

Assets   == Geoip \cup Geosite
Defaults == {defaultGeoip, defaultGeosite}

ASSUME AssetsAssumption ==
  /\ Geoip \cap Geosite = {}
  /\ defaultGeoip \in Geoip /\ defaultGeosite \in Geosite

ASSUME BoundsAssumption == MaxVersion \in Nat \ {0} /\ MaxCalls \in Nat

VARIABLES
  rows,          \* GeoAssetEntries: present, active, version (0 is null)
  file, temp,    \* what is in an asset's file and in its temporary file
  latest,        \* the providers' latest release
  phase,         \* where init stands
  task, calls,   \* the calls in progress, how many there were
  raced          \* history: two calls updated one asset at once

disk == <<file, temp>>
vars == <<rows, disk, latest, phase, task, calls, raced>>

-----------------------------------------------------------------------------

Versions == 1 .. MaxVersion
Missing == 0
Bundled == MaxVersion + 1
Torn    == MaxVersion + 2
Content == 0 .. MaxVersion + 2
Row     == [there : BOOLEAN, active : BOOLEAN, version : 0 .. MaxVersion]
Phases  == {"geoip", "writeGeoip", "geosite", "writeGeosite", "up", "failed"}
Places  == {"idle", "ask", "compare", "exists", "download", "receive", "rename",
            "patch", "insert", "geoip", "geosite", "hasGeoip", "hasGeosite",
            "start"}

\* asset and geosite: what a call works on; have: the version of the entity it
\* was given; tag: the release it found; open: what has become of the temporary
\* file it is writing; missing: what is left to insert.
Task == [pc : Places, asset : Assets, geosite : Geosite,
         have : 0 .. MaxVersion, tag : 0 .. MaxVersion,
         open : {"temp", "file", "gone"}, missing : SUBSET Assets]
Idle == [pc |-> "idle", asset |-> defaultGeoip, geosite |-> defaultGeosite,
         have |-> 0, tag |-> 0, open |-> "gone", missing |-> {}]

TypeOK ==
  /\ rows \in [Assets -> Row]
  /\ file \in [Assets -> Content] /\ temp \in [Assets -> Content]
  /\ latest \in Versions
  /\ phase \in Phases
  /\ task \in [Tasks -> Task]
  /\ calls \in 0 .. MaxCalls /\ raced \in BOOLEAN

\* _prePopulateGeoAssets; the directory does not exist yet
Init ==
  /\ rows = [a \in Assets |-> [there |-> a \in Defaults, active |-> a \in Defaults,
                               version |-> 0]]
  /\ file = [a \in Assets |-> Missing] /\ temp = [a \in Assets |-> Missing]
  /\ latest = 1
  /\ phase = "geoip"
  /\ task = [t \in Tasks |-> Idle]
  /\ calls = 0 /\ raced = FALSE

-----------------------------------------------------------------------------

At(t, l)   == task[t].pc = l
Goto(t, l) == task' = [task EXCEPT ![t].pc = l]
Finish(t)  == task' = [task EXCEPT ![t] = Idle]

\* A call begins on a task.
Begin(t, begun) ==
  /\ phase = "up" /\ At(t, "idle") /\ calls < MaxCalls
  /\ calls' = calls + 1
  /\ task' = [task EXCEPT ![t] = begun]

Updating(t, a) ==
  /\ task[t].asset = a
  /\ task[t].pc \in {"ask", "compare", "exists", "download", "receive", "rename",
                     "patch"}

-----------------------------------------------------------------------------
(* init: the bundled files are written where there are none.  A directory   *)
(* that does not exist has no files.                                        *)

InitAsset == IF phase \in {"geoip", "writeGeoip"} THEN defaultGeoip ELSE defaultGeosite
AfterAsset == IF phase \in {"geoip", "writeGeoip"} THEN "geosite" ELSE "up"

FindBundled ==
  /\ phase \in {"geoip", "geosite"}
  /\ \/ /\ file[InitAsset] # Missing
        /\ phase' = AfterAsset
        /\ UNCHANGED file
     \/ /\ file[InitAsset] = Missing
        /\ file' = [file EXCEPT ![InitAsset] = Torn]
        /\ phase' = IF phase = "geoip" THEN "writeGeoip" ELSE "writeGeosite"
  /\ UNCHANGED <<rows, temp, latest, task, calls, raced>>

WriteBundled ==
  /\ phase \in {"writeGeoip", "writeGeosite"}
  /\ \/ /\ file' = [file EXCEPT ![InitAsset] = Bundled]
        /\ phase' = AfterAsset
     \/ /\ phase' = "failed"
        /\ UNCHANGED file
  /\ UNCHANGED <<rows, temp, latest, task, calls, raced>>

\* The process ends and the app is started again.
Relaunch ==
  /\ phase' = "geoip"
  /\ task' = [t \in Tasks |-> Idle]
  /\ UNCHANGED <<rows, disk, latest, calls, raced>>

\* The providers publish a release.
Release ==
  /\ latest < MaxVersion
  /\ latest' = latest + 1
  /\ UNCHANGED <<rows, disk, phase, task, calls, raced>>

-----------------------------------------------------------------------------
(* update, from an asset's tile                                             *)

\* The tile refuses a second call while it knows of the first; left for ten
\* seconds, it has forgotten.
Fetch(t, a) ==
  /\ rows[a].there
  /\ Begin(t, [Idle EXCEPT !.pc = "ask", !.asset = a, !.have = rows[a].version])
  /\ raced' = (raced \/ \E u \in Tasks : Updating(u, a))
  /\ UNCHANGED <<rows, disk, latest, phase>>

\* no answer, or one without the asset
Fail(t) ==
  /\ task[t].pc \in {"ask", "download"}
  /\ Finish(t)
  /\ UNCHANGED <<rows, disk, latest, phase, calls, raced>>

AskRelease(t) ==
  /\ At(t, "ask")
  /\ task' = [task EXCEPT ![t].pc = "compare", ![t].tag = latest]
  /\ UNCHANGED <<rows, disk, latest, phase, calls, raced>>

\* The version is compared first, the file looked for after.
Compare(t) ==
  /\ At(t, "compare")
  /\ Goto(t, IF task[t].tag = task[t].have THEN "exists" ELSE "download")
  /\ UNCHANGED <<rows, disk, latest, phase, calls, raced>>

\* noUpdateAvailable, unless the file is gone
LookForFile(t) ==
  /\ At(t, "exists")
  /\ IF file[task[t].asset] # Missing THEN Finish(t) ELSE Goto(t, "download")
  /\ UNCHANGED <<rows, disk, latest, phase, calls, raced>>

\* Mutant of Download: the old file is deleted to make room.
DeleteFirst(t) ==
  /\ At(t, "download")
  /\ temp' = [temp EXCEPT ![task[t].asset] = Torn]
  /\ file' = [file EXCEPT ![task[t].asset] = Missing]
  /\ task' = [task EXCEPT ![t].pc = "receive", ![t].open = "temp"]
  /\ UNCHANGED <<rows, latest, phase, calls, raced>>

\* Mutant of Download: the file itself is written to.
DownloadInPlace(t) ==
  /\ At(t, "download")
  /\ temp' = [temp EXCEPT ![task[t].asset] = Torn]
  /\ file' = [file EXCEPT ![task[t].asset] = Torn]
  /\ task' = [task EXCEPT ![t].pc = "receive", ![t].open = "temp"]
  /\ UNCHANGED <<rows, latest, phase, calls, raced>>

\* dio.download opens the temporary file, truncating it, ...
Download(t) ==
  /\ At(t, "download")
  /\ temp' = [temp EXCEPT ![task[t].asset] = Torn]
  /\ task' = [task EXCEPT ![t].pc = "receive", ![t].open = "temp"]
  /\ UNCHANGED <<rows, file, latest, phase, calls, raced>>

\* The calls that are writing a's temporary file keep it open when it is renamed
\* or deleted: now says what it has become.
Opened(a, now) ==
  [u \in Tasks |-> IF At(u, "receive") /\ task[u].asset = a
                   THEN [task[u] EXCEPT !.open = now[@]] ELSE task[u]]
Renamed == [temp |-> "file", file |-> "gone", gone |-> "gone"]
Deleted == [temp |-> "gone", file |-> "file", gone |-> "gone"]

\* ... and fills what it opened.  Two that fill one file may leave a mixture.
Receive(t) ==
  LET a == task[t].asset
  IN  /\ At(t, "receive")
      /\ \/ /\ task[t].open = "temp" /\ UNCHANGED file
            /\ \/ temp' = [temp EXCEPT ![a] = task[t].tag]
               \/ /\ \E u \in Tasks \ {t} : Updating(u, a)
                  /\ temp' = [temp EXCEPT ![a] = Torn]
         \/ /\ task[t].open = "file" /\ UNCHANGED temp
            /\ \E c \in {task[t].tag, Torn} : file' = [file EXCEPT ![a] = c]
         \/ task[t].open = "gone" /\ UNCHANGED disk
      /\ task' = [task EXCEPT ![t].pc = "rename", ![t].open = "gone"]
      /\ UNCHANGED <<rows, latest, phase, calls, raced>>

\* deleteOnError: whatever has the temporary file's name by then is deleted.
DownloadFails(t) ==
  /\ At(t, "receive")
  /\ temp' = [temp EXCEPT ![task[t].asset] = Missing]
  /\ task' = [Opened(task[t].asset, Deleted) EXCEPT ![t] = Idle]
  /\ UNCHANGED <<rows, file, latest, phase, calls, raced>>

\* Mutant of Rename: the row is written before the file is in place.
PatchFirst(t) ==
  /\ At(t, "rename")
  /\ rows' = [rows EXCEPT ![task[t].asset].version = task[t].tag]
  /\ Goto(t, "patch")
  /\ UNCHANGED <<disk, latest, phase, calls, raced>>

Rename(t) ==
  LET a == task[t].asset
  IN  /\ At(t, "rename")
      /\ IF temp[a] = Missing
         THEN Finish(t) /\ UNCHANGED disk
         ELSE /\ file' = [file EXCEPT ![a] = temp[a]]
              /\ temp' = [temp EXCEPT ![a] = Missing]
              /\ task' = [Opened(a, Renamed) EXCEPT ![t].pc = "patch"]
      /\ UNCHANGED <<rows, latest, phase, calls, raced>>

Patch(t) ==
  /\ At(t, "patch")
  /\ rows' = [rows EXCEPT ![task[t].asset].version = task[t].tag]
  /\ Finish(t)
  /\ UNCHANGED <<disk, latest, phase, calls, raced>>

-----------------------------------------------------------------------------
(* markAsActive and addRecommended                                          *)

SameType(a) == IF a \in Geoip THEN Geoip ELSE Geosite

\* one transaction; the file need not be there
MarkAsActive(a) ==
  /\ phase = "up" /\ rows[a].there
  /\ rows' = [b \in Assets |->
                IF b = a THEN [rows[b] EXCEPT !.active = TRUE]
                ELSE IF b \in SameType(a) THEN [rows[b] EXCEPT !.active = FALSE]
                ELSE rows[b]]
  /\ UNCHANGED <<disk, latest, phase, task, calls, raced>>

AddRecommended(t) ==
  /\ Begin(t, [Idle EXCEPT !.pc = "insert",
                           !.missing = {a \in Assets : ~rows[a].there}])
  /\ UNCHANGED <<rows, disk, latest, phase, raced>>

\* Mutant of InsertNext: a row that is there is replaced.
InsertOrReplace(t) ==
  /\ At(t, "insert") /\ task[t].missing # {}
  /\ \E a \in task[t].missing :
       /\ rows' = [rows EXCEPT ![a] = [there |-> TRUE, active |-> FALSE, version |-> 0]]
       /\ task' = [task EXCEPT ![t].missing = @ \ {a}]
  /\ UNCHANGED <<disk, latest, phase, calls, raced>>

\* The primary key refuses a row that is there by now, which ends the call.
InsertNext(t) ==
  /\ At(t, "insert") /\ task[t].missing # {}
  /\ \E a \in task[t].missing :
       \/ /\ ~rows[a].there
          /\ rows' = [rows EXCEPT ![a] = [there |-> TRUE, active |-> FALSE, version |-> 0]]
          /\ task' = [task EXCEPT ![t].missing = @ \ {a}]
       \/ rows[a].there /\ Finish(t) /\ UNCHANGED rows
  /\ UNCHANGED <<disk, latest, phase, calls, raced>>

InsertDone(t) ==
  /\ At(t, "insert") /\ task[t].missing = {}
  /\ Finish(t)
  /\ UNCHANGED <<rows, disk, latest, phase, calls, raced>>

-----------------------------------------------------------------------------
(* A connect: the active pair is read, its files are looked for, and the    *)
(* core is started with their paths.                                        *)

Connect(t) ==
  /\ Begin(t, [Idle EXCEPT !.pc = "geoip"])
  /\ UNCHANGED <<rows, disk, latest, phase, raced>>

\* Without an active asset of the type: activeAssetNotFound.
ReadGeoip(t) ==
  /\ At(t, "geoip")
  /\ \/ \E a \in Geoip :
          /\ rows[a].active
          /\ task' = [task EXCEPT ![t].pc = "geosite", ![t].asset = a]
     \/ (\A a \in Geoip : ~rows[a].active) /\ Finish(t)
  /\ UNCHANGED <<rows, disk, latest, phase, calls, raced>>

ReadGeosite(t) ==
  /\ At(t, "geosite")
  /\ \/ \E a \in Geosite :
          /\ rows[a].active
          /\ task' = [task EXCEPT ![t].pc = "hasGeoip", ![t].geosite = a]
     \/ (\A a \in Geosite : ~rows[a].active) /\ Finish(t)
  /\ UNCHANGED <<rows, disk, latest, phase, calls, raced>>

\* missingGeoAssets
CheckGeoip(t) ==
  /\ At(t, "hasGeoip")
  /\ IF file[task[t].asset] = Missing THEN Finish(t) ELSE Goto(t, "hasGeosite")
  /\ UNCHANGED <<rows, disk, latest, phase, calls, raced>>

CheckGeosite(t) ==
  /\ At(t, "hasGeosite")
  /\ IF file[task[t].geosite] = Missing THEN Finish(t) ELSE Goto(t, "start")
  /\ UNCHANGED <<rows, disk, latest, phase, calls, raced>>

Start(t) ==
  /\ At(t, "start")
  /\ Finish(t)
  /\ UNCHANGED <<rows, disk, latest, phase, calls, raced>>

-----------------------------------------------------------------------------

Step(t) ==
  \/ Fail(t) \/ AskRelease(t) \/ Compare(t) \/ LookForFile(t) \/ Download(t)
  \/ Receive(t) \/ DownloadFails(t) \/ Rename(t) \/ Patch(t)
  \/ AddRecommended(t) \/ InsertNext(t) \/ InsertDone(t)
  \/ Connect(t) \/ ReadGeoip(t) \/ ReadGeosite(t)
  \/ CheckGeoip(t) \/ CheckGeosite(t) \/ Start(t)

Next ==
  \/ FindBundled \/ WriteBundled \/ Relaunch \/ Release
  \/ \E a \in Assets : MarkAsActive(a)
  \/ \E t \in Tasks : Step(t) \/ \E a \in Assets : Fetch(t, a)

Spec == Init /\ [][Next]_vars

-----------------------------------------------------------------------------
(* Properties.                                                              *)

\* However selections, insertions and updates interleave, and wherever the
\* process ends, one asset of each type is active: a connect finds its pair.
OneActive ==
  \A type \in {Geoip, Geosite} :
    \E a \in type : \A b \in type : rows[b].active <=> b = a

\* A connect that has found the files of its pair starts with them, however many
\* updates replace them in between and whichever assets become active.
ConnectHasFiles ==
  \A t \in Tasks :
    /\ task[t].pc \in {"hasGeosite", "start"} => file[task[t].asset] # Missing
    /\ task[t].pc = "start" => file[task[t].geosite] # Missing

\* Unless two updates of one asset ran at once, the only file that is ever torn
\* is the bundled one of an asset that was not updated since: its first writing
\* may be cut off, which no later launch repairs.
FileIsWhole ==
  \A a \in Assets :
    file[a] = Torn /\ ~raced => a \in Defaults /\ rows[a].version = 0

\* The table never claims a release that is not in the file, wherever the process
\* ends: such an asset would be called up to date and never be fetched again.
VersionIsInFile ==
  \A a \in Assets :
    rows[a].version # 0 /\ ~raced => file[a] \in rows[a].version .. MaxVersion

-----------------------------------------------------------------------------
(* The inductive invariant that the proofs use.                             *)

Fetching == {"compare", "exists", "download", "receive", "rename", "patch"}

\* Calls are made when the app is up.
Calm == phase # "up" => \A t \in Tasks : At(t, "idle")

\* A bundled file that is about to be written has been opened.
HalfWritten ==
  phase \in {"writeGeoip", "writeGeosite"} => file[InitAsset] = Torn

\* An asset that is not in the table is neither active nor updated.
InTable ==
  /\ \A a \in Assets : rows[a].active => rows[a].there
  /\ \A t \in Tasks, a \in Assets : Updating(t, a) => rows[a].there

\* Nobody has heard of a release that is not out.
Published ==
  /\ \A a \in Assets : rows[a].version <= latest
  /\ \A t \in Tasks : task[t].pc \in Fetching => task[t].tag \in 1 .. latest

Alone ==
  ~raced => \A t, u \in Tasks, a \in Assets : Updating(t, a) /\ Updating(u, a) => t = u

\* What an update that is alone has done so far.
Progress ==
  ~raced => \A t \in Tasks :
    LET a == task[t].asset
    IN  /\ task[t].pc \in Fetching => rows[a].version <= task[t].tag
        /\ At(t, "receive") => task[t].open = "temp"
        /\ At(t, "rename") => temp[a] = task[t].tag
        /\ At(t, "patch") => file[a] = task[t].tag

\* Who may work when, on what, and with what behind it: the properties above
\* follow from it for any number of assets, calls and releases.
GeoInv ==
  /\ Calm /\ HalfWritten /\ InTable /\ Published /\ Alone /\ Progress
  /\ OneActive /\ ConnectHasFiles /\ FileIsWhole /\ VersionIsInFile
=============================================================================
