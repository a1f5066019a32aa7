---------------------------- MODULE ProfileStore ----------------------------
(***************************************************************************)
(* The profiles: rows of a database, a configuration file per profile, and *)
(* a temporary file per profile while it is fetched.  ProfileRepository    *)
(* changes them one await at a time, called by the add dialog, the tiles,  *)
(* the details page and the periodic worker, which know little of each     *)
(* other; the process may end between any two steps.                       *)
(*                                                                         *)
(* A content is the number of the call that fetched it; the provider sends *)
(* another one every time.  A row's info is the content its subscription   *)
(* columns were taken from.  Names and headers are left out.               *)
(***************************************************************************)
EXTENDS Naturals

CONSTANTS Ids,         \* bound: profile ids (uuids) a behaviour can draw
          Urls,
          Like,        \* Like[u]: the urls that contain u
          Tasks,       \* asynchronous calls that can be under way at once
          MaxEvents    \* bound: how many calls a behaviour makes

ASSUME LikeAssumption == Like \in [Urls -> SUBSET Urls]
ASSUME BoundAssumption == MaxEvents \in Nat
ASSUME UrlAssumption == {"none", "local"} \cap Urls = {}

VARIABLES
  rows, file, temp,           \* the database table; the files, per id
  task, page, todo,           \* calls under way; details page; worker's list
  used, events,               \* ids drawn, calls made so far
  deleted, raced, lost        \* history: see Touched, Loses

disk == <<rows, file, temp>>
hist == <<deleted, raced, lost>>
vars == <<disk, task, page, todo, used, events, hist>>

-----------------------------------------------------------------------------

Absent == 0                       \* no such file
Torn   == MaxEvents + 1           \* a file truncated and not yet written
Calls  == 1 .. MaxEvents
Contents == 0 .. MaxEvents + 1

Row   == [url : Urls \cup {"local", "none"}, active : BOOLEAN, info : 0 .. MaxEvents]
NoRow == [url |-> "none", active |-> FALSE, info |-> 0]
Kinds  == {"add", "content", "save", "update", "worker", "refresh", "delete",
           "select"}
Places == {"idle", "lookup", "fetch", "check", "open", "write", "clean",
           "commit", "patch", "select", "dropRow", "dropFile", "told"}
Task == [pc : Places, kind : Kinds, id : Ids \cup {"nil"}, row : Row,
         insert : BOOLEAN, no : 0 .. MaxEvents, read : Contents, ok : BOOLEAN]
Idle == [pc |-> "idle", kind |-> "select", id |-> "nil", row |-> NoRow,
         insert |-> FALSE, no |-> 0, read |-> 0, ok |-> TRUE]
Page == [state : {"closed", "open", "busy"}, new : BOOLEAN,
         id : Ids \cup {"nil"}, row : Row, original : Urls \cup {"local", "none"}]
NoPage == [state |-> "closed", new |-> FALSE, id |-> "nil", row |-> NoRow,
           original |-> "none"]

TypeOK ==
  /\ rows \in [Ids -> Row]
  /\ file \in [Ids -> Contents]
  /\ temp \in [Ids -> 0 .. MaxEvents]
  /\ task \in [Tasks -> Task]
  /\ page \in Page
  /\ todo \subseteq Ids /\ used \subseteq Ids
  /\ events \in 0 .. MaxEvents
  /\ deleted \subseteq Ids /\ raced \subseteq Ids /\ lost \in BOOLEAN

Init ==
  /\ rows = [p \in Ids |-> NoRow]
  /\ file = [p \in Ids |-> Absent] /\ temp = [p \in Ids |-> Absent]
  /\ task = [t \in Tasks |-> Idle]
  /\ page = NoPage
  /\ todo = {} /\ used = {} /\ events = 0
  /\ deleted = {} /\ raced = {} /\ lost = FALSE

-----------------------------------------------------------------------------
(* The table.                                                               *)

Exists(p) == rows[p].url # "none"
Remote(p) == rows[p].url \in Urls
SomeActive == \E p \in Ids : rows[p].active

\* insert and edit: a transaction; an entry that is active first makes every
\* other row inactive.  Editing a row that is gone does only that.
Deactivated(r) ==
  [q \in Ids |-> [rows[q] EXCEPT !.active = @ /\ ~r.active]]

Insert(p, r) == [Deactivated(r) EXCEPT ![p] = r]
Edit(p, r)   == IF Exists(p) THEN Insert(p, r) ELSE Deactivated(r)

\* the patch of a subscription update: no other column is written
EditInfo(p, n) == IF Exists(p) THEN [rows EXCEPT ![p].info = n] ELSE rows

\* History.  lost: the active row was deleted, a row that is gone was selected,
\* or the page wrote an active flag that had changed since.
Loses(cause) == lost' = (lost \/ cause)

-----------------------------------------------------------------------------
(* Calls.                                                                   *)

Busy(t)    == task[t].pc # "idle"
Adding     == \E t \in Tasks : Busy(t) /\ task[t].kind \in {"add", "content"}
Writing(p) == {t \in Tasks : task[t].pc = "write" /\ task[t].id = p}

\* History.  raced: the profiles two calls, or a call and the open page, were
\* at work on together, and those a call of which was cut off.
Touched(p) ==
  \/ \E t \in Tasks : Busy(t) /\ task[t].id = p
  \/ page.state # "closed" /\ page.id = p

Races(p) == raced' = IF Touched(p) THEN raced \cup {p} ELSE raced

Begin(t, rec) ==
  /\ task[t].pc = "idle" /\ events < MaxEvents
  /\ events' = events + 1
  /\ task' = [task EXCEPT ![t] = [rec EXCEPT !.no = events + 1]]

Call(kind, pc, p, r) ==
  [Idle EXCEPT !.pc = pc, !.kind = kind, !.id = p, !.row = r]

Goto(t, l) == task' = [task EXCEPT ![t].pc = l]

\* the page a call was made from: it closes, or takes the outcome
FromPage(t) == page.state = "busy" /\ task[t].kind \in {"save", "refresh", "delete"}
               /\ task[t].id = page.id

End(t)  == task' = [task EXCEPT ![t] = Idle]
GiveUp(t) ==
  /\ End(t)
  /\ page' = IF FromPage(t) THEN [page EXCEPT !.state = "open"] ELSE page

\* an error on the way: fetch's finally comes first
Fail(t) == task' = [task EXCEPT ![t].pc = "clean", ![t].ok = FALSE]

-----------------------------------------------------------------------------
(* What users and the worker start.                                         *)

\* Mutant of AddByUrl: only the preference decides.
AddByPreference(t, u) ==
  /\ ~Adding
  /\ \E mark \in BOOLEAN :
       Begin(t, Call("add", "lookup", "nil",
                     [url |-> u, active |-> mark, info |-> 0]))
  /\ UNCHANGED <<disk, page, todo, used, hist>>

\* AddProfile.add, one at a time.  The profile becomes the active one when
\* there is none, or when the preference says so.
AddByUrl(t, u) ==
  /\ ~Adding
  /\ \E mark \in BOOLEAN :
       /\ SomeActive \/ mark
       /\ Begin(t, Call("add", "lookup", "nil",
                        [url |-> u, active |-> mark, info |-> 0]))
  /\ UNCHANGED <<disk, page, todo, used, hist>>

AddByContent(t) ==
  /\ ~Adding
  /\ \E mark \in BOOLEAN, p \in Ids \ used :
       /\ SomeActive \/ mark
       /\ used' = used \cup {p}
       /\ Begin(t, [Call("content", "fetch", p,
                         [url |-> "local", active |-> mark, info |-> 0])
                      EXCEPT !.insert = TRUE])
  /\ UNCHANGED <<disk, page, todo, hist>>

\* UpdateProfile, from a tile.
Update(t, p) ==
  /\ page.state = "closed" /\ Remote(p)
  /\ ~\E u \in Tasks : Busy(u) /\ task[u].kind = "update" /\ task[u].id = p
  /\ Begin(t, Call("update", "fetch", p, rows[p]))
  /\ Races(p)
  /\ UNCHANGED <<disk, page, todo, used, deleted, lost>>

\* ForegroundProfilesUpdateNotifier lists the profiles, and updates those that
\* are due one after another, from that list.
WorkerLists ==
  /\ todo = {} /\ ~\E t \in Tasks : Busy(t) /\ task[t].kind = "worker"
  /\ todo' = {p \in Ids : Remote(p)}
  /\ UNCHANGED <<disk, task, page, used, events, hist>>

WorkerUpdates(t, p) ==
  /\ p \in todo /\ todo' = todo \ {p}
  /\ ~\E u \in Tasks : Busy(u) /\ task[u].kind = "worker"
  /\ Begin(t, Call("worker", "fetch", p, NoRow))
  /\ Races(p)
  /\ UNCHANGED <<disk, page, used, deleted, lost>>

WorkerSkips(p) ==
  /\ p \in todo /\ todo' = todo \ {p}
  /\ ~\E u \in Tasks : Busy(u) /\ task[u].kind = "worker"
  /\ UNCHANGED <<disk, task, page, used, events, hist>>

\* selectActiveProfile and deleteProfile, from the list of profiles.
Select(t, p) ==
  /\ page.state = "closed" /\ Exists(p)
  /\ Begin(t, Call("select", "select", p, NoRow))
  /\ UNCHANGED <<disk, page, todo, used, hist>>

Delete(t, p) ==
  /\ page.state = "closed" /\ Exists(p)
  /\ Begin(t, Call("delete", "dropRow", p, NoRow))
  /\ Races(p)
  /\ UNCHANGED <<disk, page, todo, used, deleted, lost>>

-----------------------------------------------------------------------------
(* The details page keeps a copy of the row it was opened on.               *)

OpenPage(p) ==
  /\ page.state = "closed" /\ Exists(p)
  /\ page' = [state |-> "open", new |-> FALSE, id |-> p, row |-> rows[p],
              original |-> rows[p].url]
  /\ Races(p)
  /\ UNCHANGED <<disk, task, todo, used, events, deleted, lost>>

OpenNew(p) ==
  /\ page.state = "closed" /\ p \in Ids \ used /\ used' = used \cup {p}
  /\ \E u \in Urls :
       page' = [state |-> "open", new |-> TRUE, id |-> p, original |-> "none",
                row |-> [url |-> u, active |-> TRUE, info |-> 0]]
  /\ UNCHANGED <<disk, task, todo, events, hist>>

\* setField
EditUrl(u) ==
  /\ page.state = "open" /\ page.row.url \in Urls \ {u}
  /\ page' = [page EXCEPT !.row.url = u]
  /\ UNCHANGED <<disk, task, todo, used, events, hist>>

ClosePage ==
  /\ page.state = "open"
  /\ page' = NoPage
  /\ UNCHANGED <<disk, task, todo, used, events, hist>>

\* save: a new profile is fetched and inserted, a changed url is fetched, and
\* anything else is written as the page has it.
Save(t) ==
  /\ page.state = "open"
  /\ page' = [page EXCEPT !.state = "busy"]
  /\ LET rec == Call("save", "fetch", page.id, page.row)
     IN  \/ page.new /\ Begin(t, [rec EXCEPT !.insert = TRUE])
         \/ /\ ~page.new /\ page.row.url = page.original
            /\ Begin(t, [rec EXCEPT !.pc = "patch"])
         \/ /\ ~page.new /\ page.row.url # page.original
            /\ Begin(t, rec)
  /\ UNCHANGED <<disk, todo, used, hist>>

\* updateProfile
Refresh(t) ==
  /\ page.state = "open" /\ ~page.new /\ page.row.url \in Urls
  /\ page' = [page EXCEPT !.state = "busy"]
  /\ Begin(t, Call("refresh", "fetch", page.id, page.row))
  /\ UNCHANGED <<disk, todo, used, hist>>

DeleteFromPage(t) ==
  /\ page.state = "open" /\ ~page.new
  /\ page' = [page EXCEPT !.state = "busy"]
  /\ Begin(t, Call("delete", "dropRow", page.id, page.row))
  /\ UNCHANGED <<disk, todo, used, hist>>

-----------------------------------------------------------------------------
(* The awaits of ProfileRepository.                                         *)

\* addByUrl: a profile whose url contains this one is updated instead.
Lookup(t) ==
  /\ task[t].pc = "lookup"
  /\ LET found == {p \in Ids : rows[p].url \in Like[task[t].row.url]}
     IN  \/ \E p \in found :
              /\ task' = [task EXCEPT ![t].pc = "fetch", ![t].id = p]
              /\ Races(p) /\ UNCHANGED used
         \/ \E p \in Ids \ used :
              /\ found = {}
              /\ used' = used \cup {p}
              /\ task' = [task EXCEPT ![t].pc = "fetch", ![t].id = p,
                                      ![t].insert = TRUE]
              /\ UNCHANGED raced
  /\ UNCHANGED <<disk, page, todo, events, deleted, lost>>

\* Mutant of Fetch: an attempt that broke off counts as a download.
FetchInPart(t) ==
  /\ task[t].pc = "fetch"
  /\ temp' = [temp EXCEPT ![task[t].id] = Torn]
  /\ Goto(t, "check")
  /\ UNCHANGED <<rows, file, page, todo, used, events, hist>>

\* fetch: the download (of three attempts), or addByContent's own write
Fetch(t) ==
  /\ task[t].pc = "fetch"
  /\ \/ Fail(t) /\ UNCHANGED temp
     \/ /\ temp' = [temp EXCEPT ![task[t].id] = task[t].no]
        /\ Goto(t, "check")
  /\ UNCHANGED <<rows, file, page, todo, used, events, hist>>

\* Mutant of Check: the file is truncated before the content is checked.
CheckAfterOpening(t) ==
  /\ task[t].pc = "check"
  /\ \/ /\ Fail(t)
        /\ file' = [file EXCEPT ![task[t].id] = Torn]
     \/ /\ temp[task[t].id] # Absent
        /\ task' = [task EXCEPT ![t].pc = "open", ![t].read = temp[task[t].id]]
        /\ UNCHANGED file
  /\ UNCHANGED <<rows, temp, page, todo, used, events, hist>>

\* ParseConfig reads the temporary file, which another call may have replaced
\* or deleted, and checks the content.
Check(t) ==
  /\ task[t].pc = "check"
  /\ \/ Fail(t)
     \/ /\ temp[task[t].id] # Absent
        /\ task' = [task EXCEPT ![t].pc = "open", ![t].read = temp[task[t].id]]
  /\ UNCHANGED <<disk, page, todo, used, events, hist>>

\* os.WriteFile truncates ...
OpenFile(t) ==
  /\ task[t].pc = "open"
  /\ file' = [file EXCEPT ![task[t].id] = Torn]
  /\ Goto(t, "write")
  /\ UNCHANGED <<rows, temp, page, todo, used, events, hist>>

\* ... and writes, all or less; two writers at once leave either or a mixture.
WriteFile(t) ==
  LET p == task[t].id
  IN  /\ task[t].pc = "write"
      /\ \/ /\ Fail(t)
            /\ raced' = raced \cup {p} /\ UNCHANGED file
         \/ /\ \/ file' = [file EXCEPT ![p] = task[t].read]
               \/ Writing(p) # {t} /\ UNCHANGED file
            /\ Goto(t, IF task[t].kind = "content" THEN "commit" ELSE "clean")
            /\ UNCHANGED raced
      /\ UNCHANGED <<rows, temp, page, todo, used, events, deleted, lost>>

\* the finally of fetch, before its row is written, and of addByContent, after
Clean(t) ==
  /\ task[t].pc = "clean"
  /\ temp' = [temp EXCEPT ![task[t].id] = Absent]
  /\ \/ ~task[t].ok /\ GiveUp(t)
     \/ /\ task[t].ok
        /\ Goto(t, IF task[t].kind = "content" THEN "told" ELSE "commit")
        /\ UNCHANGED page
  /\ UNCHANGED <<rows, file, todo, used, events, hist>>

\* The database refuses, after the file was replaced.
Refuse(t) ==
  /\ raced' = raced \cup {task[t].id}
  /\ IF task[t].kind = "content" THEN Fail(t) /\ UNCHANGED page ELSE GiveUp(t)
  /\ UNCHANGED <<disk, todo, used, events, deleted, lost>>

\* Mutant of Commit: the edit inserts the row if it is not there.
CommitUpserts(t) ==
  LET p == task[t].id
      entry == [task[t].row EXCEPT !.info = task[t].no]
  IN  /\ task[t].pc = "commit"
      /\ rows' = IF task[t].insert \/ ~Exists(p) THEN Insert(p, entry)
                                                 ELSE EditInfo(p, task[t].no)
      /\ Goto(t, IF task[t].kind = "content" THEN "clean" ELSE "told")
      /\ UNCHANGED <<file, temp, page, todo, used, events, hist>>

\* Mutant of Commit: a new row does not make the others inactive.
CommitKeepsActive(t) ==
  LET p == task[t].id
  IN  /\ task[t].pc = "commit"
      /\ rows' = IF task[t].insert
                 THEN [rows EXCEPT ![p] = [task[t].row EXCEPT !.info = task[t].no]]
                 ELSE EditInfo(p, task[t].no)
      /\ Goto(t, IF task[t].kind = "content" THEN "clean" ELSE "told")
      /\ UNCHANGED <<file, temp, page, todo, used, events, hist>>

\* Mutant of Commit: the subscription columns are left out.
CommitForgetsInfo(t) ==
  LET p == task[t].id
  IN  /\ task[t].pc = "commit"
      /\ rows' = IF task[t].insert THEN Insert(p, task[t].row)
                                   ELSE EditInfo(p, rows[p].info)
      /\ Goto(t, IF task[t].kind = "content" THEN "clean" ELSE "told")
      /\ UNCHANGED <<file, temp, page, todo, used, events, hist>>

\* insert of a new profile, or edit of the subscription columns
Commit(t) ==
  LET p == task[t].id
      entry == [task[t].row EXCEPT !.info = task[t].no]
  IN  /\ task[t].pc = "commit"
      /\ \/ Refuse(t)
         \/ /\ rows' = IF task[t].insert THEN Insert(p, entry)
                                         ELSE EditInfo(p, task[t].no)
            /\ Goto(t, IF task[t].kind = "content" THEN "clean" ELSE "told")
            /\ UNCHANGED <<file, temp, page, todo, used, events, hist>>

\* patch: the whole row, as the page has it
Patch(t) ==
  LET p == task[t].id
  IN  /\ task[t].pc = "patch"
      /\ \/ Refuse(t)
         \/ /\ rows' = Edit(p, task[t].row)
            /\ Loses(rows[p].active # task[t].row.active)
            /\ Goto(t, "told")
            /\ UNCHANGED <<file, temp, page, todo, used, events, deleted, raced>>

\* setAsActive
SelectRow(t) ==
  LET p == task[t].id
  IN  /\ task[t].pc = "select"
      /\ rows' = Edit(p, [rows[p] EXCEPT !.active = TRUE])
      /\ Loses(~Exists(p))
      /\ End(t)
      /\ UNCHANGED <<file, temp, page, todo, used, events, deleted, raced>>

\* Mutant of DropRow: the file goes first.
DropFileFirst(t) ==
  /\ task[t].pc = "dropRow"
  /\ file' = [file EXCEPT ![task[t].id] = Absent]
  /\ Goto(t, "dropFile")
  /\ UNCHANGED <<rows, temp, page, todo, used, events, hist>>

\* deleteById: the row, then the file
DropRow(t) ==
  LET p == task[t].id
  IN  /\ task[t].pc = "dropRow"
      /\ rows' = [rows EXCEPT ![p] = NoRow]
      /\ Loses(rows[p].active)
      /\ deleted' = deleted \cup {p}
      /\ Goto(t, "dropFile")
      /\ UNCHANGED <<file, temp, page, todo, used, events, raced>>

DropFile(t) ==
  LET p == task[t].id
  IN  /\ task[t].pc = "dropFile"
      /\ \/ GiveUp(t) /\ UNCHANGED file
         \/ /\ file[p] # Absent /\ file' = [file EXCEPT ![p] = Absent]
            /\ Goto(t, "told") /\ UNCHANGED page
      /\ UNCHANGED <<rows, temp, todo, used, events, hist>>

\* The call has succeeded and says so; a page closes, or shows the new row.
Tell(t) ==
  /\ task[t].pc = "told"
  /\ End(t)
  /\ page' = IF ~FromPage(t) THEN page
             ELSE IF task[t].kind # "refresh" THEN NoPage
             ELSE [page EXCEPT !.state = "open",
                               !.row = IF Exists(page.id) THEN rows[page.id] ELSE @]
  /\ UNCHANGED <<disk, todo, used, events, hist>>

\* The process ends: what is on disk stays.
Crash ==
  /\ task' = [t \in Tasks |-> Idle]
  /\ page' = NoPage /\ todo' = {}
  /\ raced' = raced \cup {p \in Ids : \E t \in Tasks : Busy(t) /\ task[t].id = p}
  /\ UNCHANGED <<disk, used, events, deleted, lost>>

-----------------------------------------------------------------------------

Start(t) ==
  \/ \E u \in Urls : AddByUrl(t, u)
  \/ AddByContent(t) \/ Save(t) \/ Refresh(t) \/ DeleteFromPage(t)
  \/ \E p \in Ids : Update(t, p) \/ WorkerUpdates(t, p) \/ Select(t, p)
                      \/ Delete(t, p)

Advance(t) ==
  \/ Lookup(t) \/ Fetch(t) \/ Check(t) \/ OpenFile(t) \/ WriteFile(t)
  \/ Clean(t) \/ Commit(t) \/ Patch(t) \/ SelectRow(t) \/ DropRow(t)
  \/ DropFile(t) \/ Tell(t)

Next ==
  \/ \E t \in Tasks : Start(t) \/ Advance(t)
  \/ \E p \in Ids : OpenPage(p) \/ OpenNew(p) \/ WorkerSkips(p)
  \/ \E u \in Urls : EditUrl(u)
  \/ WorkerLists \/ ClosePage \/ Crash

Spec == Init /\ [][Next]_vars

-----------------------------------------------------------------------------
(* Properties.                                                              *)

\* A profile that is listed can be started: its file is there, whichever calls
\* interleave and wherever the process ends.  (A file without a row may stay.)
RowHasFile == \A p \in Ids : Exists(p) => file[p] # Absent

\* The file of a profile is whole, unless it is being written: a failed update
\* keeps the old one.  Two updates at once, a full disk or the end of the
\* process in the middle of the write can damage it.
FileIsWhole ==
  \A p \in Ids : file[p] = Torn => Writing(p) # {} \/ p \in raced

\* The row describes the file the profile runs with, once no call is at work on
\* it, unless two were together or one was cut off.
InfoOfFile ==
  \A p \in Ids :
    Remote(p) /\ p \notin raced /\ (\A t \in Tasks : task[t].id # p)
      => rows[p].info = file[p]

\* At most one profile is active.
OneActive ==
  \A p, q \in Ids : rows[p].active /\ rows[q].active => p = q

\* Where there are profiles one of them is active, until the active one is
\* deleted or a write based on a stale copy takes it away.
ActiveIsKept == (\E p \in Ids : Exists(p)) /\ ~lost => SomeActive

\* A deleted profile does not come back, though an update of it may be under way.
DeletedStaysDeleted == \A p \in deleted : ~Exists(p)

-----------------------------------------------------------------------------
(* What the program says and does not keep.                                 *)

\* "profile with same url already exists, updating": it need not be the same.
\* A url contained in that of another profile is never added.
AddedUrlIsThere ==
  \A t \in Tasks :
    task[t].pc = "told" /\ task[t].kind = "add" /\ task[t].id \notin deleted
      => \E p \in Ids : rows[p].url = task[t].row.url

\* "Profile saved successfully": a changed url is fetched from, but not saved.
SavedUrlIsKept ==
  \A t \in Tasks :
    task[t].pc = "told" /\ task[t].kind = "save" /\ task[t].id \notin deleted
      => rows[task[t].id].url = task[t].row.url
=============================================================================
