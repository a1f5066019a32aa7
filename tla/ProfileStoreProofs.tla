-------------------------- MODULE ProfileStoreProofs --------------------------
(***************************************************************************)
(* Proofs about ProfileStore: for any number of calls at once, a listed    *)
(* profile has its file, which is whole and which its row describes, one   *)
(* profile is active, and a deleted one does not come back.                *)
(***************************************************************************)
EXTENDS ProfileStore, TLAPS

\* A call that is about to insert a row, or has failed to and not yet ended.
Pending(t) ==
  /\ task[t].insert
  /\ \/ task[t].pc \in {"fetch", "check", "open", "write", "commit"}
     \/ task[t].pc = "clean" /\ (task[t].kind # "content" \/ ~task[t].ok)

\* The details page of a profile that has no row yet.
OnNewPage(p) == page.state = "open" /\ page.new /\ page.id = p

Unborn(p) == OnNewPage(p) \/ \E t \in Tasks : Pending(t) /\ task[t].id = p

OfPage(t) == task[t].kind \in {"save", "refresh", "delete"} /\ task[t].id = page.id

\* Where a call can be, and what it is then.
PlaceOfKind ==
  \A t \in Tasks :
    /\ task[t].pc \in {"idle", "select"} => task[t].kind = "select"
    /\ task[t].pc = "lookup" => task[t].kind = "add" /\ task[t].row.url \in Urls
    /\ task[t].pc \in {"idle", "lookup", "patch"} => ~task[t].insert
    /\ task[t].pc # "clean" => task[t].ok
    /\ task[t].pc \in {"open", "write"} => task[t].read \in Calls
    /\ task[t].pc = "dropFile" => task[t].id \in deleted

\* Ids are drawn before they are used.
Drawn ==
  /\ \A p \in Ids : Exists(p) => p \in used
  /\ deleted \subseteq used /\ todo \subseteq used
  /\ page.state # "closed" => page.id \in used
  /\ \A t \in Tasks : task[t].pc \notin {"idle", "lookup"} => task[t].id \in used

\* A profile that has no row yet never had one, and nobody else knows of it.
UnbornIsNew ==
  \A p \in Ids : Unborn(p) =>
    /\ ~Exists(p) /\ p \notin deleted
    /\ page.state # "closed" /\ ~page.new => page.id # p
    /\ \A t \in Tasks : task[t].pc = "dropRow" => task[t].id # p

\* ... and one call, or the page, is about to insert it.
OneInserts ==
  \A t \in Tasks : Pending(t) =>
    /\ ~OnNewPage(task[t].id)
    /\ \A u \in Tasks : Pending(u) /\ task[u].id = task[t].id => u = t

\* The page of a new profile waits for its one call, which inserts.
PageWaits ==
  page.new =>
    /\ page.state = "open" => \A t \in Tasks : ~OfPage(t)
    /\ page.state = "busy" =>
         \A t \in Tasks : OfPage(t) =>
           /\ task[t].kind = "save" /\ (Pending(t) \/ task[t].pc = "told")
           /\ \A u \in Tasks : OfPage(u) => u = t

\* Files are there before their rows.
FileComesFirst ==
  \A t \in Tasks :
    Pending(t) /\ task[t].ok /\ task[t].pc \in {"write", "commit", "clean"}
      => file[task[t].id] # Absent

\* What is inserted or written back is a row; the first profile is made active.
RowsAreRows ==
  /\ \A p \in Ids : rows[p].active => Exists(p)
  /\ page.state # "closed" => /\ page.row.url # "none"
                              /\ page.new => page.row.active
  /\ \A t \in Tasks :
       Pending(t) \/ task[t].pc \in {"lookup", "patch"} =>
         /\ task[t].row.url # "none"
         /\ ~lost /\ ~task[t].row.active /\ task[t].pc # "patch" => SomeActive

StoreInv ==
  /\ TypeOK /\ PlaceOfKind /\ Drawn /\ UnbornIsNew /\ OneInserts /\ PageWaits
  /\ FileComesFirst /\ RowsAreRows
  /\ OneActive /\ ActiveIsKept /\ DeletedStaysDeleted /\ RowHasFile /\ FileIsWhole

-----------------------------------------------------------------------------
(* The type invariant.                                                      *)

LEMMA IdleType == Idle \in Task /\ NoRow \in Row /\ NoPage \in Page
  BY BoundAssumption DEF Idle, Task, Places, Kinds, NoRow, Row, NoPage, Page, Contents

LEMMA ContentTypes ==
  /\ Torn \in Contents /\ Absent \in Contents /\ Absent \in 0 .. MaxEvents
  /\ 0 .. MaxEvents \subseteq Contents /\ Torn # Absent
  /\ Torn \notin Calls /\ Absent \notin Calls
  /\ \A n \in 0 .. MaxEvents : n # Absent => n \in Calls
  BY BoundAssumption DEF Torn, Absent, Contents, Calls

\* A call that begins.
LEMMA CallType ==
  ASSUME NEW kind \in Kinds, NEW pc \in Places, NEW p \in Ids \cup {"nil"},
         NEW r \in Row
  PROVE  /\ Call(kind, pc, p, r) \in Task
         /\ [Call(kind, pc, p, r) EXCEPT !.insert = TRUE] \in Task
  BY IdleType DEF Call, Task

LEMMA BeginType ==
  ASSUME TypeOK, NEW t \in Tasks, NEW rec \in Task, Begin(t, rec)
  PROVE  task' \in [Tasks -> Task] /\ events' \in 0 .. MaxEvents
<1>1. events + 1 \in 0 .. MaxEvents
  BY BoundAssumption DEF Begin, TypeOK
<1>2. [rec EXCEPT !.no = events + 1] \in Task
  BY <1>1 DEF Task
<1>3. QED
  BY <1>1, <1>2 DEF Begin, TypeOK

LEMMA GotoType ==
  ASSUME TypeOK, NEW t \in Tasks, NEW l \in Places, Goto(t, l)
  PROVE  task' \in [Tasks -> Task]
  BY DEF TypeOK, Goto, Task

LEMMA FailType ==
  ASSUME TypeOK, NEW t \in Tasks, Fail(t)
  PROVE  task' \in [Tasks -> Task]
<1>1. [task[t] EXCEPT !.pc = "clean", !.ok = FALSE] \in Task
  <2>1. task[t] \in Task /\ "clean" \in Places
    BY DEF TypeOK, Places
  <2>2. QED
    BY <2>1 DEF Task
<1>2. QED
  BY <1>1 DEF TypeOK, Fail

LEMMA EndType ==
  ASSUME TypeOK, NEW t \in Tasks, End(t)
  PROVE  task' \in [Tasks -> Task]
  BY IdleType DEF TypeOK, End

LEMMA GiveUpType ==
  ASSUME TypeOK, NEW t \in Tasks, GiveUp(t)
  PROVE  task' \in [Tasks -> Task] /\ page' \in Page
  BY EndType DEF TypeOK, GiveUp, Page

LEMMA RacesType ==
  ASSUME TypeOK, NEW p \in Ids, Races(p)
  PROVE  raced' \subseteq Ids
  BY DEF TypeOK, Races

LEMMA LosesType ==
  ASSUME TypeOK, NEW cause \in BOOLEAN, Loses(cause)
  PROVE  lost' \in BOOLEAN
  BY DEF TypeOK, Loses

\* The table.
LEMMA TableType ==
  ASSUME TypeOK, NEW p \in Ids, NEW r \in Row, NEW n \in 0 .. MaxEvents
  PROVE  /\ Insert(p, r) \in [Ids -> Row]
         /\ Edit(p, r) \in [Ids -> Row]
         /\ EditInfo(p, n) \in [Ids -> Row]
<1>1. Deactivated(r) \in [Ids -> Row]
  BY DEF TypeOK, Deactivated, Row
<1>2. Insert(p, r) \in [Ids -> Row]
  BY <1>1 DEF Insert
<1>3. [rows[p] EXCEPT !.info = n] \in Row
  BY DEF TypeOK, Row
<1>4. EditInfo(p, n) \in [Ids -> Row]
  BY <1>3 DEF TypeOK, EditInfo
<1>5. QED
  BY <1>1, <1>2, <1>4 DEF Edit

LEMMA TaskTypes ==
  ASSUME TypeOK, NEW t \in Tasks
  PROVE  /\ task[t] \in Task
         /\ task[t].row \in Row /\ task[t].no \in 0 .. MaxEvents
         /\ task[t].read \in Contents /\ task[t].pc \in Places
         /\ task[t].kind \in Kinds /\ task[t].id \in Ids \cup {"nil"}
         /\ task[t].insert \in BOOLEAN /\ task[t].ok \in BOOLEAN
         /\ [task[t].row EXCEPT !.info = task[t].no] \in Row
  BY SMTT(30) DEF TypeOK, Task, Row

\* A call past its look-up works on a profile.
LEMMA WorksOnProfile ==
  ASSUME TypeOK, Drawn, NEW t \in Tasks, task[t].pc \notin {"idle", "lookup"}
  PROVE  task[t].id \in Ids /\ task[t].id \in used
  BY DEF TypeOK, Drawn

LEMMA StartType ==
  ASSUME TypeOK, Drawn, NEW t \in Tasks, Start(t)
  PROVE  TypeOK'
<1> USE DEF disk, hist
<1>0. {"idle", "lookup", "fetch", "dropRow", "patch", "select"} \subseteq Places
  /\ Kinds = {"add", "content", "save", "update", "worker", "refresh", "delete",
              "select"}
  BY DEF Places, Kinds
<1>1. ASSUME NEW u \in Urls, AddByUrl(t, u) PROVE TypeOK'
  <2>1. PICK mark \in BOOLEAN :
          Begin(t, Call("add", "lookup", "nil",
                        [url |-> u, active |-> mark, info |-> 0]))
    BY <1>1 DEF AddByUrl
  <2>2. [url |-> u, active |-> mark, info |-> 0] \in Row
    BY BoundAssumption DEF Row
  <2>3. task' \in [Tasks -> Task] /\ events' \in 0 .. MaxEvents
    BY <2>1, <2>2, <1>0, CallType, BeginType
  <2>4. QED
    BY <2>3, <1>1 DEF AddByUrl, TypeOK
<1>2. ASSUME AddByContent(t) PROVE TypeOK'
  <2>1. PICK mark \in BOOLEAN, p \in Ids \ used :
          /\ used' = used \cup {p}
          /\ Begin(t, [Call("content", "fetch", p,
                            [url |-> "local", active |-> mark, info |-> 0])
                         EXCEPT !.insert = TRUE])
    BY <1>2 DEF AddByContent
  <2>2. [url |-> "local", active |-> mark, info |-> 0] \in Row
    BY BoundAssumption DEF Row
  <2>3. task' \in [Tasks -> Task] /\ events' \in 0 .. MaxEvents
    BY <2>1, <2>2, <1>0, CallType, BeginType
  <2>4. QED
    BY <2>1, <2>3, <1>2 DEF AddByContent, TypeOK
<1>3. ASSUME Save(t) PROVE TypeOK'
  <2>1. page.row \in Row /\ page.id \in Ids \cup {"nil"} /\ page' \in Page
    BY <1>3 DEF Save, TypeOK, Page
  <2>2. Call("save", "fetch", page.id, page.row) \in Task
    BY <2>1, <1>0, CallType
  <2>3. /\ [Call("save", "fetch", page.id, page.row) EXCEPT !.insert = TRUE] \in Task
        /\ [Call("save", "fetch", page.id, page.row) EXCEPT !.pc = "patch"] \in Task
    BY <2>2, <1>0 DEF Task
  <2>4. task' \in [Tasks -> Task] /\ events' \in 0 .. MaxEvents
    BY <2>2, <2>3, <1>3, BeginType DEF Save
  <2>5. QED
    BY <2>1, <2>4, <1>3 DEF Save, TypeOK
<1>4. ASSUME Refresh(t) \/ DeleteFromPage(t) PROVE TypeOK'
  <2>1. page.row \in Row /\ page.id \in Ids \cup {"nil"} /\ page' \in Page
    BY <1>4 DEF Refresh, DeleteFromPage, TypeOK, Page
  <2>2. task' \in [Tasks -> Task] /\ events' \in 0 .. MaxEvents
    BY <2>1, <1>4, <1>0, CallType, BeginType DEF Refresh, DeleteFromPage
  <2>3. QED
    BY <2>1, <2>2, <1>4 DEF Refresh, DeleteFromPage, TypeOK
<1>5. ASSUME NEW p \in Ids, Update(t, p) \/ WorkerUpdates(t, p) \/ Select(t, p)
                            \/ Delete(t, p)
      PROVE  TypeOK'
  <2>1. rows[p] \in Row
    BY DEF TypeOK
  <2>2. task' \in [Tasks -> Task] /\ events' \in 0 .. MaxEvents
    BY <2>1, <1>5, <1>0, IdleType, CallType, BeginType
    DEF Update, WorkerUpdates, Select, Delete
  <2>3. raced' \subseteq Ids
    BY <1>5, RacesType DEF Update, WorkerUpdates, Select, Delete, TypeOK
  <2>4. QED
    BY <2>2, <2>3, <1>5 DEF Update, WorkerUpdates, Select, Delete, TypeOK
<1>6. QED
  BY <1>1, <1>2, <1>3, <1>4, <1>5 DEF Start

LEMMA AdvanceType ==
  ASSUME TypeOK, Drawn, NEW t \in Tasks, Advance(t)
  PROVE  TypeOK'
<1> USE DEF disk, hist
<1>0. /\ {"idle", "fetch", "check", "open", "write", "clean", "commit", "told",
          "dropFile"} \subseteq Places
      /\ task[t] \in Task /\ task \in [Tasks -> Task]
  BY TaskTypes DEF Places, TypeOK
<1>1. ASSUME Lookup(t) PROVE TypeOK'
  <2>1. \A p \in Ids : /\ [task[t] EXCEPT !.pc = "fetch", !.id = p] \in Task
                       /\ [task[t] EXCEPT !.pc = "fetch", !.id = p, !.insert = TRUE]
                            \in Task
    BY <1>0 DEF Task
  <2>2. ASSUME NEW p \in Ids, Races(p), UNCHANGED used,
               task' = [task EXCEPT ![t].pc = "fetch", ![t].id = p]
        PROVE  TypeOK'
    <3>1. task' \in [Tasks -> Task]
      BY <1>0, <2>1, <2>2
    <3>2. QED
      BY <3>1, <2>2, <1>1, RacesType DEF Lookup, TypeOK
  <2>3. ASSUME NEW p \in Ids, used' = used \cup {p}, UNCHANGED raced,
               task' = [task EXCEPT ![t].pc = "fetch", ![t].id = p,
                                    ![t].insert = TRUE]
        PROVE  TypeOK'
    <3>1. task' \in [Tasks -> Task]
      BY <1>0, <2>1, <2>3
    <3>2. QED
      BY <3>1, <2>3, <1>1 DEF Lookup, TypeOK
  <2>4. QED
    BY <2>2, <2>3, <1>1 DEF Lookup
<1>2. ASSUME Fetch(t) PROVE TypeOK'
  <2>1. task' \in [Tasks -> Task]
    BY <1>0, <1>2, FailType, GotoType DEF Fetch
  <2>2. temp' \in [Ids -> 0 .. MaxEvents]
    BY <1>2, TaskTypes DEF Fetch, TypeOK
  <2>3. QED
    BY <2>1, <2>2, <1>2 DEF Fetch, TypeOK
<1>3. ASSUME Check(t) PROVE TypeOK'
  <2>1. task[t].id \in Ids
    BY <1>3, WorksOnProfile DEF Check
  <2>2. [task[t] EXCEPT !.pc = "open", !.read = temp[task[t].id]] \in Task
    BY <1>0, <2>1, ContentTypes DEF Task, TypeOK
  <2>3. task' \in [Tasks -> Task]
    BY <1>0, <2>2, <1>3, FailType DEF Check, TypeOK
  <2>4. QED
    BY <2>3, <1>3 DEF Check, TypeOK
<1>4. ASSUME OpenFile(t) PROVE TypeOK'
  BY <1>0, <1>4, ContentTypes, GotoType DEF OpenFile, TypeOK
<1>5. ASSUME WriteFile(t) PROVE TypeOK'
  <2>1. task[t].id \in Ids
    BY <1>5, WorksOnProfile DEF WriteFile
  <2>2. task' \in [Tasks -> Task]
    BY <1>0, <1>5, FailType, GotoType DEF WriteFile
  <2>3. QED
    BY <2>1, <2>2, <1>5, TaskTypes DEF WriteFile, TypeOK
<1>6. ASSUME Clean(t) PROVE TypeOK'
  <2>1. task' \in [Tasks -> Task] /\ page' \in Page
    BY <1>0, <1>6, GiveUpType, GotoType DEF Clean, TypeOK
  <2>2. QED
    BY <2>1, <1>6, ContentTypes DEF Clean, TypeOK
<1>7. ASSUME Commit(t) \/ Patch(t), Refuse(t) PROVE TypeOK'
  <2>1. task[t].id \in Ids
    BY <1>7, WorksOnProfile DEF Commit, Patch
  <2>2. task' \in [Tasks -> Task] /\ page' \in Page
    BY <1>7, FailType, GiveUpType DEF Refuse, TypeOK
  <2>3. QED
    BY <2>1, <2>2, <1>7 DEF Refuse, TypeOK
<1>8. ASSUME Commit(t), ~Refuse(t) PROVE TypeOK'
  <2>1. task[t].id \in Ids
    BY <1>8, WorksOnProfile DEF Commit
  <2>2. rows' \in [Ids -> Row]
    BY <2>1, <1>8, TaskTypes, TableType DEF Commit
  <2>3. task' \in [Tasks -> Task]
    BY <1>0, <1>8, GotoType DEF Commit
  <2>4. QED
    BY <2>2, <2>3, <1>8 DEF Commit, TypeOK
<1>9. ASSUME Patch(t), ~Refuse(t) PROVE TypeOK'
  <2>1. task[t].id \in Ids
    BY <1>9, WorksOnProfile DEF Patch
  <2>2. rows' \in [Ids -> Row]
    BY <2>1, <1>9, TaskTypes, TableType, BoundAssumption DEF Patch
  <2>3. task' \in [Tasks -> Task] /\ lost' \in BOOLEAN
    BY <1>0, <1>9, GotoType, LosesType DEF Patch
  <2>4. QED
    BY <2>2, <2>3, <1>9 DEF Patch, TypeOK
<1>10. ASSUME SelectRow(t) PROVE TypeOK'
  <2>1. task[t].id \in Ids
    BY <1>10, WorksOnProfile DEF SelectRow
  <2>2. [rows[task[t].id] EXCEPT !.active = TRUE] \in Row
    <3>1. rows[task[t].id] \in Row
      BY <2>1 DEF TypeOK
    <3>2. QED
      BY <3>1 DEF Row
  <2>3. rows' \in [Ids -> Row]
    BY <2>1, <2>2, <1>10, TableType, ContentTypes DEF SelectRow
  <2>4. task' \in [Tasks -> Task] /\ lost' \in BOOLEAN
    BY <1>10, EndType, LosesType DEF SelectRow
  <2>5. QED
    BY <2>3, <2>4, <1>10 DEF SelectRow, TypeOK
<1>11. ASSUME DropRow(t) PROVE TypeOK'
  <2>1. task[t].id \in Ids
    BY <1>11, WorksOnProfile DEF DropRow
  <2>2. rows[task[t].id].active \in BOOLEAN
    BY <2>1 DEF TypeOK, Row
  <2>3. task' \in [Tasks -> Task] /\ lost' \in BOOLEAN
    BY <1>0, <2>2, <1>11, GotoType, LosesType DEF DropRow
  <2>4. QED
    BY <2>1, <2>3, <1>11, IdleType DEF DropRow, TypeOK
<1>12. ASSUME DropFile(t) PROVE TypeOK'
  <2>1. task' \in [Tasks -> Task] /\ page' \in Page
    BY <1>0, <1>12, GiveUpType, GotoType DEF DropFile, TypeOK
  <2>2. QED
    BY <2>1, <1>12, ContentTypes DEF DropFile, TypeOK
<1>13. ASSUME Tell(t) PROVE TypeOK'
  <2>1. task' \in [Tasks -> Task]
    BY <1>13, EndType DEF Tell
  <2>2. FromPage(t) => rows[page.id] \in Row
    BY <1>13, WorksOnProfile DEF Tell, FromPage, TypeOK
  <2>3. CASE ~(FromPage(t) /\ task[t].kind = "refresh")
    <3>1. page' \in {page, NoPage}
      BY <2>3, <1>13 DEF Tell
    <3>2. QED
      BY <2>1, <3>1, <1>13, IdleType DEF Tell, TypeOK
  <2>4. CASE FromPage(t) /\ task[t].kind = "refresh"
    <3>1. page' \in Page
      BY <2>2, <2>4, <1>13 DEF Tell, TypeOK, Page
    <3>2. QED
      BY <2>1, <3>1, <1>13 DEF Tell, TypeOK
  <2>5. QED
    BY <2>3, <2>4
<1>14. QED
  BY <1>1, <1>2, <1>3, <1>4, <1>5, <1>6, <1>7, <1>8, <1>9, <1>10, <1>11, <1>12,
     <1>13 DEF Advance

LEMMA TypeStep ==
  ASSUME TypeOK, Drawn, [Next]_vars
  PROVE  TypeOK'
<1> USE DEF disk, hist
<1>1. ASSUME NEW t \in Tasks, Start(t) \/ Advance(t) PROVE TypeOK'
  BY <1>1, StartType, AdvanceType
<1>2. ASSUME NEW p \in Ids, OpenPage(p) PROVE TypeOK'
  <2>1. page' \in Page
    BY <1>2 DEF OpenPage, TypeOK, Page, Row
  <2>2. QED
    BY <2>1, <1>2, RacesType DEF OpenPage, TypeOK
<1>3. ASSUME NEW p \in Ids, OpenNew(p) PROVE TypeOK'
  <2>1. page' \in Page
    BY <1>3, BoundAssumption DEF OpenNew, Page, Row
  <2>2. QED
    BY <2>1, <1>3 DEF OpenNew, TypeOK
<1>4. ASSUME NEW u \in Urls, EditUrl(u) PROVE TypeOK'
  <2>1. page' \in Page
    BY <1>4 DEF EditUrl, TypeOK, Page, Row
  <2>2. QED
    BY <2>1, <1>4 DEF EditUrl, TypeOK
<1>5. ASSUME (\E p \in Ids : WorkerSkips(p)) \/ WorkerLists \/ ClosePage PROVE TypeOK'
  BY <1>5, IdleType DEF WorkerSkips, WorkerLists, ClosePage, TypeOK
<1>6. ASSUME Crash PROVE TypeOK'
  BY <1>6, IdleType DEF Crash, TypeOK
<1>7. CASE UNCHANGED vars
  BY <1>7 DEF vars, TypeOK
<1>8. QED
  BY <1>1, <1>2, <1>3, <1>4, <1>5, <1>6, <1>7 DEF Next

-----------------------------------------------------------------------------
(* What a step does to calls and to the page.                               *)

\* Call t goes on, with what it was called with.
GoesOn(t) ==
  /\ \A u \in Tasks : u # t => task'[u] = task[u]
  /\ task[t].pc \notin {"idle", "lookup", "told"}
  /\ task'[t].pc \notin {"idle", "lookup", "patch", "fetch", "dropRow"}
  /\ task'[t].id = task[t].id /\ task'[t].kind = task[t].kind
  /\ task'[t].row = task[t].row /\ task'[t].insert = task[t].insert
  /\ UNCHANGED <<page, todo, used>>

\* Call t ends; its page opens again, or closes, or takes the row.
Ends(t) ==
  /\ \A u \in Tasks : u # t => task'[u] = task[u]
  /\ task[t].pc \notin {"idle", "lookup"} /\ task'[t] = Idle
  /\ UNCHANGED <<todo, used>>
  /\ \/ ~FromPage(t) /\ UNCHANGED page
     \/ FromPage(t) /\ task[t].pc # "told" /\ page' = [page EXCEPT !.state = "open"]
     \/ FromPage(t) /\ page' = NoPage
     \/ /\ FromPage(t) /\ task[t].pc = "told" /\ task[t].kind = "refresh"
        /\ \E r \in Row : /\ page' = [page EXCEPT !.state = "open", !.row = r]
                          /\ r.url # "none" \/ r = page.row

\* Call t begins: the addition of a url, of a content, one from the page, or one
\* from elsewhere, which deletes only while no page is open.
BeginsUrl(t) ==
  /\ task'[t].pc = "lookup" /\ task'[t].kind = "add" /\ ~task'[t].insert
  /\ task'[t].row.url \in Urls /\ (SomeActive \/ task'[t].row.active)
  /\ UNCHANGED <<page, todo, used>>

BeginsContent(t) ==
  /\ task'[t].pc = "fetch" /\ task'[t].kind = "content" /\ task'[t].insert
  /\ task'[t].id \in Ids \ used /\ used' = used \cup {task'[t].id}
  /\ task'[t].row.url # "none" /\ (SomeActive \/ task'[t].row.active)
  /\ UNCHANGED <<page, todo>>

BeginsOfPage(t) ==
  /\ page.state = "open" /\ page' = [page EXCEPT !.state = "busy"]
  /\ task'[t].kind \in {"save", "refresh", "delete"}
  /\ task'[t].id = page.id /\ task'[t].row = page.row
  /\ task'[t].insert <=> page.new
  /\ page.new => task'[t].pc = "fetch" /\ task'[t].kind = "save"
  /\ task'[t].pc \in {"fetch", "patch", "dropRow"}
  /\ UNCHANGED <<todo, used>>

BeginsElsewhere(t) ==
  /\ task'[t].kind \in {"update", "worker", "select", "delete"} /\ ~task'[t].insert
  /\ task'[t].id \in used /\ task'[t].pc \in {"fetch", "select", "dropRow"}
  /\ task'[t].pc = "select" => task'[t].kind = "select"
  /\ task'[t].kind = "delete" => page.state = "closed"
  /\ task'[t].pc = "dropRow" => Exists(task'[t].id)
  /\ todo' \subseteq todo /\ UNCHANGED <<page, used>>

Begins(t) ==
  /\ \A u \in Tasks : u # t => task'[u] = task[u]
  /\ task[t].pc = "idle" /\ task'[t].ok
  /\ UNCHANGED <<rows, file, deleted, lost>>
  /\ BeginsUrl(t) \/ BeginsContent(t) \/ BeginsOfPage(t) \/ BeginsElsewhere(t)

LEMMA GotoGoesOn ==
  ASSUME TypeOK, NEW t \in Tasks, NEW l, Goto(t, l)
  PROVE  /\ \A u \in Tasks : u # t => task'[u] = task[u]
         /\ task'[t].pc = l /\ task'[t].id = task[t].id /\ task'[t].kind = task[t].kind
         /\ task'[t].row = task[t].row /\ task'[t].insert = task[t].insert
         /\ task'[t].ok = task[t].ok /\ task'[t].read = task[t].read
  BY DEF TypeOK, Goto, Task

LEMMA FailGoesOn ==
  ASSUME TypeOK, NEW t \in Tasks, Fail(t)
  PROVE  /\ \A u \in Tasks : u # t => task'[u] = task[u]
         /\ task'[t].pc = "clean" /\ task'[t].id = task[t].id
         /\ task'[t].kind = task[t].kind
         /\ task'[t].row = task[t].row /\ task'[t].insert = task[t].insert
         /\ ~task'[t].ok
  BY DEF TypeOK, Fail, Task

LEMMA GiveUpEnds ==
  ASSUME TypeOK, NEW t \in Tasks, GiveUp(t), UNCHANGED <<todo, used>>,
         task[t].pc \notin {"idle", "lookup", "told"}
  PROVE  Ends(t)
  BY DEF TypeOK, GiveUp, End, Ends

LEMMA TellEnds ==
  ASSUME TypeOK, Drawn, NEW t \in Tasks, Tell(t)
  PROVE  Ends(t)
<1>1. /\ \A u \in Tasks : u # t => task'[u] = task[u]
      /\ task[t].pc = "told" /\ task'[t] = Idle
      /\ UNCHANGED <<todo, used>>
  BY DEF Tell, End, TypeOK
<1>2. CASE ~FromPage(t)
  BY <1>1, <1>2 DEF Tell, Ends
<1>3. CASE FromPage(t) /\ task[t].kind # "refresh"
  BY <1>1, <1>3 DEF Tell, Ends
<1>4. CASE FromPage(t) /\ task[t].kind = "refresh"
  <2>1. page.id \in Ids
    BY <1>1, <1>4, WorksOnProfile DEF FromPage
  <2>2. rows[page.id] \in Row /\ page.row \in Row /\ page \in Page
    BY <2>1 DEF TypeOK, Page
  <2>3. CASE Exists(page.id)
    <3>1. page' = [page EXCEPT !.state = "open", !.row = rows[page.id]]
      BY <2>3, <1>1, <1>4 DEF Tell
    <3>2. QED
      BY <2>2, <2>3, <3>1, <1>1, <1>4 DEF Ends, Exists
  <2>4. CASE ~Exists(page.id)
    <3>1. page' = [page EXCEPT !.state = "open", !.row = page.row]
      BY <2>4, <1>1, <1>4 DEF Tell
    <3>2. QED
      BY <2>2, <3>1, <1>1, <1>4 DEF Ends
  <2>5. QED
    BY <2>3, <2>4
<1>5. QED
  BY <1>2, <1>3, <1>4

\* What each call is after a step of it other than a look-up.
LEMMA AdvanceSteps ==
  ASSUME TypeOK, Drawn, PlaceOfKind, NEW t \in Tasks, Advance(t), ~Lookup(t)
  PROVE  GoesOn(t) \/ Ends(t)
<1> USE DEF disk, hist
<1>1. CASE Fetch(t) \/ OpenFile(t) \/ DropRow(t)
  BY <1>1, GotoGoesOn, FailGoesOn DEF Fetch, OpenFile, DropRow, GoesOn
<1>2. CASE Check(t)
  <2>1. CASE Fail(t)
    BY <2>1, <1>2, FailGoesOn DEF Check, GoesOn
  <2>2. CASE task' = [task EXCEPT ![t].pc = "open", ![t].read = temp[task[t].id]]
    BY <2>2, <1>2 DEF Check, GoesOn, TypeOK, Task
  <2>3. QED
    BY <1>2, <2>1, <2>2 DEF Check
<1>3. CASE WriteFile(t)
  BY <1>3, GotoGoesOn, FailGoesOn DEF WriteFile, GoesOn
<1>4. CASE Clean(t)
  BY <1>4, GotoGoesOn, GiveUpEnds DEF Clean, GoesOn
<1>5. CASE (Commit(t) \/ Patch(t)) /\ Refuse(t)
  BY <1>5, FailGoesOn, GiveUpEnds DEF Commit, Patch, Refuse, GoesOn
<1>6. CASE Commit(t) /\ ~Refuse(t)
  BY <1>6, GotoGoesOn DEF Commit, GoesOn
<1>7. CASE Patch(t) /\ ~Refuse(t)
  BY <1>7, GotoGoesOn DEF Patch, GoesOn
<1>8. CASE SelectRow(t)
  <2>1. ~FromPage(t)
    BY <1>8 DEF SelectRow, FromPage, PlaceOfKind
  <2>2. QED
    BY <1>8, <2>1 DEF SelectRow, End, Ends, TypeOK
<1>9. CASE DropFile(t)
  BY <1>9, GotoGoesOn, GiveUpEnds DEF DropFile, GoesOn
<1>10. CASE Tell(t)
  BY <1>10, TellEnds
<1>11. QED
  BY <1>1, <1>2, <1>3, <1>4, <1>5, <1>6, <1>7, <1>8, <1>9, <1>10 DEF Advance

LEMMA BeginRecord ==
  ASSUME TypeOK, NEW t \in Tasks, NEW rec \in Task, Begin(t, rec)
  PROVE  /\ \A u \in Tasks : u # t => task'[u] = task[u]
         /\ task[t].pc = "idle"
         /\ task'[t].pc = rec.pc /\ task'[t].kind = rec.kind
         /\ task'[t].id = rec.id /\ task'[t].row = rec.row
         /\ task'[t].insert = rec.insert /\ task'[t].ok = rec.ok
  BY DEF TypeOK, Begin, Task

\* ... of a call as Call gives it.
LEMMA CallRecord ==
  ASSUME NEW kind \in Kinds, NEW pc \in Places, NEW p \in Ids \cup {"nil"},
         NEW r \in Row
  PROVE  /\ Call(kind, pc, p, r) \in Task
         /\ Call(kind, pc, p, r).pc = pc /\ Call(kind, pc, p, r).kind = kind
         /\ Call(kind, pc, p, r).id = p /\ Call(kind, pc, p, r).row = r
         /\ ~Call(kind, pc, p, r).insert /\ Call(kind, pc, p, r).ok
  BY CallType DEF Call, Idle

LEMMA StartSteps ==
  ASSUME TypeOK, Drawn, NEW t \in Tasks, Start(t)
  PROVE  Begins(t)
<1> USE DEF disk, hist
<1>0. /\ {"idle", "lookup", "fetch", "dropRow", "patch", "select"} \subseteq Places
      /\ {"add", "content", "save", "update", "worker", "refresh", "delete", "select"}
           \subseteq Kinds
      /\ \A p \in Ids : rows[p] \in Row
  BY DEF Places, Kinds, TypeOK
<1>1. ASSUME NEW u \in Urls, AddByUrl(t, u) PROVE Begins(t)
  <2> DEFINE row(mark) == [url |-> u, active |-> mark, info |-> 0]
             rec(mark) == Call("add", "lookup", "nil", row(mark))
  <2>1. PICK mark \in BOOLEAN : (SomeActive \/ mark) /\ Begin(t, rec(mark))
    BY <1>1 DEF AddByUrl
  <2>2. row(mark) \in Row /\ row(mark).url \in Urls /\ row(mark).active = mark
    BY BoundAssumption DEF Row
  <2> HIDE DEF row
  <2>3. /\ rec(mark) \in Task /\ rec(mark).pc = "lookup" /\ rec(mark).kind = "add"
        /\ rec(mark).row = row(mark) /\ ~rec(mark).insert /\ rec(mark).ok
    BY <1>0, <2>2, CallRecord
  <2> HIDE DEF rec
  <2>4. QED
    BY <2>1, <2>2, <2>3, <1>1, BeginRecord DEF AddByUrl, Begins, BeginsUrl
<1>2. ASSUME AddByContent(t) PROVE Begins(t)
  <2> DEFINE row(mark) == [url |-> "local", active |-> mark, info |-> 0]
             rec(mark, p) == [Call("content", "fetch", p, row(mark)) EXCEPT !.insert = TRUE]
  <2>1. PICK mark \in BOOLEAN, p \in Ids \ used :
          (SomeActive \/ mark) /\ used' = used \cup {p} /\ Begin(t, rec(mark, p))
    BY <1>2 DEF AddByContent
  <2>2. row(mark) \in Row /\ row(mark).url # "none" /\ row(mark).active = mark
    BY BoundAssumption DEF Row
  <2> HIDE DEF row
  <2>3. rec(mark, p) \in Task /\ rec(mark, p).insert
    BY <1>0, <2>2, CallType DEF Task
  <2>4. /\ rec(mark, p).pc = "fetch" /\ rec(mark, p).kind = "content"
        /\ rec(mark, p).id = p /\ rec(mark, p).row = row(mark) /\ rec(mark, p).ok
    <3>1. Call("content", "fetch", p, row(mark)) \in Task
      BY <1>0, <2>2, CallRecord
    <3>2. QED
      BY <1>0, <2>2, <3>1, CallRecord DEF Task
  <2> HIDE DEF rec
  <2>5. QED
    BY <2>1, <2>2, <2>3, <2>4, <1>2, BeginRecord DEF AddByContent, Begins, BeginsContent
<1>3. ASSUME Save(t) PROVE Begins(t)
  <2> DEFINE rec == Call("save", "fetch", page.id, page.row)
  <2>1. /\ page.row \in Row /\ page.id \in Ids \cup {"nil"} /\ page.new \in BOOLEAN
        /\ page.state = "open" /\ page' = [page EXCEPT !.state = "busy"]
    BY <1>3 DEF Save, TypeOK, Page
  <2>2. /\ rec \in Task /\ rec.pc = "fetch" /\ rec.kind = "save"
        /\ rec.id = page.id /\ rec.row = page.row /\ ~rec.insert /\ rec.ok
    BY <1>0, <2>1, CallRecord
  <2>3. CASE page.new /\ Begin(t, [rec EXCEPT !.insert = TRUE])
    <3> DEFINE ins == [rec EXCEPT !.insert = TRUE]
    <3>1. /\ ins \in Task /\ ins.pc = "fetch" /\ ins.kind = "save"
          /\ ins.id = page.id /\ ins.row = page.row /\ ins.insert /\ ins.ok
      BY <2>2 DEF Task
    <3> HIDE DEF ins, rec
    <3>2. Begin(t, ins)
      BY <2>3 DEF ins
    <3>3. QED
      BY <2>1, <2>3, <3>1, <3>2, <1>3, BeginRecord DEF Save, Begins, BeginsOfPage
  <2>4. CASE ~page.new /\ Begin(t, [rec EXCEPT !.pc = "patch"])
    <3> DEFINE pat == [rec EXCEPT !.pc = "patch"]
    <3>1. /\ pat \in Task /\ pat.pc = "patch" /\ pat.kind = "save"
          /\ pat.id = page.id /\ pat.row = page.row /\ ~pat.insert /\ pat.ok
      BY <1>0, <2>2 DEF Task
    <3> HIDE DEF pat, rec
    <3>2. Begin(t, pat)
      BY <2>4 DEF pat
    <3>3. QED
      BY <2>1, <2>4, <3>1, <3>2, <1>3, BeginRecord DEF Save, Begins, BeginsOfPage
  <2>5. CASE ~page.new /\ Begin(t, rec)
    <3> HIDE DEF rec
    <3>1. QED
      BY <2>1, <2>2, <2>5, <1>3, BeginRecord DEF Save, Begins, BeginsOfPage
  <2>6. QED
    BY <1>3, <2>3, <2>4, <2>5 DEF Save
<1>4. ASSUME NEW kind \in {"refresh", "delete"}, NEW pc \in {"fetch", "dropRow"},
             page.state = "open", ~page.new, page' = [page EXCEPT !.state = "busy"],
             Begin(t, Call(kind, pc, page.id, page.row)),
             UNCHANGED <<disk, todo, used, hist>>
      PROVE  Begins(t)
  <2> DEFINE rec == Call(kind, pc, page.id, page.row)
  <2>1. page.row \in Row /\ page.id \in Ids \cup {"nil"}
    BY DEF TypeOK, Page
  <2>2. /\ rec \in Task /\ rec.pc = pc /\ rec.kind = kind
        /\ rec.id = page.id /\ rec.row = page.row /\ ~rec.insert /\ rec.ok
    BY <1>0, <2>1, CallRecord
  <2> HIDE DEF rec
  <2>3. Begin(t, rec)
    BY <1>4 DEF rec
  <2>4. QED
    BY <1>4, <2>2, <2>3, BeginRecord DEF Begins, BeginsOfPage
<1>5. ASSUME Refresh(t) \/ DeleteFromPage(t) PROVE Begins(t)
  BY <1>4, <1>5 DEF Refresh, DeleteFromPage
<1>6. ASSUME NEW kind \in {"update", "worker", "select", "delete"},
             NEW pc \in {"fetch", "select", "dropRow"}, NEW p \in Ids, NEW r \in Row,
             Begin(t, Call(kind, pc, p, r)), p \in used,
             pc = "select" => kind = "select",
             kind = "delete" => page.state = "closed",
             pc = "dropRow" => Exists(p),
             todo' \subseteq todo, UNCHANGED <<disk, page, used, deleted, lost>>
      PROVE  Begins(t)
  <2> DEFINE rec == Call(kind, pc, p, r)
  <2>1. /\ rec \in Task /\ rec.pc = pc /\ rec.kind = kind
        /\ rec.id = p /\ ~rec.insert /\ rec.ok
    BY <1>0, <1>6, CallRecord
  <2> HIDE DEF rec
  <2>2. Begin(t, rec)
    BY <1>6 DEF rec
  <2>3. QED
    BY <1>6, <2>1, <2>2, BeginRecord DEF Begins, BeginsElsewhere
<1>7. ASSUME NEW p \in Ids, Update(t, p) PROVE Begins(t)
  <2>1. p \in used
    BY <1>7, UrlAssumption DEF Update, Remote, Drawn, Exists
  <2>2. QED
    BY <1>0, <1>6, <1>7, <2>1 DEF Update
<1>8. ASSUME NEW p \in Ids, WorkerUpdates(t, p) PROVE Begins(t)
  BY <1>6, <1>8, IdleType DEF WorkerUpdates, Drawn
<1>9. ASSUME NEW p \in Ids, Select(t, p) PROVE Begins(t)
  BY <1>6, <1>9, IdleType DEF Select, Drawn
<1>10. ASSUME NEW p \in Ids, Delete(t, p) PROVE Begins(t)
  BY <1>6, <1>10, IdleType DEF Delete, Drawn
<1>11. QED
  BY <1>1, <1>2, <1>3, <1>5, <1>7, <1>8, <1>9, <1>10 DEF Start

\* A call that is about to insert comes to nothing else.
LEMMA PendingSteps ==
  ASSUME TypeOK, Drawn, PlaceOfKind, NEW t \in Tasks, Advance(t), ~Lookup(t)
  PROVE  /\ Pending(t)' => Pending(t)
         /\ Pending(t) /\ GoesOn(t) /\ task[t].kind # "content"
              => Pending(t)' \/ task'[t].pc = "told"
<1>0. /\ task[t].pc # "clean" => task[t].ok
      /\ task[t].pc = "patch" => ~task[t].insert
  BY DEF PlaceOfKind
<1>1. CASE Fetch(t) \/ OpenFile(t) \/ DropRow(t)
  BY <1>1, GotoGoesOn, FailGoesOn DEF Fetch, OpenFile, DropRow, Pending
<1>2. CASE Check(t)
  <2>1. CASE Fail(t)
    BY <2>1, <1>2, FailGoesOn DEF Check, Pending
  <2>2. CASE task' = [task EXCEPT ![t].pc = "open", ![t].read = temp[task[t].id]]
    BY <2>2, <1>2 DEF Check, Pending, TypeOK, Task
  <2>3. QED
    BY <1>2, <2>1, <2>2 DEF Check
<1>3. CASE WriteFile(t)
  BY <1>0, <1>3, GotoGoesOn, FailGoesOn DEF WriteFile, Pending
<1>4. CASE Clean(t) /\ ~GiveUp(t)
  BY <1>4, GotoGoesOn DEF Clean, Pending
<1>5. CASE GiveUp(t)
  <2>1. task'[t] = Idle
    BY <1>5 DEF GiveUp, End, TypeOK
  <2>2. ~Pending(t)' /\ ~GoesOn(t)
    BY <2>1 DEF Pending, Idle, GoesOn
  <2>3. QED
    BY <2>2
<1>6. CASE Commit(t) /\ ~Refuse(t)
  BY <1>0, <1>6, GotoGoesOn DEF Commit, Pending
<1>7. CASE (Commit(t) \/ Patch(t)) /\ Refuse(t) /\ ~GiveUp(t)
  BY <1>0, <1>7, FailGoesOn DEF Commit, Patch, Refuse, Pending
<1>8. CASE (Patch(t) /\ ~Refuse(t)) \/ (DropFile(t) /\ ~GiveUp(t))
  BY <1>8, GotoGoesOn DEF Patch, DropFile, Pending
<1>9. CASE SelectRow(t) \/ Tell(t)
  <2>1. task'[t] = Idle
    BY <1>9 DEF SelectRow, Tell, End, TypeOK
  <2>2. ~Pending(t)' /\ ~GoesOn(t)
    BY <2>1 DEF Pending, Idle, GoesOn
  <2>3. QED
    BY <2>2
<1>10. QED
  BY <1>1, <1>2, <1>3, <1>4, <1>5, <1>6, <1>7, <1>8, <1>9 DEF Advance

\* A call that looks up works on the profile found, or on a new one.
LooksUp(t) ==
  /\ \A u \in Tasks : u # t => task'[u] = task[u]
  /\ task[t].pc = "lookup" /\ task'[t].pc = "fetch" /\ task'[t].kind = task[t].kind
  /\ task'[t].row = task[t].row /\ task'[t].ok = task[t].ok
  /\ \/ task'[t].insert = task[t].insert /\ UNCHANGED used
        /\ task'[t].id \in Ids /\ Exists(task'[t].id)
     \/ task'[t].insert /\ task'[t].id \in Ids \ used /\ used' = used \cup {task'[t].id}
  /\ UNCHANGED <<rows, file, page, todo, deleted, lost>>

LEMMA LookupSteps ==
  ASSUME TypeOK, PlaceOfKind, NEW t \in Tasks, Lookup(t)
  PROVE  LooksUp(t)
<1>0. UNCHANGED <<rows, file, page, todo, deleted, lost>>
  BY DEF Lookup, disk
<1>1. task[t].pc = "lookup" /\ Like[task[t].row.url] \subseteq Urls
  BY LikeAssumption DEF Lookup, PlaceOfKind
<1>2. ASSUME NEW p \in Ids, rows[p].url \in Like[task[t].row.url], UNCHANGED used,
             task' = [task EXCEPT ![t].pc = "fetch", ![t].id = p]
      PROVE  LooksUp(t)
  <2>1. Exists(p)
    BY <1>1, <1>2, UrlAssumption DEF Exists
  <2>2. /\ \A u \in Tasks : u # t => task'[u] = task[u]
        /\ task'[t].pc = "fetch" /\ task'[t].id = p
        /\ task'[t].kind = task[t].kind /\ task'[t].row = task[t].row
        /\ task'[t].ok = task[t].ok /\ task'[t].insert = task[t].insert
    BY <1>2 DEF TypeOK, Task
  <2>3. QED
    BY <1>1, <1>2, <2>1, <2>2, <1>0 DEF LooksUp
<1>3. ASSUME NEW p \in Ids \ used, used' = used \cup {p},
             task' = [task EXCEPT ![t].pc = "fetch", ![t].id = p, ![t].insert = TRUE]
      PROVE  LooksUp(t)
  <2>1. /\ \A u \in Tasks : u # t => task'[u] = task[u]
        /\ task'[t].pc = "fetch" /\ task'[t].id = p /\ task'[t].insert
        /\ task'[t].kind = task[t].kind /\ task'[t].row = task[t].row
        /\ task'[t].ok = task[t].ok
    BY <1>3 DEF TypeOK, Task
  <2>2. QED
    BY <1>1, <1>3, <2>1, <1>0 DEF LooksUp
<1>4. QED
  BY <1>2, <1>3 DEF Lookup

\* The steps of the page and of the worker's list; no call takes part.
PageSteps ==
  /\ \/ \E p \in Ids : OpenPage(p) \/ OpenNew(p)
     \/ (\E u \in Urls : EditUrl(u)) \/ ClosePage
     \/ UNCHANGED <<page, used>> /\ todo' \subseteq used
  /\ UNCHANGED <<task, rows, file, deleted, lost>>

LEMMA AllSteps ==
  ASSUME TypeOK, PlaceOfKind, Drawn, [Next]_vars
  PROVE  \/ \E t \in Tasks : Begins(t) \/ LooksUp(t)
                               \/ (Advance(t) /\ ~Lookup(t) /\ (GoesOn(t) \/ Ends(t)))
         \/ PageSteps \/ Crash
<1> USE DEF disk, hist
<1>1. ASSUME NEW t \in Tasks, Start(t) \/ Advance(t)
      PROVE  Begins(t) \/ LooksUp(t) \/ (Advance(t) /\ ~Lookup(t) /\ (GoesOn(t) \/ Ends(t)))
  BY <1>1, StartSteps, AdvanceSteps, LookupSteps
<1>2. ASSUME NEW p \in Ids, OpenPage(p) \/ OpenNew(p) PROVE PageSteps
  BY <1>2 DEF OpenPage, OpenNew, PageSteps
<1>3. CASE (\E u \in Urls : EditUrl(u)) \/ ClosePage
  BY <1>3 DEF EditUrl, ClosePage, PageSteps
<1>4. CASE WorkerLists
  <2>1. todo' \subseteq used
    BY <1>4, UrlAssumption DEF WorkerLists, Remote, Drawn, Exists
  <2>2. QED
    BY <2>1, <1>4 DEF WorkerLists, PageSteps
<1>5. CASE \E p \in Ids : WorkerSkips(p)
  BY <1>5 DEF WorkerSkips, PageSteps, Drawn
<1>6. CASE UNCHANGED vars
  BY <1>6 DEF vars, PageSteps, Drawn
<1>7. QED
  BY <1>1, <1>2, <1>3, <1>4, <1>5, <1>6 DEF Next

\* ... seen from one call.
LEMMA CallSteps ==
  ASSUME TypeOK, PlaceOfKind, Drawn, [Next]_vars, NEW t \in Tasks
  PROVE  \/ task'[t] \in {task[t], Idle}
         \/ Begins(t) \/ LooksUp(t)
         \/ (Advance(t) /\ ~Lookup(t) /\ GoesOn(t))
<1>1. ASSUME NEW u \in Tasks, u # t, Begins(u) \/ LooksUp(u) \/ GoesOn(u) \/ Ends(u)
      PROVE  task'[t] = task[t]
  BY <1>1 DEF Begins, LooksUp, GoesOn, Ends
<1>2. Ends(t) => task'[t] = Idle
  BY DEF Ends
<1>3. PageSteps => task'[t] = task[t]
  BY DEF PageSteps
<1>4. Crash => task'[t] = Idle
  BY DEF Crash
<1>5. QED
  BY <1>1, <1>2, <1>3, <1>4, AllSteps

-----------------------------------------------------------------------------
(* What a step does to the table.                                           *)

LEMMA InsertRows ==
  ASSUME TypeOK, NEW p \in Ids, NEW r \in Row
  PROVE  \A q \in Ids :
           /\ Insert(p, r)[q].url = IF q = p THEN r.url ELSE rows[q].url
           /\ Insert(p, r)[q].active <=> IF q = p THEN r.active
                                         ELSE rows[q].active /\ ~r.active
  BY DEF Insert, Deactivated, TypeOK, Row

LEMMA EditRows ==
  ASSUME TypeOK, NEW p \in Ids, NEW r \in Row
  PROVE  \A q \in Ids :
           /\ Edit(p, r)[q].url = IF q = p /\ Exists(p) THEN r.url ELSE rows[q].url
           /\ Edit(p, r)[q].active <=> IF q = p /\ Exists(p) THEN r.active
                                       ELSE rows[q].active /\ ~r.active
<1>1. CASE Exists(p)
  BY <1>1, InsertRows DEF Edit
<1>2. CASE ~Exists(p)
  BY <1>2 DEF Edit, Deactivated, TypeOK, Row
<1>3. QED
  BY <1>1, <1>2

LEMMA InfoRows ==
  ASSUME TypeOK, NEW p \in Ids, NEW n \in 0 .. MaxEvents
  PROVE  \A q \in Ids : /\ EditInfo(p, n)[q].url = rows[q].url
                        /\ EditInfo(p, n)[q].active <=> rows[q].active
  BY DEF EditInfo, TypeOK, Row

\* A row is inserted, edited, or deleted, or only its info changes.
Inserts(t) ==
  /\ Pending(t) /\ ~Pending(t)' /\ task[t].pc = "commit"
  /\ \A q \in Ids :
       /\ rows'[q].url = IF q = task[t].id THEN task[t].row.url ELSE rows[q].url
       /\ rows'[q].active <=> IF q = task[t].id THEN task[t].row.active
                              ELSE rows[q].active /\ ~task[t].row.active
  /\ UNCHANGED <<page, file, deleted, lost>>

Rewrites(p, r) ==
  /\ Exists(p) => r.url # "none"
  /\ \A q \in Ids :
       /\ rows'[q].url = IF q = p /\ Exists(p) THEN r.url ELSE rows[q].url
       /\ rows'[q].active <=> IF q = p /\ Exists(p) THEN r.active
                              ELSE rows[q].active /\ ~r.active
  /\ ~lost' => ~lost /\ ((Exists(p) /\ r.active) \/ (rows[p].active <=> r.active))
  /\ UNCHANGED <<file, deleted>>

SameRows ==
  /\ \A q \in Ids : rows'[q].url = rows[q].url /\ (rows'[q].active <=> rows[q].active)
  /\ UNCHANGED <<deleted, lost>>

LEMMA TableSteps ==
  ASSUME TypeOK, PlaceOfKind, Drawn, RowsAreRows, [Next]_vars
  PROVE  \/ \E t \in Tasks : Inserts(t) \/ DropRow(t)
         \/ \E p \in Ids, r \in Row : Rewrites(p, r)
         \/ SameRows
<1> USE DEF disk, hist
<1>1. CASE UNCHANGED <<rows, deleted, lost>>
  BY <1>1 DEF SameRows
<1>2. ASSUME NEW t \in Tasks, Commit(t), ~Refuse(t)
      PROVE  Inserts(t) \/ SameRows
  <2>1. task[t].id \in Ids
    BY <1>2, WorksOnProfile DEF Commit
  <2>2. CASE task[t].insert
    <3> DEFINE entry == [task[t].row EXCEPT !.info = task[t].no]
    <3>1. /\ entry \in Row /\ entry.url = task[t].row.url
          /\ entry.active = task[t].row.active
      BY TaskTypes DEF Row
    <3>2. /\ rows' = Insert(task[t].id, entry)
          /\ UNCHANGED <<page, file, deleted, lost>>
      BY <1>2, <2>2 DEF Commit
    <3>3. Pending(t) /\ ~Pending(t)' /\ task[t].pc = "commit"
      BY <1>2, <2>2, GotoGoesOn DEF Commit, Pending, PlaceOfKind
    <3> HIDE DEF entry
    <3>4. QED
      BY <2>1, <3>1, <3>2, <3>3, InsertRows DEF Inserts
  <2>3. CASE ~task[t].insert
    <3>1. rows' = EditInfo(task[t].id, task[t].no) /\ UNCHANGED <<deleted, lost>>
      BY <2>3, <1>2 DEF Commit
    <3>2. task[t].no \in 0 .. MaxEvents
      BY TaskTypes
    <3>3. QED
      BY <2>1, <3>1, <3>2, InfoRows DEF SameRows
  <2>4. QED
    BY <2>2, <2>3
<1>3. ASSUME NEW t \in Tasks, Patch(t), ~Refuse(t)
      PROVE  \E p \in Ids, r \in Row : Rewrites(p, r)
  <2>1. task[t].id \in Ids /\ task[t].row \in Row /\ task[t].row.url # "none"
    BY <1>3, WorksOnProfile, TaskTypes DEF Patch, RowsAreRows
  <2>2. rows' = Edit(task[t].id, task[t].row) /\ UNCHANGED <<file, deleted>>
    BY <1>3 DEF Patch
  <2>3. ~lost' => ~lost /\ (rows[task[t].id].active <=> task[t].row.active)
    BY <1>3 DEF Patch, Loses
  <2>4. Rewrites(task[t].id, task[t].row)
    BY <2>1, <2>2, <2>3, EditRows DEF Rewrites
  <2>5. QED
    BY <2>1, <2>4
<1>4. ASSUME NEW t \in Tasks, SelectRow(t)
      PROVE  \E p \in Ids, r \in Row : Rewrites(p, r)
  <2> DEFINE r == [rows[task[t].id] EXCEPT !.active = TRUE]
  <2>1. task[t].id \in Ids
    BY <1>4, WorksOnProfile DEF SelectRow
  <2>2. r \in Row /\ r.active /\ (Exists(task[t].id) => r.url # "none")
    BY <2>1 DEF TypeOK, Row, Exists
  <2>3. rows' = Edit(task[t].id, r) /\ UNCHANGED <<file, deleted>>
    BY <1>4 DEF SelectRow
  <2>4. ~lost' => ~lost /\ Exists(task[t].id)
    BY <1>4 DEF SelectRow, Loses
  <2> HIDE DEF r
  <2>5. Rewrites(task[t].id, r)
    BY <2>1, <2>2, <2>3, <2>4, EditRows DEF Rewrites
  <2>6. QED
    BY <2>1, <2>2, <2>5
<1>5. ASSUME NEW t \in Tasks, Advance(t)
      PROVE  \/ (Commit(t) \/ Patch(t)) /\ ~Refuse(t)
             \/ SelectRow(t) \/ DropRow(t) \/ UNCHANGED <<rows, deleted, lost>>
  BY <1>5 DEF Advance, Lookup, Fetch, Check, OpenFile, WriteFile, Clean, Commit,
    Patch, Refuse, DropFile, Tell
<1>6. ASSUME ~\E t \in Tasks : Advance(t)
      PROVE  UNCHANGED <<rows, deleted, lost>>
  BY <1>6, AllSteps DEF Begins, LooksUp, PageSteps, Crash, Advance
<1>7. QED
  BY <1>1, <1>2, <1>3, <1>4, <1>5, <1>6

-----------------------------------------------------------------------------
(* One lemma for each part of the invariant.                                *)

LEMMA DeletedGrows ==
  ASSUME TypeOK, PlaceOfKind, Drawn, RowsAreRows, [Next]_vars
  PROVE  deleted \subseteq deleted' /\ (lost => lost')
<1>1. ASSUME NEW t \in Tasks, DropRow(t)
      PROVE  deleted \subseteq deleted' /\ (lost => lost')
  BY <1>1 DEF DropRow, Loses
<1>2. QED
  BY <1>1, TableSteps DEF Inserts, Rewrites, SameRows

LEMMA AdvancePlaces ==
  ASSUME TypeOK, PlaceOfKind, Drawn, NEW t \in Tasks, Advance(t), ~Lookup(t), GoesOn(t)
  PROVE  /\ task'[t].pc # "select"
         /\ task'[t].pc # "clean" => task'[t].ok
         /\ task'[t].pc \in {"open", "write"} => task'[t].read \in Calls
         /\ task'[t].pc = "dropFile" => task'[t].id \in deleted'
<1>0. /\ task[t].pc # "clean" => task[t].ok
      /\ task[t].pc \in {"open", "write"} => task[t].read \in Calls
  BY DEF PlaceOfKind
<1>1. CASE Fetch(t) \/ OpenFile(t) \/ DropRow(t) \/ WriteFile(t)
  BY <1>0, <1>1, GotoGoesOn, FailGoesOn DEF Fetch, OpenFile, DropRow, WriteFile
<1>2. CASE Check(t)
  <2>1. CASE Fail(t)
    BY <2>1, FailGoesOn
  <2>2. CASE /\ task' = [task EXCEPT ![t].pc = "open", ![t].read = temp[task[t].id]]
             /\ temp[task[t].id] # Absent
    <3>1. task'[t].pc = "open" /\ task'[t].ok = task[t].ok
          /\ task'[t].read = temp[task[t].id]
      BY <2>2 DEF TypeOK, Task
    <3>2. temp[task[t].id] \in Calls
      BY <1>2, <2>2, WorksOnProfile, ContentTypes DEF Check, TypeOK
    <3>3. QED
      BY <1>0, <1>2, <3>1, <3>2 DEF Check
  <2>3. QED
    BY <1>2, <2>1, <2>2 DEF Check
<1>3. CASE Clean(t) \/ Commit(t) \/ Patch(t) \/ DropFile(t)
  <2>1. ~GiveUp(t)
    BY DEF GiveUp, End, GoesOn, Idle, TypeOK
  <2>2. QED
    BY <1>0, <1>3, <2>1, GotoGoesOn, FailGoesOn DEF Clean, Commit, Patch, Refuse, DropFile
<1>4. CASE SelectRow(t) \/ Tell(t)
  BY <1>4 DEF SelectRow, Tell, End, GoesOn, Idle, TypeOK
<1>5. QED
  BY <1>1, <1>2, <1>3, <1>4 DEF Advance

LEMMA PlaceStep ==
  ASSUME TypeOK, PlaceOfKind, Drawn, RowsAreRows, [Next]_vars
  PROVE  PlaceOfKind'
<1> DEFINE Place(t) ==
      /\ task[t].pc \in {"idle", "select"} => task[t].kind = "select"
      /\ task[t].pc = "lookup" => task[t].kind = "add" /\ task[t].row.url \in Urls
      /\ task[t].pc \in {"idle", "lookup", "patch"} => ~task[t].insert
      /\ task[t].pc # "clean" => task[t].ok
      /\ task[t].pc \in {"open", "write"} => task[t].read \in Calls
      /\ task[t].pc = "dropFile" => task[t].id \in deleted
<1>1. ASSUME NEW t \in Tasks, task'[t] = task[t] PROVE Place(t)'
  BY <1>1, DeletedGrows DEF PlaceOfKind
<1>2. ASSUME NEW t \in Tasks, task'[t] = Idle PROVE Place(t)'
  BY <1>2 DEF Idle
<1>3. ASSUME NEW t \in Tasks, Begins(t) PROVE Place(t)'
  BY <1>3 DEF Begins, BeginsUrl, BeginsContent, BeginsOfPage, BeginsElsewhere
<1>4. ASSUME NEW t \in Tasks, LooksUp(t) PROVE Place(t)'
  BY <1>4 DEF LooksUp, PlaceOfKind
<1>5. ASSUME NEW t \in Tasks, Advance(t), ~Lookup(t), GoesOn(t) PROVE Place(t)'
  BY <1>5, AdvancePlaces DEF GoesOn
<1> HIDE DEF Place
<1>6. ASSUME NEW t \in Tasks PROVE Place(t)'
  BY <1>1, <1>2, <1>3, <1>4, <1>5, CallSteps
<1>7. QED
  BY <1>6 DEF PlaceOfKind, Place

LEMMA DrawnStep ==
  ASSUME TypeOK, PlaceOfKind, Drawn, RowsAreRows, [Next]_vars
  PROVE  Drawn'
<1>1. used \subseteq used' /\ todo' \subseteq used'
  BY AllSteps DEF Begins, BeginsUrl, BeginsContent, BeginsOfPage, BeginsElsewhere,
    LooksUp, GoesOn, Ends, PageSteps, OpenPage, OpenNew, EditUrl, ClosePage, Crash, Drawn
<1>2. ASSUME NEW p \in Ids, Exists(p)' PROVE p \in used'
  <2>1. CASE Exists(p)
    BY <1>1, <2>1 DEF Drawn
  <2>2. CASE ~Exists(p)
    <3>1. ~\E t \in Tasks : DropRow(t)
      BY <1>2, <2>2, WorksOnProfile, IdleType DEF DropRow, Exists, NoRow, TypeOK
    <3>2. PICK t \in Tasks : Inserts(t) /\ p = task[t].id
      BY <1>2, <2>2, <3>1, TableSteps DEF Exists, Inserts, Rewrites, SameRows
    <3>3. QED
      BY <1>1, <3>2, WorksOnProfile DEF Inserts
  <2>3. QED
    BY <2>1, <2>2
<1>3. deleted' \subseteq used'
  <2>1. ASSUME NEW t \in Tasks, DropRow(t) PROVE deleted' \subseteq used
    BY <2>1, WorksOnProfile DEF DropRow, Drawn
  <2>2. QED
    BY <1>1, <2>1, TableSteps DEF Inserts, Rewrites, SameRows, Drawn
<1>4. ASSUME NEW t \in Tasks, task'[t].pc \notin {"idle", "lookup"}
      PROVE  task'[t].id \in used'
  <2>1. CASE task'[t] = task[t]
    BY <1>1, <1>4, <2>1 DEF Drawn
  <2>2. CASE Begins(t) \/ LooksUp(t) \/ GoesOn(t)
    BY <1>1, <1>4, <2>2 DEF Begins, BeginsUrl, BeginsContent, BeginsOfPage,
      BeginsElsewhere, LooksUp, GoesOn, Drawn
  <2>3. CASE task'[t] = Idle
    BY <1>4, <2>3 DEF Idle
  <2>4. QED
    BY <2>1, <2>2, <2>3, CallSteps
<1>5. page'.state # "closed" => page'.id \in used'
  <2>1. CASE UNCHANGED page \/ page' = NoPage
    BY <1>1, <2>1 DEF Drawn, NoPage
  <2>2. CASE PageSteps
    BY <1>1, <2>2 DEF PageSteps, OpenPage, OpenNew, EditUrl, ClosePage, NoPage, TypeOK,
      Page, Drawn
  <2>3. ASSUME NEW t \in Tasks, Begins(t) \/ GoesOn(t) \/ LooksUp(t)
        PROVE  page'.state # "closed" => page'.id \in used'
    BY <1>1, <2>1, <2>3 DEF Begins, BeginsUrl, BeginsContent, BeginsOfPage,
      BeginsElsewhere, LooksUp, GoesOn, TypeOK, Page, Drawn
  <2>4. ASSUME NEW t \in Tasks, Ends(t)
        PROVE  page'.state # "closed" => page'.id \in used'
    <3>1. FromPage(t) => page.id \in used
      BY DEF FromPage, Drawn
    <3>2. UNCHANGED page \/ page' = NoPage \/ (page'.id = page.id /\ FromPage(t))
      BY <2>4 DEF Ends, TypeOK, Page
    <3>3. QED
      BY <1>1, <2>1, <3>1, <3>2
  <2>5. QED
    BY <2>1, <2>2, <2>3, <2>4, AllSteps DEF Crash
<1>6. QED
  BY <1>1, <1>2, <1>3, <1>4, <1>5 DEF Drawn

\* Two calls do not move in one step, but for the end of the process.
LEMMA OneMoves ==
  ASSUME TypeOK, PlaceOfKind, Drawn, [Next]_vars,
         NEW t \in Tasks, NEW u \in Tasks, t # u
  PROVE  task'[t] = task[t] \/ task'[u] = task[u] \/ Crash
<1>1. ASSUME NEW v \in Tasks, Begins(v) \/ LooksUp(v) \/ GoesOn(v) \/ Ends(v)
      PROVE  task'[t] = task[t] \/ task'[u] = task[u]
  BY <1>1 DEF Begins, LooksUp, GoesOn, Ends
<1>2. QED
  BY <1>1, AllSteps DEF PageSteps

\* Where an unborn profile comes from.
LEMMA PendingOrigin ==
  ASSUME TypeOK, PlaceOfKind, Drawn, [Next]_vars, NEW t \in Tasks, Pending(t)'
  PROVE  \/ Pending(t) /\ task'[t].id = task[t].id
         \/ task'[t].id \in Ids \ used /\ page' = page
         \/ OnNewPage(task'[t].id) /\ page'.state = "busy" /\ task[t].pc = "idle"
<1>1. CASE task'[t] = task[t]
  BY <1>1 DEF Pending
<1>2. CASE Begins(t)
  BY <1>2 DEF Begins, BeginsUrl, BeginsContent, BeginsOfPage, BeginsElsewhere,
    OnNewPage, Pending, TypeOK, Page
<1>3. CASE LooksUp(t)
  BY <1>3 DEF LooksUp, PlaceOfKind, Pending
<1>4. CASE Advance(t) /\ ~Lookup(t) /\ GoesOn(t)
  BY <1>4, PendingSteps DEF GoesOn
<1>5. CASE task'[t] = Idle
  BY <1>5 DEF Idle, Pending
<1>6. QED
  BY <1>1, <1>2, <1>3, <1>4, <1>5, CallSteps

\* What the end of a call makes of the page.
LEMMA EndsPage ==
  ASSUME TypeOK, NEW t \in Tasks, Ends(t)
  PROVE  \/ page' = page
         \/ page' = NoPage
         \/ /\ OfPage(t) /\ page.state = "busy" /\ page'.state = "open"
            /\ page'.id = page.id /\ page'.new = page.new
            /\ page'.row = page.row \/ (page'.row.url # "none" /\ task[t].kind = "refresh")
            /\ task[t].pc = "told" => task[t].kind = "refresh"
<1>0. FromPage(t) => OfPage(t) /\ page.state = "busy"
  BY DEF FromPage, OfPage
<1>1. CASE FromPage(t) /\ task[t].pc # "told" /\ page' = [page EXCEPT !.state = "open"]
  BY <1>0, <1>1 DEF TypeOK, Page
<1>2. ASSUME NEW r \in Row, page' = [page EXCEPT !.state = "open", !.row = r],
             r.url # "none" \/ r = page.row, FromPage(t), task[t].kind = "refresh"
      PROVE  /\ OfPage(t) /\ page.state = "busy" /\ page'.state = "open"
             /\ page'.id = page.id /\ page'.new = page.new
             /\ page'.row = page.row \/ page'.row.url # "none"
  BY <1>0, <1>2 DEF TypeOK, Page
<1>3. QED
  BY <1>1, <1>2 DEF Ends

\* Where the page comes from.
LEMMA PageOrigin ==
  ASSUME TypeOK, PlaceOfKind, Drawn, [Next]_vars, page'.state # "closed"
  PROVE  \/ page.state # "closed" /\ page'.id = page.id /\ page'.new = page.new
         \/ \E p \in Ids : page'.id = p /\ page.state = "closed"
                           /\ UNCHANGED task /\ page'.state = "open"
                           /\ IF page'.new THEN p \notin used ELSE Exists(p)
<1>1. CASE UNCHANGED page
  BY <1>1
<1>2. CASE PageSteps
  BY <1>2 DEF PageSteps, OpenPage, OpenNew, EditUrl, ClosePage, NoPage, TypeOK, Page
<1>3. ASSUME NEW t \in Tasks, Ends(t)
      PROVE  page.state # "closed" /\ page'.id = page.id /\ page'.new = page.new
  BY <1>3, EndsPage DEF NoPage
<1>4. ASSUME NEW t \in Tasks, Begins(t)
      PROVE  page.state # "closed" /\ page'.id = page.id /\ page'.new = page.new
  BY <1>4 DEF Begins, BeginsUrl, BeginsContent, BeginsOfPage, BeginsElsewhere,
    TypeOK, Page
<1>5. QED
  BY <1>1, <1>2, <1>3, <1>4, AllSteps DEF LooksUp, GoesOn, Crash, NoPage

\* A page that was busy is open again: its call has ended.
LEMMA Reopens ==
  ASSUME TypeOK, PlaceOfKind, Drawn, PageWaits, [Next]_vars,
         page.new, page.state = "busy", page'.state = "open"
  PROVE  \E t \in Tasks : /\ Pending(t) /\ OfPage(t) /\ task'[t] = Idle
                          /\ \A u \in Tasks : u # t => task'[u] = task[u]
<1>1. ~PageSteps
  BY DEF PageSteps, OpenPage, OpenNew, EditUrl, ClosePage, TypeOK, Page
<1>2. ~Crash
  BY DEF Crash, NoPage
<1>3. ASSUME NEW t \in Tasks, Begins(t) \/ LooksUp(t) \/ GoesOn(t) PROVE FALSE
  BY <1>3 DEF Begins, BeginsUrl, BeginsContent, BeginsOfPage, BeginsElsewhere,
    LooksUp, GoesOn
<1>4. PICK t \in Tasks : Ends(t)
  BY <1>1, <1>2, <1>3, AllSteps
<1>5. OfPage(t) /\ (task[t].pc = "told" => task[t].kind = "refresh")
  <2>1. page' # page /\ page' # NoPage
    BY DEF NoPage
  <2>2. QED
    BY <1>4, <2>1, EndsPage
<1>6. Pending(t)
  BY <1>5 DEF PageWaits
<1>7. QED
  BY <1>4, <1>5, <1>6 DEF Ends

LEMMA NewPageOrigin ==
  ASSUME TypeOK, PlaceOfKind, Drawn, PageWaits, [Next]_vars, NEW p, OnNewPage(p)'
  PROVE  \/ OnNewPage(p)
         \/ p \in Ids \ used /\ UNCHANGED task
         \/ \E t \in Tasks : /\ Pending(t) /\ task[t].id = p /\ task'[t] = Idle
                             /\ \A u \in Tasks : u # t => task'[u] = task[u]
<1>1. page'.state = "open" /\ page'.new /\ page'.id = p
  BY DEF OnNewPage
<1>2. CASE page.state # "closed" /\ page.id = p /\ page.new
  <2>1. CASE page.state = "open"
    BY <1>2, <2>1 DEF OnNewPage
  <2>2. CASE page.state = "busy"
    BY <1>1, <1>2, <2>2, Reopens DEF OfPage
  <2>3. QED
    BY <1>2, <2>1, <2>2 DEF TypeOK, Page
<1>3. CASE ~(page.state # "closed" /\ page.id = p /\ page.new)
  BY <1>1, <1>3, PageOrigin
<1>4. QED
  BY <1>2, <1>3

LEMMA UnbornOrigin ==
  ASSUME TypeOK, PlaceOfKind, Drawn, PageWaits, [Next]_vars, NEW p \in Ids, Unborn(p)'
  PROVE  Unborn(p) \/ p \notin used
  BY PendingOrigin, NewPageOrigin DEF Unborn

LEMMA OneInsertsStep ==
  ASSUME TypeOK, PlaceOfKind, Drawn, PageWaits, OneInserts, [Next]_vars
  PROVE  OneInserts'
<1>1. ASSUME NEW t \in Tasks, NEW p, Pending(t)', task'[t].id = p, OnNewPage(p)'
      PROVE  FALSE
  <2>1. page'.state = "open" /\ page'.id = p
    BY <1>1 DEF OnNewPage
  <2>2. CASE OnNewPage(p)
    <3>1. p \in used
      BY <2>2 DEF OnNewPage, Drawn
    <3>2. QED
      BY <1>1, <2>1, <2>2, <3>1, PendingOrigin DEF OneInserts
  <2>3. CASE p \in Ids \ used /\ UNCHANGED task
    <3>1. Pending(t) /\ task[t].id = p
      BY <1>1, <2>3 DEF Pending
    <3>2. QED
      BY <2>3, <3>1, WorksOnProfile DEF Pending
  <2>4. ASSUME NEW u \in Tasks, Pending(u), task[u].id = p, task'[u] = Idle,
               \A v \in Tasks : v # u => task'[v] = task[v]
        PROVE  FALSE
    <3>1. t # u
      BY <1>1, <2>4 DEF Pending, Idle
    <3>2. Pending(t) /\ task[t].id = p
      BY <1>1, <2>4, <3>1 DEF Pending
    <3>3. QED
      BY <2>4, <3>1, <3>2 DEF OneInserts
  <2>5. QED
    BY <1>1, <2>2, <2>3, <2>4, NewPageOrigin
<1>2. ASSUME NEW t \in Tasks, NEW u \in Tasks, t # u, Pending(t)', Pending(u)',
             task'[u] = task[u], task'[t].id = task'[u].id
      PROVE  FALSE
  <2>1. Pending(u) /\ task[u].id = task'[t].id
    BY <1>2 DEF Pending
  <2>2. task[u].id \in used /\ ~OnNewPage(task[u].id)
    BY <2>1, WorksOnProfile DEF Pending, OneInserts
  <2>3. QED
    BY <1>2, <2>1, <2>2, PendingOrigin DEF OneInserts
<1>3. ASSUME NEW t \in Tasks, NEW u \in Tasks, t # u, Pending(t)', Pending(u)',
             task'[t].id = task'[u].id
      PROVE  FALSE
  <2>1. ~Crash
    BY <1>3 DEF Crash, Pending, Idle
  <2>2. QED
    BY <1>2, <1>3, <2>1, OneMoves
<1>4. QED
  BY <1>1, <1>3 DEF OneInserts

LEMMA UnbornIsNewStep ==
  ASSUME TypeOK, PlaceOfKind, Drawn, PageWaits, OneInserts, UnbornIsNew, RowsAreRows,
         [Next]_vars
  PROVE  UnbornIsNew'
<1> SUFFICES ASSUME NEW p \in Ids, Unborn(p)'
             PROVE  /\ ~Exists(p)' /\ p \notin deleted'
                    /\ page'.state # "closed" /\ ~page'.new => page'.id # p
                    /\ \A t \in Tasks : task'[t].pc = "dropRow" => task'[t].id # p
  BY DEF UnbornIsNew
<1>1. Unborn(p) \/ p \notin used
  BY UnbornOrigin
<1>2. ~Exists(p) /\ p \notin deleted
  BY <1>1 DEF UnbornIsNew, Drawn
<1>3. ASSUME NEW t \in Tasks, task[t].pc = "dropRow" PROVE task[t].id # p
  BY <1>1, <1>3, WorksOnProfile DEF UnbornIsNew
<1>4. page.state # "closed" /\ ~page.new => page.id # p
  BY <1>1 DEF UnbornIsNew, Drawn
<1>5. ASSUME NEW t \in Tasks, Inserts(t), task[t].id = p PROVE FALSE
  <2>1. /\ Pending(t) /\ ~Pending(t)' /\ page' = page /\ task[t].pc = "commit"
        /\ ~OnNewPage(p)
    BY <1>5 DEF Inserts, OneInserts
  <2>2. PICK u \in Tasks : Pending(u)' /\ task'[u].id = p
    BY <2>1 DEF Unborn, OnNewPage
  <2>3. u # t /\ task'[t] # task[t]
    BY <2>1, <2>2 DEF Pending
  <2>4. ~Crash
    BY <2>2 DEF Crash, Pending, Idle
  <2>5. task'[u] = task[u]
    BY <2>3, <2>4, OneMoves
  <2>6. Pending(u) /\ task[u].id = p
    BY <2>2, <2>5 DEF Pending
  <2>7. QED
    BY <1>5, <2>1, <2>3, <2>6 DEF OneInserts
<1>6. ASSUME NEW t \in Tasks, DropRow(t) PROVE ~Exists(p)' /\ p \notin deleted'
  <2>1. task[t].id \in Ids /\ task[t].id # p
    BY <1>3, <1>6, WorksOnProfile DEF DropRow
  <2>2. QED
    BY <1>2, <1>6, <2>1 DEF DropRow, Exists, TypeOK
<1>7. ~Exists(p)' /\ p \notin deleted'
  BY <1>2, <1>5, <1>6, TableSteps DEF Inserts, Rewrites, SameRows, Exists
<1>8. page'.state # "closed" /\ ~page'.new => page'.id # p
  BY <1>2, <1>4, PageOrigin
<1>9. ASSUME NEW t \in Tasks, task'[t].pc = "dropRow" PROVE task'[t].id # p
  <2>1. CASE Begins(t)
    BY <1>2, <1>4, <1>9, <2>1 DEF Begins, BeginsUrl, BeginsContent, BeginsOfPage,
      BeginsElsewhere
  <2>2. QED
    BY <1>3, <1>9, <2>1, CallSteps DEF LooksUp, GoesOn, Idle
<1>10. QED
  BY <1>7, <1>8, <1>9

LEMMA PageWaitsStep ==
  ASSUME TypeOK, PlaceOfKind, Drawn, PageWaits, [Next]_vars
  PROVE  PageWaits'
<1> SUFFICES ASSUME page'.new, page'.state # "closed"
             PROVE  /\ page'.state = "open" => \A t \in Tasks : ~OfPage(t)'
                    /\ page'.state = "busy" =>
                         \A t \in Tasks : OfPage(t)' =>
                           /\ task'[t].kind = "save"
                           /\ Pending(t)' \/ task'[t].pc = "told"
                           /\ \A u \in Tasks : OfPage(u)' => u = t
  BY DEF PageWaits
<1>1. CASE page.state = "closed"
  <2>1. page'.state = "open" /\ page'.id \notin used /\ UNCHANGED task
    BY <1>1, PageOrigin
  <2>2. ASSUME NEW t \in Tasks PROVE ~OfPage(t)'
    <3>1. CASE task[t].pc \in {"idle", "lookup"}
      BY <2>1, <3>1 DEF OfPage, PlaceOfKind
    <3>2. CASE task[t].pc \notin {"idle", "lookup"}
      BY <2>1, <3>2, WorksOnProfile DEF OfPage
    <3>3. QED
      BY <3>1, <3>2
  <2>3. QED
    BY <2>1, <2>2
<1>2. CASE page.state # "closed"
  <2>1. page.new /\ page'.id = page.id /\ page.state \in {"open", "busy"}
    BY <1>2, PageOrigin DEF TypeOK, Page
  <2>2. ASSUME NEW t \in Tasks, OfPage(t)'
        PROVE  OfPage(t) \/ BeginsOfPage(t)
    <3>1. CASE Begins(t)
      BY <1>2, <2>2, <3>1 DEF Begins, BeginsUrl, BeginsContent, BeginsElsewhere, OfPage
    <3>2. CASE LooksUp(t)
      BY <2>2, <3>2 DEF LooksUp, OfPage, PlaceOfKind
    <3>3. QED
      BY <2>1, <2>2, <3>1, <3>2, CallSteps DEF GoesOn, Idle, OfPage
  <2>3. CASE page.state = "open"
    <3>1. ASSUME NEW t \in Tasks PROVE ~OfPage(t)
      BY <2>1, <2>3 DEF PageWaits
    <3>2. ASSUME NEW t \in Tasks, OfPage(t)'
          PROVE  /\ BeginsOfPage(t) /\ task'[t] # task[t]
                 /\ page'.state = "busy" /\ ~Crash
                 /\ task'[t].kind = "save" /\ Pending(t)'
      <4>1. BeginsOfPage(t)
        BY <2>2, <3>1, <3>2
      <4>2. task'[t].kind = "save" /\ Pending(t)' /\ page'.state = "busy"
        BY <2>1, <4>1 DEF BeginsOfPage, Pending, TypeOK, Page
      <4>3. ~Crash
        BY <4>2 DEF Crash, NoPage
      <4>4. task'[t] # task[t]
        BY <2>1, <3>1, <3>2 DEF OfPage
      <4>5. QED
        BY <4>1, <4>2, <4>3, <4>4
    <3>3. QED
      BY <3>2, OneMoves
  <2>4. CASE page.state = "busy"
    <3>1. ~\E t \in Tasks : BeginsOfPage(t)
      BY <2>4 DEF BeginsOfPage
    <3>2. CASE page'.state = "open"
      <4>1. PICK t \in Tasks : Pending(t) /\ OfPage(t) /\ task'[t] = Idle
        BY <2>1, <2>4, <3>2, Reopens
      <4>2. ASSUME NEW u \in Tasks, OfPage(u)' PROVE FALSE
        <5>1. u = t
          BY <2>1, <2>2, <2>4, <3>1, <4>1, <4>2 DEF PageWaits
        <5>2. QED
          BY <4>1, <4>2, <5>1 DEF OfPage, Idle
      <4>3. QED
        BY <3>2, <4>2
    <3>3. CASE page'.state # "open"
      <4>1. ASSUME NEW t \in Tasks, OfPage(t)'
            PROVE  /\ OfPage(t) /\ task'[t].kind = "save"
                   /\ Pending(t)' \/ task'[t].pc = "told"
        <5>1. /\ OfPage(t) /\ task[t].kind = "save"
              /\ Pending(t) \/ task[t].pc = "told"
          BY <2>1, <2>2, <2>4, <3>1, <4>1 DEF PageWaits
        <5>2. CASE task'[t] = task[t]
          BY <5>1, <5>2 DEF Pending
        <5>3. CASE Advance(t) /\ ~Lookup(t) /\ GoesOn(t)
          BY <5>1, <5>3, PendingSteps DEF GoesOn
        <5>4. ~Begins(t) /\ ~LooksUp(t) /\ task'[t] # Idle
          BY <4>1, <5>1 DEF Begins, LooksUp, Pending, OfPage, Idle
        <5>5. QED
          BY <5>2, <5>3, <5>4, CallSteps
      <4>2. QED
        BY <2>1, <2>4, <3>3, <4>1 DEF PageWaits
    <3>4. QED
      BY <3>2, <3>3
  <2>5. QED
    BY <2>1, <2>3, <2>4
<1>3. QED
  BY <1>1, <1>2

\* A call that is about to insert works on a profile that has no row.
LEMMA PendingIsNew ==
  ASSUME TypeOK, Drawn, UnbornIsNew, NEW t \in Tasks, Pending(t)
  PROVE  /\ task[t].id \in Ids /\ task[t].id \notin deleted /\ ~Exists(task[t].id)
<1>1. task[t].id \in Ids
  BY WorksOnProfile DEF Pending
<1>2. QED
  BY <1>1 DEF UnbornIsNew, Unborn

\* A file goes only after its row.
LEMMA FileStays ==
  ASSUME TypeOK, PlaceOfKind, Drawn, [Next]_vars, NEW p \in Ids,
         file[p] # Absent, p \notin deleted
  PROVE  file'[p] # Absent
<1>1. CASE UNCHANGED file
  BY <1>1
<1>2. ASSUME NEW t \in Tasks, OpenFile(t) PROVE file'[p] # Absent
  BY <1>2, ContentTypes DEF OpenFile, TypeOK
<1>3. ASSUME NEW t \in Tasks, WriteFile(t) PROVE file'[p] # Absent
  BY <1>3, ContentTypes DEF WriteFile, PlaceOfKind, TypeOK
<1>4. ASSUME NEW t \in Tasks, DropFile(t) PROVE file'[p] # Absent
  BY <1>4 DEF DropFile, PlaceOfKind, TypeOK
<1>5. ASSUME NEW t \in Tasks, Advance(t)
      PROVE  OpenFile(t) \/ WriteFile(t) \/ DropFile(t) \/ UNCHANGED file
  BY <1>5 DEF Advance, Lookup, Fetch, Check, Clean, Commit, Patch, Refuse, SelectRow,
    DropRow, Tell, disk
<1>6. ASSUME ~\E t \in Tasks : Advance(t) PROVE UNCHANGED file
  BY <1>6, AllSteps DEF Begins, LooksUp, PageSteps, Crash, disk
<1>7. QED
  BY <1>1, <1>2, <1>3, <1>4, <1>5, <1>6

LEMMA FileComesFirstStep ==
  ASSUME TypeOK, PlaceOfKind, Drawn, UnbornIsNew, FileComesFirst, [Next]_vars
  PROVE  FileComesFirst'
<1> SUFFICES ASSUME NEW t \in Tasks, Pending(t)', task'[t].ok,
                    task'[t].pc \in {"write", "commit", "clean"}
             PROVE  file'[task'[t].id] # Absent
  BY DEF FileComesFirst
<1>1. CASE task'[t] = task[t]
  <2>1. Pending(t)
    BY <1>1 DEF Pending
  <2>2. file[task[t].id] # Absent
    BY <1>1, <2>1 DEF FileComesFirst
  <2>3. QED
    BY <1>1, <2>1, <2>2, PendingIsNew, FileStays
<1>2. CASE Advance(t) /\ ~Lookup(t) /\ GoesOn(t)
  <2>1. Pending(t) /\ task'[t].id = task[t].id /\ task[t].id \in Ids
        /\ task[t].id \notin deleted
    BY <1>2, PendingSteps, PendingIsNew DEF GoesOn
  <2>2. CASE OpenFile(t)
    BY <2>1, <2>2, ContentTypes DEF OpenFile, TypeOK
  <2>3. CASE WriteFile(t) \/ Clean(t) \/ Commit(t)
    <3>1. task[t].ok
      BY <1>2, <2>3, GotoGoesOn, FailGoesOn
      DEF WriteFile, Clean, Commit, Refuse, GiveUp, End, GoesOn, Idle, TypeOK, PlaceOfKind
    <3>2. file[task[t].id] # Absent
      BY <2>1, <2>3, <3>1 DEF FileComesFirst, WriteFile, Clean, Commit
    <3>3. QED
      BY <2>1, <3>2, FileStays
  <2>4. ~Fetch(t)
    BY GotoGoesOn, FailGoesOn DEF Fetch
  <2>5. ~Check(t)
    <3>1. CASE task' = [task EXCEPT ![t].pc = "open", ![t].read = temp[task[t].id]]
      BY <3>1 DEF TypeOK, Task
    <3>2. QED
      BY <3>1, FailGoesOn DEF Check
  <2>6. ~(Patch(t) \/ SelectRow(t) \/ DropRow(t) \/ DropFile(t) \/ Tell(t))
    BY <2>1 DEF Pending, Patch, SelectRow, DropRow, DropFile, Tell, PlaceOfKind
  <2>7. QED
    BY <1>2, <2>2, <2>3, <2>4, <2>5, <2>6 DEF Advance
<1>3. ~Begins(t)
  BY DEF Begins, BeginsUrl, BeginsContent, BeginsOfPage, BeginsElsewhere
<1>4. ~LooksUp(t) /\ task'[t] # Idle
  <2>1. Idle.pc = "idle" /\ (LooksUp(t) => task'[t].pc = "fetch")
    BY DEF LooksUp, Idle
  <2>2. QED
    BY <2>1
<1>5. QED
  BY <1>1, <1>2, <1>3, <1>4, CallSteps

\* What is deleted, in one step of a call.
LEMMA DropRows ==
  ASSUME TypeOK, Drawn, NEW t \in Tasks, DropRow(t)
  PROVE  /\ task[t].id \in Ids /\ deleted' = deleted \cup {task[t].id}
         /\ UNCHANGED file
         /\ rows'[task[t].id].url = "none" /\ ~rows'[task[t].id].active
         /\ \A q \in Ids : q # task[t].id => rows'[q] = rows[q]
         /\ ~lost' => ~lost /\ ~rows[task[t].id].active
<1>1. task[t].id \in Ids
  BY WorksOnProfile DEF DropRow
<1>2. rows'[task[t].id] = NoRow /\ NoRow.url = "none" /\ ~NoRow.active
  BY <1>1 DEF DropRow, NoRow, TypeOK
<1>3. \A q \in Ids : q # task[t].id => rows'[q] = rows[q]
  BY <1>1 DEF DropRow, TypeOK
<1>4. QED
  BY <1>1, <1>2, <1>3 DEF DropRow, Loses

LEMMA ActiveStays ==
  ASSUME TypeOK, PlaceOfKind, Drawn, UnbornIsNew, RowsAreRows, [Next]_vars,
         SomeActive, ~lost'
  PROVE  SomeActive'
<1>1. PICK a \in Ids : rows[a].active /\ Exists(a)
  BY DEF SomeActive, RowsAreRows
<1>2. ASSUME NEW t \in Tasks, Inserts(t) PROVE SomeActive'
  <2>1. task[t].id \in Ids /\ a # task[t].id
    BY <1>1, <1>2, PendingIsNew DEF Inserts
  <2>2. rows'[a].active \/ rows'[task[t].id].active
    BY <1>1, <1>2, <2>1 DEF Inserts
  <2>3. QED
    BY <2>1, <2>2 DEF SomeActive
<1>3. ASSUME NEW p \in Ids, NEW r \in Row, Rewrites(p, r) PROVE SomeActive'
  <2>1. rows[p].active => Exists(p)
    BY DEF RowsAreRows
  <2>2. rows'[a].active \/ rows'[p].active
    BY <1>1, <1>3, <2>1 DEF Rewrites
  <2>3. QED
    BY <2>2 DEF SomeActive
<1>4. ASSUME NEW t \in Tasks, DropRow(t) PROVE SomeActive'
  <2>1. a # task[t].id /\ rows'[a].active
    BY <1>1, <1>4, DropRows
  <2>2. QED
    BY <2>1 DEF SomeActive
<1>5. CASE SameRows
  BY <1>1, <1>5 DEF SameRows, SomeActive
<1>6. QED
  BY <1>2, <1>3, <1>4, <1>5, TableSteps

LEMMA RowsAreRowsStep ==
  ASSUME TypeOK, PlaceOfKind, Drawn, UnbornIsNew, PageWaits, RowsAreRows, [Next]_vars
  PROVE  RowsAreRows'
<1>1. ASSUME NEW p \in Ids, rows'[p].active PROVE Exists(p)'
  <2>1. rows[p].active => Exists(p)
    BY DEF RowsAreRows
  <2>2. ASSUME NEW t \in Tasks, Inserts(t) PROVE Exists(p)'
    <3>1. task[t].row.url # "none"
      BY <2>2 DEF Inserts, RowsAreRows
    <3>2. QED
      BY <1>1, <2>1, <2>2, <3>1 DEF Inserts, Exists
  <2>3. ASSUME NEW q \in Ids, NEW r \in Row, Rewrites(q, r) PROVE Exists(p)'
    BY <1>1, <2>1, <2>3 DEF Rewrites, Exists
  <2>4. ASSUME NEW t \in Tasks, DropRow(t) PROVE Exists(p)'
    BY <1>1, <2>1, <2>4, DropRows DEF Exists
  <2>5. CASE SameRows
    BY <1>1, <2>1, <2>5 DEF SameRows, Exists
  <2>6. QED
    BY <2>2, <2>3, <2>4, <2>5, TableSteps
<1>2. page'.state # "closed" => page'.row.url # "none" /\ (page'.new => page'.row.active)
  <2>1. CASE page' \in {page, NoPage}
    BY <2>1 DEF RowsAreRows, NoPage
  <2>2. ASSUME NEW t \in Tasks, Begins(t)
        PROVE  page'.state # "closed" =>
                 page'.row.url # "none" /\ (page'.new => page'.row.active)
    BY <2>1, <2>2 DEF Begins, BeginsUrl, BeginsContent, BeginsOfPage, BeginsElsewhere,
      RowsAreRows, TypeOK, Page
  <2>3. ASSUME NEW t \in Tasks, Ends(t)
        PROVE  page'.state # "closed" =>
                 page'.row.url # "none" /\ (page'.new => page'.row.active)
    BY <2>1, <2>3, EndsPage DEF RowsAreRows, PageWaits
  <2>4. CASE PageSteps
    <3>1. ASSUME NEW p \in Ids, OpenPage(p)
          PROVE  page'.row.url # "none" /\ ~page'.new
      BY <3>1 DEF OpenPage, Exists
    <3>2. ASSUME NEW p \in Ids, OpenNew(p)
          PROVE  page'.row.url # "none" /\ page'.row.active
      BY <3>2, UrlAssumption DEF OpenNew
    <3>3. ASSUME NEW u \in Urls, EditUrl(u)
          PROVE  page'.row.url # "none" /\ (page'.new => page'.row.active)
      BY <3>3, UrlAssumption DEF EditUrl, RowsAreRows, TypeOK, Page, Row
    <3>4. ClosePage => page' = NoPage
      BY DEF ClosePage
    <3>5. QED
      BY <2>1, <2>4, <3>1, <3>2, <3>3, <3>4 DEF PageSteps
  <2>5. QED
    BY <2>1, <2>2, <2>3, <2>4, AllSteps DEF LooksUp, GoesOn, Crash
<1>3. ASSUME NEW t \in Tasks, Pending(t)' \/ task'[t].pc \in {"lookup", "patch"}
      PROVE  /\ task'[t].row.url # "none"
             /\ ~lost' /\ ~task'[t].row.active /\ task'[t].pc # "patch" => SomeActive'
  <2>1. CASE /\ task'[t].row = task[t].row
             /\ Pending(t) \/ task[t].pc \in {"lookup", "patch"}
             /\ task[t].pc = "patch" => task'[t].pc = "patch"
    <3>1. /\ task[t].row.url # "none"
          /\ ~lost /\ ~task[t].row.active /\ task[t].pc # "patch" => SomeActive
      BY <2>1 DEF RowsAreRows
    <3>2. ~lost' => ~lost
      BY DeletedGrows
    <3>3. QED
      BY <2>1, <3>1, <3>2, ActiveStays
  <2>2. CASE task'[t] = task[t]
    <3>1. Pending(t)' <=> Pending(t)
      BY <2>2 DEF Pending
    <3>2. QED
      BY <1>3, <2>1, <2>2, <3>1
  <2>3. CASE Begins(t)
    <3>1. rows' = rows
      BY <2>3 DEF Begins
    <3>2. CASE BeginsUrl(t) \/ BeginsContent(t)
      BY <3>1, <3>2, UrlAssumption DEF BeginsUrl, BeginsContent, SomeActive
    <3>3. CASE BeginsOfPage(t)
      BY <1>3, <3>3 DEF BeginsOfPage, RowsAreRows, Pending
    <3>4. CASE BeginsElsewhere(t)
      BY <1>3, <3>4 DEF BeginsElsewhere, Pending
    <3>5. QED
      BY <2>3, <3>2, <3>3, <3>4 DEF Begins
  <2>4. CASE LooksUp(t)
    BY <2>1, <2>4 DEF LooksUp
  <2>5. CASE Advance(t) /\ ~Lookup(t) /\ GoesOn(t)
    <3>1. Pending(t) /\ task'[t].row = task[t].row
      BY <1>3, <2>5, PendingSteps DEF GoesOn
    <3>2. task[t].pc # "patch"
      BY <3>1 DEF Pending
    <3>3. QED
      BY <2>1, <3>1, <3>2
  <2>6. CASE task'[t] = Idle
    BY <1>3, <2>6 DEF Idle, Pending
  <2>7. QED
    BY <2>2, <2>3, <2>4, <2>5, <2>6, CallSteps
<1>4. QED
  BY <1>1, <1>2, <1>3 DEF RowsAreRows

-----------------------------------------------------------------------------
(* The properties.                                                          *)

LEMMA OneActiveStep ==
  ASSUME TypeOK, PlaceOfKind, Drawn, UnbornIsNew, RowsAreRows, OneActive, [Next]_vars
  PROVE  OneActive'
<1> SUFFICES ASSUME NEW p \in Ids, NEW q \in Ids, rows'[p].active, rows'[q].active
             PROVE  p = q
  BY DEF OneActive
<1>1. /\ rows[p].active /\ rows[q].active => p = q
      /\ rows[p].active => Exists(p)
      /\ rows[q].active => Exists(q)
  BY DEF OneActive, RowsAreRows
<1>2. ASSUME NEW t \in Tasks, Inserts(t) PROVE p = q
  BY <1>1, <1>2 DEF Inserts
<1>3. ASSUME NEW o \in Ids, NEW r \in Row, Rewrites(o, r) PROVE p = q
  BY <1>1, <1>3 DEF Rewrites
<1>4. ASSUME NEW t \in Tasks, DropRow(t) PROVE p = q
  BY <1>1, <1>4, DropRows
<1>5. CASE SameRows
  BY <1>1, <1>5 DEF SameRows
<1>6. QED
  BY <1>2, <1>3, <1>4, <1>5, TableSteps

LEMMA ActiveIsKeptStep ==
  ASSUME TypeOK, PlaceOfKind, Drawn, UnbornIsNew, RowsAreRows, ActiveIsKept, [Next]_vars
  PROVE  ActiveIsKept'
<1> SUFFICES ASSUME NEW p \in Ids, Exists(p)', ~lost' PROVE SomeActive'
  BY DEF ActiveIsKept
<1>1. ~lost
  BY DeletedGrows
<1>2. CASE \E q \in Ids : Exists(q)
  BY <1>1, <1>2, ActiveStays DEF ActiveIsKept
<1>3. CASE ~\E q \in Ids : Exists(q)
  <2>1. ASSUME NEW t \in Tasks, Inserts(t) PROVE SomeActive'
    <3>1. task[t].id \in Ids /\ task[t].pc # "patch" /\ Pending(t)
      BY <2>1, PendingIsNew DEF Inserts
    <3>2. ~SomeActive
      BY <1>3 DEF SomeActive, RowsAreRows
    <3>3. task[t].row.active
      BY <1>1, <3>1, <3>2 DEF RowsAreRows
    <3>4. QED
      BY <2>1, <3>1, <3>3 DEF Inserts, SomeActive
  <2>2. ASSUME NEW t \in Tasks, DropRow(t) PROVE FALSE
    BY <1>3, <2>2, DropRows DEF Exists
  <2>3. QED
    BY <1>3, <2>1, <2>2, TableSteps DEF Rewrites, SameRows, Exists
<1>4. QED
  BY <1>2, <1>3

LEMMA DeletedStaysDeletedStep ==
  ASSUME TypeOK, PlaceOfKind, Drawn, UnbornIsNew, RowsAreRows, DeletedStaysDeleted,
         [Next]_vars
  PROVE  DeletedStaysDeleted'
<1> SUFFICES ASSUME NEW p \in deleted' PROVE ~Exists(p)'
  BY DEF DeletedStaysDeleted
<1>1. p \in deleted => p \in Ids /\ ~Exists(p)
  BY DEF DeletedStaysDeleted, TypeOK
<1>2. ASSUME NEW t \in Tasks, Inserts(t) PROVE ~Exists(p)'
  <2>1. p # task[t].id
    BY <1>2, PendingIsNew DEF Inserts
  <2>2. QED
    BY <1>1, <1>2, <2>1 DEF Inserts, Exists
<1>3. ASSUME NEW t \in Tasks, DropRow(t) PROVE ~Exists(p)'
  BY <1>1, <1>3, DropRows DEF Exists
<1>4. QED
  BY <1>1, <1>2, <1>3, TableSteps DEF Rewrites, SameRows, Exists

LEMMA RowHasFileStep ==
  ASSUME TypeOK, PlaceOfKind, Drawn, UnbornIsNew, RowsAreRows, FileComesFirst,
         DeletedStaysDeleted, RowHasFile, [Next]_vars
  PROVE  RowHasFile'
<1> SUFFICES ASSUME NEW p \in Ids, Exists(p)' PROVE file'[p] # Absent
  BY DEF RowHasFile
<1>1. CASE Exists(p)
  <2>1. file[p] # Absent /\ p \notin deleted
    BY <1>1 DEF RowHasFile, DeletedStaysDeleted
  <2>2. QED
    BY <2>1, FileStays
<1>2. CASE ~Exists(p)
  <2>1. ~\E t \in Tasks : DropRow(t)
    BY <1>2, DropRows DEF Exists
  <2>2. PICK t \in Tasks : Inserts(t) /\ p = task[t].id
    BY <1>2, <2>1, TableSteps DEF Exists, Inserts, Rewrites, SameRows
  <2>3. file[p] # Absent
    BY <2>2 DEF Inserts, FileComesFirst, PlaceOfKind
  <2>4. QED
    BY <2>2, <2>3 DEF Inserts
<1>3. QED
  BY <1>1, <1>2

LEMMA RacedGrows ==
  ASSUME TypeOK, [Next]_vars
  PROVE  raced \subseteq raced'
<1> USE DEF Races, disk, hist
<1>1. ASSUME NEW t \in Tasks, Start(t) PROVE raced \subseteq raced'
  BY <1>1 DEF Start, AddByUrl, AddByContent, Save, Refresh, DeleteFromPage, Update,
    WorkerUpdates, Select, Delete
<1>2. ASSUME NEW t \in Tasks, Advance(t) PROVE raced \subseteq raced'
  BY <1>2 DEF Advance, Lookup, Fetch, Check, OpenFile, WriteFile, Clean, Commit, Patch,
    Refuse, SelectRow, DropRow, DropFile, Tell
<1>3. CASE \/ \E p \in Ids : OpenPage(p) \/ OpenNew(p) \/ WorkerSkips(p)
           \/ (\E u \in Urls : EditUrl(u)) \/ WorkerLists \/ ClosePage \/ Crash
           \/ UNCHANGED vars
  BY <1>3 DEF OpenPage, OpenNew, WorkerSkips, EditUrl, WorkerLists, ClosePage, Crash, vars
<1>4. QED
  BY <1>1, <1>2, <1>3 DEF Next

\* A call that writes a file is done with it, or its profile is remembered.
LEMMA StillWrites ==
  ASSUME TypeOK, PlaceOfKind, Drawn, [Next]_vars, NEW t \in Tasks, NEW p \in Ids,
         t \in Writing(p)
  PROVE  p \in raced' \/ t \in Writing(p)' \/ WriteFile(t)
<1>1. task[t].pc = "write" /\ task[t].id = p
  BY DEF Writing
<1>2. CASE Crash
  BY <1>1, <1>2 DEF Crash, Busy
<1>3. CASE task'[t] = task[t]
  BY <1>1, <1>3 DEF Writing
<1>4. ASSUME task'[t] # task[t], ~Crash PROVE Advance(t)
  <2>1. ~Begins(t) /\ ~LooksUp(t)
    BY <1>1 DEF Begins, LooksUp
  <2>2. ASSUME NEW u \in Tasks, u # t PROVE ~Begins(u) /\ ~LooksUp(u) /\ ~GoesOn(u) /\ ~Ends(u)
    BY <1>4, <2>2 DEF Begins, LooksUp, GoesOn, Ends
  <2>3. ~PageSteps
    BY <1>4 DEF PageSteps
  <2>4. QED
    BY <1>4, <2>1, <2>2, <2>3, AllSteps
<1>5. Advance(t) => WriteFile(t)
  BY <1>1 DEF Advance, Lookup, Fetch, Check, OpenFile, Clean, Commit, Patch, SelectRow,
    DropRow, DropFile, Tell
<1>6. QED
  BY <1>2, <1>3, <1>4, <1>5

LEMMA FileIsWholeStep ==
  ASSUME TypeOK, PlaceOfKind, Drawn, FileIsWhole, [Next]_vars
  PROVE  FileIsWhole'
<1> SUFFICES ASSUME NEW p \in Ids, file'[p] = Torn, p \notin raced'
             PROVE  Writing(p)' # {}
  BY DEF FileIsWhole
<1>1. p \notin raced
  BY RacedGrows
<1>2. ASSUME NEW t \in Tasks, OpenFile(t), task[t].id = p PROVE Writing(p)' # {}
  BY <1>2, GotoGoesOn DEF OpenFile, Writing
<1>3. CASE file[p] = Torn
  <2>1. PICK t \in Tasks : t \in Writing(p)
    BY <1>1, <1>3 DEF FileIsWhole, Writing
  <2>2. CASE t \in Writing(p)'
    BY <2>2
  <2>3. CASE WriteFile(t)
    <3>1. task[t].id = p /\ task[t].read # Torn
      BY <2>1, ContentTypes DEF Writing, PlaceOfKind
    <3>2. file'[p] # task[t].read
      BY <3>1
    <3>3. Writing(p) # {t} /\ Goto(t, IF task[t].kind = "content" THEN "commit" ELSE "clean")
      BY <2>3, <3>1, <3>2 DEF WriteFile, TypeOK
    <3>4. PICK u \in Tasks : u # t /\ u \in Writing(p)
      BY <2>1, <3>3 DEF Writing
    <3>5. task'[u] = task[u]
      BY <3>3, <3>4, GotoGoesOn
    <3>6. QED
      BY <3>4, <3>5 DEF Writing
  <2>4. QED
    BY <2>1, <2>2, <2>3, StillWrites
<1>4. CASE file[p] # Torn
  <2>1. PICK t \in Tasks : Advance(t) /\ file' # file
    BY <1>4, AllSteps DEF Begins, LooksUp, PageSteps, Crash, disk
  <2>2. OpenFile(t) \/ WriteFile(t) \/ DropFile(t)
    BY <2>1 DEF Advance, Lookup, Fetch, Check, Clean, Commit, Patch, Refuse, SelectRow,
      DropRow, Tell, disk
  <2>3. ~DropFile(t)
    BY <1>4, ContentTypes DEF DropFile, TypeOK
  <2>4. ~WriteFile(t)
    BY <1>4, ContentTypes DEF WriteFile, PlaceOfKind, TypeOK
  <2>5. OpenFile(t) /\ task[t].id = p
    BY <1>4, <2>2, <2>3, <2>4 DEF OpenFile, TypeOK
  <2>6. QED
    BY <1>2, <2>5
<1>5. QED
  BY <1>3, <1>4

LEMMA InitStore == Init => StoreInv
<1> SUFFICES ASSUME Init PROVE StoreInv
  OBVIOUS
<1>1. TypeOK
  <2>1. rows \in [Ids -> Row] /\ task \in [Tasks -> Task] /\ page \in Page
    BY IdleType DEF Init
  <2>2. file \in [Ids -> Contents] /\ temp \in [Ids -> 0 .. MaxEvents]
    BY ContentTypes DEF Init
  <2>3. events \in 0 .. MaxEvents
    BY BoundAssumption DEF Init
  <2>4. QED
    BY <2>1, <2>2, <2>3 DEF Init, TypeOK
<1>2. \A p \in Ids : ~Exists(p) /\ ~rows[p].active
  BY DEF Init, Exists, NoRow
<1>3. \A t \in Tasks : task[t] = Idle /\ ~Pending(t)
  BY DEF Init, Idle, Pending
<1>4. page.state = "closed" /\ ~page.new
  BY DEF Init, NoPage
<1>5. PlaceOfKind
  BY <1>3 DEF PlaceOfKind, Idle
<1>6. Drawn /\ UnbornIsNew /\ OneInserts /\ PageWaits /\ FileComesFirst
  BY <1>2, <1>3, <1>4 DEF Init, Drawn, UnbornIsNew, Unborn, OnNewPage, OneInserts,
    PageWaits, FileComesFirst, Idle
<1>7. RowsAreRows /\ OneActive /\ ActiveIsKept /\ DeletedStaysDeleted /\ RowHasFile
  BY <1>2, <1>3, <1>4 DEF Init, RowsAreRows, OneActive, ActiveIsKept,
    DeletedStaysDeleted, RowHasFile, Idle
<1>8. FileIsWhole
  BY ContentTypes DEF Init, FileIsWhole
<1>9. QED
  BY <1>1, <1>5, <1>6, <1>7, <1>8 DEF StoreInv

LEMMA StoreInvStep == StoreInv /\ [Next]_vars => StoreInv'
<1> SUFFICES ASSUME StoreInv, [Next]_vars PROVE StoreInv'
  OBVIOUS
<1>1. /\ TypeOK /\ PlaceOfKind /\ Drawn /\ UnbornIsNew /\ OneInserts /\ PageWaits
      /\ FileComesFirst /\ RowsAreRows
      /\ OneActive /\ ActiveIsKept /\ DeletedStaysDeleted /\ RowHasFile /\ FileIsWhole
  BY DEF StoreInv
<1>2. TypeOK' /\ PlaceOfKind' /\ Drawn'
  BY <1>1, TypeStep, PlaceStep, DrawnStep
<1>3. UnbornIsNew' /\ OneInserts' /\ PageWaits'
  BY <1>1, UnbornIsNewStep, OneInsertsStep, PageWaitsStep
<1>4. FileComesFirst' /\ RowsAreRows'
  BY <1>1, FileComesFirstStep, RowsAreRowsStep
<1>5. OneActive' /\ ActiveIsKept' /\ DeletedStaysDeleted' /\ RowHasFile' /\ FileIsWhole'
  BY <1>1, OneActiveStep, ActiveIsKeptStep, DeletedStaysDeletedStep, RowHasFileStep,
    FileIsWholeStep
<1>6. QED
  BY <1>2, <1>3, <1>4, <1>5 DEF StoreInv

LEMMA StoreAlways == Spec => []StoreInv
  BY InitStore, StoreInvStep, PTL DEF Spec

\* Every variable keeps its type.
THEOREM StoreTypesCorrect == Spec => []TypeOK
<1>1. StoreInv => TypeOK
  BY DEF StoreInv
<1>2. QED
  BY <1>1, StoreAlways, PTL

\* A listed profile has its file, whichever calls run together and wherever the
\* process ends: the file is written before the row and deleted after it, and a
\* file that is to be deleted is that of no profile about to be inserted.
THEOREM ListedProfileHasFile == Spec => []RowHasFile
<1>1. StoreInv => RowHasFile
  BY DEF StoreInv
<1>2. QED
  BY <1>1, StoreAlways, PTL

\* At most one profile is active.
THEOREM OneProfileActive == Spec => []OneActive
<1>1. StoreInv => OneActive
  BY DEF StoreInv
<1>2. QED
  BY <1>1, StoreAlways, PTL

\* Where there are profiles one is active, but for what `lost` remembers.
THEOREM ActiveProfileKept == Spec => []ActiveIsKept
<1>1. StoreInv => ActiveIsKept
  BY DEF StoreInv
<1>2. QED
  BY <1>1, StoreAlways, PTL

\* A deleted profile does not come back, whatever was under way on it.
THEOREM DeletedForGood == Spec => []DeletedStaysDeleted
<1>1. StoreInv => DeletedStaysDeleted
  BY DEF StoreInv
<1>2. QED
  BY <1>1, StoreAlways, PTL

\* The file of a profile is whole unless it is being written, or two calls met
\* on the profile, or one was cut off or failed in the middle of the write.
THEOREM FilesAreWhole == Spec => []FileIsWhole
<1>1. StoreInv => FileIsWhole
  BY DEF StoreInv
<1>2. QED
  BY <1>1, StoreAlways, PTL

-----------------------------------------------------------------------------
(* Whether a row describes its file.                                        *)

\* A call that knows its profile, and one that is at work on it.
At(t, p)    == task[t].id = p /\ task[t].pc \notin {"idle", "lookup"}
Works(t, p) == At(t, p) /\ task[t].pc # "select"

\* Its file is being replaced, and the row is not yet written.
Replaces(t) ==
  \/ task[t].pc \in {"write", "commit"}
  \/ task[t].pc = "clean" /\ task[t].ok /\ task[t].kind # "content"

\* Nobody else is at work on a profile that is not remembered as raced, ...
Alone ==
  \A p \in Ids \ raced : \A t, u \in Tasks : Works(t, p) /\ Works(u, p) => t = u

\* ... but for the page and the call it waits for.
PageAlone ==
  page.state # "closed" /\ page.id \notin raced =>
    \A t \in Tasks : At(t, page.id) => FromPage(t)

\* The page's copy of the info is that of the row, until its call has told it.
PageCopies ==
  page.state # "closed" /\ ~page.new /\ page.id \notin raced /\ Exists(page.id)
    /\ (\A t \in Tasks : At(t, page.id) => task[t].pc # "told")
    => page.row.info = rows[page.id].info

\* What a call has fetched is in the temporary file, then read, then written;
\* and the row the page writes back has the info it has.
Fetched(t) ==
  LET p == task[t].id
  IN  /\ task[t].pc = "check" => temp[p] = task[t].no
      /\ task[t].pc \in {"open", "write"} => task[t].read = task[t].no
      /\ task[t].pc # "write" /\ Replaces(t) => file[p] = task[t].no
      /\ task[t].pc = "patch" /\ Exists(p) => task[t].row.info = rows[p].info

FetchedByCall == \A t \in Tasks : task[t].id \in Ids \ raced => Fetched(t)

\* A row describes its file, unless the file is being replaced.
RowIsOfFile(p) ==
  Exists(p) /\ (\A t \in Tasks : Works(t, p) => ~Replaces(t))
    => rows[p].info = file[p]

RowsAreOfFiles == \A p \in Ids \ raced : RowIsOfFile(p)

InfoInv ==
  StoreInv /\ Alone /\ PageAlone /\ PageCopies /\ FetchedByCall /\ RowsAreOfFiles

\* A call changes in a step of its own, or when the process ends.
LEMMA Mover ==
  ASSUME TypeOK, PlaceOfKind, Drawn, [Next]_vars, NEW t \in Tasks
  PROVE  task'[t] = task[t] \/ Start(t) \/ Advance(t) \/ Crash
<1>1. ASSUME NEW u \in Tasks, u # t, Start(u) \/ Advance(u)
      PROVE  task'[t] = task[t]
  <2>1. Begins(u) \/ LooksUp(u) \/ GoesOn(u) \/ Ends(u)
    BY <1>1, StartSteps, LookupSteps, AdvanceSteps
  <2>2. QED
    BY <1>1, <2>1 DEF Begins, LooksUp, GoesOn, Ends
<1>2. ASSUME NEW p \in Ids, OpenPage(p) \/ OpenNew(p) \/ WorkerSkips(p)
      PROVE  task' = task
  BY <1>2 DEF OpenPage, OpenNew, WorkerSkips
<1>3. CASE (\E u \in Urls : EditUrl(u)) \/ WorkerLists \/ ClosePage \/ UNCHANGED vars
  BY <1>3 DEF EditUrl, WorkerLists, ClosePage, vars
<1>4. QED
  BY <1>1, <1>2, <1>3 DEF Next

\* The end of the process is remembered for every profile at work.
LEMMA CrashRaces ==
  ASSUME TypeOK, Crash, NEW t \in Tasks, NEW p \in Ids, At(t, p)
  PROVE  p \in raced'
  BY DEF Crash, At, Busy

\* Calls made elsewhere look whether somebody is at work on the profile.
LEMMA ElsewhereRaces ==
  ASSUME TypeOK, Drawn, NEW t \in Tasks, Start(t), BeginsElsewhere(t)
  PROVE  /\ task'[t].id \in Ids
         /\ task'[t].pc = "select" => page.state = "closed"
         /\ task'[t].pc # "select" => Races(task'[t].id)
<1>0. /\ {"idle", "lookup", "fetch", "dropRow", "patch", "select"} \subseteq Places
      /\ {"add", "content", "save", "update", "worker", "refresh", "delete", "select"}
           \subseteq Kinds
      /\ \A p \in Ids : rows[p] \in Row
  BY DEF Places, Kinds, TypeOK
<1>1. ASSUME NEW p \in Ids, Select(t, p)
      PROVE  task'[t].id = p /\ task'[t].pc = "select" /\ page.state = "closed"
  BY <1>0, <1>1, IdleType, CallRecord, BeginRecord DEF Select
<1>2. ASSUME NEW p \in Ids, Update(t, p) \/ WorkerUpdates(t, p) \/ Delete(t, p)
      PROVE  task'[t].id = p /\ task'[t].pc # "select" /\ Races(p)
  <2>1. PICK kind \in Kinds, pc \in {"fetch", "dropRow"}, r \in Row :
          Begin(t, Call(kind, pc, p, r))
    BY <1>0, <1>2, IdleType DEF Update, WorkerUpdates, Delete
  <2>2. Races(p)
    BY <1>2 DEF Update, WorkerUpdates, Delete
  <2>3. /\ Call(kind, pc, p, r) \in Task
        /\ Call(kind, pc, p, r).pc = pc /\ Call(kind, pc, p, r).id = p
    BY <1>0, CallRecord
  <2>4. QED
    BY <2>1, <2>2, <2>3, BeginRecord
<1>3. ASSUME Save(t) \/ Refresh(t) \/ DeleteFromPage(t) PROVE FALSE
  <2>1. page' # page /\ page'.state # page.state
    BY <1>3 DEF Save, Refresh, DeleteFromPage, TypeOK, Page
  <2>2. QED
    BY <2>1 DEF BeginsElsewhere
<1>4. ASSUME AddByContent(t) PROVE FALSE
  BY <1>4 DEF AddByContent, BeginsElsewhere
<1>5. ASSUME NEW u \in Urls, AddByUrl(t, u) PROVE FALSE
  <2>1. PICK mark \in BOOLEAN :
          Begin(t, Call("add", "lookup", "nil",
                        [url |-> u, active |-> mark, info |-> 0]))
    BY <1>5 DEF AddByUrl
  <2>2. [url |-> u, active |-> mark, info |-> 0] \in Row
    BY BoundAssumption DEF Row
  <2> DEFINE rec == Call("add", "lookup", "nil",
                         [url |-> u, active |-> mark, info |-> 0])
  <2>3. rec \in Task /\ rec.pc = "lookup"
    BY <1>0, <2>2, CallRecord
  <2> HIDE DEF rec
  <2>4. Begin(t, rec)
    BY <2>1 DEF rec
  <2>5. task'[t].pc = "lookup"
    BY <2>3, <2>4, BeginRecord
  <2>6. QED
    BY <2>5 DEF BeginsElsewhere
<1>6. QED
  BY <1>1, <1>2, <1>3, <1>4, <1>5 DEF Start

\* So does the addition of a url that is there.
LEMMA LookupRaces ==
  ASSUME TypeOK, NEW t \in Tasks, Lookup(t)
  PROVE  task'[t].id \in Ids /\ (task'[t].id \in used => Races(task'[t].id))
<1>1. ASSUME NEW p \in Ids, Races(p),
             task' = [task EXCEPT ![t].pc = "fetch", ![t].id = p]
      PROVE  task'[t].id = p
  BY <1>1 DEF TypeOK, Task
<1>2. ASSUME NEW p \in Ids \ used,
             task' = [task EXCEPT ![t].pc = "fetch", ![t].id = p, ![t].insert = TRUE]
      PROVE  task'[t].id = p
  BY <1>2 DEF TypeOK, Task
<1>3. QED
  BY <1>1, <1>2 DEF Lookup

\* A call that comes to a profile finds nobody at work on it, nor the page open
\* on it, or the profile is remembered.
LEMMA ComesAlone ==
  ASSUME StoreInv, PageAlone, [Next]_vars, NEW t \in Tasks, NEW p \in Ids \ raced',
         At(t, p)', ~At(t, p)
  PROVE  /\ task'[t].pc # "select" => \A u \in Tasks : ~At(u, p)
         /\ page'.state # "closed" /\ page'.id = p => FromPage(t)'
<1>0. TypeOK /\ PlaceOfKind /\ Drawn /\ p \notin raced
  BY RacedGrows DEF StoreInv
<1>1. ASSUME Races(p)
      PROVE  (\A u \in Tasks : ~At(u, p)) /\ ~(page.state # "closed" /\ page.id = p)
  BY <1>0, <1>1 DEF Races, Touched, At, Busy
<1>2. ASSUME p \notin used
      PROVE  (\A u \in Tasks : ~At(u, p)) /\ ~(page.state # "closed" /\ page.id = p)
  BY <1>0, <1>2 DEF Drawn, At
<1>3. CASE Start(t)
  <2>1. Begins(t) /\ ~BeginsUrl(t)
    BY <1>0, <1>3, StartSteps DEF BeginsUrl, At
  <2>2. CASE BeginsContent(t)
    BY <1>2, <2>2 DEF BeginsContent, At
  <2>3. CASE BeginsOfPage(t)
    <3>1. \A u \in Tasks : ~At(u, p)
      BY <1>0, <2>3 DEF BeginsOfPage, At, PageAlone, FromPage
    <3>2. FromPage(t)'
      BY <1>0, <2>3 DEF BeginsOfPage, FromPage, TypeOK, Page
    <3>3. QED
      BY <3>1, <3>2
  <2>4. CASE BeginsElsewhere(t)
    <3>1. page' = page
      BY <2>4 DEF BeginsElsewhere
    <3>2. QED
      BY <1>0, <1>1, <1>3, <2>4, <3>1, ElsewhereRaces DEF At
  <2>5. QED
    BY <2>1, <2>2, <2>3, <2>4 DEF Begins
<1>4. CASE Lookup(t)
  <2>1. page' = page
    BY <1>4 DEF Lookup
  <2>2. QED
    BY <1>0, <1>1, <1>2, <1>4, <2>1, LookupRaces DEF At
<1>5. ~(Advance(t) /\ ~Lookup(t))
  <2>1. GoesOn(t) => At(t, p)
    BY DEF GoesOn, At
  <2>2. Ends(t) => ~At(t, p)'
    <3>1. Ends(t) => task'[t] = Idle
      BY DEF Ends
    <3>2. QED
      BY <3>1 DEF At, Idle
  <2>3. QED
    BY <1>0, <2>1, <2>2, AdvanceSteps
<1>6. task'[t] # task[t] /\ ~Crash
  BY DEF At, Crash, Idle
<1>7. QED
  BY <1>0, <1>3, <1>4, <1>5, <1>6, Mover

LEMMA AloneStep ==
  ASSUME StoreInv, PageAlone, Alone, [Next]_vars
  PROVE  Alone'
<1>0. TypeOK /\ PlaceOfKind /\ Drawn
  BY DEF StoreInv
<1> SUFFICES ASSUME NEW p \in Ids \ raced', NEW t \in Tasks, NEW u \in Tasks,
                    Works(t, p)', Works(u, p)', t # u
             PROVE  FALSE
  BY DEF Alone
<1>1. p \in Ids \ raced
  BY <1>0, RacedGrows
<1>2. ASSUME NEW v \in Tasks, Works(v, p)', At(v, p) PROVE Works(v, p)
  <2>1. CASE task'[v] = task[v]
    BY <1>2, <2>1 DEF Works, At
  <2>2. CASE GoesOn(v) /\ task[v].pc = "select" /\ Advance(v)
    <3>1. SelectRow(v)
      BY <2>2 DEF Advance, Lookup, Fetch, Check, OpenFile, WriteFile, Clean, Commit,
        Patch, DropRow, DropFile, Tell
    <3>2. task'[v] = Idle
      BY <1>0, <3>1 DEF SelectRow, End, TypeOK
    <3>3. QED
      BY <1>2, <3>2 DEF Works, At, Idle
  <2>3. ~Begins(v) /\ ~LooksUp(v) /\ task'[v] # Idle
    BY <1>2 DEF Begins, LooksUp, Works, At, Idle
  <2>4. QED
    BY <1>0, <1>2, <2>1, <2>2, <2>3, CallSteps DEF Works
<1>3. ~At(t, p) \/ ~At(u, p)
  BY <1>1, <1>2 DEF Alone
<1>4. ASSUME NEW v \in Tasks, NEW w \in Tasks, v # w, Works(v, p)', Works(w, p)',
             ~At(v, p)
      PROVE  FALSE
  <2>1. ~At(w, p)
    BY <1>4, ComesAlone DEF Works
  <2>2. task'[v] # task[v] /\ task'[w] # task[w]
    BY <1>4, <2>1 DEF Works, At
  <2>3. Crash
    BY <1>0, <1>4, <2>2, OneMoves
  <2>4. QED
    BY <1>4, <2>3 DEF Crash, Works, At, Idle
<1>5. QED
  BY <1>3, <1>4

\* The end of a call opens its page again, or closes it, or leaves it alone.
LEMMA PageOfCall ==
  ASSUME StoreInv, NEW t \in Tasks, Advance(t)
  PROVE  \/ UNCHANGED page
         \/ FromPage(t) /\ task'[t] = Idle
              /\ \/ page'.state = "closed"
                 \/ page'.state = "open" /\ page'.id = page.id /\ page'.new = page.new
<1>0. TypeOK /\ PlaceOfKind /\ Drawn
  BY DEF StoreInv
<1>1. CASE Lookup(t)
  BY <1>1 DEF Lookup
<1>2. CASE GoesOn(t)
  BY <1>2 DEF GoesOn
<1>3. CASE Ends(t)
  <2>1. task'[t] = Idle /\ NoPage.state = "closed"
    BY <1>3 DEF Ends, NoPage
  <2>2. \/ page' = page \/ page' = NoPage
        \/ /\ OfPage(t) /\ page.state = "busy" /\ page'.state = "open"
           /\ page'.id = page.id /\ page'.new = page.new
    BY <1>0, <1>3, EndsPage
  <2>3. FromPage(t) \/ page' = page
    BY <1>3 DEF Ends
  <2>4. QED
    BY <2>1, <2>2, <2>3
<1>4. QED
  BY <1>0, <1>1, <1>2, <1>3, AdvanceSteps

LEMMA PageAloneStep ==
  ASSUME StoreInv, PageAlone, Alone, [Next]_vars
  PROVE  PageAlone'
<1>0. TypeOK /\ PlaceOfKind /\ Drawn
  BY DEF StoreInv
<1>a. TypeOK' /\ Drawn'
  BY <1>0, DrawnStep, TypeStep DEF StoreInv
<1>b. \A t \in Tasks : At(t, page.id)' => page'.id \in Ids
  BY <1>a DEF At, Drawn, TypeOK
<1> SUFFICES ASSUME NEW p \in Ids, page'.state # "closed", page'.id = p, p \notin raced',
                    NEW t \in Tasks, At(t, p)'
             PROVE  FromPage(t)'
  BY <1>b DEF PageAlone, At
<1>1. p \notin raced
  BY <1>0, RacedGrows
<1>2. CASE ~At(t, p)
  BY <1>1, <1>2, ComesAlone
<1>3. CASE At(t, p) /\ page.state # "closed" /\ page.id = p
  <2>1. FromPage(t) /\ page.state = "busy"
    BY <1>1, <1>3 DEF PageAlone, FromPage
  <2>2. CASE page' = page
    <3>1. task'[t] = task[t] \/ GoesOn(t)
      BY <1>0, <1>1, <1>3, CallSteps DEF At, Begins, LooksUp, Idle
    <3>2. QED
      BY <2>1, <2>2, <3>1 DEF FromPage, GoesOn
  <2>3. CASE page' # page
    <3>1. ASSUME NEW u \in Tasks, Advance(u) PROVE FALSE
      <4>1. FromPage(u) /\ task'[u] = Idle
        BY <2>3, <3>1, PageOfCall
      <4>2. u # t
        BY <1>1, <4>1 DEF At, Idle
      <4>3. task[u].pc \notin {"idle", "lookup", "select"}
        BY <1>0, <4>1 DEF FromPage, PlaceOfKind
      <4>4. Works(u, p) /\ Works(t, p)
        BY <1>0, <1>3, <2>1, <4>1, <4>3 DEF FromPage, Works, At, PlaceOfKind
      <4>5. QED
        BY <1>1, <4>2, <4>4 DEF Alone
    <3>2. ASSUME NEW u \in Tasks, Begins(u) \/ LooksUp(u) PROVE FALSE
      BY <2>1, <2>3, <3>2 DEF Begins, LooksUp, BeginsUrl, BeginsContent, BeginsOfPage,
        BeginsElsewhere
    <3>3. CASE PageSteps
      BY <2>1, <2>3, <3>3 DEF PageSteps, OpenPage, OpenNew, EditUrl, ClosePage
    <3>4. ~Crash
      BY DEF Crash, NoPage
    <3>5. QED
      BY <1>0, <3>1, <3>2, <3>3, <3>4, AllSteps
  <2>4. QED
    BY <2>2, <2>3
<1>4. CASE At(t, p) /\ ~(page.state # "closed" /\ page.id = p)
  <2>1. ASSUME NEW u \in Tasks, Advance(u) PROVE FALSE
    BY <1>4, <2>1, PageOfCall DEF FromPage
  <2>2. ASSUME NEW u \in Tasks, Begins(u) \/ LooksUp(u) PROVE FALSE
    BY <1>0, <1>4, <2>2 DEF Begins, LooksUp, BeginsUrl, BeginsContent, BeginsOfPage,
      BeginsElsewhere, TypeOK, Page
  <2>3. ASSUME NEW q \in Ids, OpenPage(q) PROVE FALSE
    <3>1. q = p /\ Races(p)
      BY <2>3 DEF OpenPage
    <3>2. QED
      BY <1>1, <1>4, <3>1 DEF Races, Touched, Busy, At
  <2>4. ASSUME NEW q \in Ids, OpenNew(q) PROVE FALSE
    <3>1. q = p /\ p \notin used
      BY <2>4 DEF OpenNew
    <3>2. QED
      BY <1>0, <1>4, <3>1 DEF Drawn, At
  <2>5. ASSUME PageSteps PROVE FALSE
    BY <1>0, <1>4, <2>3, <2>4, <2>5 DEF PageSteps, EditUrl, ClosePage, NoPage, TypeOK, Page
  <2>6. ~Crash
    BY DEF Crash, NoPage
  <2>7. QED
    BY <1>0, <2>1, <2>2, <2>5, <2>6, AllSteps
<1>5. QED
  BY <1>2, <1>3, <1>4

\* A step in which no call at work on a profile takes part changes nothing of it.
Untouched(p) ==
  /\ file'[p] = file[p] /\ temp'[p] = temp[p]
  /\ rows'[p].info = rows[p].info /\ (Exists(p)' <=> Exists(p))

LEMMA OthersLeave ==
  ASSUME StoreInv, [Next]_vars, NEW p \in Ids,
         \A t \in Tasks : ~(Works(t, p) /\ Advance(t))
  PROVE  Untouched(p)
<1> USE DEF disk, hist
<1>0. TypeOK /\ PlaceOfKind /\ Drawn
  BY DEF StoreInv
<1>1. CASE UNCHANGED disk
  BY <1>1 DEF Untouched, Exists
<1>2. ASSUME NEW t \in Tasks, Start(t) PROVE UNCHANGED disk
  BY <1>2 DEF Start, AddByUrl, AddByContent, Save, Refresh, DeleteFromPage, Update,
    WorkerUpdates, Select, Delete
<1>3. CASE \/ \E q \in Ids : OpenPage(q) \/ OpenNew(q) \/ WorkerSkips(q)
           \/ (\E u \in Urls : EditUrl(u)) \/ WorkerLists \/ ClosePage \/ Crash
           \/ UNCHANGED vars
  <2>1. UNCHANGED disk
    BY <1>3 DEF OpenPage, OpenNew, WorkerSkips, EditUrl, WorkerLists, ClosePage, Crash, vars
  <2>2. QED
    BY <1>1, <2>1
<1>4. ASSUME NEW t \in Tasks, Advance(t) PROVE Untouched(p)
  <2> DEFINE q == task[t].id
  <2>0. ~Works(t, p)
    BY <1>4
  <2>1. CASE Lookup(t) \/ Check(t) \/ Tell(t)
    BY <2>1, <1>1 DEF Lookup, Check, Tell
  <2>2. ASSUME task[t].pc \notin {"idle", "lookup", "select"} PROVE q \in Ids /\ q # p
    BY <1>0, <2>0, <2>2, WorksOnProfile DEF Works, At
  <2>3. CASE Fetch(t) \/ Clean(t)
    <3>1. q \in Ids /\ q # p
      BY <2>2, <2>3 DEF Fetch, Clean
    <3>2. temp'[p] = temp[p] /\ UNCHANGED <<rows, file>>
      BY <1>0, <2>3, <3>1 DEF Fetch, Clean, TypeOK
    <3>3. QED
      BY <3>2 DEF Untouched, Exists
  <2>4. CASE OpenFile(t) \/ WriteFile(t) \/ DropFile(t)
    <3>1. q \in Ids /\ q # p
      BY <2>2, <2>4 DEF OpenFile, WriteFile, DropFile
    <3>2. file'[p] = file[p] /\ UNCHANGED <<rows, temp>>
      BY <1>0, <2>4, <3>1 DEF OpenFile, WriteFile, DropFile, TypeOK
    <3>3. QED
      BY <3>2 DEF Untouched, Exists
  <2>5. CASE DropRow(t)
    <3>1. q \in Ids /\ q # p
      BY <2>2, <2>5 DEF DropRow
    <3>2. rows'[p] = rows[p] /\ UNCHANGED <<file, temp>>
      BY <1>0, <2>5, <3>1 DEF DropRow, TypeOK
    <3>3. QED
      BY <3>2 DEF Untouched, Exists
  <2>6. CASE (Commit(t) \/ Patch(t)) /\ Refuse(t)
    BY <1>1, <2>6 DEF Refuse
  <2>7. CASE (Commit(t) \/ Patch(t)) /\ ~Refuse(t)
    <3>1. q \in Ids /\ q # p
      BY <2>2, <2>7 DEF Commit, Patch
    <3>2. UNCHANGED <<file, temp>>
      BY <2>7 DEF Commit, Patch
    <3>3. /\ task[t].row \in Row /\ [task[t].row EXCEPT !.info = task[t].no] \in Row
          /\ task[t].no \in 0 .. MaxEvents
      BY <1>0, TaskTypes
    <3>4. \E r \in Row : rows' \in {Insert(q, r), Edit(q, r), EditInfo(q, task[t].no)}
      BY <2>7, <3>3 DEF Commit, Patch
    <3>5. ASSUME NEW r \in Row
          PROVE  /\ Insert(q, r)[p].info = rows[p].info
                 /\ Insert(q, r)[p].url = rows[p].url
                 /\ Edit(q, r)[p].info = rows[p].info
                 /\ Edit(q, r)[p].url = rows[p].url
      BY <1>0, <3>1 DEF Insert, Edit, Deactivated, TypeOK, Row
    <3>6. EditInfo(q, task[t].no)[p] = rows[p]
      BY <1>0, <3>1 DEF EditInfo, TypeOK
    <3>7. rows'[p].info = rows[p].info /\ rows'[p].url = rows[p].url
      BY <3>4, <3>5, <3>6
    <3>8. QED
      BY <3>2, <3>7 DEF Untouched, Exists
  <2>8. CASE SelectRow(t)
    <3> DEFINE r == [rows[q] EXCEPT !.active = TRUE]
    <3>1. q \in Ids /\ UNCHANGED <<file, temp>>
      BY <1>0, <2>8, WorksOnProfile DEF SelectRow
    <3>2. r \in Row /\ r.info = rows[q].info /\ r.url = rows[q].url
      <4>1. rows[q] \in Row
        BY <1>0, <3>1 DEF TypeOK
      <4>2. QED
        BY <4>1 DEF Row
    <3>3. rows' = Edit(q, r)
      BY <2>8 DEF SelectRow
    <3> HIDE DEF r
    <3>4. Edit(q, r)[p].info = rows[p].info /\ Edit(q, r)[p].url = rows[p].url
      BY <1>0, <3>1, <3>2 DEF Edit, Insert, Deactivated, TypeOK, Row
    <3>5. QED
      BY <3>1, <3>3, <3>4 DEF Untouched, Exists
  <2>9. QED
    BY <1>4, <2>1, <2>3, <2>4, <2>5, <2>6, <2>7, <2>8 DEF Advance
<1>5. QED
  BY <1>1, <1>2, <1>3, <1>4 DEF Next

\* A step of a call that does not yet tell leaves the page's copy alone.
LEMMA PageAtWork ==
  ASSUME TypeOK, NEW t \in Tasks, Advance(t), ~Tell(t)
  PROVE  \/ page' = page
         \/ FromPage(t) /\ page'.state = "open" /\ page'.id = page.id
              /\ page'.row = page.row
<1>1. GiveUp(t) => \/ page' = page
                   \/ FromPage(t) /\ page' = [page EXCEPT !.state = "open"]
  BY DEF GiveUp
<1>2. page' = page \/ GiveUp(t)
  BY DEF Advance, Lookup, Fetch, Check, OpenFile, WriteFile, Clean, Commit, Patch,
    Refuse, SelectRow, DropRow, DropFile
<1>3. page \in Page
  BY DEF TypeOK
<1>4. QED
  BY <1>1, <1>2, <1>3 DEF Page

\* A step of the one call at work on a profile that is not remembered as raced:
\* its row describes its file again, or the call goes on replacing it.
Kept(t, p) ==
  /\ Exists(p)' /\ ~Replaces(t)' => rows'[p].info = file'[p]
  /\ task'[t].id = p => Fetched(t)'
  /\ page'.state # "closed" /\ page'.id = p /\ Exists(p)'
       /\ ~(At(t, p)' /\ task'[t].pc = "told")
       => page'.row.info = rows'[p].info

LEMMA WorkKeeps ==
  ASSUME InfoInv, [Next]_vars, NEW t \in Tasks, NEW p \in Ids \ raced',
         Works(t, p), Advance(t)
  PROVE  Kept(t, p)
<1> USE DEF disk, hist
<1>0. /\ TypeOK /\ PlaceOfKind /\ Drawn /\ StoreInv /\ DeletedStaysDeleted
      /\ p \in Ids \ raced /\ task[t].id = p /\ task[t].pc \notin {"idle", "lookup", "select"}
  BY RacedGrows DEF InfoInv, StoreInv, Works, At
<1>1. Exists(p) /\ ~Replaces(t) => rows[p].info = file[p]
  <2>1. \A u \in Tasks : Works(u, p) => u = t
    BY <1>0 DEF InfoInv, Alone
  <2>2. QED
    BY <1>0, <2>1 DEF InfoInv, RowsAreOfFiles, RowIsOfFile
<1>2. Fetched(t)
  BY <1>0 DEF InfoInv, FetchedByCall
<1>3. ASSUME page.state # "closed", page.id = p
      PROVE  /\ FromPage(t) /\ page.state = "busy"
             /\ task[t].kind \in {"save", "refresh", "delete"}
             /\ ~page.new /\ Exists(p) /\ task[t].pc # "told"
                  => page.row.info = rows[p].info
  <2>1. FromPage(t)
    BY <1>0, <1>3 DEF InfoInv, PageAlone, At
  <2>2. ASSUME NEW u \in Tasks, At(u, p) PROVE u = t
    <3>1. FromPage(u)
      BY <1>0, <1>3, <2>2 DEF InfoInv, PageAlone
    <3>2. Works(u, p)
      BY <1>0, <2>2, <3>1 DEF Works, FromPage, PlaceOfKind
    <3>3. QED
      BY <1>0, <3>2 DEF InfoInv, Alone
  <2>3. QED
    BY <1>0, <1>3, <2>1, <2>2 DEF InfoInv, PageCopies, FromPage
<1>4. ASSUME page.new, page.state = "busy", FromPage(t)
      PROVE  ~Exists(p) \/ task[t].pc = "told"
  BY <1>0, <1>4 DEF StoreInv, PageWaits, OfPage, FromPage, UnbornIsNew, Unborn
<1>5. ASSUME page.state # "closed", page.id = p, Exists(p), task[t].pc # "told"
      PROVE  page.row.info = rows[p].info
  BY <1>3, <1>4, <1>5
<1>6. ~Tell(t) /\ page'.state # "closed" /\ page'.id = p /\ Exists(p)
        => page'.row.info = rows[p].info
  <2>1. ~Tell(t) => \/ page' = page
                    \/ FromPage(t) /\ page'.state = "open" /\ page'.id = page.id
                         /\ page'.row = page.row
    BY <1>0, PageAtWork
  <2>2. Advance(t) /\ task[t].pc = "told" => Tell(t)
    BY DEF Advance, Lookup, Fetch, Check, OpenFile, WriteFile, Clean, Commit, Patch,
      SelectRow, DropRow, DropFile
  <2>3. FromPage(t) => page.state = "busy"
    BY DEF FromPage
  <2>4. QED
    BY <1>5, <2>1, <2>2, <2>3
\* a step that leaves the row and the file alone, and the call where it is not
\* replacing the file
<1>7. ASSUME UNCHANGED <<rows, file>>, ~Tell(t), Replaces(t) => Replaces(t)',
             task'[t].id = p => Fetched(t)'
      PROVE  Kept(t, p)
  BY <1>1, <1>6, <1>7 DEF Kept, Exists
<1>8. CASE task'[t] = Idle /\ UNCHANGED <<rows, file>> /\ ~Tell(t) /\ ~Replaces(t)
  <2>1. Fetched(t)'
    BY <1>8 DEF Fetched, Replaces, Idle
  <2>2. QED
    BY <1>7, <1>8, <2>1
<1>9. CASE Fail(t) /\ UNCHANGED <<rows, file>> /\ ~Tell(t) /\ ~Replaces(t)
  <2>1. task'[t].pc = "clean" /\ ~task'[t].ok
    BY <1>0, <1>9, FailGoesOn
  <2>2. Fetched(t)'
    BY <2>1 DEF Fetched, Replaces
  <2>3. QED
    BY <1>7, <1>9, <2>2
<1>10. ~(Lookup(t) \/ SelectRow(t))
  BY <1>0 DEF Lookup, SelectRow
<1>11. CASE Fetch(t)
  <2>1. CASE ~Fail(t)
    <3>1. task'[t].pc = "check" /\ task'[t].id = p /\ task'[t].no = task[t].no
      BY <1>0, <1>11, <2>1 DEF Fetch, Goto, TypeOK, Task
    <3>2. temp'[p] = task[t].no /\ UNCHANGED <<rows, file>>
      BY <1>0, <1>11, <2>1 DEF Fetch, TypeOK
    <3>3. Fetched(t)' /\ ~Replaces(t)
      BY <1>11, <3>1, <3>2 DEF Fetched, Replaces, Fetch
    <3>4. QED
      BY <1>7, <1>11, <3>2, <3>3 DEF Fetch, Tell
  <2>2. CASE Fail(t)
    BY <1>9, <1>11, <2>2 DEF Fetch, Tell, Replaces
  <2>3. QED
    BY <2>1, <2>2
<1>12. CASE Check(t)
  <2>1. CASE ~Fail(t)
    <3>1. /\ task'[t].pc = "open" /\ task'[t].id = p /\ task'[t].no = task[t].no
          /\ task'[t].read = temp[p]
      BY <1>0, <1>12, <2>1 DEF Check, TypeOK, Task
    <3>2. Fetched(t)' /\ ~Replaces(t) /\ UNCHANGED <<rows, file>>
      BY <1>0, <1>2, <1>12, <3>1 DEF Fetched, Replaces, Check
    <3>3. QED
      BY <1>7, <1>12, <3>2 DEF Check, Tell
  <2>2. CASE Fail(t)
    BY <1>9, <1>12, <2>2 DEF Check, Tell, Replaces
  <2>3. QED
    BY <2>1, <2>2
<1>13. CASE OpenFile(t)
  <2>1. /\ task'[t].pc = "write" /\ task'[t].id = p /\ task'[t].no = task[t].no
        /\ task'[t].read = task[t].read
    BY <1>0, <1>13 DEF OpenFile, Goto, TypeOK, Task
  <2>2. Fetched(t)' /\ Replaces(t)' /\ ~Tell(t)
    BY <1>0, <1>2, <1>13, <2>1 DEF Fetched, Replaces, OpenFile, Tell
  <2>3. UNCHANGED rows
    BY <1>13 DEF OpenFile
  <2>4. QED
    BY <1>6, <2>2, <2>3 DEF Kept, Exists
<1>14. CASE WriteFile(t)
  <2>1. ~Fail(t) \/ raced' # raced \cup {p}
    BY <1>0
  <2>2. ASSUME NEW u \in Writing(p) PROVE u = t
    <3>1. u \in Tasks /\ Works(u, p)
      BY <2>2 DEF Writing, Works, At
    <3>2. QED
      BY <1>0, <3>1 DEF InfoInv, Alone
  <2>3. Writing(p) = {t}
    BY <1>0, <1>14, <2>2 DEF Writing, WriteFile
  <2>4. /\ file' = [file EXCEPT ![p] = task[t].read] /\ UNCHANGED rows
        /\ Goto(t, IF task[t].kind = "content" THEN "commit" ELSE "clean")
    BY <1>0, <1>14, <2>1, <2>3 DEF WriteFile
  <2>5. file'[p] = task[t].no
    BY <1>0, <1>2, <1>14, <2>4 DEF WriteFile, Fetched, TypeOK
  <2>6. /\ task'[t].no = task[t].no /\ task'[t].ok /\ task'[t].kind = task[t].kind
        /\ task'[t].pc = IF task[t].kind = "content" THEN "commit" ELSE "clean"
        /\ task'[t].id = p
    <3>1. task[t].ok
      BY <1>0, <1>14 DEF PlaceOfKind, WriteFile
    <3>2. QED
      BY <1>0, <2>4, <3>1 DEF Goto, TypeOK, Task
  <2>7. Fetched(t)' /\ Replaces(t)' /\ ~Tell(t)
    BY <1>14, <2>5, <2>6 DEF Fetched, Replaces, WriteFile, Tell
  <2>8. QED
    BY <1>6, <2>4, <2>7 DEF Kept, Exists
<1>15. CASE Clean(t)
  <2>1. UNCHANGED <<rows, file>> /\ ~Tell(t) /\ task[t].pc = "clean"
    BY <1>15 DEF Clean, Tell
  <2>2. CASE ~task[t].ok /\ GiveUp(t)
    <3>1. task'[t] = Idle /\ ~Replaces(t)
      BY <1>0, <2>1, <2>2 DEF GiveUp, End, TypeOK, Replaces
    <3>2. QED
      BY <1>8, <2>1, <3>1
  <2>3. CASE task[t].ok /\ Goto(t, IF task[t].kind = "content" THEN "told" ELSE "commit")
    <3>1. /\ task'[t].pc = IF task[t].kind = "content" THEN "told" ELSE "commit"
          /\ task'[t].id = p /\ task'[t].no = task[t].no
      BY <1>0, <2>3 DEF Goto, TypeOK, Task
    <3>2. Replaces(t) => Replaces(t)'
      BY <2>1, <3>1 DEF Replaces
    <3>3. task[t].kind # "content" => file[p] = task[t].no
      BY <1>0, <1>2, <2>1, <2>3 DEF Fetched, Replaces
    <3>4. Fetched(t)'
      BY <2>1, <3>1, <3>3 DEF Fetched, Replaces
    <3>5. QED
      BY <1>7, <2>1, <3>2, <3>4
  <2>4. QED
    BY <1>15, <2>2, <2>3 DEF Clean
<1>16. ~Refuse(t)
  BY <1>0 DEF Refuse
<1>17. CASE Commit(t)
  <2>1. /\ Goto(t, IF task[t].kind = "content" THEN "clean" ELSE "told")
        /\ UNCHANGED <<file, page>> /\ task[t].pc = "commit"
    BY <1>16, <1>17 DEF Commit
  <2>2. file[p] = task[t].no
    BY <1>0, <1>2, <2>1 DEF Fetched, Replaces
  <2>3. /\ task'[t].pc = IF task[t].kind = "content" THEN "clean" ELSE "told"
        /\ task'[t].kind = task[t].kind /\ task'[t].id = p
    BY <1>0, <2>1 DEF Goto, TypeOK, Task
  <2>4. Fetched(t)'
    BY <2>3 DEF Fetched, Replaces
  <2>5. Exists(p)' => rows'[p].info = task[t].no
    <3>1. CASE task[t].insert
      <4>1. rows' = Insert(p, [task[t].row EXCEPT !.info = task[t].no])
        BY <1>0, <1>16, <1>17, <3>1 DEF Commit
      <4>2. rows'[p] = [task[t].row EXCEPT !.info = task[t].no]
        BY <1>0, <4>1 DEF Insert, Deactivated
      <4>3. QED
        BY <1>0, <4>2, TaskTypes DEF Row
    <3>2. CASE ~task[t].insert
      <4>1. rows' = EditInfo(p, task[t].no)
        BY <1>0, <1>16, <1>17, <3>2 DEF Commit
      <4>2. QED
        BY <1>0, <4>1 DEF EditInfo, Exists, TypeOK, Row
    <3>3. QED
      BY <3>1, <3>2
  <2>6. page'.state # "closed" /\ page'.id = p => At(t, p)' /\ task'[t].pc = "told"
    BY <1>3, <2>1, <2>3 DEF At
  <2>7. QED
    BY <2>1, <2>2, <2>4, <2>5, <2>6 DEF Kept
<1>18. CASE Patch(t)
  <2>1. /\ Goto(t, "told") /\ UNCHANGED <<file, page>> /\ task[t].pc = "patch"
        /\ rows' = Edit(p, task[t].row)
    BY <1>0, <1>16, <1>18 DEF Patch
  <2>2. task'[t].pc = "told" /\ task'[t].id = p
    BY <1>0, <2>1 DEF Goto, TypeOK, Task
  <2>3. Fetched(t)' /\ At(t, p)' /\ ~Replaces(t)
    BY <2>1, <2>2 DEF Fetched, Replaces, At
  <2>4. Exists(p)' => Exists(p) /\ rows'[p] = task[t].row
    BY <1>0, <2>1 DEF Edit, Insert, Deactivated, Exists, TypeOK, Row
  <2>5. Exists(p) => task[t].row.info = rows[p].info
    BY <1>0, <1>2, <2>1 DEF Fetched
  <2>6. QED
    BY <1>1, <2>1, <2>2, <2>3, <2>4, <2>5 DEF Kept
<1>19. CASE DropRow(t)
  <2>1. ~Exists(p)'
    BY <1>0, <1>19, DropRows DEF Exists
  <2>2. task'[t].pc = "dropFile"
    BY <1>0, <1>19 DEF DropRow, Goto, TypeOK, Task
  <2>3. Fetched(t)'
    BY <2>2 DEF Fetched, Replaces
  <2>4. QED
    BY <2>1, <2>3 DEF Kept
<1>20. CASE DropFile(t)
  <2>1. ~Exists(p) /\ UNCHANGED rows
    BY <1>0, <1>20 DEF PlaceOfKind, DeletedStaysDeleted, DropFile
  <2>2. task'[t].pc \in {"idle", "told"}
    BY <1>0, <1>20 DEF DropFile, GiveUp, End, Idle, Goto, TypeOK, Task
  <2>3. Fetched(t)'
    BY <2>2 DEF Fetched, Replaces
  <2>4. QED
    BY <2>1, <2>3 DEF Kept, Exists
<1>21. CASE Tell(t)
  <2>1. task'[t] = Idle /\ UNCHANGED <<rows, file>> /\ ~Replaces(t)
    BY <1>0, <1>21 DEF Tell, End, TypeOK, Replaces
  <2>2. Fetched(t)'
    BY <2>1 DEF Fetched, Replaces, Idle
  <2>3. ASSUME page'.state # "closed", page'.id = p, Exists(p)
        PROVE  page'.row.info = rows[p].info
    <3>1. page \in Page /\ NoPage.state = "closed"
      BY <1>0 DEF TypeOK, NoPage
    <3>2. FromPage(t)
      BY <1>3, <1>21, <2>3 DEF Tell
    <3>3. page.id = p
      BY <1>0, <3>2 DEF FromPage
    <3>4. page' = [page EXCEPT !.state = "open", !.row = rows[p]]
      BY <1>21, <2>3, <3>1, <3>2, <3>3 DEF Tell
    <3>5. QED
      BY <3>1, <3>4 DEF Page
  <2>4. QED
    BY <1>1, <2>1, <2>2, <2>3 DEF Kept, Exists
<1>22. QED
  BY <1>10, <1>11, <1>12, <1>13, <1>14, <1>15, <1>17, <1>18, <1>19, <1>20, <1>21
  DEF Advance

\* Where nobody at work on a profile moves, nobody at work is moved, but by the
\* end of the process.
LEMMA StillAtWork ==
  ASSUME StoreInv, [Next]_vars, NEW p \in Ids \ raced', NEW t \in Tasks,
         Works(t, p), ~Advance(t)
  PROVE  task'[t] = task[t]
<1>0. TypeOK /\ PlaceOfKind /\ Drawn
  BY DEF StoreInv
<1>1. ~Start(t)
  BY <1>0, StartSteps DEF Works, At, Begins
<1>2. ~Crash
  BY <1>0, CrashRaces DEF Works
<1>3. QED
  BY <1>0, <1>1, <1>2, Mover

LEMMA RowsAreOfFilesStep ==
  ASSUME InfoInv, [Next]_vars
  PROVE  RowsAreOfFiles'
<1>0. TypeOK /\ PlaceOfKind /\ Drawn /\ StoreInv /\ Alone
  BY DEF InfoInv, StoreInv
<1> SUFFICES ASSUME NEW p \in Ids \ raced', Exists(p)',
                    \A t \in Tasks : Works(t, p)' => ~Replaces(t)'
             PROVE  rows'[p].info = file'[p]
  BY DEF RowsAreOfFiles, RowIsOfFile
<1>1. p \in Ids \ raced
  BY <1>0, RacedGrows
<1>2. ASSUME NEW t \in Tasks, Works(t, p), Advance(t)
      PROVE  rows'[p].info = file'[p]
  <2>1. Kept(t, p)
    BY <1>2, WorkKeeps
  <2>2. ~Replaces(t)'
    <3>1. CASE Works(t, p)'
      BY <3>1
    <3>2. CASE task'[t] = Idle
      BY <3>2 DEF Idle, Replaces
    <3>3. CASE GoesOn(t) /\ ~Works(t, p)'
      BY <1>0, <1>2, <3>3, AdvancePlaces DEF GoesOn, Works, At, Replaces
    <3>4. ~Lookup(t) /\ (Ends(t) => task'[t] = Idle)
      BY <1>2 DEF Lookup, Works, At, Ends
    <3>5. QED
      BY <1>0, <1>2, <3>1, <3>2, <3>3, <3>4, AdvanceSteps
  <2>3. QED
    BY <2>1, <2>2 DEF Kept
<1>3. ASSUME \A t \in Tasks : ~(Works(t, p) /\ Advance(t))
      PROVE  rows'[p].info = file'[p]
  <2>1. Untouched(p)
    BY <1>0, <1>3, OthersLeave
  <2>2. ASSUME NEW t \in Tasks, Works(t, p) PROVE ~Replaces(t)
    <3>1. task'[t] = task[t]
      BY <1>0, <1>3, <2>2, StillAtWork
    <3>2. Works(t, p)' /\ (Replaces(t)' <=> Replaces(t))
      BY <2>2, <3>1 DEF Works, At, Replaces
    <3>3. QED
      BY <3>2
  <2>3. QED
    BY <1>1, <2>1, <2>2 DEF InfoInv, RowsAreOfFiles, RowIsOfFile, Untouched
<1>4. QED
  BY <1>2, <1>3

LEMMA FetchedByCallStep ==
  ASSUME InfoInv, [Next]_vars
  PROVE  FetchedByCall'
<1>0. TypeOK /\ PlaceOfKind /\ Drawn /\ StoreInv /\ Alone
  BY DEF InfoInv, StoreInv
<1> SUFFICES ASSUME NEW t \in Tasks, NEW p \in Ids \ raced', task'[t].id = p
             PROVE  Fetched(t)'
  BY DEF FetchedByCall
<1>1. p \in Ids \ raced
  BY <1>0, RacedGrows
<1>2. ASSUME task'[t].pc \in {"idle", "lookup", "fetch", "select", "dropRow"}
      PROVE  Fetched(t)'
  BY <1>2 DEF Fetched, Replaces
<1>3. CASE Advance(t)
  <2>1. CASE Lookup(t)
    BY <1>0, <1>2, <2>1, LookupSteps DEF LooksUp
  <2>2. CASE Ends(t)
    <3>1. task'[t] = Idle
      BY <2>2 DEF Ends
    <3>2. QED
      BY <1>2, <3>1 DEF Idle
  <2>3. CASE GoesOn(t) /\ task[t].pc # "select"
    <3>1. Works(t, p)
      BY <2>3 DEF GoesOn, Works, At
    <3>2. QED
      BY <1>3, <3>1, WorkKeeps DEF Kept
  <2>4. CASE task[t].pc = "select"
    <3>1. SelectRow(t)
      BY <1>3, <2>4 DEF Advance, Lookup, Fetch, Check, OpenFile, WriteFile, Clean, Commit,
        Patch, DropRow, DropFile, Tell
    <3>2. task'[t] = Idle
      BY <1>0, <3>1 DEF SelectRow, End, TypeOK
    <3>3. QED
      BY <1>2, <3>2 DEF Idle
  <2>5. QED
    BY <1>0, <1>3, <2>1, <2>2, <2>3, <2>4, AdvanceSteps
<1>4. CASE ~Advance(t) /\ task'[t] = task[t]
  <2>1. CASE Works(t, p)
    <3>1. \A u \in Tasks : ~(Works(u, p) /\ Advance(u))
      BY <1>1, <1>4, <2>1 DEF InfoInv, Alone
    <3>2. Untouched(p)
      BY <1>0, <3>1, OthersLeave
    <3>3. Fetched(t) /\ task[t].id = p
      BY <1>1, <1>4 DEF InfoInv, FetchedByCall
    <3>4. QED
      BY <1>4, <3>2, <3>3 DEF Fetched, Replaces, Untouched
  <2>2. CASE ~Works(t, p)
    BY <1>2, <1>4, <2>2 DEF Works, At
  <2>3. QED
    BY <2>1, <2>2
<1>5. CASE Start(t)
  <2>1. Begins(t) /\ rows' = rows
    BY <1>0, <1>5, StartSteps DEF Begins
  <2>2. CASE ~(BeginsOfPage(t) /\ task'[t].pc = "patch")
    BY <1>2, <2>1, <2>2
    DEF Begins, BeginsUrl, BeginsContent, BeginsOfPage, BeginsElsewhere
  <2>3. CASE BeginsOfPage(t) /\ task'[t].pc = "patch"
    <3>1. /\ page.state = "open" /\ ~page.new /\ page.id = p
          /\ task'[t].row = page.row
      BY <2>3 DEF BeginsOfPage
    <3>2. \A u \in Tasks : ~At(u, p)
      BY <1>1, <3>1 DEF InfoInv, PageAlone, FromPage
    <3>3. Exists(p) => page.row.info = rows[p].info
      BY <1>1, <3>1, <3>2 DEF InfoInv, PageCopies
    <3>4. QED
      BY <2>1, <2>3, <3>1, <3>3 DEF Fetched, Replaces, Exists
  <2>4. QED
    BY <2>2, <2>3
<1>6. CASE Crash
  BY <1>2, <1>6 DEF Crash, Idle
<1>7. QED
  BY <1>0, <1>3, <1>4, <1>5, <1>6, Mover

LEMMA PageCopiesStep ==
  ASSUME InfoInv, [Next]_vars
  PROVE  PageCopies'
<1>0. TypeOK /\ PlaceOfKind /\ Drawn /\ StoreInv /\ Alone
  BY DEF InfoInv, StoreInv
<1>a. TypeOK' /\ Drawn'
  BY <1>0, DrawnStep, TypeStep DEF StoreInv
<1>b. page'.state # "closed" => page'.id \in Ids
  BY <1>a DEF Drawn, TypeOK
<1> SUFFICES ASSUME NEW p \in Ids \ raced', page'.state # "closed", page'.id = p,
                    ~page'.new, Exists(p)',
                    \A t \in Tasks : At(t, p)' => task'[t].pc # "told"
             PROVE  page'.row.info = rows'[p].info
  BY <1>b DEF PageCopies, Exists, At
<1>1. p \in Ids \ raced
  BY <1>0, RacedGrows
<1>2. ASSUME NEW t \in Tasks, Works(t, p), Advance(t)
      PROVE  page'.row.info = rows'[p].info
  BY <1>2, WorkKeeps DEF Kept
<1>3. ASSUME \A t \in Tasks : ~(Works(t, p) /\ Advance(t))
      PROVE  page'.row.info = rows'[p].info
  <2>1. Untouched(p)
    BY <1>0, <1>3, OthersLeave
  <2>2. ASSUME NEW t \in Tasks, At(t, p) PROVE task[t].pc # "told"
    <3>1. CASE task[t].pc = "told"
      <4>1. Works(t, p)
        BY <2>2, <3>1 DEF Works
      <4>2. task'[t] = task[t]
        BY <1>0, <1>3, <4>1, StillAtWork
      <4>3. QED
        BY <2>2, <3>1, <4>2 DEF At
    <3>2. QED
      BY <3>1
  <2>3. page.state # "closed" /\ page.id = p /\ ~page.new
        => page.row.info = rows[p].info
    BY <1>1, <2>1, <2>2 DEF InfoInv, PageCopies, Untouched
  <2>4. CASE page'.row = page.row /\ page'.id = page.id /\ page'.new = page.new
             /\ page.state # "closed"
    BY <2>1, <2>3, <2>4 DEF Untouched
  <2>5. page \in Page
    BY <1>0 DEF TypeOK
  <2>6. CASE UNCHANGED page
    BY <2>4, <2>6
  <2>7. ASSUME NEW t \in Tasks, Begins(t) \/ LooksUp(t)
        PROVE  page'.row.info = rows'[p].info
    <3>1. UNCHANGED page \/ (page.state = "open" /\ page' = [page EXCEPT !.state = "busy"])
      BY <2>7 DEF Begins, LooksUp, BeginsUrl, BeginsContent, BeginsOfPage, BeginsElsewhere
    <3>2. QED
      BY <2>4, <2>5, <2>6, <3>1 DEF Page
  <2>8. ASSUME NEW t \in Tasks, Advance(t)
        PROVE  page'.row.info = rows'[p].info
    <3>1. CASE FromPage(t) /\ page'.id = page.id
      <4>1. Works(t, p)
        BY <1>0, <3>1 DEF FromPage, Works, At, PlaceOfKind
      <4>2. QED
        BY <1>3, <2>8, <4>1
    <3>2. QED
      BY <1>0, <2>6, <2>8, <3>1, PageOfCall
  <2>9. CASE PageSteps
    <3>1. ASSUME NEW q \in Ids, OpenPage(q) PROVE page'.row.info = rows'[p].info
      <4>1. q = p /\ page'.row = rows[p]
        BY <3>1 DEF OpenPage
      <4>2. QED
        BY <2>1, <4>1 DEF Untouched
    <3>2. ASSUME NEW q \in Ids, OpenNew(q) PROVE FALSE
      BY <3>2 DEF OpenNew
    <3>3. ASSUME NEW u \in Urls, EditUrl(u) PROVE page'.row.info = rows'[p].info
      <4>1. /\ page'.row.info = page.row.info /\ page'.id = page.id
            /\ page'.new = page.new /\ page.state # "closed"
        BY <2>5, <3>3 DEF EditUrl, Page, Row
      <4>2. QED
        BY <2>1, <2>3, <4>1 DEF Untouched
    <3>4. ~ClosePage
      BY DEF ClosePage, NoPage
    <3>5. QED
      BY <2>6, <2>9, <3>1, <3>2, <3>3, <3>4 DEF PageSteps
  <2>10. ~Crash
    BY DEF Crash, NoPage
  <2>11. QED
    BY <1>0, <2>7, <2>8, <2>9, <2>10, AllSteps
<1>4. QED
  BY <1>2, <1>3

LEMMA InitInfo == Init => InfoInv
<1> SUFFICES ASSUME Init PROVE InfoInv
  OBVIOUS
<1>1. StoreInv
  BY InitStore
<1>2. \A p \in Ids : ~Exists(p)
  BY DEF Init, Exists, NoRow
<1>3. \A t \in Tasks : task[t].pc = "idle"
  BY DEF Init, Idle
<1>4. page.state = "closed"
  BY DEF Init, NoPage
<1>5. Alone /\ PageAlone /\ PageCopies /\ RowsAreOfFiles
  BY <1>2, <1>3, <1>4 DEF Alone, Works, At, PageAlone, PageCopies, RowsAreOfFiles, RowIsOfFile
<1>6. FetchedByCall
  BY <1>3 DEF FetchedByCall, Fetched, Replaces
<1>7. QED
  BY <1>1, <1>5, <1>6 DEF InfoInv

LEMMA InfoInvStep == InfoInv /\ [Next]_vars => InfoInv'
<1> SUFFICES ASSUME InfoInv, [Next]_vars PROVE InfoInv'
  OBVIOUS
<1>1. StoreInv /\ Alone /\ PageAlone
  BY DEF InfoInv
<1>2. StoreInv' /\ Alone' /\ PageAlone'
  BY <1>1, StoreInvStep, AloneStep, PageAloneStep
<1>3. PageCopies' /\ FetchedByCall' /\ RowsAreOfFiles'
  BY PageCopiesStep, FetchedByCallStep, RowsAreOfFilesStep
<1>4. QED
  BY <1>2, <1>3 DEF InfoInv

LEMMA InfoAlways == Spec => []InfoInv
  BY InitInfo, InfoInvStep, PTL DEF Spec

\* A row describes the file its profile runs with, once no call is at work on it,
\* unless two were together on it or one was cut off: what a call has fetched goes
\* to the file and then to the row, and the copy the page writes back is that of
\* the last one.
THEOREM RowDescribesFile == Spec => []InfoOfFile
<1>1. InfoInv => InfoOfFile
  <2> SUFFICES ASSUME InfoInv, NEW p \in Ids, Remote(p), p \notin raced,
                      \A t \in Tasks : task[t].id # p
               PROVE  rows[p].info = file[p]
    BY DEF InfoOfFile
  <2>1. Exists(p)
    BY UrlAssumption DEF Remote, Exists
  <2>2. QED
    BY <2>1 DEF InfoInv, RowsAreOfFiles, RowIsOfFile, Works, At
<1>2. QED
  BY <1>1, InfoAlways, PTL
===============================================================================
