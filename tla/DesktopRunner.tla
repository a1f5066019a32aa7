---------------------------- MODULE DesktopRunner ----------------------------
(***************************************************************************)
(* The desktop app as a process: how its launches meet, the life of the    *)
(* window object around the Flutter engine, and what becomes of the link a *)
(* launch is given.                                                        *)
(*                                                                         *)
(* An app is one launch of the executable; they are numbered in order.     *)
(* Each has a main thread, which runs wWinMain (or main of the GTK runner),*)
(* the window procedure and, once the message loop is reached, Dart.  Apps *)
(* see each other's windows by title, and hand over links by a message to  *)
(* the window that is answered by its loop.                                *)
(***************************************************************************)
EXTENDS Naturals, Sequences, SequencesExt

CONSTANTS Links,        \* what a launch may be asked to open
          NoLink,       \* a plain launch
          MaxLaunches   \* bound: launches

ASSUME LinksAssumption == NoLink \notin Links
ASSUME LaunchesAssumption == MaxLaunches \in Nat

Apps == 1..MaxLaunches
nobody == 0

VARIABLES
  platform,  \* "windows" or "linux"
  pc,        \* per app: where its main thread is
  arg,       \* per app: the link on its command line
  target,    \* per app: the app whose window it found
  title,     \* per app: its window's title, "none" if there is no window
  handle,    \* per app: window_handle_ is set
  objects,   \* per app: g_active_window_count
  classes,   \* per app: what is known of the window class: the flag
             \*   class_registered_, and whether the system has it
  engine,    \* per app: flutter_controller_ holds an engine
  com,       \* per app: COM is initialised
  quit,      \* per app: WM_QUIT is in its queue
  bare,      \* history, per app: that was posted by window_manager's destroy
  boot,      \* per app: how far Dart's bootstrap has come
  mail,      \* per app: links on the way to its Dart side, by their launch
  updates,   \* per app: links that wait for the service's build to end
  value,     \* per app: the launch whose link the service holds
  fate       \* per launch: what has become of its link

osVars == <<title, handle, objects, classes, engine>>
mainVars == <<pc, arg, target, com>>
quitVars == <<quit, bare>>
linkVars == <<mail, updates, value, fate>>
runnerVars == <<platform, mainVars, osVars, quitVars, boot, linkVars>>

Ended == {"success", "failure"}

RunnerTypeOK ==
  /\ platform \in {"windows", "linux"}
  /\ pc \in [Apps -> {"none", "find", "dispatch", "create", "register", "setup",
                      "loop", "unwind", "members", "base"} \cup Ended]
  /\ arg \in [Apps -> Links \cup {NoLink}]
  /\ target \in [Apps -> Apps \cup {nobody}]
  /\ title \in [Apps -> {"none", "name", "name and version"}]
  /\ handle \in [Apps -> BOOLEAN] /\ engine \in [Apps -> BOOLEAN]
  /\ objects \in [Apps -> 0..1]
  /\ classes \in [Apps -> [flag : BOOLEAN, system : BOOLEAN]]
  /\ com \in [Apps -> BOOLEAN]
  /\ quit \in [Apps -> BOOLEAN] /\ bare \in [Apps -> BOOLEAN]
  /\ boot \in [Apps -> {"start", "titled", "deaf", "hearing", "built", "ready",
                        "guarded", "failed"}]
  /\ mail \in [Apps -> Seq(Apps)] /\ updates \in [Apps -> Seq(Apps)]
  /\ value \in [Apps -> Apps \cup {nobody}]
  /\ fate \in [Apps -> {"open", "shown", "unheard", "replaced", "repeated",
                        "gone"}]

RunnerInit ==
  /\ platform \in {"windows", "linux"}
  /\ pc = [a \in Apps |-> "none"]
  /\ arg = [a \in Apps |-> NoLink]
  /\ target = [a \in Apps |-> nobody]
  /\ title = [a \in Apps |-> "none"]
  /\ handle = [a \in Apps |-> FALSE] /\ engine = [a \in Apps |-> FALSE]
  /\ objects = [a \in Apps |-> 0]
  /\ classes = [a \in Apps |-> [flag |-> FALSE, system |-> FALSE]]
  /\ com = [a \in Apps |-> FALSE]
  /\ quit = [a \in Apps |-> FALSE] /\ bare = [a \in Apps |-> FALSE]
  /\ boot = [a \in Apps |-> "start"]
  /\ mail = [a \in Apps |-> <<>>] /\ updates = [a \in Apps |-> <<>>]
  /\ value = [a \in Apps |-> nobody]
  /\ fate = [a \in Apps |-> "open"]

Goto(a, place) == pc' = [pc EXCEPT ![a] = place]

\* The links of the launches in lost, as far as they are still open, end so.
LoseLinks(lost, how) ==
  fate' = [x \in Apps |-> IF x \in lost /\ fate[x] = "open" THEN how ELSE fate[x]]

----------------------------------------------------------------------------
(* Launches.                                                               *)

\* The GTK runner hands its arguments to Dart, which does not look at them.
Launch(a) ==
  /\ pc[a] = "none" /\ \A b \in 1..(a - 1) : pc[b] # "none"
  /\ \/ /\ platform = "windows"
        /\ Goto(a, "find")
        /\ \E link \in Links \cup {NoLink} : arg' = [arg EXCEPT ![a] = link]
     \/ /\ platform = "linux"
        /\ Goto(a, "register")
        /\ UNCHANGED arg
  /\ UNCHANGED <<platform, target, com, osVars, quitVars, boot, linkVars>>

\* wWinMain: a window of the class with the plain name as its title?  If there
\* is none, COM is initialised and the window object made.
FindWindow(a) ==
  /\ pc[a] = "find"
  /\ \/ \E b \in Apps :
          /\ title[b] = "name"
          /\ target' = [target EXCEPT ![a] = b]
          /\ Goto(a, "dispatch")
          /\ UNCHANGED <<com, objects>>
     \/ /\ \A b \in Apps : title[b] # "name"
        /\ com' = [com EXCEPT ![a] = TRUE]
        /\ objects' = [objects EXCEPT ![a] = @ + 1]
        /\ Goto(a, "create")
        /\ UNCHANGED target
  /\ UNCHANGED <<platform, arg, title, handle, classes, engine, quitVars, boot,
                 linkVars>>

\* The plugin of app b puts a link on its channel.  Until Dart asks for them
\* the engine keeps one message, the last.
Post(b, x) ==
  IF boot[b] \in {"start", "titled"}
    THEN /\ mail' = [mail EXCEPT ![b] = <<x>>]
         /\ LoseLinks(ToSet(mail[b]), "unheard")
    ELSE /\ mail' = [mail EXCEPT ![b] = Append(@, x)]
         /\ UNCHANGED fate

\* DispatchToProtocolHandler waits for the loop of the window it found, or
\* fails with the window; then the launch ends.
Dispatch(a) ==
  LET b == target[a] IN
  /\ pc[a] = "dispatch"
  /\ \/ /\ arg[a] # NoLink /\ pc[b] = "loop" /\ engine[b]
        /\ Post(b, a)
     \/ /\ title[b] = "none"
        /\ LoseLinks({a}, "gone")
        /\ UNCHANGED mail
     \/ /\ arg[a] = NoLink
        /\ UNCHANGED <<mail, fate>>
  /\ Goto(a, "failure")
  /\ UNCHANGED <<platform, arg, target, com, osVars, quitVars, boot,
                 updates,
                 value>>

----------------------------------------------------------------------------
(* The window object.                                                      *)

GetWindowClass(a) ==
  classes' = [classes EXCEPT ![a] = [flag |-> TRUE, system |-> TRUE]]

\* Win32Window::Create up to OnCreate: WM_NCCREATE sets the handle.
Create(a) ==
  /\ pc[a] = "create"
  /\ GetWindowClass(a)
  /\ \/ /\ title' = [title EXCEPT ![a] = "name"]
        /\ handle' = [handle EXCEPT ![a] = TRUE]
        /\ Goto(a, "setup")
     \/ /\ Goto(a, "members")
        /\ UNCHANGED <<title, handle>>
  /\ UNCHANGED <<platform, arg, target, com, objects, engine, quitVars,
                 boot,
                 linkVars>>

\* FlutterWindow::OnCreate, and SetQuitOnClose; Dart's main runs from here on.
OnCreate(a) ==
  /\ pc[a] = "setup"
  /\ \/ /\ engine' = [engine EXCEPT ![a] = TRUE]
        /\ Goto(a, "loop")
     \/ /\ Goto(a, "members")
        /\ UNCHANGED engine
  /\ UNCHANGED <<platform, arg, target, com, title, handle, objects,
                 classes,
                 quitVars, boot, linkVars>>

\* The engine goes, and Dart with it: what its app had not shown is gone.
EngineEnds(a) ==
  /\ engine' = [engine EXCEPT ![a] = FALSE]
  /\ LoseLinks(ToSet(mail[a]) \cup ToSet(updates[a]) \cup {a, value[a]}, "gone")
  /\ UNCHANGED <<mail, updates, value>>

\* The user closes the window, which Dart prevents once it is guarded.  WM_DESTROY
\* meets a living object: the nested Destroy lets OnDestroy drop the engine and
\* finds no handle.  (On Linux the app's last window takes the loop with it.)
CloseWindow(a) ==
  /\ pc[a] = "loop" /\ title[a] # "none"
  /\ \/ boot[a] # "guarded"
     \/ platform = "linux" /\ quit[a]
  /\ title' = [title EXCEPT ![a] = "none"]
  /\ handle' = [handle EXCEPT ![a] = FALSE]
  /\ quit' = [quit EXCEPT ![a] = TRUE]
  /\ EngineEnds(a)
  /\ UNCHANGED <<platform, mainVars, objects, classes, bare, boot>>

\* WindowNotifier.quit, from the tray: window_manager posts WM_QUIT and leaves the
\* window; on Linux it closes the window.
Quit(a) ==
  /\ pc[a] = "loop" /\ engine[a] /\ ~quit[a]
  /\ boot[a] \in {"built", "ready", "guarded"}
  /\ quit' = [quit EXCEPT ![a] = TRUE]
  /\ bare' = [bare EXCEPT ![a] = TRUE]
  /\ UNCHANGED <<platform, mainVars, osVars, boot, linkVars>>

\* GetMessage returns 0 and the loop ends; g_application_run returns once there is
\* no window.
LoopEnds(a) ==
  /\ pc[a] = "loop" /\ quit[a]
  /\ platform = "linux" => title[a] = "none"
  /\ Goto(a, IF platform = "windows" THEN "unwind" ELSE "success")
  /\ UNCHANGED <<platform, arg, target, com, osVars, quitVars, boot,
                 linkVars>>

\* CoUninitialize
Unwind(a) ==
  /\ pc[a] = "unwind"
  /\ com' = [com EXCEPT ![a] = FALSE]
  /\ Goto(a, "members")
  /\ UNCHANGED <<platform, arg, target, osVars, quitVars, boot, linkVars>>

\* ~FlutterWindow drops its members, the engine among them.
DropMembers(a) ==
  /\ pc[a] = "members"
  /\ EngineEnds(a)
  /\ Goto(a, "base")
  /\ UNCHANGED <<platform, arg, target, com, title, handle, objects,
                 classes,
                 quitVars, boot>>

\* UnregisterClass refuses while a window of the class exists; the flag does
\* not care.
UnregisterWindowClass(class, window) ==
  [flag |-> FALSE, system |-> class.system /\ window # "none"]

\* Mutant of DestroyLast: one attempt, made while the window is there.
DestroyOnce(class, window) == UnregisterWindowClass(class, window)

\* Win32Window::Destroy once no object is left: WM_DESTROY comes back to a
\* nested Destroy, which unregisters the class while the window still exists.
DestroyLast(class, window) ==
  UnregisterWindowClass(IF window = "none" THEN class
                        ELSE UnregisterWindowClass(class, window), "none")

\* ~Win32Window, and the return from wWinMain.
DropWindow(a) ==
  /\ pc[a] = "base"
  /\ objects' = [objects EXCEPT ![a] = @ - 1]
  /\ classes' = [classes EXCEPT ![a] = DestroyLast(@, title[a])]
  /\ title' = [title EXCEPT ![a] = "none"]
  /\ handle' = [handle EXCEPT ![a] = FALSE]
  /\ Goto(a, IF com[a] THEN "failure" ELSE "success")
  /\ UNCHANGED <<platform, arg, target, com, engine, quitVars, boot,
                 linkVars>>

----------------------------------------------------------------------------
(* The GTK runner: an application that is not unique.                      *)

\* local_command_line registers, and activates a window of its own.
Register(a) ==
  /\ pc[a] = "register"
  /\ \/ /\ title' = [title EXCEPT ![a] = "name"]
        /\ engine' = [engine EXCEPT ![a] = TRUE]
        /\ Goto(a, "loop")
        /\ UNCHANGED fate
     \/ /\ Goto(a, "failure")
        /\ LoseLinks({a}, "gone")
        /\ UNCHANGED <<title, engine>>
  /\ UNCHANGED <<platform, arg, target, com, handle, objects, classes,
                 quitVars,
                 boot, mail, updates, value>>

----------------------------------------------------------------------------
(* Dart: the bootstrap, one stage after the other, each of which may throw  *)
(* and so keep the app from ever running.                                  *)

Running(a) == pc[a] = "loop" /\ engine[a]

Stage(a, from, to) ==
  Running(a) /\ boot[a] = from /\ boot' = [boot EXCEPT ![a] = to]

\* The window controller gives the window its full name.
SetTitle(a) ==
  /\ Stage(a, "start", "titled")
  /\ title' = [title EXCEPT ![a] = "name and version"]
  /\ UNCHANGED <<platform, mainVars, handle, objects, classes, engine,
                 quitVars,
                 linkVars>>

\* The deep link service is built: with the first use of the plugin Dart asks for
\* the message that was kept, and nobody listens yet.  On Linux it has no links.
StartService(a) ==
  /\ Stage(a, "titled", IF platform = "linux" THEN "built" ELSE "deaf")
  /\ mail' = [mail EXCEPT ![a] = <<>>]
  /\ LoseLinks(ToSet(mail[a]), "unheard")
  /\ UNCHANGED <<platform, mainVars, osVars, quitVars, updates, value>>

\* The protocols are registered, and the service listens.
AddListener(a) ==
  /\ Stage(a, "deaf", "hearing")
  /\ UNCHANGED <<platform, mainVars, osVars, quitVars, linkVars>>

\* Mutant of Built: the updates that waited for the build are dropped.
BuiltDropsUpdates(a) ==
  /\ Stage(a, "hearing", "built")
  /\ value' = [value EXCEPT ![a] = IF arg[a] = NoLink THEN nobody ELSE a]
  /\ updates' = [updates EXCEPT ![a] = <<>>]
  /\ UNCHANGED <<platform, mainVars, osVars, quitVars, mail, fate>>

\* getInitialUrl ends the build; the updates that waited for it come after.
Built(a) ==
  LET own == IF arg[a] = NoLink THEN <<>> ELSE <<a>>
      links == own \o updates[a] IN
  /\ Stage(a, "hearing", "built")
  /\ value' = [value EXCEPT ![a] = IF links = <<>> THEN nobody ELSE Last(links)]
  /\ updates' = [updates EXCEPT ![a] = <<>>]
  /\ LoseLinks(ToSet(links) \ {value'[a]}, "replaced")
  /\ UNCHANGED <<platform, mainVars, osVars, quitVars, mail>>

\* runApp: the router opens at the link the service holds.
RunApp(a) ==
  /\ Stage(a, "built", "ready")
  /\ LoseLinks({value[a]}, "shown")
  /\ UNCHANGED <<platform, mainVars, osVars, quitVars, mail, updates, value>>

\* setPreventClose, after the first frame
PreventClose(a) ==
  /\ Stage(a, "ready", "guarded")
  /\ UNCHANGED <<platform, mainVars, osVars, quitVars, linkVars>>

BootFails(a) ==
  /\ \E from \in {"start", "titled", "deaf", "hearing"} : Stage(a, from, "failed")
  /\ UNCHANGED <<platform, mainVars, osVars, quitVars, linkVars>>

SameLink(x, y) == x # nobody /\ arg[x] = arg[y]

\* onProtocolUrlReceived: nobody listens; or the update waits for the build; or
\* it replaces the value, which the router shows if it runs.  A link equal to
\* the value is no news.
Receive(a) ==
  LET x == Head(mail[a]) IN
  /\ Running(a) /\ mail[a] # <<>> /\ boot[a] \notin {"start", "titled"}
  /\ mail' = [mail EXCEPT ![a] = Tail(@)]
  /\ \/ /\ boot[a] \in {"deaf", "failed"}
        /\ LoseLinks({x}, "unheard")
        /\ UNCHANGED <<updates, value>>
     \/ /\ boot[a] = "hearing"
        /\ updates' = [updates EXCEPT ![a] = Append(@, x)]
        /\ UNCHANGED <<value, fate>>
     \/ /\ boot[a] \in {"built", "ready", "guarded"} /\ SameLink(value[a], x)
        /\ LoseLinks({x}, "repeated")
        /\ UNCHANGED <<updates, value>>
     \/ /\ boot[a] = "built" /\ ~SameLink(value[a], x)
        /\ value' = [value EXCEPT ![a] = x]
        /\ LoseLinks({value[a]}, "replaced")
        /\ UNCHANGED updates
     \/ /\ boot[a] \in {"ready", "guarded"} /\ ~SameLink(value[a], x)
        /\ value' = [value EXCEPT ![a] = x]
        /\ LoseLinks({x}, "shown")
        /\ UNCHANGED updates
  /\ UNCHANGED <<platform, mainVars, osVars, quitVars, boot>>

----------------------------------------------------------------------------
Main(a) ==
  \/ FindWindow(a) \/ Dispatch(a) \/ Create(a) \/ OnCreate(a) \/ Register(a)
  \/ LoopEnds(a) \/ Unwind(a) \/ DropMembers(a) \/ DropWindow(a)

Bootstrap(a) ==
  \/ SetTitle(a) \/ StartService(a) \/ AddListener(a) \/ Built(a) \/ RunApp(a)
  \/ PreventClose(a)

RunnerNext ==
  \E a \in Apps : \/ Launch(a) \/ Main(a) \/ CloseWindow(a) \/ Quit(a)
                  \/ Bootstrap(a) \/ BootFails(a) \/ Receive(a)

RunnerSpec == RunnerInit /\ [][RunnerNext]_runnerVars

\* A main thread that can go on does, and Dart runs what is ready.  Users launch,
\* close and quit, or not.
RunnerFairness ==
  \A a \in Apps :
    /\ WF_runnerVars(Main(a)) /\ WF_runnerVars(Receive(a))
    /\ WF_runnerVars(Bootstrap(a) \/ BootFails(a))

FairRunner == RunnerSpec /\ RunnerFairness

----------------------------------------------------------------------------
(* Properties.                                                             *)

\* The window, the object, its handle, the class and the engine live inside one
\* another: the handle is set exactly while there is a window, a window has an
\* object and a class, an engine a window, and nothing outlives the process's
\* return.  COM outlives the engine and its plugins, unless the loop was ended
\* with the window still there, as the tray's quit does.
LifeTimes ==
  platform = "windows" => \A a \in Apps :
    /\ handle[a] = (title[a] # "none")
    /\ title[a] # "none" => objects[a] = 1 /\ classes[a].system
    /\ engine[a] => title[a] # "none" /\ (com[a] \/ bare[a])
    /\ pc[a] \in Ended => /\ objects[a] = 0 /\ ~engine[a]
                          /\ classes[a] = [flag |-> FALSE, system |-> FALSE]

\* A launch with a link gets it shown; or handed it to another app, which may
\* not listen yet, hold another link by then, or have shown the same one; or
\* another launch's link came before its router; or the app ended, or failed to
\* start.
LinkIsShown ==
  \A a \in Apps :
    (platform = "windows" /\ pc[a] # "none" /\ arg[a] # NoLink)
      ~> \/ fate[a] \in {"shown", "replaced", "gone"}
         \/ fate[a] \in {"unheard", "repeated"} /\ target[a] # nobody
         \/ boot[a] = "failed"
         \/ target[a] # nobody /\ boot[target[a]] = "failed"
=============================================================================
