# Verification of the Hiddify client

TLA+ models of the Hiddify client (`src/`): a Flutter app that drives a sing-box
core, on the desktop as a Go library loaded into the process, on Android as a
service, on iOS as a tunnel extension. The models are read off the code; every
definition that stands for code has its lines in `PROJECT.json` (`map`). TLC
checks small instances, TLAPS proves what is said below to be proved.

## The system

| part | state | operations | hard because |
|---|---|---|---|
| **desktop core** `libcore/custom` | package globals `status`, `activeConfigPath`, `box`, `commandServer`, `configOptions` | `setup`, `parse`, `changeConfigOptions`, `start`, `stop`, `restart`, `startCommandClient`; `ServiceReload` from the command socket | nothing is locked; the calls come from a pool of isolates, so on several threads; every step can fail |
| **connection layer** `lib/features/connection`, `lib/singbox` | the notifier's state, `startedByUser`, the repository's `_initialized`, the status stream | toggle, auto-connect, reconnect, abort | every await lets other handlers in; status arrives as messages; the process may end anywhere |
| **profiles** `lib/features/profile`, `libcore/shared/parser.go` | table of profiles, a configuration and a temporary file per profile, the details page's copy | add by url or content, update, periodic update, edit, select, delete | a row and its file change in separate steps; callers keep stale copies; downloads run together |
| **Android service** `KT/bg` | `status` live data, instance, receiver, binder | start, reload, stop, revoke, permissions, bind | main thread, IO coroutines and `postValue` |
| **network monitor** `KT/bg/DefaultNetwork*` | the actor's network and listeners; the monitor's network and listener | start, get, stop, network callbacks | an actor, the service and the core write two fields without a lock |
| **command clients** `commands.go`, `command_client.go`, `CommandClient.kt` | one client per stream, a table of Dart functions to post through | start, stop, messages | overwritten clients, messages after the end, jobs nobody waits for |
| **desktop runners** `windows/runner`, `linux` | a window object, its class, the engine, COM | launch, close, quit, a link from another launch | launches race for one window, messages re-enter destructors |
| **update worker** `profiles_update_notifier.dart` | a time stamp in the preferences, a timer | cycle, relaunch | two clocks that must agree |
| **geo assets** `lib/features/geo_asset` | rows, files | init, update, mark as active | file and row change apart, connect checks the file |
| **configuration builder** `libcore/shared` | none | `BuildConfig`, `ParseConfig` | many options combined |
| **options, preferences** | key-value store | read, patch, migrate | migrations, partial writes |
| **proxies, stats, logs** | streams and buffers | watch, select, clear | throttling, bounds |
| **iOS** | the tunnel manager | setup, connect, reset, disconnect | system callbacks |
| **shell** (router, tray, window, runners, texts) | none of its own | calls the parts above | |

(`KT` is `android/app/src/main/kotlin/com/hiddify/hiddify`.)

How they interact: a widget, the tray or a timer calls the connection notifier;
its repository reads the active profile, the options and the geo assets, calls
`setup`, `changeConfigOptions` and `start` of the core on a worker isolate, and
the core answers through a Dart port with status messages that a stream turns
into the notifier's state. The profile table's stream makes the notifier
reconnect. The configuration file a start reads is the one the profile
repository had the core parse and write.

## Modules

| module | models | checked by |
|---|---|---|
| `ServiceLifecycle` | what the core promises to a caller that does not overlap its calls (abstract) | refined by `CoreService` |
| `CoreService` | the desktop core, a step per access to a global | `core_*` |
| `CoreServiceProofs` | proofs about `CoreService` | TLAPS |
| `Connection` | the connection layer over a core with atomic guards, a step per await | `connection`, `connection_remembered` |
| `ConnectionProofs` | proofs about `Connection` | TLAPS |
| `ProfileStore` | the profile repository and its callers, a step per await and per file operation | `profile_*` |
| `ProfileStoreProofs` | proofs about `ProfileStore` | TLAPS |
| `AndroidService` | the Android service, its status on the way to the app, a step per access to a field and per job of the main thread | `android_*` |
| `AndroidServiceProofs` | proofs about `AndroidService` | TLAPS |
| `GeoAssets` | the geoip and geosite table and files, a step per await | `geo_assets` |
| `GeoAssetsProofs` | proofs about `GeoAssets` | TLAPS |
| `DesktopStreams` | the desktop's streams of traffic and outbounds, their Go clients, and the C table of Dart functions | `app_parts` |
| `DesktopRunner` | launches, the window object, the bootstrap's stages and the way of a link | `app_parts` |
| `CommandClient` | Android's command client and its retrying job | `app_parts` |
| `LogTail` | the desktop's reading of the growing log file | `app_parts` |
| `NetworkMonitor` | Android's default network, from the system's callback to the core | `app_parts` |
| `UpdateWorker` | when the worker updates profiles: its two clocks | `app_parts` |
| `DesktopStreamsProofs`, `NetworkMonitorProofs` | proofs about the module each is named for | TLAPS |
| `AppPartsProofs` | proofs about `DesktopRunner`, `CommandClient`, `LogTail`, `UpdateWorker` | TLAPS |

`MCx` modules add the definitions TLC needs (symmetry, tables) to module `x`.
`MCAppParts` puts six parts that share no state into one run: the variable
`part` says whose turn a behaviour is, and the others rest.

### CoreService

A thread has a place `pc` (the statement it is about to execute), its `call`
(operation, a number that also names the objects the call creates, the file)
and `pub`, the status it is publishing. Globals hold the number of the call
that made the object they point to, 0 for nil. `propagateStatus` is three
steps: write the word, marshal *whatever the word is by then*, post. `stop` is
called by `restart` with its own guard. `ServiceReload` has no guard and runs
beside anything once a command server listens. Each fallible call is a
disjunction; `stopAndAlert` is the failing branch of `startService`; a panic is
recovered in the exported functions (`DeferPanicToError`) and ends the process
in a reload.

History: `tags` says how calls have met: `window` (a call between its check and
its write), `tail` (a call that has its outcome but not yet posted it),
`reload` (a reload beside another call), `mid` (a call past its check beside
one in transit). `Serial` is "no window, reload or mid".

* `NoSilentWedge`: Starting or Stopping means a call is at work on it, or one
  has returned an error. Holds for every interleaving.
* `StatusExcludes`: the status word is used as a lock; the only ways past it
  are the gap between check and write and the reload.
* `StatusIsTrue`, `RunsWhatWasAsked`, `CrashNeedsOverlap`, `LastMessageIsTrue`:
  what holds as long as calls do not overlap. That they may is a fact of the
  code; these properties say exactly what depends on it.
* `ImplementsLifecycle`: the refinement of `ServiceLifecycle` with
  `up <- (live # {})`.
* `StatusSettles` (liveness) needs only weak fairness of every thread: Go runs
  every goroutine that can run, and each call is a finite program. Calls that
  block for ever inside sing-box are not modelled.

Bounds: `CoreOverlap` has two threads and three calls over one file, enough for
a call between two others, for all pairs of operations to interleave and for a
reload through a left-over server; `CoreProgress` has two threads, two calls and
two files, enough for a second start with another file, and fairness. The proofs
below remove the bounds for everything but `StatusSettles`.

### Connection

An asynchronous method is a `task` that goes from await to await; between two
awaits Dart runs alone, so a step is what happens between them. The core is
taken with atomic guards (the races of the fields inside it are `CoreService`'s),
but a status is published in the three steps of `propagateStatus`, on threads that
run beside each other: `sending` is, per call, a status that is written, then
marshalled (whatever it has become by then), then posted. `queue` is the messages
on their way to the app. `seen` is the active profile the app has
been told of, `active` the one in the database. Options are version numbers, 0
for the empty struct `changeConfigOptions` assigns before it decodes.
`Relaunch` ends the process anywhere: the database and preferences stay.

* `AppShowsCore`: with nothing published on its way, the app shows the core's
  status or an error. Two calls that publish at once may post in the other order
  and leave the app with the older status: the exception `crossed`, which is true
  from a write beside another publication to the next write alone.
* `RunsActiveProfile`: the running profile is the active one, unless two calls
  overlapped or the profile changed while the app was switching, when
  `reconnect` does nothing (history variables `overlap`, `missed`).
* `OptionsAreWhole`, `FailedConnectLeavesDown`, `OffMeansOff`: see their
  comments.
* `SwitchingEnds` under weak fairness of message delivery and of tasks: the
  event loop runs what is ready. Users, profile changes and the relaunch get
  no fairness. Crossed publications are excepted here too.
* `SessionIsRemembered` is what CHANGELOG.md promises of auto-connect; the run
  `connection_remembered` shows the retry after an error that breaks it.

Bounds: two tasks, two profiles, three external events (four for
`connection_remembered`): a connect, a change while it is under way, and the
reaction; an automatic connect counts as an event when it begins a call. One
run, under fairness, checks the safety properties as well; the proofs remove the
bounds for those.

### ProfileStore

A content is the number of the call that downloaded it; `info` of a row is the
content its subscription columns describe. `Torn` is a truncated file. Each
`task` goes through look-up, download to the temporary file, check, truncation,
write, clean-up, and the transaction on the table; the details page holds a
copy of a row; the worker holds a list. `Crash` ends the process between any
two steps. `Like[u]` is the set of urls that contain `u`, the meaning of
`LIKE '%u%'`.

* `RowHasFile`, `OneActive`, `DeletedStaysDeleted` hold without conditions.
* `FileIsWhole`, `InfoOfFile` hold for profiles that no two calls worked on
  together and no call on which was cut off (`raced`).
* `ActiveIsKept`: an active profile goes away only when it is deleted, when a
  deleted row is selected, or when the page writes a stale flag (`lost`).
* `AddedUrlIsThere`, `SavedUrlIsKept` are what the program's messages say; the
  violation runs show they are not so (see `findings`).

Bounds: two ids, two urls one of which contains the other, two tasks, three
calls: a profile, and two calls that meet on it. The proofs remove them for
everything but the two messages.

### AndroidService

The status is a LiveData: `value` is what observers have seen, `pending` what a
`postValue` has left for the main thread. `main` is that thread's queue of jobs:
setting a LiveData, a broadcast of the binder, a coroutine's
`withContext(Main)` block. A thread (`task`) is a coroutine of the service or a
call of the command server; it has a place, a kind and a number that also names
the instance, the command server and the tunnel it makes. The activity posts
what it is told, and `shown` is the last event that reached the Dart side.
`Restart` asks the activity's status, not the service's, and `ServiceReload`
asks none, so a reload may begin after the service stopped.

History: `overlap` is a reload past its look at the command server while another
call works or the status is not Started; `leaked` is a start that failed after
`openTun`, or whose notification was refused; `refused` a refused permission.

* `AppIsTold`: with an empty queue the app shows whether the service is started.
  Exceptions by name: a refused permission, and the alert of a call that failed
  beside another one (`overlap`, `leaked`), which may be shown after the Started
  of a later start. The second was found when the proof of a stronger statement
  failed: TLC finds it with three threads and five calls, three of them restarts, or
  with four threads and starts that leak; the two threads of `android_safe` are too
  few for it.
* `StatusExcludes`, `StatusIsTrue`: the status as a lock and as
  a statement about instance, tunnel, socket, receiver and `startedByUser`,
  without overlap and leak. With an overlap they need not hold: a restart asked
  while the service stops brings the instance back with no receiver to stop it
  by.
* `StatusSettles` (liveness) under weak fairness of each thread and of the main
  looper; nobody is obliged to call.
* `AlertArrives` is what the alert channel is for; `android_alert` shows that
  alerts without a message are taken for a plain Stopped.

Bounds: two threads, three calls (two for liveness), one refusal: a start, a stop
or reload beside it, and one more call on what they left. The proofs remove them
for the safety properties.

Left out: the notification's texts, the logs, the idle mode, a restart that
changes the mode, and rebinding. The network monitor is a module of its own.

### GeoAssets

A file holds a release of its provider, the bundled data, or part of either
(`Torn`). A call (`task`) is an update, an `addRecommended`, or a connect, which
reads the active pair, looks for both files and starts the core with their paths.
Two updates of an asset share its temporary file; `open` says what has become of
the file a download writes to (still the temporary one, renamed into place by the
other, or deleted). `Relaunch` ends the process anywhere, in `init` as well.
`raced` remembers that two calls updated one asset at once, which the tile lets
happen once it has forgotten the first.

* `OneActive`, `ConnectHasFiles` hold without conditions.
* `FileIsWhole`, `VersionIsInFile` hold without `raced`; a bundled file that was
  cut off when first written is never repaired, and excepted by name.

Bounds: two geoip assets and one geosite, two releases, two tasks, four calls:
an update that fails or is cut off, its repetition, an update to another
release, and a connect beside them; the proofs remove these bounds. Left out:
the list's watcher, the times of checks.

### DesktopStreams

The library posts to Dart through a table that `Dart_InitializeApiDL` fills from
a list the VM gives it; a VM of another major version leaves it empty, and `init`
fails on a nonzero return. A stream has three places: the controller Dart keeps
(`cache`), the port it listens to (`ear`) and the client the library knows
(`client`); `conns` are the connections that are really there, `open` the ports.
Dart's main isolate takes one event at a time (`step` is where a rebuild has come
to); between its events the core starts and stops sessions on other threads, and
a client reads and posts on one of its own, to a port that may be closed by then.
`view` is what the provider shows, with the session it is from. `serviceRunning` is
false after a call of the app that failed (`CallFails`: the error is the state of
the connection until the next status, module `Connection` says when), even with the
core up; `failed` remembers it. A client that cannot be started makes
`watchStats` and `watchOutbounds` throw with the port they opened still open: it
goes into `open` and into `leaked`.

* `NoNilCall`: nothing is called that is not there. None of the callees looks,
  so it rests on the order in which the app calls them.
* `ClientPerStream`: the three places agree, no connection is left, and the open
  ports are those of the streams, that of the statuses and the leaked ones, on
  which nobody listens. The leak is the code's: every failed start costs a port.
* `StreamIsLive`: with no status on its way, what is shown comes from the
  session that runs, and nothing is shown when none runs or a call has failed.
  The exception by name is a choice of proxy (`"back"`), which writes the list
  it was made in over whatever came since.
* `StatsArrive` (liveness): a page gets data, or starts over, or a call has
  failed: then nothing comes before the next status, though the core may be up.
  Weak fairness of the isolate's next event, of the flush, of the clients' reads
  and writes; the core starts and stops as it likes.

Bounds: one stream, five ports, two sessions, one VM of each kind, and one start of
a client that fails (`MCLeaks`, for each keeps one of the ports for good): a session,
its end seen late, and the next; calls fail at any time. Behaviours that leak a
second port are not explored; the proof bounds neither failures nor ports and takes
both streams.

### DesktopRunner

An app is a launch of the executable; `pc` follows `wWinMain` (or the GTK
application) to its return, through `Win32Window`'s constructor, `Create`, the
message loop, `Destroy` and the two destructors, in the order C++ runs them. The
system's view of the class (`classes[a].system`) and the program's flag are apart.
`boot` is how far Dart's bootstrap has come, `mail` the links other launches have
sent. `WM_QUIT` comes from `WM_DESTROY` or, `bare`, from the tray's quit.

* `LifeTimes`: window, object, class, engine and COM end in the order in which
  they depend on each other. One exception is in the code and in the property: the
  tray's quit ends the loop with the window still there, so COM is un-initialised
  before the engine and its plugins go.
* `LinkIsShown` (liveness): a link is shown, or one of the ways it may be lost
  happened. They are many: a second launch looks for a window by the plain name,
  which Dart changes at once to name and version, so a running app is usually not
  found and a second one starts; a link handed to an app that is starting is
  mostly not heard; an equal link is no news. Weak fairness of each main thread,
  of the bootstrap and of a link's delivery.

Bounds: two launches, two links: an app and one that meets it.

### CommandClient

`connect()` returns at once: its job tries (ten times in the code, three here) and
puts the client into the field only when it has connected, so `disconnect()` in
between finds nothing. `ClientsAreKnown` says that this is the only way to lose a
client (`late`). Bounds: three clients, three tries.

### LogTail

The file's length is asked for after the read has ended, and all readers share
one position and one buffer. `LinesComeOnce` says what holds nevertheless, with
the lines passed over (`skipped`) and the reads that met (`together`) by name.
Lines are counted, not bytes: a line is taken to be written whole. Bounds: two
readers, three lines, a buffer of two.

### NetworkMonitor

The callback's thread blocks until the actor takes its message, and the actor
runs its calls on it; the service's start and the core's setListener run on two
other threads. A field is one shared word here: what the JVM may do to a field
that is not volatile is left out. `updateDefaultInterface` is a no-op when the
system does not know the network any more.

* `CoreHasNetwork`: when all callbacks have been taken, the monitor and the core
  have the system's network. `start` assigns the network it has read over one a
  callback assigned meanwhile, and the core may be told one that was read before:
  `crossed` remembers that, until the next callback puts it right.

Bounds: two networks and none, one callback waiting at a time, two starts of the
service (the second finds a listener that a failed one has left).

### UpdateWorker

Ages in ticks, cut off at `Long`. The preference is stamped when a run ends, but
also when a cycle is skipped as too soon. `UpdatesComeInTime`: a profile is
updated within two cycles and a run of the time it asks for, the tightest bound
there is (a smaller `Patience` fails), unless the app was relaunched in that
time, an update or the look into the database failed, or the check at the very
interval went the wrong way by a moment (`calm`). So who relaunches the app more
often than the interval puts updates off for good. The scheduler
(`neat_periodic_task`) is external, and taken to be on time and never to run two
cycles at once. Bounds: an interval of three ticks, profiles that ask for five,
runs of at most one; two profiles, for one that is due and one that is not.

## Runs

`PROJECT.json` says of each run what it shows. Four expect a violation, each of
one promise of a comment, message or changelog; the others pass. Properties
proved for every value of the constants (the types of the core, of the geo assets
and of the parts, and the inductive invariants) are in no run; the system's
promises are checked even where they are proved, so that a mutant shows that they
could fail.

| run | module | about |
|---|---|---|
| `core_overlap`, `core_progress` | `CoreService` | safety and refinement; liveness |
| `connection`, `connection_remembered` | `Connection` | safety and liveness; the changelog's promise |
| `profile_safe`, `profile_added`, `profile_saved` | `ProfileStore` | safety; two messages of the program |
| `android_safe`, `android_live`, `android_alert` | `AndroidService` | safety; liveness; the alert channel |
| `geo_assets` | `GeoAssets` | safety |
| `app_parts` | `MCAppParts` | six parts, safety and liveness |

`CHECK_DEADLOCK FALSE` is there because users may stop calling: every system here
may come to rest. That it does not rest with a status in transit is a liveness
property.

## Proofs

Every safety property that a passing run checks is a theorem, for every value of
the constants that the assumptions of its module allow.

`CoreServiceProofs` proves the types, every safety property of `CoreService` and the
refinement, for any threads, files and number of calls. The argument: `PlaceOfOp`
says which operation can be where; `Solo` that without overlap one thread at most
works and that the status is in transit once it is past the gap; `Progress` what
that thread has done so far and therefore what it will find; `AtRest` what the
globals are when nobody works. Their conjunction `CoreInv` is inductive, and every
conjunct is needed: `StatusIsTrue` is `AtRest` when quiet, `AtRest` is
re-established only because `Progress` knows what the last step leaves behind, and
`Progress` survives other threads' steps only because of `Solo`. `NoSilentWedge` and
`StatusExcludes` need no such strengthening and are proved by induction over the
actions alone. `LastMessageIsTrue` has an invariant of its own, `MessageInv`: it is
asked of behaviours in which not even the posting of a last message was overlapped,
so one thread at most is engaged (`OneEngaged`, which needs that each way in is
noted in `tags`), and what it has marshalled is the word it wrote. The only
assumption is that the bound on calls is a natural number.

`ConnectionProofs` is about any number of calls at once, profiles, versions of
the options and events. `ConnInv` says what the core's status and the queue of
messages are at every await of a call, by its kind (`ConnectAt`, `DisconnectAt`,
`ReconnectAt`), as long as no call was made before the last was through
(`OneCall`); `AppShowsCore` needs none of that, only that, unless publications
have crossed, one call at most publishes, what it has marshalled is the core's
status, and when none does the last message on its way tells it (`LastTold`). On
`ConnInv` rest the others: options are filled before the core is called
(`Filled`, `OptionsAreWhole`); after the user ended the connection only a core
that failed to stop can be behind an error, and that one refuses to start
(`Ended`); the profile a call has named is still the app's when it starts the
core (`Follows`).

`GeoAssetsProofs` proves every property of `GeoAssets` for any assets, tasks,
releases and number of calls, from the assumptions that the two types are
disjoint, that each holds its default, and that the bounds are naturals. None of
the properties about files is inductive by itself: `VersionIsInFile` needs to
know what an update has found and done before it writes the row (`Progress`),
that it is alone with its asset (`Alone`) and that no version is ahead of the
provider (`Published`); `FileIsWhole` needs in addition that nobody works while
`init` writes a bundled file (`Calm`, `HalfWritten`); `OneActive` that a row that
is inserted was not there (`InTable`). Their conjunction is `GeoInv`. The proofs
sum steps up first (`UpdateSteps`, `OtherSteps`) and then take each conjunct
through them.

`ProfileStoreProofs` proves every property of `ProfileStore` but the two messages
(which do not hold), for any profiles, urls, calls at once and number of calls. The
heart is the profile that has no row yet (`Unborn`): its id is fresh (`Drawn`),
nobody else knows it (`UnbornIsNew`), and one call or one page will insert it
(`OneInserts`, `PageWaits`). So the row that is inserted is new, which is why it
cannot be a second active one, nor the return of a deleted one, and why no
deletion can take the file it comes with (`FileComesFirst`). `RowsAreRows` carries
the decision to make the first profile the active one from the moment it is taken
to the insertion, some awaits later. The conjunction is `StoreInv`. `InfoOfFile`
adds where a call stands between the download and the row (`Fetched`: what it
fetched is in the temporary file, then read, then in the file), that on a profile
not remembered as raced it is the only one at work (`Alone`), the page's call
included (`PageAlone`), and that the page, which writes its whole copy of the row
back, copied the row as it is (`PageCopies`). The conjunction is `InfoInv`.

`AndroidServiceProofs` is about any number of threads and of calls. `QueueInv`: each
kind of job is on the main thread's queue once at most, a `postValue` that is
pending has its job there, and a thread that waits has its block there. `LeadInv`:
as long as no reload met another call and no start leaked, one call at most holds
the status (a start that has announced Started and only shows its notification does
not), and the fields are as that call has left them (`StartLeads`, `StopLeads`,
`ReloadLeads`), or as the last one did (`Rest`). `ReloadInv` says that what a reload
has posted is set before its next block is run, the one place where the order of
the queue decides. `LastStatus` and `AlertsFirst` follow statuses and alerts through
three queues to the app. The first proof attempt of `AppIsTold` failed, with reason:
see the section on the module.

`DesktopStreamsProofs` is about any runtimes, ports and number of sessions, with the
stream of outbounds alone or that of traffic beside it. `NoNilCall` follows once it
is known that nothing is connected, sent or shown before `setup` has filled the
table and set the port (`SetUp`); `ClientPerStream` needs in addition that no two
streams listen to one port (`PortsDiffer`); a leaked port stays open and is therefore
never a new stream's. Their conjunction is `StreamsInv`.
`StreamIsLive` speaks of moments at which the app has heard everything; what is
inductive has to speak of the others. `StatusesFollow`: of what the app believes and
the statuses on their way, none is last that is not what the core is; an error takes
what it believes out of the series (`ErrorsHide`). `Fits`: a
provider with nothing left to do has a stream of the session that runs (`OfSession`:
connected, and every message for its port is of that session, read, posted or
shown), or the app is about to hear of an end (`Ending`), which will make it build
anew. That no message of an older session comes to a new port is what `Unused` is
for. The conjunction is `LiveInv`. Of a runtime it is assumed that one of our major
version has `Dart_PostCObject`.

`AppPartsProofs`: `LifeTimes` from what the main thread has made of window, object,
class, engine and COM at each place it can be (`AtPlace`), for any launches and
links; `ClientsAreKnown` from the fact that there is one job at most that connects,
with tries left (`OneJob`, `TriesLeft`), for any number of clients and tries;
`LinesComeOnce` from the ranges the reads cover, one after the other while one
reader works (`Ranges`, `OneReader`, `BufferInOrder`), for any readers, log and cap.

`UpdatesComeInTime`, there too, for any profiles, intervals and length of runs.
`Remaining(p)` is how long it may take until `p` is looked at, by where the two
clocks are (`Clocks`); by then `p` is not overdue, or all has not been calm for as
long (`InTime`). A tick takes as much from `Remaining` as it adds to the age.

`NetworkMonitorProofs`: `CoreHasNetwork` for any networks, callbacks and starts. A
callback that waits tells of the network the system has at the end of the queue
(`EndsWithActive`, `Consecutive`); what the actor is about to tell is therefore the
network it keeps, and what the listener has been told is that of the monitor
(`Telling`, `Told`), but for a start that crosses a callback. Callbacks of an
earlier registration that come late are included. The conjunction is `NetworkInv`.

The only other assumptions are that bounds are naturals, and that the values that
stand for "none" are none of the others (the `ASSUME`s of each module).

Each inductive invariant was checked by TLC on the instance of its run before it was
proved.

Only model-checked: liveness (`StatusSettles` of the core and of the Android service,
`SwitchingEnds`, `StatsArrive`, `LinkIsShown`), as fairness and ENABLED are beyond
the prover.

## Not modelled

See `components` in `PROJECT.json` for each part and the reason.

* sing-box itself, the tunnel, the operating system: external. They appear as
  calls that succeed or fail.
* The configuration builder, options and preferences: sequential, one call at a
  time, and about the contents of a configuration, which every model here
  abstracts to a number. `ParseConfig`'s effect on files is in `ProfileStore`.
* Database migrations: generated and run once, before anything else runs.
* iOS: the tunnel manager mirrors the Android service with a system object in the
  place of the binder; what it does is decided by callbacks of NetworkExtension
  that are not in this repository.
* Texts, layout, logging, navigation, headers of subscriptions.
* The JVM's freedom with fields that are not volatile (`NetworkMonitor` takes a
  field as one shared word), calls into sing-box that never return, a log line
  that is written in two parts.

Most of the lines of C and C++ in this repository are Dart's embedding headers
(`libcore/bridge/include`), vendored, and declarations at that: what the program
makes of them (`Dart_InitializeApiDL`, the table of functions, posting) is in
`DesktopStreams`, and the Windows and Linux runners are in `DesktopRunner`. The
models' lines are mostly Go, Dart and Kotlin.

## Plan

1. Done: core, connection layer, profiles, Android service, geo assets; streams
   and command clients, desktop runners, log tail, network monitor, the update
   worker's clock; the proofs above.
2. Next: the iOS tunnel manager as far as its callbacks are in the repository;
   the proxies' optimistic selection with more than one group.
3. Pure functions: `BuildConfig`, `ParseConfig`'s order of parsers, header and
   link parsing, against reference definitions over small inputs.
4. Abstract specifications worth stating: a profile store whose operations are
   atomic, refined by `ProfileStore` without races; one service contract that
   both the desktop core and the Android service implement.
5. Proofs: the safety properties are done; next, what overlapping calls cannot break
   (the conditional properties name the races that break them), and the refinements
   of item 4.
