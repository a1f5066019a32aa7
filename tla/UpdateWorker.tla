----------------------------- MODULE UpdateWorker -----------------------------
(***************************************************************************)
(* When the app updates its remote profiles by itself: the cycles of the   *)
(* worker, the time of the previous run kept in the preferences, and the   *)
(* profiles' own times.  What an update does to rows and files is in        *)
(* ProfileStore.                                                           *)
(*                                                                         *)
(* Times are kept as ages, in ticks (of five minutes, say), up to Long.    *)
(***************************************************************************)
EXTENDS Integers

CONSTANTS Profiles,   \* remote profiles that have an update interval
          Interval,   \* of the cycles: 15 minutes
          Wanted,     \* the profiles' update interval
          MaxRun      \* bound: how long the updates of a cycle take

ASSUME WorkerAssumption ==
  Interval \in Nat \ {0} /\ Wanted \in Nat \ {0} /\ MaxRun \in 0..(Interval - 1)

\* Longest wait for an update: two cycles, of which one is skipped, and a run.
Patience == 2 * Interval + MaxRun
Long == Wanted + Patience + 1

VARIABLES
  sinceRun,    \* the preference profiles_update_check
  sinceCycle,  \* the scheduler's last start of a cycle in this process
  todo,        \* the profiles the cycle has yet to look at
  updating,    \* a cycle that was not skipped is under way
  sinceUpdate, \* per profile: lastUpdate
  calm         \* history: time since the app was launched, an update or the
               \*   look into the database failed, or a check of the interval
               \*   went the wrong way by a moment

workerVars == <<sinceRun, sinceCycle, todo, updating, sinceUpdate, calm>>

WorkerTypeOK ==
  /\ sinceRun \in 0..Long /\ sinceCycle \in 0..Long /\ calm \in 0..Long
  /\ todo \subseteq Profiles /\ updating \in BOOLEAN
  /\ sinceUpdate \in [Profiles -> 0..Long]

\* The first launch; a profile is up to date when it is added.
WorkerInit ==
  /\ sinceRun = Long /\ sinceCycle = Long
  /\ todo = {} /\ updating = FALSE
  /\ sinceUpdate \in [Profiles -> 0..Wanted]
  /\ calm = 0

Older(age) == IF age < Long THEN age + 1 ELSE age

\* Time passes, but the scheduler is not late, and a run not longer than MaxRun.
Tick ==
  /\ sinceCycle < (IF updating THEN MaxRun ELSE Interval)
  /\ sinceRun' = Older(sinceRun) /\ sinceCycle' = Older(sinceCycle)
  /\ calm' = Older(calm)
  /\ sinceUpdate' = [p \in Profiles |-> Older(sinceUpdate[p])]
  /\ UNCHANGED <<todo, updating>>

\* Mutant of TooSoon: not before the interval is over, and not when it is.
TooSoonAtInterval == sinceRun <= Interval

TooSoon == sinceRun < Interval

\* A cycle: at the launch, and when Interval has passed since the one before.
\* Too soon after the previous run there is nothing to do, and that is stamped
\* as a run.  A stamp comes a moment after its cycle began: when the interval is
\* just over, it depends on that moment which way the check goes.
Cycle ==
  /\ ~updating /\ sinceCycle >= Interval
  /\ sinceCycle' = 0
  /\ \/ /\ TooSoon
        /\ sinceRun' = 0
        /\ UNCHANGED <<todo, updating, calm>>
     \/ /\ ~TooSoon /\ sinceRun = Interval
        /\ sinceRun' = 0 /\ calm' = 0
        /\ UNCHANGED <<todo, updating>>
     \/ /\ ~TooSoon
        /\ todo' = Profiles /\ updating' = TRUE
        /\ UNCHANGED <<sinceRun, calm>>
  /\ UNCHANGED sinceUpdate

\* One profile after the other: it is not due, or updated, or that fails.
Visit(p) ==
  /\ p \in todo /\ todo' = todo \ {p}
  /\ \/ /\ sinceUpdate[p] < Wanted
        /\ UNCHANGED <<sinceUpdate, calm>>
     \/ /\ sinceUpdate[p] >= Wanted
        /\ sinceUpdate' = [sinceUpdate EXCEPT ![p] = 0]
        /\ UNCHANGED calm
     \/ /\ sinceUpdate[p] >= Wanted
        /\ calm' = 0
        /\ UNCHANGED sinceUpdate
  /\ UNCHANGED <<sinceRun, sinceCycle, updating>>

\* finally: the run is stamped when it ends.
EndRun ==
  /\ updating /\ todo = {}
  /\ updating' = FALSE /\ sinceRun' = 0
  /\ UNCHANGED <<sinceCycle, todo, sinceUpdate, calm>>

\* The profiles cannot be read: the same, without a visit.
FailRun ==
  /\ updating /\ todo = Profiles
  /\ updating' = FALSE /\ sinceRun' = 0 /\ todo' = {} /\ calm' = 0
  /\ UNCHANGED <<sinceCycle, sinceUpdate>>

\* The app ends anywhere, and is launched again now.
RelaunchApp ==
  /\ sinceCycle' = Long /\ todo' = {} /\ updating' = FALSE /\ calm' = 0
  /\ UNCHANGED <<sinceRun, sinceUpdate>>

WorkerNext ==
  \/ Tick \/ Cycle \/ EndRun \/ FailRun \/ RelaunchApp
  \/ \E p \in Profiles : Visit(p)

WorkerSpec == WorkerInit /\ [][WorkerNext]_workerVars

----------------------------------------------------------------------------
(* Properties.                                                             *)

\* A profile is updated within two cycles of the time it asks for, although a
\* cycle that is too soon counts as a run: the cycle after it is not too soon.
\* Who relaunches the app more often than that puts updates off for good, and
\* so may two clocks that agree too well.
UpdatesComeInTime ==
  calm > Patience => \A p \in Profiles : sinceUpdate[p] < Wanted + Patience
=============================================================================
