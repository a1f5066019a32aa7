------------------------------ MODULE MCAppParts ------------------------------
(***************************************************************************)
(* The parts of the app around the core, one at a time: the desktop's      *)
(* streams, its runner, the command clients of Android, the log's tail,    *)
(* Android's network monitor and the update worker.                        *)
(* They share no state, so each is checked with the others at rest; part   *)
(* says whose turn the behaviour is.                                       *)
(***************************************************************************)
EXTENDS DesktopStreams, DesktopRunner, CommandClient, LogTail,
        NetworkMonitor, UpdateWorker

\* A VM that the library accepts, and one it refuses.
VM(major) == [major |-> major, functions |-> {"Dart_PostCObject"}]
MCRuntimes == {VM(Major - 1), VM(Major)}
MCPorts == 2..6

VARIABLE part

\* A bound: how many starts of a client fail.  Every one leaves a port behind.
MCLeaks == Cardinality(leaked') <= 1

\* Links differ by name only: the first launch is given the same one, if any.
MCLaunches == arg'[1] \in {NoLink, CHOOSE link \in Links : TRUE}

MCInit ==
  /\ part \in {"streams", "runner", "clients", "log", "network", "worker"}
  /\ Init /\ RunnerInit /\ ClientInit /\ LogInit /\ NetworkInit /\ WorkerInit
  /\ part # "streams" => runtime = VM(Major)
  /\ part # "runner" => platform = "windows"
  /\ part # "network" => oldSdk /\ active = NoNetwork
  /\ part # "worker" => \A p \in Profiles : sinceUpdate[p] = 0

Rest(at, state) == IF part = at THEN TRUE ELSE UNCHANGED state

MCNext ==
  /\ UNCHANGED part
  /\ Rest("streams", vars) /\ Rest("runner", runnerVars)
  /\ Rest("clients", commandVars) /\ Rest("log", tailVars)
  /\ Rest("network", networkVars) /\ Rest("worker", workerVars)
  /\ \/ part = "streams" /\ Next /\ MCLeaks
     \/ part = "runner" /\ RunnerNext /\ MCLaunches
     \/ part = "clients" /\ ClientNext
     \/ part = "log" /\ LogNext
     \/ part = "network" /\ NetworkNext
     \/ part = "worker" /\ WorkerNext

\* What fairness asks of a part is never enabled in its initial states.
MCSpec ==
  /\ MCInit
  /\ [][MCNext]_<<part, vars, runnerVars, commandVars, tailVars, networkVars,
                  workerVars>>
  /\ Fairness /\ RunnerFairness
=============================================================================
