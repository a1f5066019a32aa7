-------------------------- MODULE ServiceLifecycle --------------------------
(***************************************************************************)
(* What the core service promises to a caller that does not overlap its    *)
(* calls: a four-phase cycle in which the tunnel is up whenever Started is *)
(* shown and down whenever Stopped is.  Nothing is promised from the       *)
(* moment calls overlap, when trusted becomes FALSE for good.              *)
(***************************************************************************)
VARIABLES phase, up, trusted

lifecycleVars == <<phase, up, trusted>>

Init == phase = "Stopped" /\ up = FALSE /\ trusted = TRUE

Move(from, to) == phase \in from /\ phase' = to /\ up' = up

\* start, the second half of restart, or a reload from anywhere
Begin == Move({"Stopped", "Starting", "Started", "Stopping"}, "Starting")

\* a running instance announced
Announce == up /\ Move({"Starting"}, "Started")

\* start failed, and said so
Fail == ~up /\ Move({"Starting"}, "Stopped")

Leave == Move({"Started"}, "Stopping")

Finish == ~up /\ Move({"Stopping"}, "Stopped")

\* the tunnel comes up, or a reload takes it down first
Raise == phase = "Starting" /\ ~up /\ up' = TRUE /\ phase' = phase
Lower == phase \in {"Starting", "Stopping"} /\ up /\ up' = FALSE /\ phase' = phase

Next ==
  \/ trusted /\ trusted' /\ (Begin \/ Announce \/ Fail \/ Leave \/ Finish
                               \/ Raise \/ Lower)
  \/ ~trusted'

Spec == Init /\ [][Next]_lifecycleVars
=============================================================================
