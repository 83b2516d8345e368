----------------------------- MODULE MCServices -----------------------------
(* The services around the scan one at a time: part is the one that moves. *)
EXTENDS SampleTrees, RunLauncher, TrafficCheck, ScanEffects, ProbeSnapshot, LoginStreaks, WebappControl, ShipGate

VARIABLE part

servicesVars == <<part, launcherVars, trafficVars, effectVars, snapshotVars, streakVars, webappVars, shipVars>>

ServicesInit ==
  /\ part \in {"launcher", "traffic", "effects", "snapshot", "streaks", "webapp", "gate"}
  /\ LauncherInit /\ TrafficInit /\ EffectInit /\ SnapshotInit /\ StreakInit /\ WebappInit /\ ShipInit
  \* The two effects of a scan share nothing but its process: one at a time.
  /\ hits = ~held /\ (part # "effects" => held)
  /\ part # "gate" => worktree = [one |-> "block0", two |-> "block0"]

ServicesNext ==
  \/ part = "launcher" /\ LauncherNext
       /\ UNCHANGED <<part, trafficVars, effectVars, snapshotVars, streakVars, webappVars, shipVars>>
  \/ part = "traffic" /\ TrafficNext /\ UNCHANGED <<part, launcherVars, effectVars, snapshotVars, streakVars, webappVars, shipVars>>
  \/ part = "effects" /\ EffectNext /\ UNCHANGED <<part, launcherVars, trafficVars, snapshotVars, streakVars, webappVars, shipVars>>
  \/ part = "snapshot" /\ SnapshotNext /\ UNCHANGED <<part, launcherVars, trafficVars, effectVars, streakVars, webappVars, shipVars>>
  \/ part = "streaks" /\ StreakNext /\ UNCHANGED <<part, launcherVars, trafficVars, effectVars, snapshotVars, webappVars, shipVars>>
  \/ part = "webapp" /\ WebappNext /\ UNCHANGED <<part, launcherVars, trafficVars, effectVars, snapshotVars, streakVars, shipVars>>
  \/ part = "gate" /\ ShipNext /\ UNCHANGED <<part, launcherVars, trafficVars, effectVars, snapshotVars, streakVars, webappVars>>

ServicesSpec == ServicesInit /\ [][ServicesNext]_servicesVars

ServicesTypeOK == LauncherTypeOK /\ TrafficTypeOK /\ EffectTypeOK /\ SnapshotTypeOK /\ StreakTypeOK /\ WebappTypeOK /\ ShipTypeOK

CONSTANTS l2, tunnel
\* Two threads of the tray and the one of run_named_tunnel.py.
MCTrayOf == [th \in Thread |-> IF th = tunnel THEN "script" ELSE "tray"]
MCKeyOf == [l \in Leg |-> l]
MCGroupOf == [l \in Leg |-> 1]
MCStartOf == [l \in Leg |-> 1]
MCOriginEnd == [l \in Leg |-> IF l = l2 THEN 0 ELSE Never]
=============================================================================
