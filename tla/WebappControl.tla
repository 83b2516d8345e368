---------------------------- MODULE WebappControl ----------------------------
(***************************************************************************)
(* The processes that adopt or spawn the web application (the tray and     *)
(* run_named_tunnel.py), each with threads over its one WebappManager, the *)
(* machine-wide lock they take for it, and the server processes.            *)
(***************************************************************************)
EXTENDS Naturals, FiniteSets

CONSTANTS
  Tray,     \* the processes with a WebappManager
  Thread,   \* their threads: the start at boot, each click on the menu, the quit
  TrayOf,
  Server,
  None

ASSUME WebappAssumption ==
  /\ None \notin Thread \cup Server
  /\ TrayOf \in [Thread -> Tray]

VARIABLES
  server,  \* [Server -> "unborn" | "boots" | "up" | "dead"]; up is bound to the port
  mine,    \* [Tray -> Server or None], _proc
  step,    \* [Thread -> where it is in start(), restart() or stop()]
  doomed,  \* [Thread -> Server or None], what its stop() is stopping
  lock,    \* the thread that holds the named mutex, or None
  lapse    \* history: the lock, the wait or a record was lost, as SingleWebapp says

webappVars == <<server, mine, step, doomed, lock, lapse>>

WebappTypeOK ==
  /\ server \in [Server -> {"unborn", "boots", "up", "dead"}]
  /\ mine \in [Tray -> Server \cup {None}]
  /\ step \in [Thread -> {"idle", "asks", "looks", "spawns", "waits", "found", "stops", "clears"}]
  /\ doomed \in [Thread -> Server \cup {None}]
  /\ lock \in Thread \cup {None} /\ lapse \in BOOLEAN

WebappInit ==
  /\ server = [s \in Server |-> "unborn"] /\ mine = [t \in Tray |-> None]
  /\ step = [th \in Thread |-> "idle"] /\ doomed = [th \in Thread |-> None]
  /\ lock = None /\ lapse = FALSE

-----------------------------------------------------------------------------

ServerAlive(s) == server[s] \in {"boots", "up"}
LiveServers == {s \in Server : ServerAlive(s)}
Reachable == \E s \in Server : server[s] = "up"

\* status().ownership: a live process of its own and any answer on the port.
Ours(t) == mine[t] # None /\ ServerAlive(mine[t]) /\ Reachable

Release(th) == IF lock = th THEN None ELSE lock
Waiting(t) == \E th \in Thread : TrayOf[th] = t /\ step[th] = "waits"

(* start() *)

\* At boot, by the script, or by a restart that found nothing running.
BeginStart(th) ==
  /\ step[th] = "idle" /\ step' = [step EXCEPT ![th] = "asks"]
  /\ UNCHANGED <<server, mine, doomed, lock, lapse>>

\* Mutant: no lock.
CanEnter(th) == TRUE
\* cross_process_lock, one thread at a time; who dies leaves the mutex to the next.
CanTake(th) == lock = None

TakeLock(th) ==
  /\ step[th] = "asks" /\ CanTake(th)
  /\ lock' = th /\ step' = [step EXCEPT ![th] = "looks"]
  /\ UNCHANGED <<server, mine, doomed, lapse>>

\* The body runs without it all the same: the wait of thirty seconds ended, or the mutex
\* could not be created, as nowhere but on Windows it can.
LockLapses(th) ==
  /\ step[th] = "asks"
  /\ lapse' = TRUE /\ step' = [step EXCEPT ![th] = "looks"]
  /\ UNCHANGED <<server, mine, doomed, lock>>

\* status(): adopt what answers, or go on to the certificate and the spawn.
Look(th) ==
  /\ step[th] = "looks"
  /\ IF Reachable THEN step' = [step EXCEPT ![th] = "idle"] /\ lock' = Release(th)
                  ELSE step' = [step EXCEPT ![th] = "spawns"] /\ UNCHANGED lock
  /\ UNCHANGED <<server, mine, doomed, lapse>>

Spawn(th, s) ==
  /\ step[th] = "spawns" /\ server[s] = "unborn"
  /\ server' = [server EXCEPT ![s] = "boots"] /\ mine' = [mine EXCEPT ![TrayOf[th]] = s]
  /\ step' = [step EXCEPT ![th] = "waits"]
  /\ UNCHANGED <<doomed, lock, lapse>>

\* The process cannot be launched: start() raises.
SpawnFails(th) ==
  /\ step[th] = "spawns"
  /\ step' = [step EXCEPT ![th] = "idle"] /\ lock' = Release(th)
  /\ UNCHANGED <<server, mine, doomed, lapse>>

\* _wait_until_ready: the record is gone, its process ended, or something answers.
WaitEnds(th) ==
  /\ step[th] = "waits" /\ (mine[TrayOf[th]] \notin LiveServers \/ Reachable)
  /\ step' = [step EXCEPT ![th] = "idle"] /\ lock' = Release(th)
  /\ UNCHANGED <<server, mine, doomed, lapse>>

\* startup_timeout_seconds: start() raises and the process is left as it is.
WaitLapses(th) ==
  /\ step[th] = "waits" /\ ~Reachable
  /\ step' = [step EXCEPT ![th] = "idle"] /\ lock' = Release(th) /\ lapse' = TRUE
  /\ UNCHANGED <<server, mine, doomed>>

-----------------------------------------------------------------------------
(* stop(), by a restart from the menu or at the quit, under no lock. *)

\* Only what is its own and answers; restart() refuses another's.
BeginStop(th) ==
  /\ step[th] = "idle" /\ Ours(TrayOf[th])
  /\ step' = [step EXCEPT ![th] = "found"]
  /\ UNCHANGED <<server, mine, doomed, lock, lapse>>

\* A restart goes on to start(), a quit does not.
After(th) == \E next \in {"asks", "idle"} : step' = [step EXCEPT ![th] = next]

\* Its own no more when it looks again.
StopFindsNone(th) ==
  /\ step[th] = "found" /\ ~Ours(TrayOf[th])
  /\ After(th)
  /\ UNCHANGED <<server, mine, doomed, lock, lapse>>

\* p = self._proc: by now the server of another thread's restart, perhaps.
ReadProc(th) ==
  /\ step[th] = "found" /\ mine[TrayOf[th]] # None
  /\ doomed' = [doomed EXCEPT ![th] = mine[TrayOf[th]]]
  /\ step' = [step EXCEPT ![th] = "stops"]
  /\ UNCHANGED <<server, mine, lock, lapse>>

\* stop_proc ends the process, or gives up on it without a word.
StopProc(th) ==
  /\ step[th] = "stops" /\ step' = [step EXCEPT ![th] = "clears"]
  /\ \/ server' = [server EXCEPT ![doomed[th]] = "dead"] /\ UNCHANGED lapse
     \/ ServerAlive(doomed[th]) /\ lapse' = TRUE /\ UNCHANGED server
  /\ UNCHANGED <<mine, doomed, lock>>

\* self._proc = None, whatever is recorded there by now.
ClearProc(th) ==
  LET t == TrayOf[th]
  IN /\ step[th] = "clears" /\ After(th)
     /\ mine' = [mine EXCEPT ![t] = None] /\ doomed' = [doomed EXCEPT ![th] = None]
     /\ lapse' = (lapse \/ (mine[t] # doomed[th] /\ Waiting(t)))
     /\ UNCHANGED <<server, lock>>

-----------------------------------------------------------------------------

\* The process ends without a shutdown, all its threads with it; its server runs on.
TrayDies(t) ==
  /\ step' = [th \in Thread |-> IF TrayOf[th] = t THEN "idle" ELSE step[th]]
  /\ doomed' = [th \in Thread |-> IF TrayOf[th] = t THEN None ELSE doomed[th]]
  /\ mine' = [mine EXCEPT ![t] = None]
  /\ lock' = IF lock # None /\ TrayOf[lock] = t THEN None ELSE lock
  /\ lapse' = (lapse \/ Waiting(t))
  /\ UNCHANGED server

\* The server binds the port or finds it taken; either may end.
Bind(s) ==
  /\ server[s] = "boots" /\ ~Reachable /\ server' = [server EXCEPT ![s] = "up"]
  /\ UNCHANGED <<mine, step, doomed, lock, lapse>>
Exit(s) ==
  /\ ServerAlive(s) /\ server' = [server EXCEPT ![s] = "dead"]
  /\ UNCHANGED <<mine, step, doomed, lock, lapse>>

StartStep(th) ==
  \/ BeginStart(th) \/ TakeLock(th) \/ LockLapses(th) \/ Look(th) \/ SpawnFails(th)
  \/ WaitEnds(th) \/ WaitLapses(th) \/ \E s \in Server : Spawn(th, s)
StopStep(th) ==
  BeginStop(th) \/ StopFindsNone(th) \/ ReadProc(th) \/ StopProc(th) \/ ClearProc(th)

WebappNext ==
  \/ \E th \in Thread : StartStep(th) \/ StopStep(th)
  \/ \E t \in Tray : TrayDies(t)
  \/ \E s \in Server : Bind(s) \/ Exit(s)

WebappSpec == WebappInit /\ [][WebappNext]_webappVars

-----------------------------------------------------------------------------

\* However starts, restarts and quits of several threads and processes meet, two servers
\* are alive at once only if one of these happened before: somebody went in without the
\* lock (it waited too long, or the mutex could not be made); a wait for a server ran out;
\* a process ended while it waited for its server; a stop() cleared the record of a server
\* that another thread was waiting for; or stop_proc gave up on its process.
SingleWebapp == Cardinality(LiveServers) > 1 => lapse
=============================================================================
