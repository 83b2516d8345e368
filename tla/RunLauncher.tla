----------------------------- MODULE RunLauncher -----------------------------
(***************************************************************************)
(* A run of one of the launchable verbs: the web app spawns it as a        *)
(* detached process and watches it, or the CLI runs it and captures        *)
(* itself.  A run leaves a record on disk (run.json), a row in review_runs *)
(* when its kind has one, or both, and each of the two is finished, swept  *)
(* or pruned by other processes than the one that opened it.               *)
(***************************************************************************)
EXTENDS Naturals, FiniteSets

CONSTANTS
  Kind,         \* the verbs a run is of
  RowKind,      \* those that open a row in review_runs
  FamilyKind,   \* those whose rows are reconciled: FAMILY_KINDS
  NoKind, NoRun,
  MaxRun,       \* bound: how many runs are started
  MaxTime,      \* bound: the last second of the clock
  MaxRestart,   \* bound: how often the web app restarts
  Cap,          \* RETENTION_PER_KIND
  StaleRecord,  \* _STALE_RUNNING_HOURS
  StaleRow      \* STALE_RUNNING_AFTER

ASSUME KindAssumption  == FamilyKind \subseteq RowKind /\ RowKind \subseteq Kind /\ NoKind \notin Kind
ASSUME BoundAssumption == /\ MaxRun \in Nat /\ MaxTime \in Nat /\ MaxRestart \in Nat
                          /\ NoRun \notin Nat
ASSUME AgeAssumption   == Cap \in Nat /\ StaleRecord \in Nat /\ StaleRow \in Nat

Run == 1 .. MaxRun

VARIABLES
  now,       \* the wall clock, in the seconds a run id is made of
  count,     \* runs started so far; run r is the r-th
  kind, origin, started, boot,  \* of a run; boot: the life of the web app that spawned it
  pc,        \* where its process is
  exit,      \* the exit code of its process
  rec,       \* the status in run.json, "none" when there is no record
  kept,      \* a record was opened for it
  row,       \* the status of its row
  outcome,   \* what its process wrote on its row at the end
  stale,     \* the rows its sweep has read and not yet dealt with
  watch,     \* the web app's watcher thread
  active,    \* _ACTIVE
  life       \* restarts of the web app

runVars    == <<count, kind, origin, started, boot>>
recordVars == <<rec, kept>>
rowVars    == <<row, outcome>>
procVars   == <<pc, exit, stale>>
appVars    == <<watch, active, life>>
launcherVars == <<now, runVars, recordVars, rowVars, procVars, appVars>>

AlivePc == {"start", "sweep", "work", "report", "end", "prune"}
Alive(r) == pc[r] \in AlivePc

LauncherTypeOK ==
  /\ now \in 0 .. MaxTime
  /\ count \in 0 .. MaxRun
  /\ kind \in [Run -> Kind \cup {NoKind}]
  /\ origin \in [Run -> {"web", "cli"}]
  /\ started \in [Run -> 0 .. MaxTime]
  /\ boot \in [Run -> 0 .. MaxRestart]
  /\ pc \in [Run -> AlivePc \cup {"none", "dead"}]
  /\ exit \in [Run -> {"none", "zero", "other"}]
  /\ rec \in [Run -> {"none", "running", "completed", "failed"}]
  /\ kept \in [Run -> BOOLEAN]
  /\ row \in [Run -> {"none", "running", "completed", "failed", "abandoned"}]
  /\ outcome \in [Run -> {"none", "completed", "failed"}]
  /\ stale \in [Run -> SUBSET Run]
  /\ watch \in [Run -> {"none", "wait", "prune", "clear", "done"}]
  /\ active \in Run \cup {NoRun}
  /\ life \in 0 .. MaxRestart
  /\ \A r \in Run : r > count => pc[r] = "none" /\ rec[r] = "none" /\ row[r] = "none"

LauncherInit ==
  /\ now = 0 /\ count = 0 /\ active = NoRun /\ life = 0
  /\ kind = [r \in Run |-> NoKind] /\ origin = [r \in Run |-> "cli"]
  /\ started = [r \in Run |-> 0] /\ boot = [r \in Run |-> 0]
  /\ pc = [r \in Run |-> "none"] /\ exit = [r \in Run |-> "none"]
  /\ rec = [r \in Run |-> "none"] /\ kept = [r \in Run |-> FALSE]
  /\ row = [r \in Run |-> "none"] /\ outcome = [r \in Run |-> "none"]
  /\ stale = [r \in Run |-> {}]
  /\ watch = [r \in Run |-> "none"]

-----------------------------------------------------------------------------
(* Names and reads. *)

\* The run id: the second it started in, and the suffix a name taken in the
\* directory of its kind adds.
Suffix(r) == Cardinality({q \in Run : q < r /\ kept[q] /\ kind[q] = kind[r]
                                      /\ started[q] = started[r]})
SameId(q, r) == started[q] = started[r] /\ Suffix(q) = Suffix(r)

\* _is_stale_running
IsStaleRunning(r) == now >= started[r] + StaleRecord

\* active_run(): only the web app's process holds a handle.
ActiveRun == IF active # NoRun /\ Alive(active) THEN active ELSE NoRun

\* Mutant: a record is not looked at before it is deleted.
PrunableUnread(handle) ==
  {r \in Run : /\ rec[r] # "none" /\ r # handle
               /\ Cardinality({q \in Run : q > r /\ rec[q] # "none" /\ kind[q] = kind[r]}) >= Cap}

\* What a prune pass may delete: past the cap of its kind, not the run of the
\* handle, not running unless stale.
Prunable(handle) ==
  {r \in Run : /\ rec[r] # "none" /\ r # handle
               /\ Cardinality({q \in Run : q > r /\ rec[q] # "none" /\ kind[q] = kind[r]}) >= Cap
               /\ ~(rec[r] = "running" /\ ~IsStaleRunning(r))}

\* prune_runs: a locked directory and what the budget leaves over stay.
PruneRuns(handle) ==
  \E D \in SUBSET Prunable(handle) : rec' = [r \in Run |-> IF r \in D THEN "none" ELSE rec[r]]

\* The rows reconcile_stale_runs selects.
StaleRows == {q \in Run : row[q] = "running" /\ kind[q] \in FamilyKind /\ now >= started[q] + StaleRow}

-----------------------------------------------------------------------------
(* The web app. *)

\* Mutant: whatever runs, a second run is started.
NeverBusy == FALSE
Busy == ActiveRun # NoRun

NewRun(k, o, b, r) ==
  /\ r = count + 1 /\ r \in Run
  /\ count' = r
  /\ kind' = [kind EXCEPT ![r] = k] /\ origin' = [origin EXCEPT ![r] = o]
  /\ started' = [started EXCEPT ![r] = now] /\ boot' = [boot EXCEPT ![r] = b]

\* start_run, under _LOCK: record, process, handle and watcher.
StartRun(k, r) ==
  /\ ~Busy
  /\ NewRun(k, "web", life, r)
  /\ rec' = [rec EXCEPT ![r] = "running"] /\ kept' = [kept EXCEPT ![r] = TRUE]
  /\ pc' = [pc EXCEPT ![r] = "start"]
  /\ active' = r
  /\ watch' = [watch EXCEPT ![r] = "wait"]
  /\ UNCHANGED <<now, rowVars, exit, stale, life>>

\* The process cannot be spawned, and the record says so, or its log cannot be
\* opened, and the record stays running; the handle of the run before stays.
StartFails(k, r) ==
  /\ ~Busy
  /\ NewRun(k, "web", life, r)
  /\ \E s \in {"failed", "running"} : rec' = [rec EXCEPT ![r] = s]
  /\ kept' = [kept EXCEPT ![r] = TRUE]
  /\ pc' = [pc EXCEPT ![r] = "dead"]
  /\ UNCHANGED <<now, rowVars, exit, stale, appVars>>

\* kill_run: only the process the handle names.
KillRun(r) ==
  /\ ActiveRun = r
  /\ pc' = [pc EXCEPT ![r] = "dead"] /\ exit' = [exit EXCEPT ![r] = "other"]
  /\ stale' = [stale EXCEPT ![r] = {}]
  /\ UNCHANGED <<now, runVars, recordVars, rowVars, appVars>>

\* finalize_record, up to its prune.
FinalRecord(r) == [rec EXCEPT ![r] = IF exit[r] = "zero" THEN "completed" ELSE "failed"]

\* _watch: the process is gone.  Writing into a directory that was pruned
\* raises, and ends the thread.
WatchFinalize(r) ==
  /\ watch[r] = "wait" /\ ~Alive(r)
  /\ IF rec[r] = "none"
     THEN watch' = [watch EXCEPT ![r] = "done"] /\ UNCHANGED rec
     ELSE watch' = [watch EXCEPT ![r] = "prune"] /\ rec' = FinalRecord(r)
  /\ UNCHANGED <<now, runVars, kept, rowVars, procVars, active, life>>

WatchPrune(r) ==
  /\ watch[r] = "prune"
  /\ PruneRuns(ActiveRun)
  /\ watch' = [watch EXCEPT ![r] = "clear"]
  /\ UNCHANGED <<now, runVars, kept, rowVars, procVars, active, life>>

\* The ids are compared, the kinds are not.
WatchClear(r) ==
  /\ watch[r] = "clear"
  /\ active' = IF active # NoRun /\ SameId(active, r) THEN NoRun ELSE active
  /\ watch' = [watch EXCEPT ![r] = "done"]
  /\ UNCHANGED <<now, runVars, recordVars, rowVars, procVars, life>>

\* The web app stops and starts: handle and watchers are gone, its children
\* live on; the new one prunes without a budget and reconciles stale rows.
RestartWebapp ==
  /\ life < MaxRestart
  /\ life' = life + 1
  /\ active' = NoRun
  /\ watch' = [r \in Run |-> "none"]
  /\ PruneRuns(NoRun)
  /\ row' = [q \in Run |-> IF q \in StaleRows THEN "abandoned" ELSE row[q]]
  /\ UNCHANGED <<now, runVars, kept, outcome, procVars>>

-----------------------------------------------------------------------------
(* A run's process. *)

\* run_captured: the CLI opens a record of its own, unless it cannot.
StartCli(k, r) ==
  /\ NewRun(k, "cli", life, r)
  /\ \E made \in BOOLEAN : /\ rec' = [rec EXCEPT ![r] = IF made THEN "running" ELSE "none"]
                           /\ kept' = [kept EXCEPT ![r] = made]
  /\ pc' = [pc EXCEPT ![r] = "start"]
  /\ UNCHANGED <<now, rowVars, exit, stale, appVars>>

\* Where a process is once its command returned or raised.
AfterCommand(r) == IF origin[r] = "cli" /\ kept[r] THEN "end" ELSE "dead"

\* A family check that skips itself prints its result and opens no row: its cadence has
\* not elapsed, or its hour has not come (the hours of the day are not modelled).
SelfSkip(r) ==
  /\ pc[r] = "start" /\ kind[r] \in FamilyKind
  /\ exit' = [exit EXCEPT ![r] = "zero"]
  /\ pc' = [pc EXCEPT ![r] = AfterCommand(r)]
  /\ UNCHANGED <<now, runVars, recordVars, rowVars, stale, appVars>>

\* reconcile_stale_runs: one read, then one guarded update per row.
ReadStaleRows(r) ==
  /\ pc[r] = "start" /\ kind[r] \in FamilyKind
  /\ stale' = [stale EXCEPT ![r] = StaleRows]
  /\ pc' = [pc EXCEPT ![r] = "sweep"]
  /\ UNCHANGED <<now, runVars, recordVars, rowVars, exit, appVars>>

\* Mutant: the row is abandoned whatever it became since it was read.
AbandonAlways(q) == row' = [row EXCEPT ![q] = "abandoned"]
AbandonRun(q) == row' = IF row[q] = "running" THEN [row EXCEPT ![q] = "abandoned"] ELSE row

SweepRow(r) ==
  /\ pc[r] = "sweep"
  /\ \E q \in stale[r] : AbandonRun(q) /\ stale' = [stale EXCEPT ![r] = @ \ {q}]
  /\ UNCHANGED <<now, runVars, recordVars, outcome, pc, exit, appVars>>

OpenRow(r) ==
  /\ IF kind[r] \in FamilyKind THEN pc[r] = "sweep" /\ stale[r] = {} ELSE pc[r] = "start"
  /\ row' = [row EXCEPT ![r] = IF kind[r] \in RowKind THEN "running" ELSE "none"]
  /\ pc' = [pc EXCEPT ![r] = "work"]
  /\ UNCHANGED <<now, runVars, recordVars, outcome, exit, stale, appVars>>

\* finish_run and finish_run_summary look at nothing.
FinishRow(r, s) ==
  /\ pc[r] = "work"
  /\ IF kind[r] \in RowKind
     THEN row' = [row EXCEPT ![r] = s] /\ outcome' = [outcome EXCEPT ![r] = s]
     ELSE UNCHANGED rowVars
  /\ exit' = [exit EXCEPT ![r] = IF s = "completed" THEN "zero" ELSE "other"]
  /\ pc' = [pc EXCEPT ![r] = "report"]
  /\ UNCHANGED <<now, runVars, recordVars, stale, appVars>>

\* The result sentinel is printed last (what it says of the row is not modelled).
EmitResult(r) ==
  /\ pc[r] = "report"
  /\ pc' = [pc EXCEPT ![r] = AfterCommand(r)]
  /\ UNCHANGED <<now, runVars, recordVars, rowVars, exit, stale, appVars>>

\* An interrupt in a family check abandons the row, and the CLI still finalizes.
Interrupt(r) ==
  /\ pc[r] = "work" /\ kind[r] \in FamilyKind
  /\ AbandonRun(r)
  /\ exit' = [exit EXCEPT ![r] = "other"]
  /\ pc' = [pc EXCEPT ![r] = AfterCommand(r)]
  /\ UNCHANGED <<now, runVars, recordVars, outcome, stale, appVars>>

\* The CLI finalizes its own record in its finally, and prunes without a handle.
CliFinalize(r) ==
  /\ pc[r] = "end"
  /\ IF rec[r] = "none"
     THEN pc' = [pc EXCEPT ![r] = "dead"] /\ UNCHANGED rec
     ELSE pc' = [pc EXCEPT ![r] = "prune"] /\ rec' = FinalRecord(r)
  /\ UNCHANGED <<now, runVars, kept, rowVars, exit, stale, appVars>>

CliPrune(r) ==
  /\ pc[r] = "prune"
  /\ PruneRuns(NoRun)
  /\ pc' = [pc EXCEPT ![r] = "dead"]
  /\ UNCHANGED <<now, runVars, kept, rowVars, exit, stale, appVars>>

\* A Job's timeout or a reboot: nothing is finalized.
Die(r) ==
  /\ Alive(r)
  /\ pc' = [pc EXCEPT ![r] = "dead"]
  /\ exit' = [exit EXCEPT ![r] = "other"] /\ stale' = [stale EXCEPT ![r] = {}]
  /\ UNCHANGED <<now, runVars, recordVars, rowVars, appVars>>

Tick ==
  /\ now < MaxTime
  /\ now' = now + 1
  /\ UNCHANGED <<runVars, recordVars, rowVars, procVars, appVars>>

ProcessStep(r) ==
  \/ SelfSkip(r) \/ ReadStaleRows(r) \/ SweepRow(r) \/ OpenRow(r)
  \/ \E s \in {"completed", "failed"} : FinishRow(r, s)
  \/ EmitResult(r) \/ Interrupt(r) \/ CliFinalize(r) \/ CliPrune(r) \/ Die(r)

WatchStep(r) == WatchFinalize(r) \/ WatchPrune(r) \/ WatchClear(r)

LauncherNext ==
  \/ \E k \in Kind, r \in Run : StartRun(k, r) \/ StartFails(k, r) \/ StartCli(k, r)
  \/ \E r \in Run : KillRun(r) \/ ProcessStep(r) \/ WatchStep(r)
  \/ RestartWebapp
  \/ Tick

LauncherSpec == LauncherInit /\ [][LauncherNext]_launcherVars

-----------------------------------------------------------------------------
(* Properties. *)

\* Single flight: a live run of the present web app is the one its handle
\* names, so that a second one is refused and it can be killed.  The exception
\* is a run that shares its id with a run of another kind, started in the same
\* second, whose watcher clears the wrong handle (runs._watch).
SingleFlight ==
  \A r \in Run :
    origin[r] = "web" /\ boot[r] = life /\ Alive(r) =>
      \/ active = r
      \/ \E q \in 1 .. count : q # r /\ kind[q] # kind[r] /\ SameId(q, r)

\* What a process wrote on its own row at its end is what the row says, even
\* when a sweep by another process has read the row as stale before: the sweep
\* of reconcile_stale_runs never wins over an outcome somebody saw.
OutcomeStands == \A r \in Run : outcome[r] # "none" => row[r] = outcome[r]

\* The record of a run that is alive and younger than a day is never pruned,
\* by whichever process and with whatever handle it prunes (runs.prune_runs).
LiveRecordKept ==
  \A r \in Run : kept[r] /\ pc[r] \in AlivePc \ {"prune"} /\ ~IsStaleRunning(r) => rec[r] = "running"
=============================================================================
