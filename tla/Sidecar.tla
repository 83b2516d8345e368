------------------------------ MODULE Sidecar -------------------------------
(***************************************************************************)
(* The Node sidecar processes and what watches over them: the tray's       *)
(* keep-alive thread, the preflight of a scan and the webapp's start       *)
(* button.  They know of a sidecar only through status.json, which every   *)
(* sidecar rewrites, and the PID file of the last launch; nothing locks.   *)
(* A preflight then waits until the buffer has stopped growing.            *)
(***************************************************************************)
EXTENDS Naturals, FiniteSets

CONSTANTS
  Pid,            \* process ids a sidecar may run under
  NoPid,
  NoFile,         \* status.json is absent, or was read while being rewritten
  Tray, Web, Scan,\* the callers: keep-alive threads, start requests, preflights
  FreshTicks,     \* a heartbeat at most this many periods old is fresh
  WaitPolls,      \* polls until a relaunch is given up
  SettlePolls,    \* polls until a buffer that keeps growing is read anyway
  Settle,         \* polls without growth that count as settled
  MaxDeath,       \* bound: sidecars and callers that die
  MaxFail         \* bound: spawns that fail

Caller == Tray \cup Web \cup Scan

ASSUME PidAssumption   == NoPid \notin Pid
ASSUME BoundAssumption ==
  /\ FreshTicks \in Nat /\ WaitPolls \in Nat /\ SettlePolls \in Nat
  /\ Settle \in Nat \ {0} /\ MaxDeath \in Nat /\ MaxFail \in Nat
ASSUME CallerAssumption == Tray \cap Scan = {} /\ Web \cap Scan = {} /\ Tray \cap Web = {}

VARIABLES
  file,         \* what status.json says
  age,          \* heartbeat periods since it was written
  auth,         \* the credentials in auth/ are those of a linked device
  alive,        \* the sidecar processes
  memory,       \* currentConnected and currentPaired of each
  tracked,      \* sidecar.pid
  pc, child, polls,
  grew,         \* the buffer has grown since the caller's last poll
  quiet,        \* polls since its quiet_since
  still,        \* history: its polls since the last append
  clean,        \* history: launches so far were one at a time, each to its end
  deaths, fails

fileVars   == <<file, age, tracked>>
nodeVars   == <<auth, alive, memory>>
settleVars == <<grew, quiet, still>>
callerVars == <<pc, child, polls, settleVars>>
countVars  == <<deaths, fails>>
vars == <<fileVars, nodeVars, callerVars, clean, countVars>>

Report == [paired : BOOLEAN, connected : BOOLEAN]
Boot   == [paired |-> FALSE, connected |-> FALSE]

TypeOK ==
  /\ file \in Report \cup {NoFile}
  /\ age \in 0 .. FreshTicks + 1
  /\ auth \in BOOLEAN
  /\ alive \subseteq Pid
  /\ memory \in [Pid -> Report]
  /\ tracked \in Pid \cup {NoPid}
  /\ pc \in [Caller -> {"idle", "ensure", "check", "spawn", "record", "poll",
                        "reconnect", "settle", "settled", "unsettled"}]
  /\ child \in [Caller -> Pid \cup {NoPid}]
  /\ polls \in [Caller -> Nat]
  /\ grew \in [Caller -> BOOLEAN]
  /\ quiet \in [Caller -> Nat]
  /\ still \in [Caller -> Nat]
  /\ clean \in BOOLEAN
  /\ deaths \in 0 .. MaxDeath /\ fails \in 0 .. MaxFail
  /\ \A c \in Caller :
       /\ pc[c] = "poll" => polls[c] <= WaitPolls
       /\ pc[c] = "settle" => polls[c] <= SettlePolls /\ quiet[c] < Settle

\* A machine on which the sidecar never ran, paired earlier or not.
Init ==
  /\ file = NoFile
  /\ age = 0
  /\ auth \in BOOLEAN
  /\ alive = {}
  /\ memory = [p \in Pid |-> Boot]
  /\ tracked = NoPid
  /\ pc = [c \in Caller |-> "idle"]
  /\ child = [c \in Caller |-> NoPid]
  /\ polls = [c \in Caller |-> 0]
  /\ grew = [c \in Caller |-> FALSE]
  /\ quiet = [c \in Caller |-> 0]
  /\ still = [c \in Caller |-> 0]
  /\ clean = TRUE
  /\ deaths = 0 /\ fails = 0

-----------------------------------------------------------------------------
(* The sidecar process, index.js. *)

WriteStatus(p, connected, paired) ==
  /\ memory' = [memory EXCEPT ![p] = [paired |-> paired, connected |-> connected]]
  /\ file' = [paired |-> paired, connected |-> connected]
  /\ age' = 0

\* The 30 s heartbeat repeats the last report, which is Boot before the first event.
Heartbeat(p) ==
  /\ p \in alive
  /\ WriteStatus(p, memory[p].connected, memory[p].paired)
  /\ UNCHANGED <<tracked, auth, alive, callerVars, clean, countVars>>

\* The connection opens, needs a QR, or closes and is opened again.
Opened(p) ==
  /\ p \in alive /\ auth
  /\ WriteStatus(p, TRUE, TRUE)
  /\ UNCHANGED <<tracked, auth, alive, callerVars, clean, countVars>>

ShowQr(p) ==
  /\ p \in alive /\ ~auth
  /\ WriteStatus(p, FALSE, FALSE)
  /\ UNCHANGED <<tracked, auth, alive, callerVars, clean, countVars>>

Closed(p) ==
  /\ p \in alive
  /\ WriteStatus(p, FALSE, TRUE)
  /\ UNCHANGED <<tracked, auth, alive, callerVars, clean, countVars>>

\* The operator scans the QR.
Pair(p) ==
  /\ p \in alive /\ ~auth
  /\ auth' = TRUE
  /\ UNCHANGED <<fileVars, alive, memory, callerVars, clean, countVars>>

\* Unlinked on the phone: reported, then the process exits.
LoggedOut(p) ==
  /\ p \in alive /\ auth
  /\ deaths < MaxDeath
  /\ deaths' = deaths + 1
  /\ WriteStatus(p, FALSE, FALSE)
  /\ auth' = FALSE
  /\ alive' = alive \ {p}
  /\ UNCHANGED <<tracked, callerVars, clean, fails>>

\* start() rejects before any connection event.
StartFailed(p) ==
  /\ p \in alive /\ memory[p] = Boot
  /\ deaths < MaxDeath
  /\ deaths' = deaths + 1
  /\ WriteStatus(p, FALSE, FALSE)
  /\ alive' = alive \ {p}
  /\ UNCHANGED <<tracked, auth, callerVars, clean, fails>>

\* Killed, or the machine went down: nothing is written.
Die(p) ==
  /\ p \in alive
  /\ deaths < MaxDeath
  /\ deaths' = deaths + 1
  /\ alive' = alive \ {p}
  /\ memory' = [memory EXCEPT ![p] = Boot]
  /\ UNCHANGED <<fileVars, auth, callerVars, clean, fails>>

Append(p) ==
  /\ p \in alive
  /\ grew' = [c \in Caller |-> pc[c] = "settle"]
  /\ still' = [c \in Caller |-> 0]
  /\ UNCHANGED <<fileVars, nodeVars, pc, child, polls, quiet, clean, countVars>>

\* A heartbeat period passes.  A hung or suspended sidecar may not have written.
Tick ==
  /\ age <= FreshTicks
  /\ age' = age + 1
  /\ UNCHANGED <<file, tracked, nodeVars, callerVars, clean, countVars>>

-----------------------------------------------------------------------------
(* What a caller sees. *)

\* A live sidecar truncates the file before it fills it again.
Reads == {file} \cup (IF alive # {} THEN {NoFile} ELSE {})

Fresh(f) == f # NoFile /\ age <= FreshTicks

SidecarState(f) ==
  CASE f = NoFile   -> "stopped"
    [] f # NoFile /\ ~f.paired -> "needs_qr"
    [] f # NoFile /\ f.paired /\ ~Fresh(f) -> "stale"
    [] f # NoFile /\ f.paired /\ Fresh(f) -> IF f.connected THEN "running" ELSE "connecting"

\* Mutant: the heartbeat alone.
HeartbeatOnly(f) == Fresh(f)

\* Mutant: a PID file is there, whoever it names.
PidFileExists(f) == Fresh(f) \/ tracked # NoPid

IsRunning(f) == Fresh(f) \/ tracked \in alive

-----------------------------------------------------------------------------
(* Callers. *)

Goto(c, label) == pc' = [pc EXCEPT ![c] = label]

\* Starting to poll the buffer, from now.
BeginSettle(c) ==
  /\ Goto(c, "settle")
  /\ polls' = [polls EXCEPT ![c] = 0]
  /\ grew' = [grew EXCEPT ![c] = FALSE]
  /\ quiet' = [quiet EXCEPT ![c] = 0]
  /\ still' = [still EXCEPT ![c] = 0]
  /\ UNCHANGED child

Leave(c, label) == Goto(c, label) /\ UNCHANGED <<child, polls, settleVars>>

\* The locals go with the call.
Return(c) ==
  /\ Goto(c, "idle")
  /\ child' = [child EXCEPT ![c] = NoPid]
  /\ polls' = [polls EXCEPT ![c] = 0]
  /\ grew' = [grew EXCEPT ![c] = FALSE]
  /\ quiet' = [quiet EXCEPT ![c] = 0]
  /\ still' = [still EXCEPT ![c] = 0]

\* One check of the keep-alive thread that finds the sidecar gone.  One that finds it
\* live, linking or in need of a QR does nothing.
SuperviseOnce(c) ==
  /\ c \in Tray /\ pc[c] = "idle"
  /\ \E f \in Reads : SidecarState(f) \in {"stopped", "stale"}
  /\ Leave(c, "check")
  /\ UNCHANGED <<fileVars, nodeVars, clean, countVars>>

StartSidecar(c) ==
  /\ c \in Web /\ pc[c] = "idle"
  /\ Leave(c, "check")
  /\ UNCHANGED <<fileVars, nodeVars, clean, countVars>>

\* preflight: connect, and ensure_running when the source is offline.
Preflight(c) ==
  /\ c \in Scan /\ pc[c] = "idle"
  /\ \E f \in Reads :
       IF SidecarState(f) = "running" THEN BeginSettle(c) ELSE Leave(c, "ensure")
  /\ UNCHANGED <<fileVars, nodeVars, clean, countVars>>

EnsureRunning(c) ==
  /\ pc[c] = "ensure"
  /\ \E f \in Reads :
       Leave(c, IF SidecarState(f) = "running" THEN "reconnect" ELSE "check")
  /\ UNCHANGED <<fileVars, nodeVars, clean, countVars>>

\* Launched, or not needed: a preflight polls for the heartbeat, the others are done.
AfterLaunch(c) ==
  /\ Goto(c, IF c \in Scan THEN "poll" ELSE "idle")
  /\ polls' = [polls EXCEPT ![c] = 0]
  /\ UNCHANGED settleVars

Launching(c) == pc[c] \in {"spawn", "record"}

\* launch_sidecar refuses while it sees a live one.
CheckRunning(c) ==
  /\ pc[c] = "check"
  /\ \E f \in Reads :
       IF IsRunning(f) THEN AfterLaunch(c) /\ UNCHANGED <<child, clean>>
       ELSE /\ Leave(c, "spawn")
            /\ clean' = (clean /\ \A d \in Caller : ~Launching(d))
  /\ UNCHANGED <<fileVars, nodeVars, countVars>>

Spawn(c) ==
  /\ pc[c] = "spawn"
  /\ \E p \in Pid \ alive :
       /\ alive' = alive \cup {p}
       /\ child' = [child EXCEPT ![c] = p]
  /\ Goto(c, "record")
  /\ UNCHANGED <<fileVars, auth, memory, polls, settleVars, clean, countVars>>

\* Node or its modules are missing, or no process can be started.
SpawnFails(c) ==
  /\ pc[c] = "spawn"
  /\ IF Pid \subseteq alive THEN UNCHANGED fails
                           ELSE fails < MaxFail /\ fails' = fails + 1
  /\ Leave(c, "idle")
  /\ UNCHANGED <<fileVars, nodeVars, clean, deaths>>

RecordPid(c) ==
  /\ pc[c] = "record"
  /\ tracked' = child[c]
  /\ child' = [child EXCEPT ![c] = NoPid]
  /\ AfterLaunch(c)
  /\ UNCHANGED <<file, age, nodeVars, clean, countVars>>

\* Live, or one poll nearer to the deadline.
Poll(c) ==
  /\ pc[c] = "poll"
  /\ \E f \in Reads :
       IF SidecarState(f) = "running" \/ polls[c] = WaitPolls
       THEN Leave(c, "reconnect")
       ELSE /\ polls' = [polls EXCEPT ![c] = @ + 1]
            /\ UNCHANGED <<pc, child, settleVars>>
  /\ UNCHANGED <<fileVars, nodeVars, clean, countVars>>

\* connect once more; a source that is still offline ends the preflight.
Reconnect(c) ==
  /\ pc[c] = "reconnect"
  /\ \E f \in Reads :
       IF SidecarState(f) = "running" THEN BeginSettle(c) ELSE Return(c)
  /\ UNCHANGED <<fileVars, nodeVars, clean, countVars>>

\* Mutant: the quiet time runs on when the buffer grew.
QuietRunsOn(c) == quiet[c] + 1

Quiet(c) == IF grew[c] THEN 0 ELSE quiet[c] + 1

DeadlineReached(c) == polls[c] = SettlePolls

SettlePoll(c) ==
  /\ pc[c] = "settle"
  /\ ~DeadlineReached(c)
  /\ polls' = [polls EXCEPT ![c] = @ + 1]
  /\ quiet' = [quiet EXCEPT ![c] = Quiet(c)]
  /\ grew' = [grew EXCEPT ![c] = FALSE]
  /\ still' = [still EXCEPT ![c] = @ + 1]
  /\ Goto(c, IF Quiet(c) >= Settle THEN "settled" ELSE "settle")
  /\ UNCHANGED <<child, fileVars, nodeVars, clean, countVars>>

SettleTimeout(c) ==
  /\ pc[c] = "settle"
  /\ DeadlineReached(c)
  /\ Leave(c, "unsettled")
  /\ UNCHANGED <<fileVars, nodeVars, clean, countVars>>

\* The source is read, settled or not.
ReadBuffer(c) ==
  /\ pc[c] \in {"settled", "unsettled"}
  /\ Return(c)
  /\ UNCHANGED <<fileVars, nodeVars, clean, countVars>>

\* The process of the caller ends; what it spawned lives on.
CallerDies(c) ==
  /\ pc[c] # "idle"
  /\ deaths < MaxDeath
  /\ deaths' = deaths + 1
  /\ clean' = (clean /\ pc[c] # "record")
  /\ Return(c)
  /\ UNCHANGED <<fileVars, nodeVars, fails>>

LaunchStep(c) ==
  \/ CheckRunning(c) \/ Spawn(c) \/ SpawnFails(c) \/ RecordPid(c)

PreflightStep(c) ==
  \/ EnsureRunning(c) \/ LaunchStep(c) \/ Poll(c) \/ Reconnect(c)
  \/ SettlePoll(c) \/ SettleTimeout(c) \/ ReadBuffer(c)

NodeStep(p) ==
  \/ Heartbeat(p) \/ Opened(p) \/ ShowQr(p) \/ Closed(p) \/ Pair(p)
  \/ LoggedOut(p) \/ StartFailed(p) \/ Die(p) \/ Append(p)

Next ==
  \/ Tick
  \/ \E p \in Pid : NodeStep(p)
  \/ \E c \in Caller : \/ SuperviseOnce(c) \/ StartSidecar(c) \/ Preflight(c)
                       \/ PreflightStep(c) \/ CallerDies(c)

Spec == Init /\ [][Next]_vars

\* Time passes, the keep-alive thread keeps checking, and a caller inside a launch or a
\* preflight goes on.  Nothing is assumed of the sidecar, the phone or the operator.
FairSpec ==
  /\ Spec
  /\ WF_vars(Tick)
  /\ \A c \in Tray : WF_vars(SuperviseOnce(c))
  /\ \A c \in Caller : WF_vars(PreflightStep(c))

-----------------------------------------------------------------------------
(* Properties. *)

SingleSidecar == Cardinality(alive) <= 1

\* Without a lock, the heartbeat and the PID file together are enough to keep one
\* sidecar, hung, booting or torn-read as it may be, as long as launches do not overlap
\* and none is cut short between its spawn and its PID file.
CleanLaunchesKeepOne == clean => \A p, q \in alive : p = q

\* A buffer is reported as settled only after it was quiet for the settle time, with
\* no append in it.
SettledIsQuiet ==
  [][\A c \in Caller :
       pc[c] = "settle" /\ pc'[c] = "settled" => still'[c] >= Settle]_vars

\* A dead sidecar whose last report was of a linked device is started again, whatever
\* died or failed before.
SidecarRecovers ==
  alive = {} /\ SidecarState(file) # "needs_qr" ~> alive # {}
=============================================================================
