----------------------------- MODULE SweepWatch -----------------------------
(***************************************************************************)
(* The sweep buttons of the Family tab.  A tap fires a calendar scan past  *)
(* the client's run queue, and the page polls the runs until that one has  *)
(* left the active slot; the server's single flight may refuse it, a       *)
(* record may never be seen, and the travel settings change meanwhile.     *)
(***************************************************************************)
EXTENDS Naturals

CONSTANTS
  MissingTicks,  \* SWEEP_MISSING_TICKS
  MaxSweeps,     \* bound: runs that taps start
  MaxLost,       \* bound: requests and answers lost
  NoAnswer

ASSUME WatchAssumption == MissingTicks \in Nat /\ MaxSweeps \in Nat /\ MaxLost \in Nat

VARIABLES
  sweep,    \* [running, runId, ticks, says], says: the status line
  wait,     \* what the page awaits: "nothing", "start", "timer", "poll" or "refresh"
  answer,   \* the answer on its way, or NoAnswer
  busy,     \* another run holds the server's slot
  server,   \* the runs of sweeps: "none", "running", "ended" or "gone"
  swept,    \* the runs so far
  reported, \* the run whose end "Last sweep" reports
  lost

watchVars == <<sweep, wait, answer, busy, server, swept, reported, lost>>

Says == {"", "starting", "busy", "failed to start", "sweeping", "no record", "outcome"}

WatchTypeOK ==
  /\ sweep \in [running : BOOLEAN, runId : 0 .. MaxSweeps, ticks : 0 .. MissingTicks + 1, says : Says]
  /\ wait \in {"nothing", "start", "timer", "poll", "refresh"}
  /\ busy \in BOOLEAN /\ swept \in 0 .. MaxSweeps /\ reported \in 0 .. MaxSweeps
  /\ server \in [1 .. MaxSweeps -> {"none", "running", "ended", "gone"}]
  /\ lost \in 0 .. MaxLost

WatchInit ==
  /\ sweep = [running |-> FALSE, runId |-> 0, ticks |-> 0, says |-> ""]
  /\ wait = "nothing" /\ answer = NoAnswer /\ busy = FALSE
  /\ server = [i \in 1 .. MaxSweeps |-> "none"] /\ swept = 0 /\ reported = 0 /\ lost = 0

-----------------------------------------------------------------------------
(* The page. *)

\* startSweep up to its await; while it runs a second tap does nothing.
StartSweep ==
  /\ ~sweep.running /\ wait = "nothing" /\ swept < MaxSweeps
  /\ sweep' = [running |-> TRUE, runId |-> 0, ticks |-> 0, says |-> "starting"]
  /\ wait' = "start"
  /\ UNCHANGED <<answer, busy, server, swept, reported, lost>>

TakeStart ==
  /\ wait = "start" /\ answer # NoAnswer /\ answer' = NoAnswer
  /\ IF answer.ok THEN /\ sweep' = [sweep EXCEPT !.runId = answer.run, !.says = "sweeping"]
                       /\ wait' = "timer"
     ELSE /\ sweep' = [sweep EXCEPT !.running = FALSE,
                                    !.says = IF answer.busy THEN "busy" ELSE "failed to start"]
          /\ wait' = "nothing"
  /\ UNCHANGED <<busy, server, swept, reported, lost>>

PollSweep ==
  /\ wait = "timer" /\ wait' = "poll"
  /\ UNCHANGED <<sweep, answer, busy, server, swept, reported, lost>>

\* Mutant: a run that is not in the list is waited for.
StillWaitForRecord(a) == a.active \/ a.record \in {"running", "none"}
\* The run is active or its record says so, or it has not been seen and the
\* page has not waited long.
StillWait(a) ==
  a.active \/ a.record = "running" \/ (a.record = "none" /\ sweep.ticks < MissingTicks)

\* pollSweep on its answer, and finishSweep.
TakePollSweep ==
  /\ wait = "poll" /\ answer # NoAnswer /\ answer' = NoAnswer
  /\ IF ~answer.ok THEN wait' = "timer" /\ UNCHANGED sweep
     ELSE IF StillWait(answer)
     THEN /\ sweep' = [sweep EXCEPT !.ticks = IF @ <= MissingTicks THEN @ + 1 ELSE @]  \* saturates here
          /\ wait' = "timer"
     ELSE /\ sweep' = [sweep EXCEPT !.running = FALSE, !.runId = 0,
                                    !.says = IF answer.record = "none" THEN "no record" ELSE "outcome"]
          /\ wait' = "refresh"
  /\ UNCHANGED <<busy, server, swept, reported, lost>>

\* refreshAfterSweep
TakeRefresh ==
  /\ wait = "refresh" /\ answer # NoAnswer /\ answer' = NoAnswer /\ wait' = "nothing"
  /\ reported' = IF answer.ok THEN answer.last ELSE reported
  /\ UNCHANGED <<sweep, busy, server, swept, lost>>

-----------------------------------------------------------------------------
(* The server and the network. *)

HandleStart ==
  /\ wait = "start" /\ answer = NoAnswer
  /\ LET free == ~busy /\ \A i \in 1 .. MaxSweeps : server[i] # "running"
     IN /\ swept' = IF free THEN swept + 1 ELSE swept
        /\ server' = IF free THEN [server EXCEPT ![swept'] = "running"] ELSE server
        /\ answer' = [ok |-> free, busy |-> ~free, run |-> swept']
  /\ UNCHANGED <<sweep, wait, busy, reported, lost>>

HandlePollSweep ==
  /\ wait = "poll" /\ answer = NoAnswer
  /\ LET r == server[sweep.runId]
     IN answer' = [ok |-> TRUE, active |-> r = "running", record |-> IF r = "gone" THEN "none" ELSE r]
  /\ UNCHANGED <<sweep, wait, busy, server, swept, reported, lost>>

HandleRefresh ==
  /\ wait = "refresh" /\ answer = NoAnswer
  /\ LET done == {i \in 1 .. MaxSweeps : server[i] \in {"ended", "gone"}}
     IN answer' = [ok |-> TRUE, last |-> IF done = {} THEN 0
                                         ELSE CHOOSE i \in done : \A j \in done : j <= i]
  /\ UNCHANGED <<sweep, wait, busy, server, swept, reported, lost>>

\* A request or its answer is lost; what it started stays started.
LoseRequest ==
  /\ wait \in {"start", "poll", "refresh"} /\ lost < MaxLost /\ lost' = lost + 1
  /\ answer' = [ok |-> FALSE, busy |-> FALSE]
  /\ UNCHANGED <<sweep, wait, busy, server, swept, reported>>

OtherScan == busy' = ~busy /\ (busy' => \A i \in 1 .. MaxSweeps : server[i] # "running")
             /\ UNCHANGED <<sweep, wait, answer, server, swept, reported, lost>>

\* The scan ends; or its record is gone: killed before it was written, pruned,
\* or behind ten newer ones.
EndSweep(i) ==
  /\ server[i] = "running" /\ \E s \in {"ended", "gone"} : server' = [server EXCEPT ![i] = s]
  /\ UNCHANGED <<sweep, wait, answer, busy, swept, reported, lost>>

-----------------------------------------------------------------------------

WatchNext ==
  \/ StartSweep \/ TakeStart \/ PollSweep \/ TakePollSweep \/ TakeRefresh
  \/ HandleStart \/ HandlePollSweep \/ HandleRefresh \/ LoseRequest \/ OtherScan
  \/ \E i \in 1 .. MaxSweeps : EndSweep(i)

\* Requests are answered, the timer fires, and scans end.
WatchFairness ==
  /\ WF_watchVars(TakeStart) /\ WF_watchVars(PollSweep) /\ WF_watchVars(TakePollSweep)
  /\ WF_watchVars(TakeRefresh) /\ WF_watchVars(HandleStart) /\ WF_watchVars(HandlePollSweep)
  /\ WF_watchVars(HandleRefresh) /\ \A i \in 1 .. MaxSweeps : WF_watchVars(EndSweep(i))

WatchSpec == WatchInit /\ [][WatchNext]_watchVars /\ WatchFairness

-----------------------------------------------------------------------------

\* The buttons come back: a sweep is waited for no longer than its run lasts or
\* its record is looked for, whatever becomes of either.
SweepEnds == sweep.running ~> ~sweep.running

=============================================================================
