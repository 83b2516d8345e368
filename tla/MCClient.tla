------------------------------ MODULE MCClient ------------------------------
(* The parts of the PWA one at a time: part is the one that moves. *)
EXTENDS RunQueue, ActivityFeed, RunSheet, SweepWatch

VARIABLE part

clientVars == <<part, queueVars, feedVars, sheetVars, watchVars>>

ClientInit == /\ part \in {"queue", "feed", "sheet", "watch"}
              /\ QueueInit /\ FeedInit /\ SheetInit /\ WatchInit
              \* One run is in flight, the others have ended.
              /\ \A r \in Run : progress[r] = IF r \in Captured THEN "running" ELSE "recorded"

Queue(A) == part = "queue" /\ A /\ UNCHANGED <<part, feedVars, sheetVars, watchVars>>
Feed(A)  == part = "feed" /\ A /\ UNCHANGED <<part, queueVars, sheetVars, watchVars>>
Sheet(A) == part = "sheet" /\ A /\ UNCHANGED <<part, queueVars, feedVars, watchVars>>
Watch(A) == part = "watch" /\ A /\ UNCHANGED <<part, queueVars, feedVars, sheetVars>>

ClientNext == Queue(QueueNext) \/ Feed(FeedNext) \/ Sheet(SheetNext) \/ Watch(WatchNext)

\* The fairness of the parts.
ClientFairness ==
  /\ WF_queueVars(Queue(PostAnswered)) /\ WF_queueVars(Queue(SendPoll))
  /\ WF_queueVars(Queue(PollIdle)) /\ WF_queueVars(Queue(PollBusy))
  /\ WF_queueVars(Queue(HandlePost)) /\ WF_queueVars(Queue(HandlePoll)) /\ WF_queueVars(Queue(EndRun))
  /\ \A j \in Jobs : WF_sheetVars(Sheet(ReadJob(j))) /\ WF_sheetVars(Sheet(TakeJob(j)))
  /\ WF_sheetVars(Sheet(Settle)) /\ SF_sheetVars(Sheet(OnExecution))
  /\ WF_watchVars(Watch(TakeStart)) /\ WF_watchVars(Watch(PollSweep)) /\ WF_watchVars(Watch(TakePollSweep))
  /\ WF_watchVars(Watch(TakeRefresh)) /\ WF_watchVars(Watch(HandleStart))
  /\ WF_watchVars(Watch(HandlePollSweep)) /\ WF_watchVars(Watch(HandleRefresh))
  /\ \A i \in 1 .. MaxSweeps : WF_watchVars(Watch(EndSweep(i)))

ClientSpec == ClientInit /\ [][ClientNext]_clientVars /\ ClientFairness

ClientTypeOK == QueueTypeOK /\ FeedTypeOK /\ SheetTypeOK /\ WatchTypeOK

CONSTANTS messages, calendar
MCSelection == {[steps |-> {"sync", "process", "calendar"}, dry |-> FALSE]}
MCScopeOf == [r \in 1 .. LastRun |-> IF r = 2 THEN calendar ELSE messages]
=============================================================================
