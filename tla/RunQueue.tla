------------------------------ MODULE RunQueue ------------------------------
(***************************************************************************)
(* The run queue of the PWA: a chain of steps (Sync, Process, Message,     *)
(* Calendar) is fired one POST at a time, the poll of the active run tells *)
(* when the next may follow.  The server holds one run and refuses         *)
(* another.  Answers come in any order, or not at all; the page may be     *)
(* reloaded and other pages start runs of their own.                       *)
(***************************************************************************)
EXTENDS Naturals, Sequences, FiniteSets, SequencesExt

CONSTANTS
  Chain,      \* 1 .. n: bound on the chains a click starts
  Selection,  \* the choices of the Run-now sheet: [steps, dry]
  MaxPolls,   \* bound: polls under way at a time
  MaxOthers,  \* bound: runs that other pages start
  MaxFaults   \* bound: lost requests and answers, failed spawns and reloads

ASSUME QueueAssumption ==
  /\ Chain \subseteq Nat
  /\ Selection \subseteq [steps : SUBSET {"sync", "process", "message", "calendar"}, dry : BOOLEAN]
  /\ MaxPolls \in Nat \ {0} /\ MaxOthers \in Nat /\ MaxFaults \in Nat

VARIABLES
  tab,      \* Activity is the open tab
  queue,    \* ex.queue: steps <<chain, kind>>
  active,   \* ex.active is not null
  firing,
  shown,    \* the controls were last rendered as busy
  post,     \* the POST under way of this page, or None
  polls,    \* [sent, idle, busy]: polls not handled yet, and the answers on their way
  running,  \* the server's active run: a step, Other or None
  chainOf,  \* history: the chain each click asked for
  ran,      \* history: the steps of each chain the server started
  clicks, others, faults

queueVars == <<tab, queue, active, firing, shown, post, polls, running, chainOf, ran, clicks, others, faults>>

None == <<>>
Other == <<0>>
Kind == {"scan", "rehearsal", "resync", "process", "review", "notify", "calendar-scan", "reprocess", "traffic-check"}
Steps == Chain \X Kind
Answers == {"none", "started", "busy", "error"}
Posts == [step : Steps, click : BOOLEAN, answer : Answers]

QueueTypeOK ==
  /\ tab \in BOOLEAN /\ active \in BOOLEAN /\ firing \in BOOLEAN /\ shown \in BOOLEAN
  /\ queue \in Seq(Steps) /\ Len(queue) <= 3
  /\ post \in Posts \cup {None}
  /\ polls \in [sent : 0 .. MaxPolls, idle : 0 .. MaxPolls, busy : 0 .. MaxPolls]
  /\ running \in Steps \cup {Other, None}
  /\ chainOf \in [Chain -> Seq(Kind)] /\ ran \in [Chain -> Seq(Kind)]
  /\ clicks \in 0 .. Cardinality(Chain) /\ others \in 0 .. MaxOthers /\ faults \in 0 .. MaxFaults

QueueInit ==
  /\ tab = TRUE /\ queue = <<>> /\ active = FALSE /\ firing = FALSE /\ shown = FALSE
  /\ post = None /\ polls = [sent |-> 0, idle |-> 0, busy |-> 0]
  /\ running = None
  /\ chainOf = [c \in Chain |-> <<>>] /\ ran = [c \in Chain |-> <<>>]
  /\ clicks = 0 /\ others = 0 /\ faults = 0
-----------------------------------------------------------------------------
(* The page. *)

ServerUnchanged == UNCHANGED <<running, chainOf, ran, others, faults>>

IsBusy == active \/ queue # <<>> \/ firing

SendPolls(p) == IF p.sent + p.idle + p.busy < MaxPolls THEN [p EXCEPT !.sent = @ + 1] ELSE p

\* pumpQueue over the queue q up to its await: the first step is fired unless
\* something is, or a run is active.
PumpQueue(q, act, click) ==
  IF firing \/ act \/ q = <<>>
  THEN queue' = q /\ UNCHANGED <<firing, post>>
  ELSE /\ queue' = Tail(q) /\ firing' = TRUE
       /\ post' = [step |-> Head(q), click |-> click, answer |-> "none"]

If(condition, kind) == IF condition THEN <<kind>> ELSE <<>>

\* The steps a selection stands for; delivery is one of them at most.
BuildChain(sel) ==
  LET message == {"sync", "process", "message"} IN
  (IF sel.dry THEN If(sel.steps \cap message # {}, "rehearsal")
   ELSE IF message \subseteq sel.steps THEN <<"scan">>
   ELSE If("sync" \in sel.steps, "resync")
        \o If("process" \in sel.steps, IF "message" \in sel.steps THEN "process" ELSE "review")
        \o If("message" \in sel.steps /\ "process" \notin sel.steps, "notify"))
  \o If("calendar" \in sel.steps, "calendar-scan")

\* A click: the chain takes the place of the queue and its first step is fired,
\* after which the page polls; at once if it was not the one to fire.
Click(c, chain) ==
  /\ ~shown /\ clicks + 1 = c /\ clicks' = c  \* the controls are live
  /\ chain # <<>> /\ chainOf' = [chainOf EXCEPT ![c] = chain]
  /\ PumpQueue([i \in 1 .. Len(chain) |-> <<c, chain[i]>>], active, TRUE)
  /\ polls' = IF firing' = firing THEN SendPolls(polls) ELSE polls
  /\ UNCHANGED <<tab, active, shown, running, ran, others, faults>>

RunSelection(c) == \E sel \in Selection : Click(c, BuildChain(sel))
RebuildCache(c) == Click(c, <<"reprocess">>)
\* runTraffic looks for itself whether something is under way.
RunTraffic(c) == ~IsBusy /\ Click(c, <<"traffic-check">>)

\* Mutant: a failed step leaves the rest of its chain queued.
AfterFailureGoOn(q) == q
\* A failed step aborts its chain.
AfterFailure(q) == <<>>

\* startOne answers and pumpQueue resumes.
PostAnswered ==
  /\ firing /\ post.answer # "none"
  /\ LET started == post.answer = "started"
         left == IF started THEN queue ELSE AfterFailure(queue)
     IN /\ active' = started /\ queue' = left
        /\ shown' = (started \/ left # <<>>)
  /\ firing' = FALSE /\ post' = None
  /\ polls' = IF post.click THEN SendPolls(polls) ELSE polls
  /\ UNCHANGED <<tab, clicks>> /\ ServerUnchanged

\* Mutant: only Activity polls.
PollingOnActivity == tab
\* The timer polls while Activity is open or a run is in flight.
Polling == tab \/ active

SendPoll ==
  /\ Polling /\ polls.sent + polls.idle + polls.busy < MaxPolls
  /\ polls' = SendPolls(polls)
  /\ UNCHANGED <<tab, queue, active, firing, shown, post, clicks>> /\ ServerUnchanged

\* fetchExecution on an answer: it is taken as it comes, and the chain advances.
TakePoll(busy) ==
  /\ active' = busy
  /\ PumpQueue(queue, busy, FALSE)
  /\ shown' = IF firing' /\ ~firing THEN shown ELSE (busy \/ queue # <<>> \/ firing)
  /\ UNCHANGED <<tab, clicks>> /\ ServerUnchanged
PollIdle == polls.idle > 0 /\ polls' = [polls EXCEPT !.idle = @ - 1] /\ TakePoll(FALSE)
PollBusy == polls.busy > 0 /\ polls' = [polls EXCEPT !.busy = @ - 1] /\ TakePoll(TRUE)

\* Opening Activity polls at once.
SwitchTab ==
  /\ tab' = ~tab /\ polls' = IF tab' THEN SendPolls(polls) ELSE polls
  /\ UNCHANGED <<queue, active, firing, shown, post, clicks>> /\ ServerUnchanged

Fault == faults < MaxFaults /\ faults' = faults + 1

\* The page forgets its queue, and the answers to what it asked.
Reload ==
  /\ Fault
  /\ tab' = FALSE /\ queue' = <<>> /\ active' = FALSE /\ firing' = FALSE /\ shown' = FALSE
  /\ post' = None /\ polls' = [sent |-> 0, idle |-> 0, busy |-> 0]
  /\ \/ UNCHANGED <<running, ran>>
     \/ firing /\ post.answer = "none" /\ running = None /\ running' = post.step  \* the POST is on its way
        /\ ran' = [ran EXCEPT ![post.step[1]] = Append(@, post.step[2])]
  /\ UNCHANGED <<chainOf, clicks, others>>

-----------------------------------------------------------------------------
(* The server and the network. *)

PageUnchanged == UNCHANGED <<tab, queue, active, firing, shown, chainOf, clicks>>

StartRun(s) ==
  /\ running' = s
  /\ ran' = [ran EXCEPT ![s[1]] = Append(@, s[2])]

\* start_execution_run: one run at a time.
HandlePost ==
  /\ firing /\ post.answer = "none"
  /\ IF running = None THEN StartRun(post.step) ELSE UNCHANGED <<running, ran>>
  /\ post' = [post EXCEPT !.answer = IF running = None THEN "started" ELSE "busy"]
  /\ PageUnchanged /\ UNCHANGED <<polls, others, faults>>

\* The request or its answer is lost, or the spawn fails.
LosePost ==
  /\ Fault /\ firing /\ post.answer # "error"
  /\ post' = [post EXCEPT !.answer = "error"]
  /\ PageUnchanged /\ UNCHANGED <<polls, running, ran, others>>

HandlePoll ==
  /\ polls.sent > 0
  /\ polls' = IF running = None THEN [polls EXCEPT !.sent = @ - 1, !.idle = @ + 1]
              ELSE [polls EXCEPT !.sent = @ - 1, !.busy = @ + 1]
  /\ PageUnchanged /\ UNCHANGED <<post, running, ran, others, faults>>

LosePoll ==
  /\ Fault
  /\ \E k \in {"sent", "idle", "busy"} : polls[k] > 0 /\ polls' = [polls EXCEPT ![k] = @ - 1]
  /\ PageUnchanged /\ UNCHANGED <<post, running, ran, others>>

\* Another page starts a run.
OtherRun ==
  /\ others < MaxOthers /\ others' = others + 1 /\ running = None /\ running' = Other
  /\ PageUnchanged /\ UNCHANGED <<polls, post, ran, faults>>

\* The run finishes, or is stopped.
EndRun ==
  /\ running # None /\ running' = None
  /\ PageUnchanged /\ UNCHANGED <<polls, post, ran, others, faults>>

-----------------------------------------------------------------------------

QueueNext ==
  \/ \E c \in Chain : RunSelection(c) \/ RebuildCache(c) \/ RunTraffic(c)
  \/ PostAnswered \/ SendPoll \/ PollIdle \/ PollBusy \/ SwitchTab \/ Reload
  \/ HandlePost \/ LosePost \/ HandlePoll \/ LosePoll \/ OtherRun \/ EndRun

\* Requests are answered, the timer ticks, and runs end.
QueueFairness ==
  /\ WF_queueVars(PostAnswered) /\ WF_queueVars(SendPoll)
  /\ WF_queueVars(PollIdle) /\ WF_queueVars(PollBusy)
  /\ WF_queueVars(HandlePost) /\ WF_queueVars(HandlePoll) /\ WF_queueVars(EndRun)

QueueSpec == QueueInit /\ [][QueueNext]_queueVars /\ QueueFairness

-----------------------------------------------------------------------------
(* Properties. *)

\* The steps of a chain run in their order, none twice, and none whose
\* predecessor was refused or lost: what ran of a chain is a prefix of it.
ChainInOrder ==
  \A c \in Chain : IsPrefix(ran[c], chainOf[c])

\* A queue is not stranded: it is fired, or dropped because a step failed,
\* whatever tab is open.
QueueDrains == (queue # <<>>) ~> (queue = <<>>)

=============================================================================
