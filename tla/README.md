# Family Radar in TLA+

Family Radar reads WhatsApp and Gmail into a local SQLite store, classifies what
is new in the chats the operator monitors, and sends a digest of what needs action. Around
that it keeps travel blocks on the family's calendars, warns about traffic, and serves a web
application. This directory holds TLA+ models of the program, the TLC configurations that
check them on small instances, and TLAPS proofs about them.

To check a model: `tlc -config ScanFamilies.cfg MCScanPipeline`. To check the proofs of a
module: `tlapm TravelProofs.tla`. Every run ends within three minutes on two workers; each
module of proofs within a few minutes from nothing.

## The system

| Component | State | Operations | Hard behaviour | Correct when |
|---|---|---|---|---|
| Scan pipeline (`src/analysis/pipeline.py`, `review.py`) | a run row, the locals of `scan()` | `scan` in modes live, process (with or without delivery), dry_run | several processes scan one store; each write commits on its own; a source, the classifier or the process can fail between any two | no cursor passes an unreviewed message; alerts raised are dispatched |
| Message store (`src/db/messages.py`, `chats.py`, `retention.py`) | chats, families, messages, a cursor per chat | ingest, deltas, baseline, link, retention | ingestion order is not send order; deletions under a running scan | as above |
| Run rows (`src/db/runs.py`) | `review_runs`, `analysis_items`, `notifications` | start, finish, funnel, abandon, reconcile | rows left `running` by a crash; two finishers | an outcome somebody wrote stands |
| Sync, resync, reprocess (`src/db/sync.py`, `reprocess.py`) | sync log, the whole store during a rebuild | fan-out over sources, destructive rebuild | a failed source must not look like an empty one; a crash in the rebuild | the operator's decisions survive |
| Transcription (`src/analysis/transcription.py`) | `transcription_status`, `media_path`, audio files | sweep, skip, transcribe, retry | stale lists, two phases at once, files and rows in two steps | audio is found again, notes stop blocking their chat |
| Classifier and contract | none | keyword gate, prompt with a character budget, JSON contract | outage in mid-run, truncated answers | (outcomes only) |
| Notification (`src/notify`, `src/report/digest.py`) | `notifications` rows | digest, alert, notify again | partial sends, lost answers | see scan and traffic |
| Reminders, tripwire (`src/analysis/reminders.py`, `tripwire.py`) | `calendar_event_id` per item, last nudge | create or reuse an event, nudge weekly | created or sent, and not noted | one event and one nudge for each reason |
| Sidecar (`src/connector/sidecar.py`, `src/sidecar/index.js`) | heartbeat and PID file, processes | launch, supervise, settle, self-heal | two launchers, stale or torn heartbeat | one sidecar, which comes back |
| Traffic check (`src/family/traffic_check.py`) | alert log | price the legs ahead, alert | overlapping fires, the log read at the start | one alert per leg and kind |
| Travel blocks (`src/family/travel_blocks*.py`) | blocks on the calendars | plan, price with live traffic, reconcile, delete, insert | calls that fail one by one, edits, travel times that change, midnight, overlapping sweeps | one block per leg, right blocks stay |
| Message actions (`app/webapp/routers/chats.py`) | summary, `task_exported_at` | summarise, export | a remote call between the read and the write | a summary is of its text |
| Run launcher (`app/webapp/runs.py`, `app/cli/runlog.py`) | run records, handle, watchers | start, watch, abort, prune, reconcile | records and rows finished by other processes, restarts | single flight, live records stay |
| Webapp process control (`app/webapp/manager.py`, `app/tray`) | servers, a machine-wide lock, the process a manager spawned | adopt or spawn, stop, restart | processes and threads of one process at once, waits that run out, a lock that is missed | one server |
| Login lock-out (`src/login_lockout.py`) | streaks in a bounded table | attempt, reset, forget | the full table | streaks stand |
| Demand snapshot (`src/demand_snapshot.py`) | a value, a refresh thread | get, refresh, invalidate | settings change during a build | never older than the question |
| PWA (`app/webapp/static/*.js`) | queue, run list, run sheet, sweep buttons | requests and their answers | answers out of order or lost, other pages | what is shown is what it says |
| Ship gate (`scripts/*_ratchet*.py`) | committed baselines | check, init, update | unreadable files, lost baselines, keys that shift | no unreviewed debt ships |

The processes share the SQLite file and nothing else. Every store function commits
its own transaction, so between two calls anything else may run.

## Modules

| Module | Models | Extends |
|---|---|---|
| `ScanPipeline` | the message store, the processes inside `scan()`, ingest, retention and the operator's chat settings | |
| `ReviewLedger` | what a review promises, without chats, cursors or scans: the abstract specification of `ScanPipeline` | |
| `VoiceNotes` | a voice note's row and audio file, the transcription phase, Summarize and Send to Task-OS | |
| `NoteLife` | what becomes of a voice note, without phases, lists or requests: the abstract specification of `VoiceNotes` | |
| `Reprocess` | `wr reprocess --confirm`: snapshot, backup, wipe, ingest, restore | |
| `Sidecar` | sidecar processes, heartbeat and PID file, their launchers, the preflight of a scan | |
| `ScanEffects` | the weekly nudge and the calendar reminder of a scan | |
| `TrafficCheck` | the fires of the traffic check, their alerts and the log | |
| `TravelBlocks` | the sweep that keeps travel blocks on the calendars | |
| `RunLauncher` | runs of the web application and the CLI, with records, rows, watchers, sweeps, pruning | |
| `ProbeSnapshot` | `DemandSnapshot` as the health of the sources uses it | |
| `LoginStreaks` | the lock-out table of the password route | |
| `WebappControl` | the threads of the processes that manage the web application, their lock, the servers they spawn and stop | |
| `RunQueue`, `RunSheet`, `ActivityFeed`, `SweepWatch` | the four parts of the PWA that keep state over requests | |
| `HistoryWindow` | what the run list promises, without fetches or pages: the abstract specification of `ActivityFeed` | |
| `Ratchet` | counts, baselines and their comparison, common to the ten ratchets | |
| `CommentScan`, `MarkdownScan`, `FunctionScan`, `UsageScan`, `WriteResolve` | the scanners of the ratchets, over tokens | |
| `TextRatchets`, `CodeRatchets`, `TreeRatchets` | what each of the ten counts | `Ratchet` and scanners |
| `ShipGate` | edits, baselines, updates and the gate | the three above |
| `SampleTrees` | small repositories with their debt written down by hand | `UsageScan` |
| `MCScanPipeline`, `MCReprocess`, `MCTravelBlocks` | constants a `.cfg` cannot write, symmetry, smaller initial sets | their module |
| `MCServices`, `MCClient` | several parts in one instance: `part` is the one that moves, the parts share nothing | the services, the PWA |
| `ScanPipelineProofs`, `VoiceNotesProofs`, `ReprocessProofs`, `SidecarProofs`, `TravelProofs`, `ServicesProofs` (web application, snapshot, launcher, lock-out table, ship gate), `EffectsProofs` (nudge, reminder, traffic), `ClientProofs` (queue, sheet, run list) | theorems | what they are about |

Each module has one grain: an action is one committed write, one read, one call to a
service or one file operation of the code, in the code's order, and everything between two of
them may interleave. Definitions named "Mutant" stand next to the definition they disturb;
they are no part of the models and show that a property notices the bug they describe.

### ScanPipeline

A chat is its row id, a message its AUTOINCREMENT id. `cursor[c]` is
`chat_review_state.last_processed_message_id`, 0 without a row. A scanner `p` has a program
counter and the locals of `scan()`:

| State | Code |
|---|---|
| `status`, `parent` | `chats.status`, `chats.parent_chat_id` |
| `stored`, `chatOf`, `sentAt`, `voice` | `messages`; `voice` folds `transcription_status` and `media_path` |
| `runStatus`, `runNotice`, `items`, `notified` | `review_runs`, `analysis_items`, `notifications` |
| `okSources[p]`, `batch[p]`, `todo[p]`, `delta[p]`, `left[p]` | the sources that synced, the notes to transcribe, the chats to review, the family delta, the members whose cursor is still to be moved |
| `reviewed`, `baselined`, `surfaced` | history only: verdicts, baselines and sent digests |

The actions follow `scan()`: `BeginScan`, `SyncSources` or `AbortOffline`,
`MarkTranscription`, `SelectMonitored`, then per family `NextChat` (the delta and its
hold-back), `PersistAnalysisResult`, `WriteTrace`, one `AdvanceCursor` per member, or
`ContractFailure` / `ClassifierAbort`; at the end `DeliverDigest` or `WithholdDigest`,
`FinishRun`, `RecordRunFunnel`. `Crash` may come between any two. Beside them run
`InsertMessage`, `PruneGmailUnmonitored`, the operator's `SetChatStatus` and
`BaselineCursor` (two commits of one handler), `LinkChats`, `UnlinkChat`, and `Notify`.
A verdict, a dispatch outcome and the set of sources that sync are chosen freely.

`ReviewLedger` has three sets. The mapping is `present = stored`,
`accounted = reviewed \cup baselined`, and `passed` = the stored messages at or behind
their chat's cursor. A message may leave `passed` again (retention dropped the cursor, or a
slower scan moved it back): that repeats work and is allowed. It may only enter `passed`
with its reason recorded by an earlier commit.

### VoiceNotes

A note has a row (`vstatus`, `text`, `media` for a set `media_path`) and a `file`. A
transcriber sweeps retained audio, gives up stale notes and transcribes the rest, each over a
list (`rows`) it reads once. Deleting a file and updating its row are separate actions, as in
the code. A web request reads the text (`SummarizeMessage`, `ExportMessageTask`), waits for
the hub or task-os, and writes. Time is days, which `Tick` moves. `retain` is the configured
retention, fixed in a behaviour; 0 deletes audio right after its transcript.

`NoteLife` says what all this comes to for a note: it is open until it is transcribed or given
up, each for good; only lost audio or a passed window gives it up; its summary is made of its
transcript, and it is marked as exported after a task was created. The mapping reads the fate
off the row (`Fate`: the status of a note that has arrived); days, files, texts, summaries,
tasks and marks are those of the row. Lists, cursors, media paths and requests have no
counterpart.

### Reprocess

`chats`, `status`, `alias`, `parent` and `cursor` are the store by chat key; `Canon` is the
reader's current idea of a key, under which two old keys may now be one chat. The rebuild
prepares every source, snapshots what the operator set, copies the database file, wipes it, ingests
the sources one after the other (each may fail at any chat), and restores status, cursor,
alias and links row by row. `SetStatus` is the operator changing a chat meanwhile; `wanted` is
the history of what was asked for, and `unfolded` of the chats whose last decision is not in the
copied file: while another connection reads, the checkpoint before the copy is busy, and any
commits may still be in the WAL (the file holds `Older` for them). `link_chats` checks and writes in one call, so
`RestoreLink` is one action.

### Sidecar

A process has `memory` (the connected and paired flags of `index.js`) and writes them to
`file`, whose age grows with `Tick`. A caller checks `IsRunning` (fresh heartbeat or live
PID), spawns, and records the PID: three actions, no lock. `Reads` lets a reader find no
file while a live sidecar rewrites it in place. The tray supervises for ever, a start request
launches once, and a preflight launches if needed, polls until connected or its deadline,
then polls the buffer until it is quiet for `Settle` polls or `SettlePolls` are over.
`clean` is history: no two launches overlapped and none died between spawn and PID file.

### ScanEffects and TrafficCheck

Both are about something sent first and noted afterwards. A scan reads the nudge state, sends,
marks; it looks for an event with its evidence, inserts one, stores its id. A fire of the
traffic check reads the log when it begins, prices the legs of the coming hours, and per alert
sends and appends. A send or insert may fail, take effect with its answer lost, or raise past
its caller; a process may die between any two steps. The histories (`nudges`, `calendar`,
`told`) keep with each thing sent who had already looked (`unaware`), so that a property can
say that a repetition needs one that had looked too early.

### TravelBlocks

Time is slots, a `Day` of them; an event has a start, a length and a place. `traffic` says how long
each drive (from, to, slot) takes at the moment, and `TrafficChanges` may change it at any time; a sweep
is given what it says when it plans (`price`), and a block carries the minutes, as its content hash
does. A sweep reads the
events (`ReadEvents`), plans and compares with the listed blocks (`PlanSweep`: `DesiredLegs`,
`Unpriced`, `PlannedLegs`, `Listed`, `Protected`, `Deletes`, `Adds` are `desired_legs`,
`price_legs`, `build_planned_legs`, `fetch_marked_events`, `reconcile`), then deletes and
inserts call by call (`DeleteBlock`, `InsertBlock`, with `blocked` for the legs whose delete
was not confirmed). A fault is an unreadable or unwritable calendar, an unpriced road, a lost
answer, a write token that does not load, or a death. People edit events and remove blocks,
and the clock ticks past midnight. A block that ended before today is history. Two variables are
history, so that a property can speak of a sweep that nothing disturbed: `since`, the changes (edits and
travel times) and faults there had been when a sweep read the events, and `calm`, which holds as long as
nothing but sweeps has done anything, and no midnight passed, since the last moment at which no sweep was under way.

### RunLauncher

A run has a process (`pc`), a record on disk (`rec`, kept or pruned) and perhaps a row
(`row`). The web application spawns and watches it (`active` is its handle; a watcher
finalises the record, prunes, clears the handle), the CLI captures itself. Sweeps by others
mark stale rows and records. Run ids have the grain of a second, so that two kinds started in
one second share one. A restart of the web application forgets handle and watchers.

### ProbeSnapshot, LoginStreaks, WebappControl

`ProbeSnapshot`: readers and a refresh thread read the key, build, and store; settings
(`edits`) may change at any moment. `LoginStreaks`: streaks of failures in the order of the last
one, with expiry, a full table, a doubling wait and one alert per streak; the PC itself (`Loopback`) logs
in without passing the gate. `WebappControl`: the threads of a process (the start at boot, the clicks on
the menu) share the record of its server (`mine`, which is `_proc`). A start takes the lock, looks for
a server, spawns one and waits until it is bound; a wait for the lock or for the server may run
out, and the lock may be missed altogether (`LockLapses`). A stop, under no lock, looks, reads the record,
stops that process and clears the record in four steps, and a restart goes on to a start. A process may
die with all its threads. `lapse` is history: one of the events that `SingleWebapp` names has happened.

### The PWA

`RunQueue` is `execution.js`: a chain of steps, one POST at a time, the next fired when a
poll or an answer says the run is over. `RunSheet` and `ActivityFeed` are `activity.js`: two
records of one run read in parallel, pages of a list under a request counter. `SweepWatch` is
the sweep buttons of `family.js`. A request and its answer are two actions, and every answer
may be late or lost.

`HistoryWindow` is what a user sees of the run list: runs of one scope between two ends
without a gap, that move to newer runs or grow towards older ones and offer more exactly while
there is more. The mapping is `window = runs`, `older = hasMore`; fetches, their numbers and
cursors have no counterpart.

### The ratchets

A tree gives each path a text of tokens. A ratchet's `Sure` says whether its scan is
confirmed, its `Counts` what it would record per key; `ShipGate` holds the exit codes of the
modes and what the gate makes of them. `SampleTrees` lists what a reader finds in each text by
kind, independent of the scanners, so that the properties compare two accounts of debt.

## Runs

| Run | Checks | Bounds, and why they are enough |
|---|---|---|
| `scan_families` | `TypeOK`, `CursorsHeld`, `TranscriptReachesReview` | one scanner, live; a WhatsApp and a Gmail chat that may be linked, two messages, two runs: a family with one failed source, a note that holds back a later message, and a second run that reads what the first left. Send times do not matter and are equal |
| `scan_concurrent` | `NothingSkipped`, `ImplementsLedger` | two overlapping process or dry runs over the linked pair, two messages: one scan reads its delta before and writes its cursor after the other did |
| `scan_alerts` | `AlertsDispatched`, `ReviewedOnce` | two chats, two send times, so that a message may be ingested after a younger one; a chat can raise an alert before the classifier dies at the next. Under `UndisturbedSpec`: nothing dies, retention deletes nothing |
| `voice_single` | `SummaryOfText`, `ImplementsNoteLife` | two notes, two transcripts a backend may answer, one request, three days, retention of one day and none, one crash: a note can expire, a retry can answer differently |
| `voice_pair` | `AudioHasOwner`, `AudioForgotten`, `BarrierLifts` | two phases over one note with stale lists, two crashes, five days: past the retry window and the retention of two days |
| `rebuild_keeps` | `NothingLostForGood`, `DecisionsSurvive`, `FamiliesFlat` | two keys that fold into one chat, a third chat and a sender, any two-level families, one edit meanwhile: the smallest store in which two restored links can form a chain. A busy checkpoint leaves at most one decision in the WAL, and nobody edits then (`FewHeld`) |
| `sidecar_keeps` | `CleanLaunchesKeepOne`, `SettledIsQuiet`, `SidecarRecovers` | tray, start request and preflight over two process ids, one death, heartbeats stale after one tick: two ids suffice for a second sidecar, the deadlines are the shortest with each outcome |
| `sidecar_double` | the finding below | tray and preflight, no death |
| `travel_sweeps` | `OneBlockPerLeg`, `CalmSweepSettles`, `SettlesForGood` | one sweep at a time, two events of a person, two places, drives of one slot or two, a day of two slots, a midnight, one edit or change of a travel time, one fault |
| `travel_overlap` | `RightBlockStays` | two sweeps over one event, drives of one slot or two, a midnight, one edit or change of a travel time, one fault: overlapping sweeps that agree write duplicates, and so do some that do not |
| `services` | `SingleFlight`, `OutcomeStands`, `LiveRecordKept`; `AlertedOnce`, `LoggedWasTold`; `OneEventPerEvidence`, `NudgesSpaced`; `NeverOlder`; `StreaksStand`; `SingleWebapp`; `DebtIsReviewed`, `RisesAreDebt` | seven parts, one at a time: two runs and a restart, ages at their shortest; two fires over two legs of one start, one of which follows another event; three scans over one message (a nudge or a reminder to send, not both); two readers and two edits; three clients over a table of two, one of them the PC's own address; two threads of the tray, one of the script and three servers; the sample trees of each ratchet |
| `client_views` | `ChainInOrder`, `QueueDrains`; `ImplementsHistory`; `SheetIsOfItsRun`, `SheetFollowsRun`; `SweepEnds` | four parts, one at a time: two chains of three steps, a foreign run, a lost answer; five runs in two scopes and pages of two; one run in flight and one that has ended, two openings, two polls, an error; two sweeps, one lost answer |

Deadlock is not checked in runs where all bounded inputs can be used up and every process be
idle; `Sidecar` never stops (`Tick` always may happen).

What the properties say is in the comment above each. Some hold only under a condition, which
the run or the property states:

- `TranscriptReachesReview` and `ReviewedOnce` need one scanner at a time. Two scans may
  both hold a note in their lists, one fails it for good and the cursor passes it, and the
  other still transcribes it; two scans that read the same delta both analyse it.
- `SummaryOfText` and `ImplementsNoteLife` need one transcription phase at a time, for the same reason.
- `AudioHasOwner` needs retention on, or no crash, and no player that holds a file open
  (`Locked = {}`): see the observations.
- `DecisionsSurvive` and `NothingLostForGood` are judged only when nobody edits during the
  rebuild: an edit after the snapshot is lost. `NothingLostForGood` speaks of the decisions the
  checkpoint folded into the main file; those a busy one left in the WAL are exempt (`unfolded`).
- `OneBlockPerLeg` and `CalmSweepSettles` need sweeps that do not overlap: two that both find a leg without a block
  both insert one. `RightBlockStays` holds for one sweep at a time always; for overlapping ones as
  long as nobody edits, no travel time changes and no midnight passes from the moment the first of them began
  (`calm`), for the reasons among the observations. Which block is right is judged at the
  travel times the sweep was given.
- `CalmSweepSettles` needs travel times that do not change between the start of a sweep and
  its end, `SettlesForGood` that they stop changing.
- `SingleWebapp` excuses five events, any of which can lead to a second server: a body that runs without
  the lock, a wait for a server that ran out, a process that died over a booting server, a stop that cleared the
  record of a server another thread was waiting for, and a `stop_proc` that gave up.
- `StreaksStand` lets a streak go by a login from its own address, which need not be its own
  person's: clients of the tunnel share the address of the PC.
- `SingleFlight` excuses a run that shares its id with a run of another kind.
- `RisesAreDebt` leaves out the static ratchet, whose duplicates are keyed by the pair.

### Fairness

Only liveness properties use it.

- `VoiceNotes!FairSpec`: days pass, a transcription phase is begun again and again (the scan
  Job is scheduled daily), and a phase that runs goes on (the work list is finite and every
  remote call has a timeout). Nothing is assumed of the backend: it may fail for ever.
- `Sidecar!FairSpec`: time passes, the tray's keep-alive thread keeps calling
  `supervise_once` (every 90 s, also after a failed launch), and a caller inside a launch
  or a preflight goes on. A tray that died is assumed to be started again. Nothing is
  assumed of the sidecar, the phone or the operator.
- `TravelBlocks!Spec`: a sweep that can take a step takes one (the calendar-scan Job is
  scheduled, and its calls have timeouts). Nothing is assumed of people or the clock.
- `RunQueue`, `RunSheet`, `SweepWatch`: a request is answered or lost, the poll timer fires,
  and a run ends. `RunSheet` has strong fairness on the poll that reads the run in flight
  (`OnExecution`): the timer fires again and again, but another load of the sheet may be under
  way just then.

Crashes, faults, edits and changes of travel times are bounded by counters, so these say: once processes
stop dying, people stop editing and the traffic stays as it is.

## Findings

`sidecar_double`: two callers that check before either spawns start two sidecars
(`src/connector/sidecar.py:242`), although `:354-356` says it can "never kill or double-spawn".

### Observations

Seen while modelling and proving; where a property touches one, it has the condition listed
above.

Scan, voice notes, rebuild, sidecar:

- The memory given to Stage 2 as "already alerted" holds alerts of runs whose digest was never
  sent (`wr review --dry-run`, a failed dispatch, a scan that died): `src/db/messages.py:240`
  leaves out mode `dry_run` only, while its docstring (`:212`, `:218`) and `review.py:61` say
  what was surfaced.
- A scan that dies between its last cursor and its digest leaves alerts that no later run
  sends (`pipeline.py:641`). `wr notify` takes the latest run only (`cli/main.py:259`).
- A summary is written after its remote call without another look at the text
  (`app/webapp/routers/chats.py:390`, docstring `:360`): with two phases at once it may stand on a
  new text. A retry of Send to Task-OS after a lost answer creates a second task; the model has
  it (`posts` may reach 2) and no property forbids it.
- With retention off, a process that dies between the transcript and the deletion of the
  audio leaves a file no sweep looks for. The same holds for a file that a player held open
  (`transcription.py:291` logs and goes on, and the row forgets it).
- `set_status` commits the status before the baseline (`chats.py:248`), so a scan in between
  reads the backlog the operator meant to pass. Nothing is lost by it.
- A source that is live in the preparation and fails in the ingest is missing from the rebuilt
  store, and the command succeeds (`reprocess.py:189`; the comment at `:167` has every source
  prove itself first). A WAL checkpoint that reports busy before the backup is ignored (`:65`), so with
  another connection reading, the copy may lack decisions that the wipe then deletes: they are
  in neither place. A
  linked child is restored without a baseline (`:103`) while its head has one, so the next
  review reads its whole history.
- The first heartbeat of a restarted sidecar reports a linked device as not paired
  (`src/sidecar/index.js:72`), which by `sidecar.py:22` asks for a QR code. The keep-alive
  thread ends when `sidecar.log` or `sidecar.pid` cannot be written (`:256`, `:279`). A PID taken
  over by another program counts as a live sidecar (`:199`).
- The kind of old runs is backfilled once, by the process that added the column
  (`db/connection.py`, `_migrate_review_runs`): a crash there, or two processes that migrate at once, lose
  the backfill, which the docstring calls idempotent.

Effects and family:

- `send_alert` and `_dispatch` "never raise" (`alert.py:22`, `factory.py:31`), but only
  `NotifierError` is caught and `_send_one` wraps only `URLError` and `JSONDecodeError`. A
  digest whose third chunk fails is sent again from its first (`telegram.py:75`).
- Delay and impossible-hop alerts share one dedup key, and so do two events of a person with
  one title. The cadence check races with the opening of the row.
- Two travel sweeps of which one plans before and one after midnight may between them delete
  both copies of a block that is still right, until the next sweep: the plans differ, so each may
  keep the copy the other deletes. It showed when `RightBlockStays` would not be
  inductive. Two sweeps that were given different minutes for a drive may do the same: each takes
  the other's block for stale (`travel_blocks_reconcile.py:348`). TLC finds it when a change
  of traffic leaves `calm` as it is.
- Every sweep prices each leg anew with live traffic, and the minutes are in the content hash, so blocks of
  events nobody touched may go on being deleted and inserted for as long as the traffic
  changes.
- A drive that rounds to 0 minutes is left out of the plan and is no failure
  (`travel_blocks.py`, `_minutes`), so its old block is deleted as an orphan.
- The docstring of `chains_directly` assumes that the next drive starts where the last ended;
  a gap longer than the origin lookback makes it start at home. A next outbound leg that gets
  no price makes the previous return leg appear, and the next sweep delete it. When an event
  crosses midnight the rolled horizon deletes its return block.

Web application and PWA:

- A watcher clears the handle of a run of another kind that has its id (`runs.py:458`).
- The certificate check may take 90 s under a lock whose waiters give up after 30 s, so two
  servers may be spawned (`manager.py`, whose comment says they cannot). The lock also fails open: without a mutex
  the body runs all the same (`single_instance.py:134`). A tray that dies or
  whose start times out leaves a booting child; `stop()` leaves a child it cannot reach.
- Each click on Restart runs in a thread of its own over one manager (`tray.py:353`), and `stop()` clears
  `_proc` under no lock (`manager.py:240`). The stop of the second click may clear the record of the
  server the first has just spawned: its wait raises, the lock is free, and another server is spawned.
- `webapp.bat` serves outside the lock.
- A login at the PC itself passes no gate and resets the streak of its address (`auth.py:84`, `:113`), which
  clients of the tunnel share.
- A locked-out client's streak may be dropped by a full table; attempts let in together are judged one
  by one. `load_devices` answers an unreadable file with an empty list, and the next
  registration writes that list back.
- A stale answer of `/api/execution/runs` clears `ex.active`, the next step is posted while the
  first runs, is refused with 409, and the rest of the chain is dropped (`execution.js:98`). A second tap
  before the controls are drawn replaces the queue; a lost answer to a POST drops the
  chain though its step runs.
- `openHistory` and `loadOlder` (`chats.js:590`, `:623`) take answers of a chat that was left;
  `done()` (`edit-sheet.js:65`) may close another sheet; `/api/audit/filtered` pages by offset over a
  growing list; the family page adopts answers out of order; the trace of a run sheet that was read in
  parallel with the final record may stay behind it.

Ratchets:

- Baselines of other ratchets count as mentions of a name (`dead_code_ratchet.py:567`). A reference to a
  file that git lists and the working tree lost still resolves; respelling a dangling
  reference makes it new. An unclosed `${` is not reported, and an unterminated comment hides the
  rest of a file. A function shortened into the near-limit band raises the band's count, by
  design. A baseline from before band and layout records adopts today's (`Waived`).

## Proofs

Proved by TLAPS for every value of the constants that satisfies the named assumptions of
each module (`ASSUME` in the module, evaluated by TLC in each run). The arguments that are not
immediate are below the table.

| Theorem | States | Inductive invariant |
|---|---|---|
| `ScanPipelineProofs!TypeCorrect` | `[]TypeOK` | `TypeOK`, `ScanInv` |
| `ScanPipelineProofs!ReviewIsComplete` | `[]NothingSkipped` | `IInv`: types, `ScanInv`, `NothingSkipped` |
| `ScanPipelineProofs!CursorsAreHeld` | `CursorsHeld` | from `IInv`, step by step |
| `ScanPipelineProofs!StoreImplementsLedger` | `ImplementsLedger` | each action is a ledger step or a stutter, under `IInv` |
| `ScanPipelineProofs!AlertsReachDispatch` | `[]AlertsDispatched` | `AInv`: `IInv`, `AlertInv` |
| `ScanPipelineProofs!ReviewHappensOnce` | `[]ReviewedOnce` of `UndisturbedSpec`, one scanner | `OInv`: `IInv`, `OnceInv` |
| `ScanPipelineProofs!TranscriptsReachReview` | `TranscriptReachesReview`, one scanner | types, `ScanInv`, `NoteInv` |
| `VoiceNotesProofs!TypeCorrect` | `[]TypeOK` | itself |
| `VoiceNotesProofs!ExportsHaveTasks` | `[]ExportHasTask` | `ExportInv`: a request past task-os has a task |
| `VoiceNotesProofs!AudioIsOwned` | `[]AudioHasOwner` if `Locked = {}` and retention is on or nothing dies | `AudioInv` |
| `VoiceNotesProofs!SummariesFollowText`, `!TranscriptsAreFinal` | `[]SummaryOfText`, `DoneIsFinal`, one transcriber | `SumInv` |
| `VoiceNotesProofs!NotesLiveTheirLives` | `ImplementsNoteLife`, one transcriber | `LifeInv`: `SumInv`, `ExportInv`, `ListInv` |
| `ReprocessProofs!NothingLost`, `!DecisionsRestored`, `!FamiliesStayFlat` | `[]NothingLostForGood`, `[]DecisionsSurvive`, `[]FamiliesFlat` | `KeepInv` |
| `SidecarProofs!TypeCorrect` | `[]TypeOK`, polls within their deadlines | itself |
| `SidecarProofs!CleanLaunches` | `[]CleanLaunchesKeepOne` | `LaunchInv` |
| `SidecarProofs!SettledAfterQuiet` | `SettledIsQuiet` | `TypeOK`, `SettleInv` |
| `TravelProofs!TypeCorrect` | `[]TypeOK` | `BaseInv` |
| `TravelProofs!OneBlock` | `[]OneBlockPerLeg` | `BaseInv`, `LoneInv` |
| `TravelProofs!CalmSweepsSettle` | `[]CalmSweepSettles` | `BaseInv`, `LoneInv`, `CalmInv` |
| `TravelProofs!RightBlocksStay` | `RightBlockStays` | `BaseInv`, `DayInv`; for one sweep also `LoneInv`, `NoneRight` |
| `EffectsProofs!NudgesAreSpaced`, `!OneReminder` | `[]NudgesSpaced`, `[]OneEventPerEvidence` | `EffectInv` |
| `EffectsProofs!AlertsOnce`, `!LogIsTold` | `[]AlertedOnce`, `[]LoggedWasTold` | `TrafficInv` |
| `ServicesProofs!OneServer` | `[]SingleWebapp` | `WebappInv` |
| `ServicesProofs!ServedIsNeverOlder` | `[]NeverOlder` | `SnapshotInv` |
| `ServicesProofs!OneFlight`, `!OutcomesStand`, `!LiveRecordsKept` | `[]SingleFlight`, `[]OutcomeStands`, `[]LiveRecordKept` | `LauncherInv` |
| `ServicesProofs!StreaksAreKept` | `StreaksStand` | `StreakInv` |
| `ServicesProofs!ShipReviewed` | `[]DebtIsReviewed` if `Numbered`, `ScansComplete` | `ShipInv`: `GateInv`, `ShipShape` |
| `ServicesProofs!OnlyDebtRises` | `[]RisesAreDebt` if `Numbered`, `ScansComplete`, `ScansSound` | `ShipInv` |
| `ClientProofs!OneRunPerSheet` | `[]SheetIsOfItsRun` | `SheetInv` |
| `ClientProofs!ChainsRunInOrder` | `[]ChainInOrder` | `QueueInv` |
| `ClientProofs!FeedKeepsWhole` | `[]FeedIsWhole` | `FeedInv` |
| `ClientProofs!FeedIsAWindow` | `ImplementsHistory` | each action is a step of the window or a stutter, under `FeedInv`, `Ahead` |

**Nothing is skipped.** `NothingSkipped` alone is not inductive: moving a cursor to the last
message of a delta passes everything before it in the chat. `ScanInv` says what a scan may
rely on then: while cursors are being moved the delta is reviewed, and it is *closed*, so any
stored message of the same chat before a message of the delta is in the delta or already
accounted for. Closedness survives other processes because ingestion ids only grow (an arrival
is behind no delta), reviews and baselines are never revoked, and a held-back note cuts the
delta before itself. That a concurrent scan moved the cursor back meanwhile does not matter:
the invariant speaks of accounted messages, not of cursors.

**Alerts are dispatched, messages read once.** A run's row has no note until its scan knows how
its alerts were dispatched (`ScanAlerts`), and no two scans share a run. With one undisturbed
scanner a reviewed message is behind its cursor, or that cursor is about to be moved past it
(`Passing`), and a delta lies ahead of all that was reviewed of its chats (`Ahead`). With
transcription on and one scanner, no reviewed note can still be transcribed (`NoteInv`): a scan that
will give a verdict has cut its delta before such notes (`HeldBack`), and none becomes
transcribable again. A note on the list of the phase is untranscribed or has lost its media, so
one that gets a transcript was not reviewed.

**Audio, transcripts, summaries.** A transcriber about to forget a `media_path` has deleted the
file, or another one has the deletion still to do (`Doomed`). A list read earlier stays valid
because a `media_path` that was cleared is never set again. With one transcriber no note that
is done is on its list after the sweep (`WorkInv`), and a request for a summary holds the text
its note still has (`AskedInv`). For the lives of notes (`NoteLife`) what a list said when it was read
must still hold when a note's turn comes (`ListInv`): a note to be given up was past its
window, which only gets longer ago, and its status is nobody else's to change; a note to be transcribed
is still undecided.

**The rebuild.** Until the backup the store is as the operator left it, from then on the backup
file is, in all the checkpoint folded in (`Backed`); the snapshot tells every decision and no other (`Told`); a decision whose
row was handled has survived so far (`Handled`), and later rows only add reasons.

**One sidecar.** While launches are clean, at most one caller is between check and PID file;
at the spawn nothing is alive; after it at most the child; and when nobody launches, at most
the process the PID file names. That last line is why the PID file is needed: a hung or
booting sidecar has no fresh heartbeat. A preflight has counted no more quiet polls than there
were since the last append, unless it is still to notice one (`SettleInv`).

**One block for a leg.** No block lies further ahead than the listing reaches (`Within`:
the listing goes a day past the horizon, and no drive is planned later), so a plan sees every
live block of a leg it wants. A leg with a price protects no block, so all of these are
replaced (`PlanClears`), and until the leg is written each is either still to be deleted, gone,
or its leg is blocked (`Cleared`). That is why an insert finds the leg empty.

**A calm sweep settles.** `SettlesForGood` is about a sweep in the end, and stays with TLC; what one
sweep does is proved. While nothing disturbs it, what it leaves (`blocks` without `dels`) and
will write (`adds`) serve the plan: each drive of it has its block or gets it, and no block
stands in the horizon for nothing (`Serves`). A plan makes it so, whatever blocks it finds
(`PlanServes`: the first match of a drive is neither replaced, nor a duplicate, nor an orphan), and a
deletion or an insertion that succeeds keeps it. That nothing failed or changed is told by `since`, for
faults and changes only grow. `OneBlockPerLeg` gives the one block.

**Right blocks stay.** A right block is never replaced or orphaned by a plan of the same
events: its leg has its price, or the block is protected, and a missing price only adds
drives (`ChainedWhenPriced`). It can only be a duplicate of an older one that the plan found
(`PlanLeavesOne`). With one sweep there are no duplicates. With several, in a calm all plans are of the same events, day and travel times (`DayInv`), so they
agree on what is right, and below each right block to be deleted stands an older one; when that one
goes, it had an older one itself (`DayDelete`). Ids are those of the calendar's order, which all
sweeps share: this is what keeps two sweeps from deleting each other's copy.

**Nudges, reminders, alerts.** Who has looked after a thing was noted is aware of it: once a
scan is aware of a nudge the state is at least as late, of an event its id is on the item, of
an alert its line is in the log at a time that still covers the leg. So a repetition is by one
that had looked before.

**Runs.** Two runs of one kind never share an id (the launcher appends a suffix, which grows), so a watcher
clears the handle of its own run or, across kinds, of one with the same id. An outcome is
written as a process leaves its work, and only a row that is not finished is swept. **Servers:**
as long as nothing lapsed, who is inside `start()` holds the lock, a server that boots is
waited for by a thread of the process that recorded it, and a stop clears the record of a server it has
ended (`OneAtATime`). **Snapshot:** a value
is stored under a key read before its build (`NoOlderThanKey`). **Sheet:** a load of the opening now
shown asked for its run (`Asked`). **Queue:** what ran, then the step asked for, then the queue,
are consecutive steps of one chain (`QueueFollows`), unless its step was refused and the queue
is about to be dropped (`Doomed`).

**The lock-out table.** `streak` gives each client's last failure, and the table is in the order of
these, no client twice (`Ordered`): a failure moves its client to the end with the present
moment, which no other exceeds. So when a full table has nobody to forget, its first entry is the
one whose last failure is the oldest. No other step takes a client out but a look at a streak that is
forgotten and a login from its own address.

**The run list.** `Lists(s, S)` says that `s` has the numbers of `S` from the greatest to the least; a
finite set has one such list (`DescendingLists`, `ListsOnce`), its prefixes and continuations
list what they should (`ListsPrefix`, `ListsJoin`). An answer tells the newest runs before its
cursor without a gap (`Newest`), and goes on doing so: a run added later is newer than all that
was shown. At most one fetch has the number of the latest; it asked for the scope now
shown, and if it is to be appended, from the last run shown (`Fetches`). So the page that is
taken continues the list.

As a window of the history: the answer of the latest fetch was read after the list was
last replaced, so its first run is no older than the list's first (`Ahead`), and it says that there is more
exactly when it left an older run of the scope out. A run that begins meanwhile is newer than
both.

**The ship gate.** A baseline is what some tree of its repository counted, perhaps with counts lowered
since, and what that tree owes was reviewed (`Accounted`; before its first update a baseline from before
band and layout records is one too, `Aged`). The gate compares counts key by key, so a tree that
passes owes, under each key, no more than that one did: `DebtIsReviewed`. A tree that owes
no more under any key, the near-limit band included, counts no key higher, so no rise is reported: `RisesAreDebt`. Both rest on facts
about the scanners: `ScansComplete` (a confirmed scan counts whatever a reader finds), `ScansSound`
(it counts nothing else) and `Numbered` (counts are numbers). They are hypotheses, for what a
reader finds is only written down for the sample trees; the `services` run checks both properties over
every edit from every sample tree to every other, which it could not pass if a scan of one
of them were incomplete or unsound.

Only model-checked:

- all liveness properties (`AudioForgotten`, `BarrierLifts`, `SidecarRecovers`, `SettlesForGood`,
  `QueueDrains`, `SheetFollowsRun`, `SweepEnds`): the prover has no liveness under fairness;
- the hypotheses of `ShipReviewed` and `OnlyDebtRises` about the scanners, on the sample
  texts: there is no general statement of what a reader finds.

## What is left out of the modelled parts

- Message text, digests, prompts and their sizes (`classifier.py:274` cuts a delta larger than
  the budget, and the cursor passes the rest); a verdict is a Boolean.
- The sync log, aliases and paging in `ScanPipeline`; the Gmail and WhatsApp readers are
  what they deliver. A redelivery that writes the audio of a known message again.
- Process ids taken over by other programs, and a sidecar started by hand with `npm start`.
- In the travel sweep: slots are half days, blocks of one start are listed by their ids, no drive takes
  longer than a day, a backup that cannot be written counts as a delete that fails, a dry run and a
  missing write token are the same fault, blocks dragged by hand are not modelled, no event is longer than
  a day (the listing's pad).
- In the launcher: the merged list of records and rows, the link by the result line.
- In the ratchets: `jscpd`'s pairs are given, the finding kinds `root` and `redundant` of the structure ratchet
  (`structure_ratchet.py:93-104`), three rules of the instruction ratchet and the
  retired rules of doc_refs, the probe of runtime writes. A ratchet that runs out of time is
  "not confirmed".
- The usage log, schema migrations, OAuth tokens, the Inbox and Settings of the PWA. The
  `PROJECT.json` component list names the parts without a model, with the reason.

## Plan

Done: the scan with its ledger, voice notes, rebuild, sidecar, effects, traffic, travel blocks,
launcher, services, PWA, ship gate; the proofs above. Next:

1. An abstract specification of a calendar kept by sweeps, implemented by `TravelBlocks`.
2. The prompt budget and the chunks of a digest against reference definitions; the migration
   of run kinds with two processes.
