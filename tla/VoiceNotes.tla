----------------------------- MODULE VoiceNotes -----------------------------
(***************************************************************************)
(* The life of a voice note's row and of its audio file: the transcription *)
(* phase of a scan (sweep retained audio, skip stale notes, transcribe the *)
(* rest), run by any number of processes over lists each reads up front,   *)
(* and the two message actions of the web app that wait for a remote       *)
(* service between their read and their write: Summarize and Send to       *)
(* Task-OS.                                                                *)
(***************************************************************************)
EXTENDS Naturals

CONSTANTS
  Note,           \* voice notes
  NoNote,         \* "not at a note"
  Transcriber,    \* processes that may be in run_transcription_phase
  Request,        \* web requests that may be in flight
  Transcript,     \* texts the backend may answer; it may answer differently twice
  Long,           \* the transcripts of at least _SUMMARIZE_MIN_CHARS
  Window,         \* transcription.window_days
  FailedWindow,   \* transcription.failed_retry_days
  Retention,      \* the transcription.audio_retention_days of a deployment, one of these
  Locked,         \* the notes whose file a player may hold open when it is unlinked
  MaxDay,         \* bound: the last day of the calendar
  MaxSent,        \* bound: the last day a note is sent on
  MaxCrash,       \* bound: how often a process dies
  MaxPost         \* bound: how many tasks a note is posted as

ASSUME NoteAssumption   == NoNote \notin Note /\ Locked \subseteq Note
ASSUME TextAssumption   == Long \subseteq Transcript /\ "placeholder" \notin Transcript
                           /\ "none" \notin Transcript
ASSUME DayAssumption    == Window \in Nat /\ FailedWindow \in Nat /\ Retention \subseteq Nat
ASSUME BoundAssumption  == MaxDay \in Nat /\ MaxSent \in Nat /\ MaxCrash \in Nat /\ MaxPost \in Nat

VARIABLES
  day,          \* the clock
  retain,       \* the configured audio_retention_days, 0 for none
  arrived,      \* the notes ingested
  sent,         \* message_timestamp, as a day
  vstatus,      \* transcription_status
  text,         \* the placeholder, or the transcript that replaced it
  media,        \* media_path is set
  file,         \* the audio is on disk
  summary,      \* the text the stored summary was made from, "none" for NULL
  exported,     \* task_exported_at is set
  posts,        \* tasks created in task-os for the note
  pc,           \* where a transcriber is
  rows, paths,  \* the list it works on, and those whose media_path it read
  cur,          \* the note it is at
  rpc, rnote, rtext,  \* a web request: where it is, its note, the text it read
  crashes

clockVars   == <<day, retain>>
rowVars     == <<arrived, sent, vstatus, text, media>>
actionVars  == <<summary, exported, posts>>
scanVars    == <<pc, rows, paths, cur>>
requestVars == <<rpc, rnote, rtext>>
vars == <<clockVars, rowVars, file, actionVars, scanVars, requestVars, crashes>>

Text == Transcript \cup {"placeholder"}

TypeOK ==
  /\ day \in 0 .. MaxDay
  /\ retain \in Retention
  /\ arrived \subseteq Note
  /\ sent \in [Note -> 0 .. MaxDay]
  /\ vstatus \in [Note -> {"pending", "failed", "done", "skipped_old"}]
  /\ text \in [Note -> Text]
  /\ media \in [Note -> BOOLEAN]
  /\ file \in [Note -> BOOLEAN]
  /\ summary \in [Note -> Text \cup {"none"}]
  /\ exported \in [Note -> BOOLEAN]
  /\ posts \in [Note -> 0 .. MaxPost]
  /\ pc \in [Transcriber -> {"idle", "sweep", "clear", "skip", "mark", "work",
                             "read", "asked", "delete"}]
  /\ rows \in [Transcriber -> SUBSET arrived]
  /\ paths \in [Transcriber -> SUBSET arrived]
  /\ cur \in [Transcriber -> arrived \cup {NoNote}]
  /\ \A t \in Transcriber :
       pc[t] \in {"clear", "mark", "read", "asked", "delete"} => cur[t] # NoNote
  /\ rpc \in [Request -> {"idle", "summarizing", "exporting", "created"}]
  /\ rnote \in [Request -> arrived \cup {NoNote}]
  /\ rtext \in [Request -> Text]
  /\ \A q \in Request : rpc[q] # "idle" => rnote[q] # NoNote
  /\ crashes \in 0 .. MaxCrash

Init ==
  /\ day = 0
  /\ retain \in Retention
  /\ arrived = {}
  /\ sent = [n \in Note |-> 0]
  /\ vstatus = [n \in Note |-> "pending"]
  /\ text = [n \in Note |-> "placeholder"]
  /\ media = [n \in Note |-> FALSE]
  /\ file = [n \in Note |-> FALSE]
  /\ summary = [n \in Note |-> "none"]
  /\ exported = [n \in Note |-> FALSE]
  /\ posts = [n \in Note |-> 0]
  /\ pc = [t \in Transcriber |-> "idle"]
  /\ rows = [t \in Transcriber |-> {}]
  /\ paths = [t \in Transcriber |-> {}]
  /\ cur = [t \in Transcriber |-> NoNote]
  /\ rpc = [q \in Request |-> "idle"]
  /\ rnote = [q \in Request |-> NoNote]
  /\ rtext = [q \in Request |-> "placeholder"]
  /\ crashes = 0

-----------------------------------------------------------------------------
(* Reads. *)

OlderThan(n, days) == sent[n] + days < day

\* transcription.enabled with retention on.
KeepMedia == retain > 0

\* Mutant: sweeps what is not expired yet.
NotYetExpired ==
  {n \in arrived : vstatus[n] = "done" /\ media[n] /\ ~OlderThan(n, retain)}

ExpiredRetainedAudio ==
  {n \in arrived : vstatus[n] = "done" /\ media[n] /\ OlderThan(n, retain)}

\* Mutant: notes that failed are never given up.
StalePendingOnly == {n \in arrived : vstatus[n] = "pending" /\ OlderThan(n, Window)}

StaleVoiceNotes ==
  {n \in arrived : \/ vstatus[n] = "pending" /\ OlderThan(n, Window)
                   \/ vstatus[n] = "failed" /\ OlderThan(n, FailedWindow)}

\* Mutant: every note whose audio is there is transcribed.
AnyWithAudio == {n \in arrived : media[n]}

PendingTranscriptions ==
  {n \in arrived : /\ media[n]
                   /\ \/ vstatus[n] = "pending" /\ ~OlderThan(n, Window)
                      \/ vstatus[n] = "failed" /\ ~OlderThan(n, FailedWindow)}

\* What keeps a chat's cursor back.
HeldBack(n) == n \in arrived /\ vstatus[n] \in {"pending", "failed"} /\ media[n]

-----------------------------------------------------------------------------
(* Ingest and time. *)

\* The sidecar downloaded the audio, or could not; the row is ingested up to days late.
Arrive(n, d, downloaded) ==
  /\ n \notin arrived
  /\ d <= day /\ d <= MaxSent
  /\ arrived' = arrived \cup {n}
  /\ sent' = [sent EXCEPT ![n] = d]
  /\ vstatus' = [vstatus EXCEPT ![n] = IF downloaded THEN "pending" ELSE "failed"]
  /\ media' = [media EXCEPT ![n] = downloaded]
  /\ file' = [file EXCEPT ![n] = downloaded]
  /\ UNCHANGED <<clockVars, text, actionVars, scanVars, requestVars, crashes>>

Tick ==
  /\ day < MaxDay
  /\ day' = day + 1
  /\ UNCHANGED <<retain, rowVars, file, actionVars, scanVars, requestVars, crashes>>

\* The file is lost behind the program's back.
LoseFile(n) ==
  /\ file[n]
  /\ file' = [file EXCEPT ![n] = FALSE]
  /\ UNCHANGED <<clockVars, rowVars, actionVars, scanVars, requestVars, crashes>>

-----------------------------------------------------------------------------
(* run_transcription_phase. *)

\* Move to a phase of the run with the list it works through.
Enter(t, phase, list) ==
  /\ pc' = [pc EXCEPT ![t] = phase]
  /\ rows' = [rows EXCEPT ![t] = list]
  /\ paths' = [paths EXCEPT ![t] = {n \in list : media[n]}]
  /\ cur' = [cur EXCEPT ![t] = NoNote]

At(t, step, n) ==
  /\ pc' = [pc EXCEPT ![t] = step]
  /\ rows' = [rows EXCEPT ![t] = @ \ {n}]
  /\ cur' = [cur EXCEPT ![t] = n]
  /\ UNCHANGED paths

Back(t, phase) ==
  /\ pc' = [pc EXCEPT ![t] = phase]
  /\ cur' = [cur EXCEPT ![t] = NoNote]
  /\ UNCHANGED <<rows, paths>>

\* With retention off there is nothing to sweep.
BeginPhase(t) ==
  /\ pc[t] = "idle"
  /\ IF KeepMedia THEN Enter(t, "sweep", ExpiredRetainedAudio)
                  ELSE Enter(t, "skip", StaleVoiceNotes)
  /\ UNCHANGED <<clockVars, rowVars, file, actionVars, requestVars, crashes>>

\* Best effort: the file is unlinked, or the OSError is logged.
DeleteAudio(n) ==
  \/ file' = [file EXCEPT ![n] = FALSE]
  \/ n \in Locked /\ UNCHANGED file

SweepDelete(t) ==
  /\ pc[t] = "sweep"
  /\ \E n \in rows[t] : DeleteAudio(n) /\ At(t, "clear", n)
  /\ UNCHANGED <<clockVars, rowVars, actionVars, requestVars, crashes>>

ClearMediaPath(t) ==
  /\ pc[t] = "clear"
  /\ media' = [media EXCEPT ![cur[t]] = FALSE]
  /\ Back(t, "sweep")
  /\ UNCHANGED <<clockVars, arrived, sent, vstatus, text, file, actionVars, requestVars,
                 crashes>>

EndSweep(t) ==
  /\ pc[t] = "sweep"
  /\ rows[t] = {}
  /\ Enter(t, "skip", StaleVoiceNotes)
  /\ UNCHANGED <<clockVars, rowVars, file, actionVars, requestVars, crashes>>

\* Mutant: the row is marked and its file left.
SkipKeepsFile(t) ==
  /\ pc[t] = "skip"
  /\ \E n \in rows[t] : At(t, "mark", n)
  /\ UNCHANGED <<clockVars, rowVars, file, actionVars, requestVars, crashes>>

SkipDelete(t) ==
  /\ pc[t] = "skip"
  /\ \E n \in rows[t] :
       /\ IF n \in paths[t] THEN DeleteAudio(n) ELSE UNCHANGED file
       /\ At(t, "mark", n)
  /\ UNCHANGED <<clockVars, rowVars, actionVars, requestVars, crashes>>

\* mark_transcription 'skipped_old': the status, and no media_path any more.
MarkSkippedOld(n) ==
  /\ vstatus' = [vstatus EXCEPT ![n] = "skipped_old"]
  /\ media' = [media EXCEPT ![n] = FALSE]
  /\ UNCHANGED <<arrived, sent, text>>

SkipMark(t) ==
  /\ pc[t] = "mark"
  /\ MarkSkippedOld(cur[t])
  /\ Back(t, "skip")
  /\ UNCHANGED <<clockVars, file, actionVars, requestVars, crashes>>

EndSkip(t) ==
  /\ pc[t] = "skip"
  /\ rows[t] = {}
  /\ Enter(t, "work", PendingTranscriptions)
  /\ UNCHANGED <<clockVars, rowVars, file, actionVars, requestVars, crashes>>

\* The next note by send time.
NextNote(t, n) ==
  /\ pc[t] = "work"
  /\ n \in rows[t]
  /\ \A m \in rows[t] : sent[n] <= sent[m]

\* The audio is gone: unrecoverable, the placeholder is let through.
AudioMissing(t, n) ==
  /\ NextNote(t, n)
  /\ ~file[n]
  /\ MarkSkippedOld(n)
  /\ rows' = [rows EXCEPT ![t] = @ \ {n}]
  /\ UNCHANGED <<clockVars, file, actionVars, pc, paths, cur, requestVars, crashes>>

AudioExists(t, n) ==
  /\ NextNote(t, n)
  /\ file[n]
  /\ At(t, "read", n)
  /\ UNCHANGED <<clockVars, rowVars, file, actionVars, requestVars, crashes>>

\* The bytes are read and posted.
PostAudio(t) ==
  /\ pc[t] = "read"
  /\ file[cur[t]]
  /\ pc' = [pc EXCEPT ![t] = "asked"]
  /\ UNCHANGED <<clockVars, rowVars, file, actionVars, rows, paths, cur, requestVars, crashes>>

\* mark_transcription 'done': the text changes, so its summary goes.
MarkDone(t, x) ==
  /\ pc[t] = "asked"
  /\ text' = [text EXCEPT ![cur[t]] = x]
  /\ vstatus' = [vstatus EXCEPT ![cur[t]] = "done"]
  /\ media' = [media EXCEPT ![cur[t]] = @ /\ KeepMedia]
  /\ summary' = [summary EXCEPT ![cur[t]] = "none"]
  /\ IF KeepMedia THEN Back(t, "work")
     ELSE pc' = [pc EXCEPT ![t] = "delete"] /\ UNCHANGED <<rows, paths, cur>>
  /\ UNCHANGED <<clockVars, arrived, sent, file, exported, posts, requestVars, crashes>>

\* With retention off the file goes after the row was committed.
DeleteTranscribed(t) ==
  /\ pc[t] = "delete"
  /\ DeleteAudio(cur[t])
  /\ Back(t, "work")
  /\ UNCHANGED <<clockVars, rowVars, actionVars, requestVars, crashes>>

\* This note failed (also when its file vanished before the read): retried later.
MarkFailed(t) ==
  /\ pc[t] = "asked" \/ (pc[t] = "read" /\ ~file[cur[t]])
  /\ vstatus' = [vstatus EXCEPT ![cur[t]] = "failed"]
  /\ Back(t, "work")
  /\ UNCHANGED <<clockVars, arrived, sent, text, media, file, actionVars, requestVars, crashes>>

\* The list is done, or the backend is down and the rest is left as it is.
EndPhase(t) ==
  /\ (pc[t] = "work" /\ rows[t] = {}) \/ pc[t] = "asked"
  /\ Enter(t, "idle", {})
  /\ UNCHANGED <<clockVars, rowVars, file, actionVars, requestVars, crashes>>

Crash(t) ==
  /\ pc[t] # "idle"
  /\ crashes < MaxCrash
  /\ crashes' = crashes + 1
  /\ Enter(t, "idle", {})
  /\ UNCHANGED <<clockVars, rowVars, file, actionVars, requestVars>>

PhaseStep(t) ==
  \/ SweepDelete(t) \/ ClearMediaPath(t) \/ EndSweep(t)
  \/ SkipDelete(t) \/ SkipMark(t) \/ EndSkip(t)
  \/ \E n \in Note : AudioMissing(t, n) \/ AudioExists(t, n)
  \/ PostAudio(t)
  \/ \E x \in Transcript : MarkDone(t, x)
  \/ DeleteTranscribed(t) \/ MarkFailed(t) \/ EndPhase(t)

-----------------------------------------------------------------------------
(* Summarize and Send to Task-OS. *)

Ask(q, step, n) ==
  /\ rpc' = [rpc EXCEPT ![q] = step]
  /\ rnote' = [rnote EXCEPT ![q] = n]
  /\ rtext' = [rtext EXCEPT ![q] = text[n]]

Answered(q) ==
  /\ rpc' = [rpc EXCEPT ![q] = "idle"]
  /\ rnote' = [rnote EXCEPT ![q] = NoNote]
  /\ rtext' = [rtext EXCEPT ![q] = "placeholder"]

\* Mutant: no minimum length.
SummarizeAny(q, n) ==
  /\ rpc[q] = "idle"
  /\ n \in arrived
  /\ summary[n] = "none"
  /\ Ask(q, "summarizing", n)
  /\ UNCHANGED <<clockVars, rowVars, file, actionVars, scanVars, crashes>>

\* Read-through: a stored summary is returned, a short text refused.
SummarizeMessage(q, n) ==
  /\ rpc[q] = "idle"
  /\ n \in arrived
  /\ summary[n] = "none"
  /\ text[n] \in Long
  /\ Ask(q, "summarizing", n)
  /\ UNCHANGED <<clockVars, rowVars, file, actionVars, scanVars, crashes>>

SetMessageSummary(q) ==
  /\ rpc[q] = "summarizing"
  /\ summary' = [summary EXCEPT ![rnote[q]] = rtext[q]]
  /\ Answered(q)
  /\ UNCHANGED <<clockVars, rowVars, file, exported, posts, scanVars, crashes>>

ExportMessageTask(q, n) ==
  /\ rpc[q] = "idle"
  /\ n \in arrived
  /\ ~exported[n]
  /\ Ask(q, "exporting", n)
  /\ UNCHANGED <<clockVars, rowVars, file, actionVars, scanVars, crashes>>

\* task-os creates a task for every post; the answer may still be lost.
TaskCreated(q) ==
  /\ rpc[q] = "exporting"
  /\ posts[rnote[q]] < MaxPost
  /\ posts' = [posts EXCEPT ![rnote[q]] = @ + 1]
  /\ rpc' = [rpc EXCEPT ![q] = "created"]
  /\ UNCHANGED <<clockVars, rowVars, file, summary, exported, scanVars, rnote, rtext, crashes>>

SetTaskExported(q) ==
  /\ rpc[q] = "created"
  /\ exported' = [exported EXCEPT ![rnote[q]] = TRUE]
  /\ Answered(q)
  /\ UNCHANGED <<clockVars, rowVars, file, summary, posts, scanVars, crashes>>

\* The hub or task-os answers with an error, times out, or the web app dies.
RequestFails(q) ==
  /\ rpc[q] # "idle"
  /\ Answered(q)
  /\ UNCHANGED <<clockVars, rowVars, file, actionVars, scanVars, crashes>>

RequestStep ==
  \E q \in Request :
    \/ \E n \in Note : SummarizeMessage(q, n) \/ ExportMessageTask(q, n)
    \/ SetMessageSummary(q) \/ TaskCreated(q) \/ SetTaskExported(q) \/ RequestFails(q)

Next ==
  \/ \E n \in Note, d \in 0 .. MaxDay, b \in BOOLEAN : Arrive(n, d, b)
  \/ Tick
  \/ \E n \in Note : LoseFile(n)
  \/ \E t \in Transcriber : BeginPhase(t) \/ PhaseStep(t) \/ Crash(t)
  \/ RequestStep

Spec == Init /\ [][Next]_vars

\* Scans are scheduled for ever, a scan that runs is not starved, and days pass.
FairSpec ==
  /\ Spec
  /\ WF_vars(Tick)
  /\ \A t \in Transcriber : WF_vars(BeginPhase(t)) /\ WF_vars(PhaseStep(t))

-----------------------------------------------------------------------------
(* Properties. *)

\* A stored summary was made from the text the message has now, whatever happened
\* while the hub was writing it.  Two transcription phases at once break it.
SummaryOfText == \A n \in Note : summary[n] \in {"none", text[n]}

\* With one transcription phase at a time, a transcribed note stays transcribed with
\* the same text: no later phase fails it, skips it or transcribes it again.
DoneIsFinal ==
  [][\A n \in arrived : vstatus[n] = "done" =>
       vstatus'[n] = "done" /\ text'[n] = text[n]]_vars

\* A message shown as sent to task-os has a task there.
ExportHasTask == \A n \in Note : exported[n] => posts[n] > 0

\* No audio is on disk that no row leads to, so that no sweep would ever delete it;
\* with retention off, a transcriber on its way to delete it is excepted.
AudioHasOwner ==
  \A n \in Note :
    file[n] => \/ media[n]
               \/ \E t \in Transcriber : pc[t] = "delete" /\ cur[t] = n

\* Audio is not kept for ever: however often backends fail and processes die, every
\* downloaded file is deleted in the end.
AudioForgotten == \A n \in Note : file[n] ~> ~file[n]

\* A note does not hold its chat's cursor for ever.
BarrierLifts == \A n \in Note : HeldBack(n) ~> ~HeldBack(n)

\* What a row says of its note's life.
Fate == [n \in Note |-> IF n \in arrived THEN vstatus[n] ELSE "unseen"]

Life == INSTANCE NoteLife
  WITH today <- day, fate <- Fate, sentOn <- sent, onDisk <- file, tasks <- posts,
       marked <- exported

\* With one transcription phase at a time, the rows follow the lives of the notes,
\* whatever lists the phase read before: a note is transcribed once and stays so, is given
\* up only when its audio is gone or it was past its window, never comes back from
\* either, is summarised from the transcript it has, and is marked as exported after a
\* task was created for it.
ImplementsNoteLife == Life!LifeSpec
=============================================================================
