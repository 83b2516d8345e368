-------------------------- MODULE VoiceNotesProofs --------------------------
(***************************************************************************)
(* Proofs about VoiceNotes for any notes, transcribers, texts and windows. *)
(* That every audio file has an owner is not inductive: a transcriber that *)
(* is about to clear a media_path must have deleted the file, or somebody  *)
(* else must be about to.  With one transcriber at a time the rows         *)
(* implement NoteLife, for what a list said of a note when it was read     *)
(* still holds when the note's turn comes.                                 *)
(***************************************************************************)
EXTENDS VoiceNotes, TLAPS

\* A transcriber will delete the file after it recorded the transcript.
Doomed(n) == \E t \in Transcriber : pc[t] = "delete" /\ cur[t] = n

OwnInv(t) ==
  /\ pc[t] = "clear" => ~file[cur[t]]
  /\ pc[t] = "mark" => (file[cur[t]] => Doomed(cur[t]))
  /\ pc[t] \in {"skip", "mark"} => \A n \in rows[t] \ paths[t] : ~media[n]
  /\ pc[t] = "delete" => ~KeepMedia

AudioInv ==
  /\ TypeOK
  /\ \A n \in Note : file[n] => media[n] \/ Doomed(n)
  /\ \A t \in Transcriber : OwnInv(t)

-----------------------------------------------------------------------------
(* Type correctness. *)

LEMMA TypeInit == Init => TypeOK
BY BoundAssumption DEF Init, TypeOK, Text

LEMMA TypeEnter ==
  ASSUME TypeOK, NEW t \in Transcriber, NEW list \in SUBSET arrived,
         NEW phase \in {"idle", "sweep", "skip", "work"}, Enter(t, phase, list)
  PROVE  /\ pc' \in [Transcriber -> {"idle", "sweep", "clear", "skip", "mark", "work",
                                     "read", "asked", "delete"}]
         /\ rows' \in [Transcriber -> SUBSET arrived]
         /\ paths' \in [Transcriber -> SUBSET arrived]
         /\ cur' \in [Transcriber -> arrived \cup {NoNote}]
         /\ \A u \in Transcriber :
              pc'[u] \in {"clear", "mark", "read", "asked", "delete"} => cur'[u] # NoNote
<1>1. {n \in list : media[n]} \in SUBSET arrived
  OBVIOUS
<1> QED
  BY <1>1 DEF Enter, TypeOK

LEMMA TypeDelete ==
  ASSUME TypeOK, NEW n, DeleteAudio(n)
  PROVE  file' \in [Note -> BOOLEAN]
BY DEF DeleteAudio, TypeOK

LEMMA TypePhase ==
  ASSUME TypeOK, NEW t \in Transcriber, BeginPhase(t) \/ PhaseStep(t) \/ Crash(t)
  PROVE  TypeOK'
<1> USE DEF clockVars, rowVars, actionVars, scanVars, requestVars
<1>1. ASSUME BeginPhase(t)
      PROVE  TypeOK'
  <2>1. CASE Enter(t, "sweep", ExpiredRetainedAudio)
    <3>1. ExpiredRetainedAudio \in SUBSET arrived
      BY DEF ExpiredRetainedAudio
    <3> QED
      BY <1>1, <2>1, <3>1, TypeEnter DEF BeginPhase, TypeOK
  <2>2. CASE Enter(t, "skip", StaleVoiceNotes)
    <3>1. StaleVoiceNotes \in SUBSET arrived
      BY DEF StaleVoiceNotes
    <3> QED
      BY <1>1, <2>2, <3>1, TypeEnter DEF BeginPhase, TypeOK
  <2> QED
    BY <1>1, <2>1, <2>2 DEF BeginPhase
<1>2. ASSUME SweepDelete(t)
      PROVE  TypeOK'
  <2>1. PICK n \in rows[t] : DeleteAudio(n) /\ At(t, "clear", n)
    BY <1>2 DEF SweepDelete
  <2>2. n \in arrived /\ n # NoNote
    BY NoteAssumption DEF TypeOK
  <2>3. file' \in [Note -> BOOLEAN]
    BY <2>1, TypeDelete
  <2> QED
    BY <1>2, <2>1, <2>2, <2>3 DEF SweepDelete, At, TypeOK
<1>3. ASSUME ClearMediaPath(t)
      PROVE  TypeOK'
  BY <1>3 DEF ClearMediaPath, Back, TypeOK
<1>4. ASSUME EndSweep(t)
      PROVE  TypeOK'
  BY <1>4 DEF EndSweep, Enter, TypeOK, StaleVoiceNotes
<1>5. ASSUME SkipDelete(t)
      PROVE  TypeOK'
  <2>1. PICK n \in rows[t] : /\ DeleteAudio(n) \/ UNCHANGED file
                             /\ At(t, "mark", n)
    BY <1>5 DEF SkipDelete
  <2>2. n \in arrived /\ n # NoNote
    BY NoteAssumption DEF TypeOK
  <2>3. file' \in [Note -> BOOLEAN]
    BY <2>1, TypeDelete DEF TypeOK
  <2> QED
    BY <1>5, <2>1, <2>2, <2>3 DEF SkipDelete, At, TypeOK
<1>6. ASSUME SkipMark(t)
      PROVE  TypeOK'
  BY <1>6 DEF SkipMark, MarkSkippedOld, Back, TypeOK
<1>7. ASSUME EndSkip(t)
      PROVE  TypeOK'
  BY <1>7 DEF EndSkip, Enter, TypeOK, PendingTranscriptions
<1>8. ASSUME NEW n \in Note, AudioMissing(t, n)
      PROVE  TypeOK'
  BY <1>8 DEF AudioMissing, NextNote, MarkSkippedOld, TypeOK
<1>9. ASSUME NEW n \in Note, AudioExists(t, n)
      PROVE  TypeOK'
  BY <1>9, NoteAssumption DEF AudioExists, NextNote, At, TypeOK
<1>10. ASSUME PostAudio(t)
       PROVE  TypeOK'
  BY <1>10 DEF PostAudio, TypeOK
<1>11. ASSUME NEW x \in Transcript, MarkDone(t, x)
       PROVE  TypeOK'
  BY <1>11 DEF MarkDone, Back, TypeOK, Text
<1>12. ASSUME DeleteTranscribed(t)
       PROVE  TypeOK'
  BY <1>12 DEF DeleteTranscribed, DeleteAudio, Back, TypeOK
<1>13. ASSUME MarkFailed(t)
       PROVE  TypeOK'
  BY <1>13 DEF MarkFailed, Back, TypeOK
<1>14. ASSUME EndPhase(t)
       PROVE  TypeOK'
  BY <1>14 DEF EndPhase, Enter, TypeOK
<1>15. ASSUME Crash(t)
       PROVE  TypeOK'
  BY <1>15, BoundAssumption DEF Crash, Enter, TypeOK
<1> QED
  BY <1>1, <1>2, <1>3, <1>4, <1>5, <1>6, <1>7, <1>8, <1>9, <1>10, <1>11, <1>12, <1>13,
     <1>14, <1>15 DEF PhaseStep

LEMMA TypeRequest ==
  ASSUME TypeOK, RequestStep
  PROVE  TypeOK'
<1> USE DEF clockVars, rowVars, actionVars, scanVars, requestVars
<1>1. PICK q \in Request :
        \/ \E n \in Note : SummarizeMessage(q, n) \/ ExportMessageTask(q, n)
        \/ SetMessageSummary(q) \/ TaskCreated(q) \/ SetTaskExported(q) \/ RequestFails(q)
  BY DEF RequestStep
<1>2. ASSUME NEW n \in Note, SummarizeMessage(q, n)
      PROVE  TypeOK'
  BY <1>2, NoteAssumption DEF SummarizeMessage, Ask, TypeOK
<1>3. ASSUME NEW n \in Note, ExportMessageTask(q, n)
      PROVE  TypeOK'
  BY <1>3, NoteAssumption DEF ExportMessageTask, Ask, TypeOK
<1>4. ASSUME SetMessageSummary(q)
      PROVE  TypeOK'
  BY <1>4 DEF SetMessageSummary, Answered, TypeOK, Text
<1>5. ASSUME TaskCreated(q)
      PROVE  TypeOK'
  BY <1>5, BoundAssumption DEF TaskCreated, TypeOK
<1>6. ASSUME SetTaskExported(q)
      PROVE  TypeOK'
  BY <1>6 DEF SetTaskExported, Answered, TypeOK, Text
<1>7. ASSUME RequestFails(q)
      PROVE  TypeOK'
  BY <1>7 DEF RequestFails, Answered, TypeOK, Text
<1> QED
  BY <1>1, <1>2, <1>3, <1>4, <1>5, <1>6, <1>7

LEMMA TypeStep ==
  ASSUME TypeOK, [Next]_vars
  PROVE  TypeOK'
<1> USE DEF clockVars, rowVars, actionVars, scanVars, requestVars
<1>1. ASSUME NEW n \in Note, NEW d \in 0 .. MaxDay, NEW b \in BOOLEAN, Arrive(n, d, b)
      PROVE  TypeOK'
  BY <1>1 DEF Arrive, TypeOK
<1>2. ASSUME Tick
      PROVE  TypeOK'
  BY <1>2, BoundAssumption DEF Tick, TypeOK
<1>3. ASSUME NEW n \in Note, LoseFile(n)
      PROVE  TypeOK'
  BY <1>3 DEF LoseFile, TypeOK
<1>4. ASSUME UNCHANGED vars
      PROVE  TypeOK'
  BY <1>4 DEF vars, TypeOK
<1> QED
  BY <1>1, <1>2, <1>3, <1>4, TypePhase, TypeRequest DEF Next

\* Rows, files, lists and requests keep their types in every reachable state.
THEOREM TypeCorrect == Spec => []TypeOK
<1>1. TypeOK /\ [Next]_vars => TypeOK'
  BY TypeStep
<1> QED
  BY <1>1, TypeInit, PTL DEF Spec

-----------------------------------------------------------------------------
(* Exports. *)

\* A request that comes back from task-os has a task there.
ExportInv ==
  /\ \A q \in Request : rpc[q] = "created" => posts[rnote[q]] > 0
  /\ ExportHasTask

LEMMA ExportStep ==
  ASSUME TypeOK, ExportInv, [Next]_vars
  PROVE  ExportInv'
<1>0. TypeOK'
  BY TypeStep
<1>1. ASSUME NEW q \in Request, TaskCreated(q)
      PROVE  ExportInv'
  BY <1>0, <1>1 DEF TaskCreated, TypeOK, ExportInv, ExportHasTask
<1>2. ASSUME NEW q \in Request, SetTaskExported(q)
      PROVE  ExportInv'
  BY <1>0, <1>2 DEF SetTaskExported, Answered, TypeOK, ExportInv, ExportHasTask
<1>3. ASSUME NEW q \in Request,
             \/ \E n \in Note : SummarizeMessage(q, n) \/ ExportMessageTask(q, n)
             \/ SetMessageSummary(q) \/ RequestFails(q)
      PROVE  ExportInv'
  <2>1. /\ UNCHANGED <<exported, posts>>
        /\ \A r \in Request : rpc'[r] = "created" => rpc[r] = "created" /\ rnote'[r] = rnote[r]
    BY <1>3
    DEF SummarizeMessage, ExportMessageTask, SetMessageSummary, RequestFails, Ask,
        Answered, TypeOK, actionVars
  <2> QED
    BY <1>0, <2>1 DEF ExportInv, ExportHasTask
<1>4. CASE UNCHANGED <<exported, posts, requestVars>>
  BY <1>0, <1>4 DEF requestVars, ExportInv, ExportHasTask
<1>5. ASSUME ~ RequestStep
      PROVE  UNCHANGED <<exported, posts, requestVars>>
  BY <1>5
  DEF Next, Arrive, Tick, LoseFile, BeginPhase, PhaseStep, Crash, SweepDelete,
      ClearMediaPath, EndSweep, SkipDelete, SkipMark, EndSkip, AudioMissing, AudioExists,
      PostAudio, MarkDone, DeleteTranscribed, MarkFailed, EndPhase, actionVars, vars
<1> QED
  BY <1>1, <1>2, <1>3, <1>4, <1>5 DEF RequestStep

\* A message is marked as exported only after task-os created a task for it.
THEOREM ExportsHaveTasks == Spec => []ExportHasTask
<1>1. Init => TypeOK /\ ExportInv
  BY TypeInit DEF Init, ExportInv, ExportHasTask
<1>2. TypeOK /\ ExportInv /\ [Next]_vars => TypeOK' /\ ExportInv'
  BY TypeStep, ExportStep
<1>3. ExportInv => ExportHasTask
  BY DEF ExportInv
<1> QED
  BY <1>1, <1>2, <1>3, PTL DEF Spec

-----------------------------------------------------------------------------
(* Audio files. *)

LEMMA RetentionIsFixed ==
  ASSUME [Next]_vars
  PROVE  retain' = retain
BY DEF Next, Arrive, Tick, LoseFile, BeginPhase, PhaseStep, Crash, SweepDelete,
       ClearMediaPath, EndSweep, SkipDelete, SkipMark, EndSkip, AudioMissing, AudioExists,
       PostAudio, MarkDone, DeleteTranscribed, MarkFailed, EndPhase, RequestStep,
       SummarizeMessage, ExportMessageTask, SetMessageSummary, TaskCreated,
       SetTaskExported, RequestFails, clockVars, vars

LEMMA AudioInit == Init => AudioInv
<1>1. Init => TypeOK
  BY TypeInit
<1> QED
  BY <1>1 DEF Init, AudioInv, OwnInv

\* A step that touches no audio file, media_path or list, and moves no transcriber
\* out of its deletion or into a step that writes, keeps every file's owner.
LEMMA AudioFrame ==
  ASSUME AudioInv, TypeOK', UNCHANGED <<retain, media, file, pc, rows, paths, cur>>
  PROVE  AudioInv'
BY DEF AudioInv, OwnInv, Doomed, KeepMedia

\* A file that is gone needs no owner: what else a step of t must keep.
LEMMA AudioStep ==
  ASSUME AudioInv, TypeOK', UNCHANGED retain, NEW t \in Transcriber,
         \A n \in Note : file'[n] => file[n],
         \A n \in Note : media'[n] => media[n],
         \A u \in Transcriber \ {t} :
           pc'[u] = pc[u] /\ rows'[u] = rows[u] /\ paths'[u] = paths[u] /\ cur'[u] = cur[u],
         \A n \in Note : file'[n] /\ (pc[t] = "delete" /\ cur[t] = n) =>
           pc'[t] = "delete" /\ cur'[t] = n,
         \A n \in Note : file'[n] /\ media[n] /\ ~media'[n] => Doomed(n)',
         OwnInv(t)'
  PROVE  AudioInv'
<1> USE DEF AudioInv
<1>1. ASSUME NEW n \in Note, file'[n], Doomed(n)
      PROVE  Doomed(n)'
  BY <1>1 DEF Doomed
<1>2. \A n \in Note : file'[n] => media'[n] \/ Doomed(n)'
  BY <1>1
<1>3. ASSUME NEW u \in Transcriber, u # t
      PROVE  OwnInv(u)'
  <2>1. OwnInv(u)
    OBVIOUS
  <2>2. pc'[u] = pc[u] /\ rows'[u] = rows[u] /\ paths'[u] = paths[u] /\ cur'[u] = cur[u]
    BY <1>3
  <2>3. pc[u] \in {"clear", "mark"} => cur[u] \in Note
    BY DEF TypeOK
  <2>4. rows[u] \subseteq Note
    BY DEF TypeOK
  <2> QED
    BY <1>1, <2>1, <2>2, <2>3, <2>4 DEF OwnInv, KeepMedia
<1> QED
  BY <1>2, <1>3

LEMMA AudioPhase ==
  ASSUME AudioInv, TypeOK', UNCHANGED retain, Locked = {}, NEW t \in Transcriber,
         BeginPhase(t) \/ PhaseStep(t) \/ Crash(t),
         KeepMedia \/ MaxCrash = 0
  PROVE  AudioInv'
<1>0. TypeOK /\ OwnInv(t)
  BY DEF AudioInv
<1>1. ASSUME NEW phase \in {"idle", "sweep", "skip", "work"}, NEW list \in SUBSET arrived,
             Enter(t, phase, list), pc[t] # "delete", UNCHANGED <<media, file>>
      PROVE  AudioInv'
  <2>1. OwnInv(t)'
    BY <1>0, <1>1 DEF OwnInv, Enter, TypeOK
  <2>2. \A u \in Transcriber \ {t} :
          pc'[u] = pc[u] /\ rows'[u] = rows[u] /\ paths'[u] = paths[u] /\ cur'[u] = cur[u]
    BY <1>0, <1>1 DEF Enter, TypeOK
  <2> QED
    BY <1>1, <2>1, <2>2, AudioStep
<1>2. ASSUME BeginPhase(t) \/ EndSweep(t) \/ EndSkip(t) \/ EndPhase(t) \/ Crash(t)
      PROVE  AudioInv'
  <2>1. /\ ExpiredRetainedAudio \in SUBSET arrived
        /\ StaleVoiceNotes \in SUBSET arrived
        /\ PendingTranscriptions \in SUBSET arrived
    BY DEF ExpiredRetainedAudio, StaleVoiceNotes, PendingTranscriptions
  <2>2. pc[t] # "delete"
    BY <1>0, <1>2 DEF BeginPhase, EndSweep, EndSkip, EndPhase, Crash, OwnInv, TypeOK
  <2>3. UNCHANGED <<media, file>>
    BY <1>2 DEF BeginPhase, EndSweep, EndSkip, EndPhase, Crash, rowVars
  <2>4. \/ Enter(t, "sweep", ExpiredRetainedAudio)
        \/ Enter(t, "skip", StaleVoiceNotes)
        \/ Enter(t, "work", PendingTranscriptions)
        \/ Enter(t, "idle", {})
    BY <1>2 DEF BeginPhase, EndSweep, EndSkip, EndPhase, Crash
  <2> QED
    BY <1>1, <2>1, <2>2, <2>3, <2>4
<1>3. ASSUME SweepDelete(t)
      PROVE  AudioInv'
  <2>1. PICK n \in rows[t] : file' = [file EXCEPT ![n] = FALSE] /\ At(t, "clear", n)
    BY <1>3 DEF SweepDelete, DeleteAudio
  <2>2. n \in Note /\ UNCHANGED media /\ pc[t] = "sweep"
    BY <1>0, <1>3 DEF SweepDelete, TypeOK, rowVars
  <2>3. ~file'[n]
    BY <1>0, <2>1, <2>2 DEF TypeOK
  <2>4. OwnInv(t)'
    BY <1>0, <2>1, <2>3 DEF At, OwnInv, TypeOK
  <2> QED
    BY <1>0, <2>1, <2>2, <2>4, AudioStep DEF At, TypeOK
<1>4. ASSUME ClearMediaPath(t)
      PROVE  AudioInv'
  <2>1. pc[t] = "clear" /\ ~file[cur[t]] /\ cur[t] \in Note /\ UNCHANGED file
    BY <1>0, <1>4 DEF ClearMediaPath, OwnInv, TypeOK
  <2>2. OwnInv(t)'
    BY <1>0, <1>4 DEF ClearMediaPath, Back, OwnInv, TypeOK
  <2> QED
    BY <1>0, <1>4, <2>1, <2>2, AudioStep DEF ClearMediaPath, Back, TypeOK
<1>5. ASSUME SkipDelete(t)
      PROVE  AudioInv'
  <2>1. PICK n \in rows[t] :
          /\ At(t, "mark", n)
          /\ IF n \in paths[t] THEN file' = [file EXCEPT ![n] = FALSE] ELSE UNCHANGED file
    BY <1>5 DEF SkipDelete, DeleteAudio
  <2>2. n \in Note /\ UNCHANGED media /\ pc[t] = "skip"
    BY <1>0, <1>5 DEF SkipDelete, TypeOK, rowVars
  <2>3. \A u \in Transcriber \ {t} :
          pc'[u] = pc[u] /\ rows'[u] = rows[u] /\ paths'[u] = paths[u] /\ cur'[u] = cur[u]
    BY <1>0, <2>1 DEF At, TypeOK
  <2>4. file'[n] => Doomed(n)'
    <3>1. CASE n \in paths[t]
      BY <1>0, <2>1, <2>2, <3>1 DEF TypeOK
    <3>2. CASE n \notin paths[t]
      <4>1. ~media[n] /\ UNCHANGED file
        BY <1>0, <2>1, <2>2, <3>2 DEF OwnInv
      <4>2. file[n] => Doomed(n)
        BY <2>2, <4>1 DEF AudioInv
      <4> QED
        BY <2>2, <2>3, <4>1, <4>2 DEF Doomed
    <3> QED
      BY <3>1, <3>2
  <2>5. OwnInv(t)'
    <3>1. /\ pc'[t] = "mark" /\ cur'[t] = n /\ paths'[t] = paths[t]
          /\ rows'[t] = rows[t] \ {n}
      BY <1>0, <2>1 DEF At, TypeOK
    <3>2. \A m \in rows'[t] \ paths'[t] : ~media'[m]
      BY <1>0, <2>2, <3>1 DEF OwnInv
    <3>3. file'[cur'[t]] => Doomed(cur[t])'
      BY <2>4, <3>1 DEF Doomed
    <3> QED
      BY <3>1, <3>2, <3>3 DEF OwnInv
  <2>6. \A m \in Note : file'[m] => file[m]
    BY <1>0, <2>1, <2>2 DEF TypeOK
  <2> QED
    BY <2>2, <2>3, <2>5, <2>6, AudioStep
<1>6. ASSUME SkipMark(t)
      PROVE  AudioInv'
  <2>1. pc[t] = "mark" /\ cur[t] \in Note /\ UNCHANGED file
    BY <1>0, <1>6 DEF SkipMark, TypeOK
  <2>2. file[cur[t]] => Doomed(cur[t])
    BY <1>0, <2>1 DEF OwnInv
  <2>3. \A u \in Transcriber \ {t} :
          pc'[u] = pc[u] /\ rows'[u] = rows[u] /\ paths'[u] = paths[u] /\ cur'[u] = cur[u]
    BY <1>0, <1>6 DEF SkipMark, Back, TypeOK
  <2>4. \A n \in Note : file[n] /\ media[n] /\ ~media'[n] => Doomed(n)'
    BY <1>0, <1>6, <2>1, <2>2, <2>3 DEF SkipMark, MarkSkippedOld, Doomed, TypeOK
  <2>5. \A n \in Note : media'[n] => media[n]
    BY <1>0, <1>6, <2>1 DEF SkipMark, MarkSkippedOld, TypeOK
  <2>6. OwnInv(t)'
    <3>1. pc'[t] = "skip" /\ rows'[t] = rows[t] /\ paths'[t] = paths[t]
      BY <1>0, <1>6 DEF SkipMark, Back, TypeOK
    <3>2. \A m \in rows[t] \ paths[t] : m \in Note /\ ~media[m]
      BY <1>0, <2>1 DEF OwnInv, TypeOK
    <3>3. \A m \in rows'[t] \ paths'[t] : ~media'[m]
      BY <2>5, <3>1, <3>2
    <3> QED
      BY <3>1, <3>3 DEF OwnInv
  <2> QED
    BY <2>1, <2>3, <2>4, <2>5, <2>6, AudioStep
<1>7. ASSUME NEW n \in Note, AudioMissing(t, n)
      PROVE  AudioInv'
  <2>1. OwnInv(t)'
    BY <1>0, <1>7 DEF AudioMissing, NextNote, OwnInv, TypeOK
  <2> QED
    BY <1>0, <1>7, <2>1, AudioStep DEF AudioMissing, NextNote, MarkSkippedOld, TypeOK
<1>8. ASSUME (\E n \in Note : AudioExists(t, n)) \/ PostAudio(t) \/ MarkFailed(t)
      PROVE  AudioInv'
  <2>1. /\ UNCHANGED <<media, file>>
        /\ pc[t] \in {"work", "read", "asked"} /\ pc'[t] \in {"work", "read", "asked"}
        /\ \A u \in Transcriber \ {t} :
             pc'[u] = pc[u] /\ rows'[u] = rows[u] /\ paths'[u] = paths[u] /\ cur'[u] = cur[u]
    BY <1>0, <1>8
    DEF AudioExists, NextNote, At, PostAudio, MarkFailed, Back, TypeOK, rowVars
  <2>2. OwnInv(t)'
    BY <2>1 DEF OwnInv
  <2> QED
    BY <2>1, <2>2, AudioStep
<1>9. ASSUME NEW x \in Transcript, MarkDone(t, x)
      PROVE  AudioInv'
  <2>1. pc[t] = "asked" /\ cur[t] \in Note /\ UNCHANGED file
    BY <1>0, <1>9 DEF MarkDone, TypeOK
  <2>2. \A u \in Transcriber \ {t} :
          pc'[u] = pc[u] /\ rows'[u] = rows[u] /\ paths'[u] = paths[u] /\ cur'[u] = cur[u]
    BY <1>0, <1>9 DEF MarkDone, Back, TypeOK
  <2>3. \A n \in Note : media'[n] => media[n]
    BY <1>0, <1>9, <2>1 DEF MarkDone, TypeOK
  <2>4. CASE KeepMedia
    <3>1. pc'[t] = "work"
      BY <1>0, <1>9, <2>4 DEF MarkDone, Back, TypeOK
    <3>2. \A n \in Note : media[n] => media'[n]
      BY <1>0, <1>9, <2>1, <2>4 DEF MarkDone, TypeOK
    <3>3. OwnInv(t)'
      BY <3>1 DEF OwnInv
    <3> QED
      BY <2>1, <2>2, <2>3, <3>2, <3>3, AudioStep
  <2>5. CASE ~KeepMedia
    <3>1. pc'[t] = "delete" /\ cur'[t] = cur[t]
      BY <1>0, <1>9, <2>5 DEF MarkDone, TypeOK
    <3>2. \A n \in Note : media[n] /\ ~media'[n] => n = cur[t]
      BY <1>0, <1>9, <2>1 DEF MarkDone, TypeOK
    <3>3. OwnInv(t)'
      BY <2>5, <3>1 DEF OwnInv, KeepMedia
    <3>4. \A n \in Note : n = cur[t] => Doomed(n)'
      BY <3>1 DEF Doomed
    <3> QED
      BY <2>1, <2>2, <2>3, <3>2, <3>3, <3>4, AudioStep
  <2> QED
    BY <2>4, <2>5
<1>10. ASSUME DeleteTranscribed(t)
       PROVE  AudioInv'
  <2>1. /\ file' = [file EXCEPT ![cur[t]] = FALSE]
        /\ pc[t] = "delete" /\ cur[t] \in Note /\ UNCHANGED media
    BY <1>0, <1>10 DEF DeleteTranscribed, DeleteAudio, TypeOK, rowVars
  <2>2. pc'[t] = "work"
    BY <1>0, <1>10 DEF DeleteTranscribed, Back, TypeOK
  <2>3. OwnInv(t)'
    BY <2>2 DEF OwnInv
  <2> QED
    BY <1>0, <1>10, <2>1, <2>2, <2>3, AudioStep DEF DeleteTranscribed, Back, TypeOK
<1> QED
  BY <1>2, <1>3, <1>4, <1>5, <1>6, <1>7, <1>8, <1>9, <1>10 DEF PhaseStep

\* When no file is held open and retention is on (or no process dies), every audio file
\* on disk stays reachable from its row, however many transcription phases overlap.
THEOREM AudioIsOwned ==
  ASSUME Locked = {}, 0 \notin Retention \/ MaxCrash = 0
  PROVE  Spec => []AudioHasOwner
<1>1. ASSUME AudioInv, [Next]_vars
      PROVE  AudioInv'
  <2>0. TypeOK /\ TypeOK'
    BY <1>1, TypeStep DEF AudioInv
  <2>r. retain' = retain /\ (KeepMedia \/ MaxCrash = 0)
    <3>1. retain' = retain
      BY <1>1, RetentionIsFixed
    <3>2. retain \in Retention /\ retain \in Nat
      BY <2>0, DayAssumption DEF TypeOK
    <3>3. retain # 0 => retain > 0
      BY <3>2
    <3> QED
      BY <3>1, <3>2, <3>3 DEF KeepMedia
  <2>1. ASSUME NEW t \in Transcriber, BeginPhase(t) \/ PhaseStep(t) \/ Crash(t)
        PROVE  AudioInv'
    BY <1>1, <2>0, <2>r, <2>1, AudioPhase
  <2>2. CASE Tick \/ RequestStep \/ UNCHANGED vars
    <3>1. UNCHANGED <<media, file, pc, rows, paths, cur>>
      BY <2>2
      DEF Tick, RequestStep, SummarizeMessage, ExportMessageTask, SetMessageSummary,
          TaskCreated, SetTaskExported, RequestFails, rowVars, scanVars, vars
    <3> QED
      BY <1>1, <2>0, <2>r, <3>1, AudioFrame
  <2>3. ASSUME NEW n \in Note, LoseFile(n)
        PROVE  AudioInv'
    <3>1. UNCHANGED <<media, pc, rows, paths, cur>> /\ \A m \in Note : file'[m] => file[m]
      BY <2>0, <2>3 DEF LoseFile, TypeOK, rowVars, scanVars
    <3>2. \A t \in Transcriber : pc[t] \in {"clear", "mark"} => cur[t] \in Note
      BY <2>0 DEF TypeOK
    <3> QED
      BY <1>1, <2>0, <2>r, <3>1, <3>2 DEF AudioInv, OwnInv, Doomed, KeepMedia
  <2>4. ASSUME NEW n \in Note, NEW d \in 0 .. MaxDay, NEW b \in BOOLEAN, Arrive(n, d, b)
        PROVE  AudioInv'
    <3>1. /\ media' = [media EXCEPT ![n] = b] /\ file' = [file EXCEPT ![n] = b]
          /\ UNCHANGED <<pc, rows, paths, cur>> /\ n \notin arrived
      BY <2>4 DEF Arrive, scanVars
    <3>2. \A t \in Transcriber :
            /\ pc[t] \in {"clear", "mark"} => cur[t] \in Note \ {n}
            /\ n \notin rows[t]
      BY <2>0, <3>1 DEF TypeOK
    <3>3. \A m \in Note \ {n} : file'[m] = file[m] /\ media'[m] = media[m]
      BY <2>0, <3>1 DEF TypeOK
    <3>4. file'[n] = media'[n]
      BY <2>0, <3>1 DEF TypeOK
    <3>5. \A m \in Note : Doomed(m)' = Doomed(m)
      BY <3>1 DEF Doomed
    <3>6. \A m \in Note : file'[m] => media'[m] \/ Doomed(m)'
      BY <1>1, <3>3, <3>4, <3>5 DEF AudioInv
    <3>7. \A t \in Transcriber : rows[t] \subseteq Note
      BY <2>0 DEF TypeOK
    <3>8. ASSUME NEW t \in Transcriber
          PROVE  OwnInv(t)'
      BY <1>1, <2>r, <3>1, <3>2, <3>3, <3>5, <3>7 DEF AudioInv, OwnInv, KeepMedia
    <3> QED
      BY <2>0, <3>6, <3>8 DEF AudioInv
  <2> QED
    BY <1>1, <2>1, <2>2, <2>3, <2>4 DEF Next
<1>2. AudioInv => AudioHasOwner
  BY DEF AudioInv, AudioHasOwner, Doomed
<1> QED
  BY <1>1, <1>2, AudioInit, PTL DEF Spec

-----------------------------------------------------------------------------
(* Transcripts and summaries, when one transcription phase runs at a time. *)

\* Past the sweep, no note on the list or at hand has its transcript.
WorkInv(t) ==
  pc[t] \in {"skip", "mark", "work", "read", "asked", "delete"} =>
    /\ \A n \in rows[t] : vstatus[n] # "done" /\ n # cur[t]
    /\ pc[t] \in {"mark", "read", "asked"} => vstatus[cur[t]] # "done"

\* A request holds the text its note still has, which is a transcript.
AskedInv(q) ==
  rpc[q] = "summarizing" => rtext[q] = text[rnote[q]] /\ rtext[q] \in Transcript

\* Only a note that is done has a transcript.
SumInv ==
  /\ TypeOK
  /\ \A t \in Transcriber : WorkInv(t)
  /\ \A n \in Note : text[n] # "placeholder" => n \in arrived /\ vstatus[n] = "done"
  /\ \A q \in Request : AskedInv(q)
  /\ SummaryOfText

\* A done note keeps its status and text in a step.
Final == \A n \in arrived : vstatus[n] = "done" => vstatus'[n] = "done" /\ text'[n] = text[n]

LEMMA SumInit == Init => SumInv
<1>1. Init => TypeOK
  BY TypeInit
<1> QED
  BY <1>1 DEF Init, SumInv, WorkInv, AskedInv, SummaryOfText

\* A phase step that writes no transcript: it keeps texts and requests, gives no note
\* the status done and takes it from none.
LEMMA SumFrame ==
  ASSUME SumInv, TypeOK', UNCHANGED <<arrived, text, summary, requestVars>>,
         \A n \in Note : vstatus'[n] = "done" <=> vstatus[n] = "done",
         \A t \in Transcriber : WorkInv(t)'
  PROVE  SumInv' /\ Final
<1>1. \A q \in Request : AskedInv(q)'
  BY DEF SumInv, AskedInv, requestVars
<1>2. \A n \in arrived : n \in Note
  BY DEF SumInv, TypeOK
<1> QED
  BY <1>1, <1>2 DEF SumInv, SummaryOfText, Final

LEMMA SumPhase ==
  ASSUME SumInv, TypeOK', \A t, u \in Transcriber : t = u, NEW t \in Transcriber,
         BeginPhase(t) \/ PhaseStep(t) \/ Crash(t)
  PROVE  SumInv' /\ Final
<1> USE DEF rowVars, actionVars, clockVars
<1>0. TypeOK /\ WorkInv(t)
  BY DEF SumInv
<1>1. ASSUME WorkInv(t)'
      PROVE  \A u \in Transcriber : WorkInv(u)'
  <2>1. \A u \in Transcriber : u = t
    OBVIOUS
  <2> QED
    BY <1>1, <2>1
<1>2. ASSUME NEW phase \in {"idle", "sweep", "skip", "work"}, NEW list \in SUBSET arrived,
             Enter(t, phase, list), UNCHANGED <<rowVars, actionVars, requestVars>>,
             phase \in {"skip", "work"} => \A n \in list : vstatus[n] # "done"
      PROVE  SumInv' /\ Final
  <2>1. pc'[t] = phase /\ rows'[t] = list /\ cur'[t] = NoNote
    BY <1>0, <1>2 DEF Enter, TypeOK
  <2>2. WorkInv(t)'
    BY <1>0, <1>2, <2>1, NoteAssumption DEF WorkInv, TypeOK
  <2> QED
    BY <1>1, <1>2, <2>2, SumFrame
<1>3. ASSUME BeginPhase(t) \/ EndSweep(t) \/ EndSkip(t) \/ EndPhase(t) \/ Crash(t)
      PROVE  SumInv' /\ Final
  <2>1. /\ ExpiredRetainedAudio \in SUBSET arrived
        /\ StaleVoiceNotes \in SUBSET arrived
        /\ PendingTranscriptions \in SUBSET arrived
        /\ \A n \in StaleVoiceNotes \cup PendingTranscriptions : vstatus[n] # "done"
    BY DEF ExpiredRetainedAudio, StaleVoiceNotes, PendingTranscriptions
  <2>2. UNCHANGED <<rowVars, actionVars, requestVars>>
    BY <1>3 DEF BeginPhase, EndSweep, EndSkip, EndPhase, Crash
  <2>3. \/ Enter(t, "sweep", ExpiredRetainedAudio)
        \/ Enter(t, "skip", StaleVoiceNotes)
        \/ Enter(t, "work", PendingTranscriptions)
        \/ Enter(t, "idle", {})
    BY <1>3 DEF BeginPhase, EndSweep, EndSkip, EndPhase, Crash
  <2> QED
    BY <1>2, <2>1, <2>2, <2>3
<1>4. ASSUME SweepDelete(t) \/ ClearMediaPath(t)
      PROVE  SumInv' /\ Final
  <2>1. /\ UNCHANGED <<arrived, vstatus, text, summary, requestVars>>
        /\ pc'[t] \in {"sweep", "clear"}
    BY <1>0, <1>4 DEF SweepDelete, ClearMediaPath, At, Back, TypeOK
  <2> QED
    BY <1>1, <2>1, SumFrame DEF WorkInv
<1>5. ASSUME NEW n \in rows[t], NEW step \in {"mark", "read"}, At(t, step, n),
             pc[t] \in {"skip", "work"}, UNCHANGED <<rowVars, actionVars, requestVars>>
      PROVE  SumInv' /\ Final
  <2>1. pc'[t] = step /\ rows'[t] = rows[t] \ {n} /\ cur'[t] = n
    BY <1>0, <1>5 DEF At, TypeOK
  <2>2. WorkInv(t)'
    BY <1>0, <1>5, <2>1 DEF WorkInv
  <2> QED
    BY <1>1, <1>5, <2>2, SumFrame
<1>6. ASSUME SkipDelete(t) \/ \E n \in Note : AudioExists(t, n)
      PROVE  SumInv' /\ Final
  <2>1. PICK n \in rows[t], step \in {"mark", "read"} : At(t, step, n)
    BY <1>6 DEF SkipDelete, AudioExists, NextNote
  <2>2. pc[t] \in {"skip", "work"} /\ UNCHANGED <<rowVars, actionVars, requestVars>>
    BY <1>6 DEF SkipDelete, AudioExists, NextNote
  <2> QED
    BY <1>5, <2>1, <2>2
<1>7. ASSUME NEW n \in Note, NEW s \in {"skipped_old", "failed"},
             vstatus' = [vstatus EXCEPT ![n] = s], vstatus[n] # "done",
             UNCHANGED <<arrived, text, actionVars, requestVars>>,
             pc'[t] \in {"skip", "work"}, pc[t] \in {"mark", "work", "read", "asked"},
             rows'[t] \subseteq rows[t], cur'[t] \in {NoNote, cur[t]}
      PROVE  SumInv' /\ Final
  <2>1. \A m \in Note : vstatus'[m] = "done" <=> vstatus[m] = "done"
    BY <1>0, <1>7 DEF TypeOK
  <2>2. rows[t] \subseteq Note /\ NoNote \notin rows[t]
    BY <1>0, NoteAssumption DEF TypeOK
  <2>3. WorkInv(t)'
    BY <1>0, <1>7, <2>1, <2>2 DEF WorkInv
  <2> QED
    BY <1>1, <1>7, <2>1, <2>3, SumFrame
<1>8. ASSUME SkipMark(t) \/ MarkFailed(t)
      PROVE  SumInv' /\ Final
  <2>1. pc[t] \in {"mark", "read", "asked"} /\ cur[t] \in Note /\ vstatus[cur[t]] # "done"
    BY <1>0, <1>8 DEF SkipMark, MarkFailed, WorkInv, TypeOK
  <2>2. PICK s \in {"skipped_old", "failed"} : vstatus' = [vstatus EXCEPT ![cur[t]] = s]
    BY <1>8 DEF SkipMark, MarkFailed, MarkSkippedOld
  <2>3. /\ UNCHANGED <<arrived, text, actionVars, requestVars>>
        /\ pc'[t] \in {"skip", "work"} /\ rows'[t] = rows[t] /\ cur'[t] = NoNote
    BY <1>0, <1>8 DEF SkipMark, MarkFailed, MarkSkippedOld, Back, TypeOK
  <2> QED
    BY <1>7, <2>1, <2>2, <2>3
<1>9. ASSUME NEW n \in Note, AudioMissing(t, n)
      PROVE  SumInv' /\ Final
  <2>1. /\ pc[t] = "work" /\ pc' = pc /\ n \in rows[t] /\ cur' = cur
        /\ rows'[t] = rows[t] \ {n} /\ vstatus' = [vstatus EXCEPT ![n] = "skipped_old"]
        /\ UNCHANGED <<arrived, text, actionVars, requestVars>>
    BY <1>0, <1>9 DEF AudioMissing, NextNote, MarkSkippedOld, TypeOK
  <2>2. vstatus[n] # "done"
    BY <1>0, <2>1 DEF WorkInv
  <2> QED
    BY <1>7, <2>1, <2>2
<1>10. ASSUME PostAudio(t) \/ DeleteTranscribed(t)
       PROVE  SumInv' /\ Final
  <2>1. /\ UNCHANGED <<arrived, vstatus, text, summary, requestVars, rows>>
        /\ \/ pc[t] = "read" /\ pc'[t] = "asked" /\ UNCHANGED cur
           \/ pc[t] = "delete" /\ pc'[t] = "work" /\ cur'[t] = NoNote
    BY <1>0, <1>10 DEF PostAudio, DeleteTranscribed, Back, TypeOK
  <2>2. NoNote \notin rows[t]
    BY <1>0, NoteAssumption DEF TypeOK
  <2>3. WorkInv(t)'
    BY <1>0, <2>1, <2>2 DEF WorkInv
  <2> QED
    BY <1>1, <2>1, <2>3, SumFrame
<1>11. ASSUME NEW x \in Transcript, MarkDone(t, x)
       PROVE  SumInv' /\ Final
  <2>1. /\ pc[t] = "asked" /\ cur[t] \in Note /\ cur[t] \in arrived
        /\ vstatus[cur[t]] # "done" /\ text[cur[t]] = "placeholder"
    BY <1>0, <1>11 DEF MarkDone, WorkInv, SumInv, TypeOK
  <2>2. /\ text' = [text EXCEPT ![cur[t]] = x]
        /\ vstatus' = [vstatus EXCEPT ![cur[t]] = "done"]
        /\ summary' = [summary EXCEPT ![cur[t]] = "none"]
        /\ UNCHANGED <<arrived, requestVars, rows>>
        /\ \/ pc'[t] = "work" /\ cur'[t] = NoNote
           \/ pc'[t] = "delete" /\ cur' = cur
    BY <1>0, <1>11 DEF MarkDone, Back, TypeOK
  <2>3. WorkInv(t)'
    <3>1. rows[t] \subseteq Note /\ NoNote \notin rows[t]
      BY <1>0, NoteAssumption DEF TypeOK
    <3>2. \A n \in rows[t] : vstatus[n] # "done" /\ n # cur[t]
      BY <1>0, <2>1 DEF WorkInv
    <3>3. \A n \in rows[t] : vstatus'[n] # "done"
      BY <1>0, <2>2, <3>1, <3>2 DEF TypeOK
    <3> QED
      BY <2>2, <3>1, <3>2, <3>3 DEF WorkInv
  <2>4. \A n \in Note : text'[n] # "placeholder" => n \in arrived' /\ vstatus'[n] = "done"
    BY <1>0, <2>1, <2>2 DEF SumInv, TypeOK
  <2>5. ASSUME NEW q \in Request
        PROVE  AskedInv(q)'
    <3>1. SUFFICES ASSUME rpc[q] = "summarizing"
                   PROVE  rtext[q] = text'[rnote[q]] /\ rtext[q] \in Transcript
      BY <2>2 DEF AskedInv, requestVars
    <3>2. /\ rtext[q] = text[rnote[q]] /\ rtext[q] \in Transcript
          /\ rnote[q] # cur[t] /\ rnote[q] \in Note
      BY <1>0, <2>1, <3>1, TextAssumption DEF SumInv, AskedInv, TypeOK
    <3> QED
      BY <1>0, <2>2, <3>2 DEF TypeOK
  <2>6. SummaryOfText'
    BY <1>0, <2>1, <2>2 DEF SumInv, SummaryOfText, TypeOK
  <2>7. Final
    BY <1>0, <2>1, <2>2 DEF Final, TypeOK
  <2> QED
    BY <1>1, <2>3, <2>4, <2>5, <2>6, <2>7 DEF SumInv
<1> QED
  BY <1>3, <1>4, <1>6, <1>8, <1>9, <1>10, <1>11 DEF PhaseStep

LEMMA SumRequest ==
  ASSUME SumInv, TypeOK', RequestStep
  PROVE  SumInv' /\ Final
<1>0. TypeOK
  BY DEF SumInv
<1>1. PICK q \in Request :
        \/ \E n \in Note : SummarizeMessage(q, n) \/ ExportMessageTask(q, n)
        \/ SetMessageSummary(q) \/ TaskCreated(q) \/ SetTaskExported(q) \/ RequestFails(q)
  BY DEF RequestStep
<1>2. UNCHANGED <<rowVars, scanVars>>
  BY <1>1 DEF SummarizeMessage, ExportMessageTask, SetMessageSummary, TaskCreated,
     SetTaskExported, RequestFails
<1>3. ASSUME NEW r \in Request
      PROVE  AskedInv(r)'
  <2>1. AskedInv(r) /\ text' = text
    BY <1>2 DEF SumInv, rowVars
  <2>2. CASE r # q
    <3>1. rpc'[r] = rpc[r] /\ rnote'[r] = rnote[r] /\ rtext'[r] = rtext[r]
      BY <1>0, <1>1, <2>2 DEF SummarizeMessage, ExportMessageTask, SetMessageSummary,
         TaskCreated, SetTaskExported, RequestFails, Ask, Answered, TypeOK
    <3> QED
      BY <2>1, <3>1 DEF AskedInv
  <2>3. CASE r = q
    <3>1. ASSUME NEW n \in Note, SummarizeMessage(q, n)
          PROVE  AskedInv(q)'
      BY <1>0, <2>1, <3>1, TextAssumption DEF SummarizeMessage, Ask, AskedInv, TypeOK
    <3>2. ASSUME ~ \E n \in Note : SummarizeMessage(q, n)
          PROVE  rpc'[q] # "summarizing"
      BY <1>0, <1>1, <3>2 DEF ExportMessageTask, SetMessageSummary, TaskCreated,
         SetTaskExported, RequestFails, Ask, Answered, TypeOK
    <3> QED
      BY <2>3, <3>1, <3>2 DEF AskedInv
  <2> QED
    BY <2>2, <2>3
<1>4. SummaryOfText'
  <2>1. CASE SetMessageSummary(q)
    <3>1. rtext[q] = text[rnote[q]] /\ summary' = [summary EXCEPT ![rnote[q]] = rtext[q]]
      BY <2>1 DEF SumInv, AskedInv, SetMessageSummary
    <3> QED
      BY <1>0, <1>2, <3>1 DEF SumInv, SummaryOfText, TypeOK, rowVars
  <2>2. CASE summary' = summary
    BY <1>2, <2>2 DEF SumInv, SummaryOfText, rowVars
  <2>3. SetMessageSummary(q) \/ summary' = summary
    BY <1>1 DEF SummarizeMessage, ExportMessageTask, TaskCreated, SetTaskExported,
       RequestFails, actionVars
  <2> QED
    BY <2>1, <2>2, <2>3
<1>5. \A t \in Transcriber : WorkInv(t)'
  BY <1>2 DEF SumInv, WorkInv, rowVars, scanVars
<1> QED
  BY <1>2, <1>3, <1>4, <1>5 DEF SumInv, Final, rowVars

LEMMA SumStep ==
  ASSUME SumInv, \A t, u \in Transcriber : t = u, [Next]_vars
  PROVE  SumInv' /\ Final
<1>0. TypeOK /\ TypeOK'
  BY TypeStep DEF SumInv
<1>1. ASSUME NEW t \in Transcriber, BeginPhase(t) \/ PhaseStep(t) \/ Crash(t)
      PROVE  SumInv' /\ Final
  BY <1>0, <1>1, SumPhase
<1>2. CASE Tick \/ (\E n \in Note : LoseFile(n)) \/ UNCHANGED vars
  <2>1. UNCHANGED <<rowVars, actionVars, scanVars, requestVars>>
    BY <1>2 DEF Tick, LoseFile, vars
  <2>2. \A t \in Transcriber : WorkInv(t)'
    BY <2>1 DEF SumInv, WorkInv, rowVars, scanVars
  <2> QED
    BY <1>0, <2>1, <2>2, SumFrame DEF rowVars, actionVars
<1>3. ASSUME NEW n \in Note, NEW d \in 0 .. MaxDay, NEW b \in BOOLEAN, Arrive(n, d, b)
      PROVE  SumInv' /\ Final
  <2>1. /\ n \notin arrived /\ arrived' = arrived \cup {n}
        /\ vstatus' = [vstatus EXCEPT ![n] = IF b THEN "pending" ELSE "failed"]
        /\ UNCHANGED <<text, actionVars, scanVars, requestVars>>
    BY <1>3 DEF Arrive
  <2>2. \A m \in Note : m # n => vstatus'[m] = vstatus[m]
    BY <1>0, <2>1 DEF TypeOK
  <2>3. text[n] = "placeholder"
    BY <2>1 DEF SumInv
  <2>4. ASSUME NEW t \in Transcriber
        PROVE  WorkInv(t)'
    <3>1. /\ \A m \in rows[t] : m \in Note \ {n}
          /\ pc[t] \in {"mark", "read", "asked"} => cur[t] \in Note \ {n}
      BY <1>0, <2>1 DEF TypeOK
    <3> QED
      BY <2>1, <2>2, <3>1 DEF SumInv, WorkInv, scanVars
  <2>5. \A q \in Request : AskedInv(q)'
    BY <2>1 DEF SumInv, AskedInv, requestVars
  <2>6. /\ SummaryOfText'
        /\ \A m \in Note : text'[m] # "placeholder" => m \in arrived' /\ vstatus'[m] = "done"
    BY <2>1, <2>2, <2>3 DEF SumInv, SummaryOfText, actionVars
  <2>7. Final
    BY <1>0, <2>1, <2>2 DEF Final, TypeOK
  <2> QED
    BY <1>0, <2>4, <2>5, <2>6, <2>7 DEF SumInv
<1> QED
  BY <1>0, <1>1, <1>2, <1>3, SumRequest DEF Next

\* While one transcription phase runs at a time, a stored summary is of the text its
\* message has, whatever the hub was asked meanwhile.
THEOREM SummariesFollowText ==
  ASSUME \A t, u \in Transcriber : t = u
  PROVE  Spec => []SummaryOfText
<1>1. SumInv /\ [Next]_vars => SumInv'
  BY SumStep
<1>2. SumInv => SummaryOfText
  BY DEF SumInv
<1> QED
  BY <1>1, <1>2, SumInit, PTL DEF Spec

\* While one transcription phase runs at a time, no later phase takes a transcript back.
THEOREM TranscriptsAreFinal ==
  ASSUME \A t, u \in Transcriber : t = u
  PROVE  Spec => DoneIsFinal
<1>1. SumInv /\ [Next]_vars => SumInv'
  BY SumStep
<1>2. SumInv /\ [Next]_vars =>
        [\A n \in arrived : vstatus[n] = "done" =>
           vstatus'[n] = "done" /\ text'[n] = text[n]]_vars
  BY SumStep DEF Final
<1> QED
  BY <1>1, <1>2, SumInit, PTL DEF Spec, DoneIsFinal

-----------------------------------------------------------------------------
(* The lives of the notes, when one transcription phase runs at a time. *)

Untried(n) == vstatus[n] \in {"pending", "failed"}

\* What a transcriber is about to give up was past its window when it was listed, and still
\* is; what it is about to transcribe has not been decided since it was listed.
ListInv(t) ==
  /\ pc[t] \in {"skip", "mark"} => rows[t] \subseteq StaleVoiceNotes
  /\ pc[t] = "mark" => cur[t] \in StaleVoiceNotes
  /\ pc[t] \in {"work", "read", "asked", "delete"} => \A n \in rows[t] : Untried(n)
  /\ pc[t] \in {"read", "asked"} => Untried(cur[t])

LifeInv ==
  /\ SumInv /\ ExportInv
  /\ \A t \in Transcriber : ListInv(t)

LEMMA StaleStays ==
  ASSUME TypeOK, TypeOK', NEW n \in StaleVoiceNotes, arrived \subseteq arrived', day' >= day,
         vstatus'[n] = vstatus[n], sent'[n] = sent[n]
  PROVE  n \in (StaleVoiceNotes)'
<1>1. n \in arrived /\ n \in Note /\ sent[n] \in Nat /\ day \in Nat /\ day' \in Nat
  BY BoundAssumption DEF StaleVoiceNotes, TypeOK
<1>2. Window \in Nat /\ FailedWindow \in Nat
  BY DayAssumption
<1>3. ASSUME NEW w \in Nat, sent[n] + w < day
      PROVE  sent[n] + w < day'
  BY <1>1, <1>3
<1> QED
  BY <1>1, <1>2, <1>3 DEF StaleVoiceNotes, OlderThan

LEMMA StaleIsUntried ==
  ASSUME NEW n \in StaleVoiceNotes
  PROVE  Untried(n) /\ n \in arrived
BY DEF StaleVoiceNotes, Untried

\* A step that changes at most the status of one note keeps a list without that note.
LEMMA ListStays ==
  ASSUME TypeOK, TypeOK', NEW t \in Transcriber, ListInv(t), NEW c,
         arrived \subseteq arrived', day' >= day,
         \A n \in arrived : n # c => vstatus'[n] = vstatus[n] /\ sent'[n] = sent[n]
  PROVE  /\ pc[t] \in {"skip", "mark"} =>
              \A n \in rows[t] : n # c => n \in (StaleVoiceNotes)'
         /\ pc[t] = "mark" /\ cur[t] # c => cur[t] \in (StaleVoiceNotes)'
         /\ pc[t] \in {"work", "read", "asked", "delete"} =>
              \A n \in rows[t] : n # c => Untried(n)'
         /\ pc[t] \in {"read", "asked"} /\ cur[t] # c =>
              vstatus'[cur[t]] \in {"pending", "failed"}
<1>1. ASSUME NEW n \in StaleVoiceNotes, n # c
      PROVE  n \in (StaleVoiceNotes)'
  <2>1. n \in arrived
    BY StaleIsUntried
  <2> QED
    BY <1>1, <2>1, StaleStays
<1>2. rows[t] \subseteq arrived
  BY DEF TypeOK
<1>3. pc[t] \in {"read", "asked"} => cur[t] \in arrived
  BY DEF TypeOK
<1>4. pc[t] \in {"skip", "mark"} => \A n \in rows[t] : n # c => n \in (StaleVoiceNotes)'
  BY <1>1 DEF ListInv
<1>5. pc[t] = "mark" /\ cur[t] # c => cur[t] \in (StaleVoiceNotes)'
  BY <1>1 DEF ListInv
<1>6. pc[t] \in {"work", "read", "asked", "delete"} =>
        \A n \in rows[t] : n # c => Untried(n)'
  BY <1>2 DEF ListInv, Untried
<1>7. pc[t] \in {"read", "asked"} /\ cur[t] # c =>
        vstatus'[cur[t]] \in {"pending", "failed"}
  BY <1>3 DEF ListInv, Untried
<1> QED
  BY <1>4, <1>5, <1>6, <1>7

\* Every step of the transcriber keeps what its lists are good for.
LEMMA ListPhase ==
  ASSUME LifeInv, TypeOK', \A t, u \in Transcriber : t = u, NEW t \in Transcriber,
         BeginPhase(t) \/ PhaseStep(t) \/ Crash(t)
  PROVE  ListInv(t)'
<1> USE DEF rowVars, clockVars
<1>0. TypeOK /\ ListInv(t) /\ WorkInv(t)
  BY DEF LifeInv, SumInv
<1>1. ASSUME NEW phase \in {"idle", "sweep", "skip", "work"}, NEW list \in SUBSET arrived,
             Enter(t, phase, list), UNCHANGED <<rowVars, clockVars>>,
             phase = "skip" => list = StaleVoiceNotes,
             phase = "work" => list = PendingTranscriptions
      PROVE  ListInv(t)'
  <2>1. pc'[t] = phase /\ rows'[t] = list
    BY <1>0, <1>1 DEF Enter, TypeOK
  <2>2. (StaleVoiceNotes)' = StaleVoiceNotes
    BY <1>1 DEF StaleVoiceNotes, OlderThan
  <2>3. \A n \in PendingTranscriptions : vstatus[n] \in {"pending", "failed"}
    BY DEF PendingTranscriptions
  <2>4. \A n \in PendingTranscriptions : Untried(n)'
    BY <1>1, <2>3 DEF Untried
  <2> QED
    BY <1>1, <2>1, <2>2, <2>4 DEF ListInv
<1>2. CASE BeginPhase(t) \/ EndSweep(t) \/ EndSkip(t) \/ EndPhase(t) \/ Crash(t)
  <2>1. /\ ExpiredRetainedAudio \in SUBSET arrived
        /\ StaleVoiceNotes \in SUBSET arrived
        /\ PendingTranscriptions \in SUBSET arrived
    BY DEF ExpiredRetainedAudio, StaleVoiceNotes, PendingTranscriptions
  <2>2. UNCHANGED <<rowVars, clockVars>>
    BY <1>2 DEF BeginPhase, EndSweep, EndSkip, EndPhase, Crash
  <2>3. \/ Enter(t, "sweep", ExpiredRetainedAudio)
        \/ Enter(t, "skip", StaleVoiceNotes)
        \/ Enter(t, "work", PendingTranscriptions)
        \/ Enter(t, "idle", {})
    BY <1>2 DEF BeginPhase, EndSweep, EndSkip, EndPhase, Crash
  <2> QED
    BY <1>1, <2>1, <2>2, <2>3
<1>3. CASE SweepDelete(t) \/ ClearMediaPath(t)
  <2>1. pc'[t] \in {"sweep", "clear"}
    BY <1>0, <1>3 DEF SweepDelete, ClearMediaPath, At, Back, TypeOK
  <2> QED
    BY <2>1 DEF ListInv
\* The other steps change at most the status of the note at hand, c.
<1>4. ASSUME NEW c, UNCHANGED <<arrived, sent, day>>,
             \A n \in arrived : n # c => vstatus'[n] = vstatus[n]
      PROVE  /\ pc[t] \in {"skip", "mark"} =>
                  \A n \in rows[t] : n # c => n \in (StaleVoiceNotes)'
             /\ pc[t] \in {"work", "read", "asked", "delete"} =>
                  \A n \in rows[t] : n # c => Untried(n)'
  <2>1. day' >= day
    BY <1>0, <1>4, BoundAssumption DEF TypeOK
  <2> QED
    BY <1>0, <1>4, <2>1, ListStays
<1>5. ASSUME NEW n \in rows[t], NEW step \in {"mark", "read"}, At(t, step, n),
             \/ pc[t] = "skip" /\ step = "mark"
             \/ pc[t] = "work" /\ step = "read",
             UNCHANGED <<rowVars, clockVars>>
      PROVE  ListInv(t)'
  <2>1. pc'[t] = step /\ rows'[t] = rows[t] \ {n} /\ cur'[t] = n
    BY <1>0, <1>5 DEF At, TypeOK
  <2>2. (StaleVoiceNotes)' = StaleVoiceNotes
    BY <1>5 DEF StaleVoiceNotes, OlderThan
  <2>3. step = "mark" => n \in StaleVoiceNotes /\ rows[t] \subseteq StaleVoiceNotes
    BY <1>0, <1>5 DEF ListInv
  <2>4. step = "read" => \A m \in rows[t] : vstatus[m] \in {"pending", "failed"}
    BY <1>0, <1>5 DEF ListInv, Untried
  <2>5. step = "read" => \A m \in rows'[t] \cup {cur'[t]} : vstatus'[m] \in {"pending", "failed"}
    BY <1>5, <2>1, <2>4
  <2> QED
    BY <1>5, <2>1, <2>2, <2>3, <2>5 DEF ListInv, Untried
<1>6. CASE SkipDelete(t)
  <2>1. pc[t] = "skip" /\ UNCHANGED <<rowVars, clockVars>>
    BY <1>6 DEF SkipDelete
  <2>2. PICK n \in rows[t] : At(t, "mark", n)
    BY <1>6 DEF SkipDelete
  <2> QED
    BY <1>5, <2>1, <2>2
<1>7. ASSUME NEW n \in Note, AudioExists(t, n)
      PROVE  ListInv(t)'
  <2>1. pc[t] = "work" /\ n \in rows[t] /\ At(t, "read", n) /\ UNCHANGED <<rowVars, clockVars>>
    BY <1>7 DEF AudioExists, NextNote
  <2> QED
    BY <1>5, <2>1
<1>8. CASE SkipMark(t)
  <2>1. /\ pc[t] = "mark" /\ pc'[t] = "skip" /\ rows'[t] = rows[t]
        /\ vstatus' = [vstatus EXCEPT ![cur[t]] = "skipped_old"]
        /\ UNCHANGED <<arrived, sent, day>>
    BY <1>0, <1>8 DEF SkipMark, MarkSkippedOld, Back, TypeOK
  <2>2. \A n \in arrived : n # cur[t] => vstatus'[n] = vstatus[n]
    BY <1>0, <2>1 DEF TypeOK
  <2>3. \A n \in rows[t] : n # cur[t]
    BY <1>0, <2>1 DEF WorkInv
  <2>4. \A n \in rows[t] : n \in (StaleVoiceNotes)'
    BY <1>4, <2>1, <2>2, <2>3
  <2> QED
    BY <2>1, <2>4 DEF ListInv
<1>9. ASSUME NEW n \in Note, AudioMissing(t, n)
      PROVE  ListInv(t)'
  <2>1. /\ pc[t] = "work" /\ pc' = pc /\ rows'[t] = rows[t] \ {n}
        /\ vstatus' = [vstatus EXCEPT ![n] = "skipped_old"]
        /\ UNCHANGED <<arrived, sent, day>>
    BY <1>0, <1>9 DEF AudioMissing, NextNote, MarkSkippedOld, TypeOK
  <2>2. \A m \in arrived : m # n => vstatus'[m] = vstatus[m]
    BY <1>0, <2>1 DEF TypeOK
  <2>3. \A m \in rows[t] : m # n => Untried(m)'
    BY <1>4, <2>1, <2>2
  <2>4. \A m \in rows'[t] : Untried(m)'
    BY <2>1, <2>3
  <2> QED
    BY <2>1, <2>4 DEF ListInv
<1>10. CASE PostAudio(t)
  <2>1. /\ pc[t] = "read" /\ pc'[t] = "asked" /\ rows' = rows /\ cur' = cur
        /\ vstatus' = vstatus
    BY <1>0, <1>10 DEF PostAudio, TypeOK
  <2> QED
    BY <1>0, <2>1 DEF ListInv, Untried
<1>11. CASE DeleteTranscribed(t)
  <2>1. /\ pc[t] = "delete" /\ pc'[t] = "work" /\ rows' = rows /\ vstatus' = vstatus
    BY <1>0, <1>11 DEF DeleteTranscribed, Back, TypeOK
  <2> QED
    BY <1>0, <2>1 DEF ListInv, Untried
<1>12. ASSUME MarkFailed(t) \/ \E x \in Transcript : MarkDone(t, x)
       PROVE  ListInv(t)'
  <2>1. /\ pc[t] \in {"read", "asked"} /\ pc'[t] \in {"work", "delete"} /\ rows' = rows
        /\ UNCHANGED <<arrived, sent, day>>
    BY <1>0, <1>12 DEF MarkFailed, MarkDone, Back, TypeOK
  <2>2. PICK s \in {"failed", "done"} : vstatus' = [vstatus EXCEPT ![cur[t]] = s]
    BY <1>12 DEF MarkFailed, MarkDone
  <2>3. \A n \in arrived : n # cur[t] => vstatus'[n] = vstatus[n]
    BY <1>0, <2>2 DEF TypeOK
  <2>4. \A n \in rows[t] : n # cur[t]
    BY <1>0, <2>1 DEF WorkInv
  <2>5. \A n \in rows[t] : Untried(n)'
    BY <1>4, <2>1, <2>3, <2>4
  <2> QED
    BY <2>1, <2>5 DEF ListInv
<1> QED
  BY <1>2, <1>3, <1>6, <1>7, <1>8, <1>9, <1>10, <1>11, <1>12 DEF PhaseStep

\* What a step of the rows is as a step of a note's life.
LEMMA FateOf ==
  ASSUME NEW n \in Note
  PROVE  /\ n \in arrived => Fate[n] = vstatus[n]
         /\ n \notin arrived => Fate[n] = "unseen"
BY DEF Fate

LEMMA FateStays ==
  ASSUME UNCHANGED <<arrived, vstatus>>
  PROVE  Fate' = Fate
BY DEF Fate

LEMMA FateChanges ==
  ASSUME TypeOK, NEW n \in Note, NEW s, vstatus' = [vstatus EXCEPT ![n] = s],
         \/ n \in arrived /\ arrived' = arrived
         \/ arrived' = arrived \cup {n}
  PROVE  Fate' = [Fate EXCEPT ![n] = s]
BY DEF Fate, TypeOK

LEMMA LifeOfAudio ==
  ASSUME TypeOK, NEW n \in Note, file' = [file EXCEPT ![n] = FALSE] \/ file' = file,
         UNCHANGED <<day, arrived, sent, vstatus, text, actionVars>>
  PROVE  [Life!LifeNext]_(Life!lifeVars)
<1> USE DEF actionVars
<1>1. Fate' = Fate
  BY FateStays
<1>2. CASE file[n] /\ file' = [file EXCEPT ![n] = FALSE]
  BY <1>1, <1>2 DEF Life!LifeNext, Life!Vanish
<1>3. CASE file' = file
  BY <1>1, <1>3 DEF Life!lifeVars
<1>4. CASE ~file[n] /\ file' = [file EXCEPT ![n] = FALSE]
  <2>1. file' = file
    BY <1>4 DEF TypeOK
  <2> QED
    BY <1>3, <2>1
<1> QED
  BY <1>2, <1>3, <1>4

LEMMA LifeOfUntried ==
  ASSUME TypeOK, NEW n \in arrived, Untried(n),
         UNCHANGED <<day, arrived, sent, file, exported, posts>>,
         \/ /\ vstatus' = [vstatus EXCEPT ![n] = "done"]
            /\ \E x \in Transcript : text' = [text EXCEPT ![n] = x]
            /\ summary' = [summary EXCEPT ![n] = "none"]
         \/ /\ vstatus' = [vstatus EXCEPT ![n] = "failed"]
            /\ UNCHANGED <<text, summary>>
         \/ /\ vstatus' = [vstatus EXCEPT ![n] = "skipped_old"]
            /\ n \in StaleVoiceNotes \/ ~file[n]
            /\ UNCHANGED <<text, summary>>
  PROVE  [Life!LifeNext]_(Life!lifeVars)
<1> USE DEF actionVars
<1>0. n \in Note
  BY DEF TypeOK
<1>1. Life!Open(n)
  BY <1>0, FateOf DEF Life!Open, Untried
<1>2. CASE /\ vstatus' = [vstatus EXCEPT ![n] = "done"]
           /\ \E x \in Transcript : text' = [text EXCEPT ![n] = x]
           /\ summary' = [summary EXCEPT ![n] = "none"]
  <2>1. Fate' = [Fate EXCEPT ![n] = "done"]
    BY <1>0, <1>2, FateChanges
  <2> QED
    BY <1>0, <1>1, <1>2, <2>1 DEF Life!LifeNext, Life!Transcribe
<1>3. CASE vstatus' = [vstatus EXCEPT ![n] = "failed"] /\ UNCHANGED <<text, summary>>
  <2>1. Fate' = [Fate EXCEPT ![n] = "failed"]
    BY <1>0, <1>3, FateChanges
  <2> QED
    BY <1>0, <1>1, <1>3, <2>1 DEF Life!LifeNext, Life!Fail
<1>4. CASE /\ vstatus' = [vstatus EXCEPT ![n] = "skipped_old"]
           /\ n \in StaleVoiceNotes \/ ~file[n]
           /\ UNCHANGED <<text, summary>>
  <2>1. Fate' = [Fate EXCEPT ![n] = "skipped_old"]
    BY <1>0, <1>4, FateChanges
  <2>2. n \in StaleVoiceNotes => Life!Late(n)
    BY <1>0, FateOf DEF StaleVoiceNotes, OlderThan, Life!Late
  <2> QED
    BY <1>0, <1>1, <1>4, <2>1, <2>2 DEF Life!LifeNext, Life!GiveUp
<1> QED
  BY <1>2, <1>3, <1>4

LEMMA LifeOfPhase ==
  ASSUME LifeInv, NEW t \in Transcriber, BeginPhase(t) \/ PhaseStep(t) \/ Crash(t)
  PROVE  [Life!LifeNext]_(Life!lifeVars)
<1> USE DEF rowVars, clockVars, actionVars
<1>0. TypeOK /\ ListInv(t)
  BY DEF LifeInv, SumInv
<1>1. CASE UNCHANGED <<day, arrived, sent, vstatus, text, file, actionVars>>
  BY <1>1, FateStays DEF Life!lifeVars
<1>2. CASE \/ BeginPhase(t) \/ EndSweep(t) \/ EndSkip(t) \/ EndPhase(t) \/ Crash(t)
           \/ ClearMediaPath(t) \/ PostAudio(t) \/ \E n \in Note : AudioExists(t, n)
  BY <1>1, <1>2 DEF BeginPhase, EndSweep, EndSkip, EndPhase, Crash, ClearMediaPath, PostAudio,
     AudioExists
<1>3. CASE SweepDelete(t) \/ SkipDelete(t) \/ DeleteTranscribed(t)
  <2>1. UNCHANGED <<day, arrived, sent, vstatus, text, actionVars>>
    BY <1>3 DEF SweepDelete, SkipDelete, DeleteTranscribed
  <2>2. \E n \in Note : file' = [file EXCEPT ![n] = FALSE] \/ file' = file
    BY <1>0, <1>3 DEF SweepDelete, SkipDelete, DeleteTranscribed, DeleteAudio, TypeOK
  <2> QED
    BY <1>0, <2>1, <2>2, LifeOfAudio
<1>4. CASE SkipMark(t)
  <2>1. /\ pc[t] = "mark" /\ vstatus' = [vstatus EXCEPT ![cur[t]] = "skipped_old"]
        /\ UNCHANGED <<day, arrived, sent, file, text, actionVars>>
    BY <1>4 DEF SkipMark, MarkSkippedOld
  <2>2. cur[t] \in StaleVoiceNotes
    BY <1>0, <2>1 DEF ListInv
  <2> QED
    BY <1>0, <2>1, <2>2, StaleIsUntried, LifeOfUntried
<1>5. ASSUME NEW n \in Note, AudioMissing(t, n)
      PROVE  [Life!LifeNext]_(Life!lifeVars)
  <2>1. /\ pc[t] = "work" /\ n \in rows[t] /\ ~file[n]
        /\ vstatus' = [vstatus EXCEPT ![n] = "skipped_old"]
        /\ UNCHANGED <<day, arrived, sent, file, text, actionVars>>
    BY <1>5 DEF AudioMissing, NextNote, MarkSkippedOld
  <2>2. n \in arrived /\ Untried(n)
    BY <1>0, <2>1 DEF ListInv, TypeOK
  <2> QED
    BY <1>0, <2>1, <2>2, LifeOfUntried
<1>6. ASSUME MarkFailed(t) \/ \E x \in Transcript : MarkDone(t, x)
      PROVE  [Life!LifeNext]_(Life!lifeVars)
  <2>1. cur[t] \in arrived /\ Untried(cur[t])
    <3>1. pc[t] \in {"read", "asked"}
      BY <1>6 DEF MarkFailed, MarkDone
    <3>2. cur[t] # NoNote /\ cur[t] \in arrived \cup {NoNote}
      BY <1>0, <3>1 DEF TypeOK
    <3> QED
      BY <1>0, <3>1, <3>2 DEF ListInv
  <2>2. UNCHANGED <<day, arrived, sent, file, exported, posts>>
    BY <1>6 DEF MarkFailed, MarkDone
  <2>3. \/ /\ vstatus' = [vstatus EXCEPT ![cur[t]] = "done"]
           /\ \E x \in Transcript : text' = [text EXCEPT ![cur[t]] = x]
           /\ summary' = [summary EXCEPT ![cur[t]] = "none"]
        \/ /\ vstatus' = [vstatus EXCEPT ![cur[t]] = "failed"]
           /\ UNCHANGED <<text, summary>>
    BY <1>6 DEF MarkFailed, MarkDone
  <2> QED
    BY <1>0, <2>1, <2>2, <2>3, LifeOfUntried
<1> QED
  BY <1>2, <1>3, <1>4, <1>5, <1>6 DEF PhaseStep

LEMMA RequestHasNote ==
  ASSUME TypeOK, NEW q \in Request, rpc[q] # "idle"
  PROVE  rnote[q] \in arrived /\ rnote[q] \in Note
<1>1. rnote[q] \in arrived \cup {NoNote} /\ rnote[q] # NoNote
  BY DEF TypeOK
<1> QED
  BY <1>1 DEF TypeOK

\* Every step of the system is a step of one note's life, or none.
LEMMA LifeStep ==
  ASSUME LifeInv, \A t, u \in Transcriber : t = u, [Next]_vars
  PROVE  LifeInv' /\ [Life!LifeNext]_(Life!lifeVars)
<1> USE DEF actionVars
<1>0. TypeOK /\ TypeOK' /\ SumInv /\ SumInv' /\ ExportInv /\ ExportInv'
  BY SumStep, ExportStep DEF LifeInv, SumInv
<1>1. ASSUME NEW t \in Transcriber, BeginPhase(t) \/ PhaseStep(t) \/ Crash(t)
      PROVE  LifeInv' /\ [Life!LifeNext]_(Life!lifeVars)
  <2>1. ListInv(t)'
    BY <1>0, <1>1, ListPhase
  <2>2. \A u \in Transcriber : u = t
    OBVIOUS
  <2>3. \A u \in Transcriber : ListInv(u)'
    BY <2>1, <2>2
  <2> QED
    BY <1>0, <1>1, <2>3, LifeOfPhase DEF LifeInv
\* Beside it days pass, notes arrive and requests are served; the lists stay good.
<1>2. ASSUME UNCHANGED scanVars, arrived \subseteq arrived', day' >= day,
             \A n \in arrived : vstatus'[n] = vstatus[n] /\ sent'[n] = sent[n]
      PROVE  LifeInv'
  <2>1. ASSUME NEW t \in Transcriber
        PROVE  ListInv(t)'
    <3>1. ListInv(t) /\ NoNote \notin arrived
      BY <1>0, NoteAssumption DEF LifeInv, TypeOK
    <3>2. /\ pc[t] \in {"skip", "mark"} =>
               \A n \in rows[t] : n # NoNote => n \in (StaleVoiceNotes)'
          /\ pc[t] = "mark" /\ cur[t] # NoNote => cur[t] \in (StaleVoiceNotes)'
          /\ pc[t] \in {"work", "read", "asked", "delete"} =>
               \A n \in rows[t] : n # NoNote => Untried(n)'
          /\ pc[t] \in {"read", "asked"} /\ cur[t] # NoNote =>
               vstatus'[cur[t]] \in {"pending", "failed"}
      BY <1>0, <1>2, <3>1, ListStays
    <3>3. /\ \A n \in rows[t] : n # NoNote
          /\ pc[t] \in {"mark", "read", "asked"} => cur[t] # NoNote
      BY <1>0, <3>1 DEF TypeOK
    <3>4. pc' = pc /\ rows' = rows /\ cur' = cur
      BY <1>2 DEF scanVars
    <3> QED
      BY <3>2, <3>3, <3>4 DEF ListInv, Untried
  <2> QED
    BY <1>0, <2>1 DEF LifeInv
<1>3. CASE Tick
  <2>1. /\ day' = day + 1 /\ day \in Nat
        /\ UNCHANGED <<rowVars, file, actionVars, scanVars>>
    BY <1>0, <1>3, BoundAssumption DEF Tick, TypeOK
  <2>2. day' >= day
    BY <2>1
  <2>3. Fate' = Fate
    BY <2>1, FateStays DEF rowVars
  <2> QED
    BY <1>2, <2>1, <2>2, <2>3 DEF rowVars, actionVars, Life!LifeNext, Life!NextDay
<1>4. ASSUME NEW n \in Note, LoseFile(n)
      PROVE  LifeInv' /\ [Life!LifeNext]_(Life!lifeVars)
  <2>1. /\ file' = [file EXCEPT ![n] = FALSE] /\ day \in Nat
        /\ UNCHANGED <<day, arrived, sent, vstatus, text, actionVars, scanVars>>
    BY <1>0, <1>4, BoundAssumption DEF LoseFile, clockVars, rowVars, actionVars, TypeOK
  <2> QED
    <3>1. [Life!LifeNext]_(Life!lifeVars)
      BY <1>0, <2>1, LifeOfAudio
    <3>2. day' >= day
      BY <2>1
    <3> QED
      BY <1>2, <2>1, <3>1, <3>2
<1>5. ASSUME NEW n \in Note, NEW d \in 0 .. MaxDay, NEW b \in BOOLEAN, Arrive(n, d, b)
      PROVE  LifeInv' /\ [Life!LifeNext]_(Life!lifeVars)
  <2>1. /\ n \notin arrived /\ arrived' = arrived \cup {n}
        /\ d \in 0 .. day /\ day \in Nat
        /\ sent' = [sent EXCEPT ![n] = d]
        /\ vstatus' = [vstatus EXCEPT ![n] = IF b THEN "pending" ELSE "failed"]
        /\ file' = [file EXCEPT ![n] = b]
        /\ UNCHANGED <<day, text, actionVars, scanVars>>
    BY <1>0, <1>5, BoundAssumption DEF Arrive, clockVars, actionVars, TypeOK
  <2>2. \A m \in arrived : vstatus'[m] = vstatus[m] /\ sent'[m] = sent[m]
    BY <1>0, <2>1 DEF TypeOK
  <2>3. LifeInv'
    BY <1>2, <2>1, <2>2
  <2>4. Fate' = [Fate EXCEPT ![n] = IF b THEN "pending" ELSE "failed"]
    BY <1>0, <2>1, FateChanges
  <2>5. Life!Receive(n)
    BY <2>1, <2>4, FateOf DEF Life!Receive
  <2> QED
    BY <2>3, <2>5 DEF Life!LifeNext
<1>6. CASE RequestStep
  <2>1. PICK q \in Request :
          \/ \E n \in Note : SummarizeMessage(q, n) \/ ExportMessageTask(q, n)
          \/ SetMessageSummary(q) \/ TaskCreated(q) \/ SetTaskExported(q) \/ RequestFails(q)
    BY <1>6 DEF RequestStep
  <2>2. UNCHANGED <<day, arrived, sent, vstatus, text, file, scanVars>> /\ day \in Nat
    BY <1>0, <2>1, BoundAssumption DEF SummarizeMessage, ExportMessageTask, SetMessageSummary,
       TaskCreated, SetTaskExported, RequestFails, clockVars, rowVars, TypeOK
  <2>3. LifeInv'
    BY <1>2, <2>2
  <2>4. Fate' = Fate
    BY <2>2, FateStays
  <2>5. CASE SetMessageSummary(q)
    <3>1. /\ rpc[q] = "summarizing" /\ summary' = [summary EXCEPT ![rnote[q]] = rtext[q]]
          /\ UNCHANGED <<exported, posts>>
      BY <2>5 DEF SetMessageSummary
    <3>2. rtext[q] = text[rnote[q]] /\ rtext[q] \in Transcript
      BY <1>0, <3>1 DEF SumInv, AskedInv
    <3>3. rnote[q] \in arrived /\ rnote[q] \in Note
      BY <1>0, <3>1, RequestHasNote
    <3>4. Fate[rnote[q]] = "done"
      BY <1>0, <3>2, <3>3, FateOf, TextAssumption DEF SumInv
    <3> QED
      BY <2>2, <2>3, <2>4, <3>1, <3>2, <3>3, <3>4 DEF Life!LifeNext, Life!Summarize
  <2>6. CASE TaskCreated(q)
    <3>1. /\ rpc[q] = "exporting" /\ posts' = [posts EXCEPT ![rnote[q]] = @ + 1]
          /\ UNCHANGED <<summary, exported>>
      BY <2>6 DEF TaskCreated
    <3>2. rnote[q] \in arrived /\ rnote[q] \in Note
      BY <1>0, <3>1, RequestHasNote
    <3>3. Fate[rnote[q]] # "unseen"
      BY <1>0, <3>2, FateOf DEF TypeOK
    <3> QED
      BY <2>2, <2>3, <2>4, <3>1, <3>2, <3>3 DEF Life!LifeNext, Life!Post
  <2>7. CASE SetTaskExported(q)
    <3>1. /\ rpc[q] = "created" /\ exported' = [exported EXCEPT ![rnote[q]] = TRUE]
          /\ UNCHANGED <<summary, posts>>
      BY <2>7 DEF SetTaskExported
    <3>2. rnote[q] \in arrived /\ rnote[q] \in Note
      BY <1>0, <3>1, RequestHasNote
    <3>3. posts[rnote[q]] > 0
      BY <1>0, <3>1 DEF ExportInv
    <3> QED
      BY <2>2, <2>3, <2>4, <3>1, <3>2, <3>3 DEF Life!LifeNext, Life!Mark
  <2>8. CASE UNCHANGED actionVars
    BY <2>2, <2>3, <2>4, <2>8 DEF Life!lifeVars
  <2>9. SetMessageSummary(q) \/ TaskCreated(q) \/ SetTaskExported(q) \/ UNCHANGED actionVars
    BY <2>1 DEF SummarizeMessage, ExportMessageTask, RequestFails
  <2> QED
    BY <2>5, <2>6, <2>7, <2>8, <2>9
<1>7. CASE UNCHANGED vars
  <2>1. /\ UNCHANGED <<day, arrived, sent, vstatus, text, actionVars, file, scanVars>>
        /\ day \in Nat
    BY <1>0, <1>7, BoundAssumption DEF vars, clockVars, rowVars, actionVars, TypeOK
  <2> QED
    BY <1>2, <2>1, FateStays DEF Life!lifeVars
<1> QED
  BY <1>1, <1>3, <1>4, <1>5, <1>6, <1>7 DEF Next

\* While one transcription phase runs at a time, every note lives the life NoteLife
\* describes: it is decided once, and given up only when its audio is gone or its
\* window is over, although phases work through lists they read before.
THEOREM NotesLiveTheirLives ==
  ASSUME \A t, u \in Transcriber : t = u
  PROVE  Spec => ImplementsNoteLife
<1>1. Init => LifeInv /\ Life!LifeInit
  <2>1. Init => SumInv /\ ExportInv
    BY SumInit DEF Init, ExportInv, ExportHasTask
  <2>2. Init => \A t \in Transcriber : ListInv(t)
    BY DEF Init, ListInv
  <2>3. Init => Life!LifeInit
    BY DEF Init, Life!LifeInit, Fate
  <2> QED
    BY <2>1, <2>2, <2>3 DEF LifeInv
<1>2. LifeInv /\ [Next]_vars => LifeInv' /\ [Life!LifeNext]_(Life!lifeVars)
  BY LifeStep
<1> QED
  BY <1>1, <1>2, PTL DEF Spec, ImplementsNoteLife, Life!LifeSpec
=============================================================================
