------------------------------ MODULE NoteLife ------------------------------
(***************************************************************************)
(* What becomes of a voice note, without phases, lists, requests or media  *)
(* paths: it is open until it is transcribed or given up, either for good; *)
(* only age or lost audio gives it up; a summary is made of the transcript *)
(* it stands beside; and a note is shown as sent to task-os once a task    *)
(* was created for it.                                                     *)
(***************************************************************************)
EXTENDS Naturals

CONSTANTS
  Note, Transcript,
  Window,         \* the age a note may reach before it is tried
  FailedWindow    \* the age it may reach when it was tried and failed

VARIABLES
  today,
  fate,     \* "unseen", "pending", "failed", "done" or "skipped_old"
  sentOn,   \* the day the note was sent
  onDisk,   \* its audio is there
  text,     \* the placeholder or its transcript
  summary,  \* the text its summary was made of, or "none"
  tasks,    \* how many tasks were created for it
  marked    \* it is shown as sent to task-os

lifeVars == <<today, fate, sentOn, onDisk, text, summary, tasks, marked>>

LifeInit ==
  /\ today = 0
  /\ fate = [n \in Note |-> "unseen"]
  /\ sentOn = [n \in Note |-> 0]
  /\ onDisk = [n \in Note |-> FALSE]
  /\ text = [n \in Note |-> "placeholder"]
  /\ summary = [n \in Note |-> "none"]
  /\ tasks = [n \in Note |-> 0] /\ marked = [n \in Note |-> FALSE]

Open(n) == fate[n] \in {"pending", "failed"}

Late(n) ==
  \/ fate[n] = "pending" /\ sentOn[n] + Window < today
  \/ fate[n] = "failed" /\ sentOn[n] + FailedWindow < today

NextDay == today' = today + 1 /\ UNCHANGED <<fate, sentOn, onDisk, text, summary, tasks, marked>>

\* A note comes with its audio, or as one whose download failed.
Receive(n) ==
  /\ fate[n] = "unseen"
  /\ \E downloaded \in BOOLEAN, d \in 0 .. today :
       /\ fate' = [fate EXCEPT ![n] = IF downloaded THEN "pending" ELSE "failed"]
       /\ sentOn' = [sentOn EXCEPT ![n] = d]
       /\ onDisk' = [onDisk EXCEPT ![n] = downloaded]
  /\ UNCHANGED <<today, text, summary, tasks, marked>>

\* Audio is deleted or lost, and never comes back.
Vanish(n) ==
  /\ onDisk[n]
  /\ onDisk' = [onDisk EXCEPT ![n] = FALSE]
  /\ UNCHANGED <<today, fate, sentOn, text, summary, tasks, marked>>

Transcribe(n) ==
  /\ Open(n)
  /\ fate' = [fate EXCEPT ![n] = "done"]
  /\ \E x \in Transcript : text' = [text EXCEPT ![n] = x]
  /\ summary' = [summary EXCEPT ![n] = "none"]
  /\ UNCHANGED <<today, sentOn, onDisk, tasks, marked>>

Fail(n) ==
  /\ Open(n)
  /\ fate' = [fate EXCEPT ![n] = "failed"]
  /\ UNCHANGED <<today, sentOn, onDisk, text, summary, tasks, marked>>

\* No note that could still be transcribed is given up.
GiveUp(n) ==
  /\ Late(n) \/ (Open(n) /\ ~onDisk[n])
  /\ fate' = [fate EXCEPT ![n] = "skipped_old"]
  /\ UNCHANGED <<today, sentOn, onDisk, text, summary, tasks, marked>>

Summarize(n) ==
  /\ fate[n] = "done"
  /\ summary' = [summary EXCEPT ![n] = text[n]]
  /\ UNCHANGED <<today, fate, sentOn, onDisk, text, tasks, marked>>

\* A retry after a lost answer creates another task.
Post(n) ==
  /\ fate[n] # "unseen"
  /\ tasks' = [tasks EXCEPT ![n] = @ + 1]
  /\ UNCHANGED <<today, fate, sentOn, onDisk, text, summary, marked>>

Mark(n) ==
  /\ tasks[n] > 0
  /\ marked' = [marked EXCEPT ![n] = TRUE]
  /\ UNCHANGED <<today, fate, sentOn, onDisk, text, summary, tasks>>

LifeNext ==
  \/ NextDay
  \/ \E n \in Note :
       \/ Receive(n) \/ Vanish(n) \/ Transcribe(n)
       \/ Fail(n) \/ GiveUp(n) \/ Summarize(n)
       \/ Post(n) \/ Mark(n)

LifeSpec == LifeInit /\ [][LifeNext]_lifeVars
=============================================================================
