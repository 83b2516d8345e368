---------------------------- MODULE ScanPipeline ----------------------------
(***************************************************************************)
(* The message pipeline of Family Radar: the SQLite store (chats, messages,*)
(* per-chat review cursors, runs, analysis items), the processes that run  *)
(* `scan` against it, and the operator and connector activity that goes on *)
(* at the same time.                                                       *)
(*                                                                         *)
(* Every store function commits on its own, so each action below is one    *)
(* committed write (or one read) of the code, and scanners, the ingest of  *)
(* another process and the operator interleave between them.  A chat is    *)
(* its row id, a message its AUTOINCREMENT ingestion id.                   *)
(***************************************************************************)
EXTENDS Naturals

CONSTANTS
  Chat,           \* chat row ids, a set of naturals (0 is no chat)
  GmailChat,      \* the chats whose source is gmail; the others are WhatsApp
  Scanner,        \* processes that may be inside scan() at the same time
  Mode,           \* the run modes that may be started
  Transcribing,   \* config.transcription.enabled
  Settable,       \* the statuses the operator may give a chat
  Link,           \* the <<child, parent>> pairs the operator may link
  Kind,           \* what arrives: "text", "pending" or "nomedia" voice notes
  Verdict,        \* the action_required answers of Stage 1 and 2
  Outcome,        \* what a dispatch may report
  MaxMessage,     \* bound: ingestion ids 1..MaxMessage
  MaxTime,        \* bound: send times 1..MaxTime
  MaxRun          \* bound: review_runs ids 1..MaxRun

ASSUME ChatAssumption    == Chat \subseteq Nat \ {0} /\ GmailChat \subseteq Chat
ASSUME BoundAssumption   == MaxMessage \in Nat /\ MaxTime \in Nat /\ MaxRun \in Nat
ASSUME TranscribingAssumption == Transcribing \in BOOLEAN
\* `review --dry-run` is mode process with deliver=False: cursors move, nothing is sent.
ASSUME ModeAssumption    == Mode \subseteq {"live", "process", "process_withheld", "dry_run"}
ASSUME InputAssumption ==
  /\ Settable \subseteq {"discovered", "monitored", "ignored"}
  /\ Link \subseteq Chat \X Chat
  /\ Kind \subseteq {"text", "pending", "nomedia"}
  /\ Verdict \subseteq BOOLEAN
  /\ Outcome \subseteq {"sent", "failed", "skipped"}

VARIABLES
  \* chats
  status,       \* chats.status; "deleted" once retention removed the row
  parent,       \* chats.parent_chat_id, 0 for NULL
  \* messages
  lastId,       \* the AUTOINCREMENT high-water mark
  stored,       \* ids of the rows present
  chatOf,       \* messages.chat_id
  sentAt,       \* messages.message_timestamp
  voice,        \* messages.transcription_status, with media_path folded in
  \* chat_review_state, and the history it is judged by
  cursor,       \* last_processed_message_id, 0 when the chat has no row
  reviewed,     \* history: ids whose verdict and trace a cursor-moving run committed
  baselined,    \* history: ids a baseline put behind the cursor
  \* review_runs
  lastRun, runMode, runStatus,
  runNotice,    \* notification_status
  \* analysis_items, notifications, and what reached the operator
  items, notified, surfaced,
  \* the monitor handler between set_chat_status and baseline_cursor
  marking,
  \* the position and the locals of each running scan()
  pc, run, okSources, batch, todo, head, delta, left, fault, notice

chatVars    == <<status, parent>>
messageVars == <<lastId, stored, chatOf, sentAt>>
reviewVars  == <<cursor, reviewed, baselined>>
storeVars   == <<chatVars, messageVars, voice, reviewVars, marking>>
runVars     == <<lastRun, runMode, runStatus, runNotice>>
alertVars   == <<items, notified, surfaced>>
localVars   == <<run, okSources, batch, todo, head, delta, left, fault, notice>>
scanVars    == <<pc, localVars>>
vars        == <<storeVars, runVars, alertVars, scanVars>>

MessageId   == 1 .. MaxMessage
Time        == 1 .. MaxTime
RunId       == 1 .. MaxRun
Source      == {"whatsapp", "gmail"}
ChatStatus  == {"discovered", "monitored", "ignored"}
\* "nomedia" is a voice note recorded 'failed' with no media_path.
VoiceStatus == {"text", "pending", "failed", "nomedia", "done", "skipped_old"}
Item        == [run : RunId, chat : Chat, actionable : BOOLEAN]
Step        == {"idle", "sync", "transcribe", "select", "next", "analyze",
                "trace", "advance", "deliver", "close", "funnel"}
Fault       == {"none", "errors", "aborted"}
Delivery    == {"sent", "failed", "skipped"}
Notice      == Delivery \cup {"unset", "none", "dry_run", "offline", "classifier_offline"}
RunStatus   == {"unused", "running", "completed", "completed_with_errors", "failed"}

\* Every variable keeps its type: ids stay within what has been ingested, and a
\* scan's locals name existing chats, runs and messages.
TypeOK ==
  /\ status \in [Chat -> ChatStatus \cup {"deleted"}]
  /\ parent \in [Chat -> Chat \cup {0}]
  /\ lastId \in 0 .. MaxMessage
  /\ stored \subseteq 1 .. lastId
  /\ chatOf \in [MessageId -> Chat \cup {0}]
  /\ \A m \in 1 .. lastId : chatOf[m] \in Chat
  /\ sentAt \in [MessageId -> Time \cup {0}]
  /\ voice \in [MessageId -> VoiceStatus]
  /\ cursor \in [Chat -> 0 .. lastId]
  /\ reviewed \subseteq 1 .. lastId
  /\ baselined \subseteq 1 .. lastId
  /\ lastRun \in 0 .. MaxRun
  /\ runMode \in [RunId -> Mode \cup {"none"}]
  /\ runStatus \in [RunId -> RunStatus]
  /\ runNotice \in [RunId -> Notice]
  /\ items \subseteq Item
  /\ notified \in [RunId -> Delivery \cup {"unset"}]
  /\ surfaced \subseteq Item
  /\ marking \in Chat \cup {0}
  /\ pc \in [Scanner -> Step]
  /\ run \in [Scanner -> 0 .. lastRun]
  /\ okSources \in [Scanner -> SUBSET Source]
  /\ batch \in [Scanner -> SUBSET (1 .. lastId)]
  /\ todo \in [Scanner -> SUBSET Chat]
  /\ head \in [Scanner -> Chat \cup {0}]
  /\ delta \in [Scanner -> SUBSET (1 .. lastId)]
  /\ left \in [Scanner -> SUBSET Chat]
  /\ fault \in [Scanner -> Fault]
  /\ notice \in [Scanner -> Notice]

Init ==
  /\ status = [c \in Chat |-> "discovered"]
  /\ parent = [c \in Chat |-> 0]
  /\ lastId = 0
  /\ stored = {}
  /\ chatOf = [m \in MessageId |-> 0]
  /\ sentAt = [m \in MessageId |-> 0]
  /\ voice = [m \in MessageId |-> "text"]
  /\ cursor = [c \in Chat |-> 0]
  /\ reviewed = {}
  /\ baselined = {}
  /\ lastRun = 0
  /\ runMode = [r \in RunId |-> "none"]
  /\ runStatus = [r \in RunId |-> "unused"]
  /\ runNotice = [r \in RunId |-> "unset"]
  /\ items = {}
  /\ notified = [r \in RunId |-> "unset"]
  /\ surfaced = {}
  /\ marking = 0
  /\ pc = [p \in Scanner |-> "idle"]
  /\ run = [p \in Scanner |-> 0]
  /\ okSources = [p \in Scanner |-> {}]
  /\ batch = [p \in Scanner |-> {}]
  /\ todo = [p \in Scanner |-> {}]
  /\ head = [p \in Scanner |-> 0]
  /\ delta = [p \in Scanner |-> {}]
  /\ left = [p \in Scanner |-> {}]
  /\ fault = [p \in Scanner |-> "none"]
  /\ notice = [p \in Scanner |-> "unset"]

-----------------------------------------------------------------------------
(* Reads of the store. *)

SourceOf(c) == IF c \in GmailChat THEN "gmail" ELSE "whatsapp"
Exists(c) == status[c] # "deleted"

IsMax(m, S) == m \in S /\ \A n \in S : n <= m

FamilyMemberIds(h) == {h} \cup {c \in Chat : parent[c] = h}
MonitoredChats == {c \in Chat : status[c] = "monitored" /\ parent[c] = 0}

MessagesForChat(c) == {m \in stored : chatOf[m] = c}
MessagesSinceCursor(c) == {m \in MessagesForChat(c) : m > cursor[c]}
FamilyDeltaReplay(h) == UNION {MessagesForChat(c) : c \in FamilyMemberIds(h)}
FamilyDeltaSinceCursor(h) == UNION {MessagesSinceCursor(c) : c \in FamilyMemberIds(h)}

\* A downloaded voice note whose transcript does not exist yet.
Untranscribed(m) == voice[m] \in {"pending", "failed"}

\* Mutant: the notes are taken out, what was ingested after them stays.
DropUntranscribed(D) == {m \in D : ~Untranscribed(m)}

\* Mutant: a failed note is not waited for.
HoldBackPending(D) == {m \in D : \A n \in D : voice[n] = "pending" => m < n}

\* Cut the delta before the earliest untranscribed note, by ingestion id.
HoldBackUntranscribed(D) ==
  {m \in D : \A n \in D : Untranscribed(n) => m < n}

\* Mutant: a failed source's cached messages are analysed too.
FromAnySource(p, D) == D

FromSyncedSource(p, D) == {m \in D : SourceOf(chatOf[m]) \in okSources[p]}

ChatDelta(p, h) ==
  LET mode   == runMode[run[p]]
      read   == IF mode = "dry_run" THEN FamilyDeltaReplay(h)
                                    ELSE FamilyDeltaSinceCursor(h)
      synced == IF mode = "live" THEN FromSyncedSource(p, read) ELSE read
  IN  IF mode # "dry_run" /\ Transcribing THEN HoldBackUntranscribed(synced)
                                          ELSE synced

ActionableItemsForRun(r) == {i \in items : i.run = r /\ i.actionable}

\* The alert memory handed to Stage 2: what a family's other runs raised.
RecentActionableItems(h, r) ==
  {i \in items : /\ i.actionable
                 /\ i.chat \in FamilyMemberIds(h)
                 /\ runMode[i.run] # "dry_run"
                 /\ i.run # r}

MovesCursors(p) == runMode[run[p]] # "dry_run"
Delivers(p)     == runMode[run[p]] \in {"live", "process"}

-----------------------------------------------------------------------------
(* Sync: any process that ingests (a live scan, `wr ingest`, `wr resync`). *)

\* INSERT OR IGNORE of one new row.  Send times are not monotone in ingestion.
InsertMessage(c, t, v) ==
  /\ lastId < MaxMessage
  /\ Exists(c)
  /\ v # "text" => c \notin GmailChat
  /\ lastId' = lastId + 1
  /\ stored' = stored \cup {lastId + 1}
  /\ chatOf' = [chatOf EXCEPT ![lastId + 1] = c]
  /\ sentAt' = [sentAt EXCEPT ![lastId + 1] = t]
  /\ voice' = [voice EXCEPT ![lastId + 1] = v]
  /\ UNCHANGED <<chatVars, reviewVars, marking, runVars, alertVars, scanVars>>

\* Retention after a successful Gmail sync: old mail of unmonitored senders goes,
\* with the cursors that point at it and the discovered senders left empty.
PruneGmailUnmonitored(cutoff) ==
  LET pruned == {m \in stored : /\ chatOf[m] \in GmailChat
                                /\ status[chatOf[m]] # "monitored"
                                /\ sentAt[m] < cutoff}
      gone   == {c \in GmailChat : /\ status[c] = "discovered"
                                   /\ MessagesForChat(c) \subseteq pruned}
  IN  /\ pruned # {}
      /\ stored' = stored \ pruned
      /\ status' = [c \in Chat |-> IF c \in gone THEN "deleted" ELSE status[c]]
      /\ cursor' = [c \in Chat |-> IF cursor[c] \in pruned \/ c \in gone
                                   THEN 0 ELSE cursor[c]]
      /\ parent' = [c \in Chat |-> IF c \in gone \/ parent[c] \in gone
                                   THEN 0 ELSE parent[c]]
      /\ items' = {i \in items : i.chat \notin gone}
      /\ UNCHANGED <<lastId, chatOf, sentAt, voice, reviewed, baselined, marking,
                     runVars, notified, surfaced, scanVars>>

-----------------------------------------------------------------------------
(* The operator: chat status and family links. *)

\* First commit of the monitor handler, or the whole of the other two.
SetChatStatus(c, s) ==
  /\ marking = 0
  /\ Exists(c)
  /\ status[c] # s
  /\ status' = [status EXCEPT ![c] = s]
  /\ marking' = IF s = "monitored" THEN c ELSE 0
  /\ UNCHANGED <<parent, messageVars, voice, reviewVars, runVars, alertVars,
                 scanVars>>

\* Mutant: baselines on the id the next message will get.
BaselinePastEnd ==
  /\ marking # 0
  /\ marking' = 0
  /\ cursor' = [cursor EXCEPT ![marking] = lastId + 1]
  /\ baselined' = baselined \cup MessagesForChat(marking)
  /\ UNCHANGED <<chatVars, messageVars, voice, reviewed, runVars, alertVars,
                 scanVars>>

\* Second commit: a chat with no cursor row starts past what is already stored.
BaselineCursor ==
  /\ marking # 0
  /\ marking' = 0
  /\ \/ /\ cursor[marking] = 0
        /\ \E m \in MessageId :
             /\ IsMax(m, MessagesForChat(marking))
             /\ cursor' = [cursor EXCEPT ![marking] = m]
        /\ baselined' = baselined \cup MessagesForChat(marking)
     \/ /\ cursor[marking] # 0 \/ MessagesForChat(marking) = {}
        /\ UNCHANGED <<cursor, baselined>>
  /\ UNCHANGED <<chatVars, messageVars, voice, reviewed, runVars, alertVars,
                 scanVars>>

LinkChats(child, p) ==
  /\ marking = 0
  /\ Exists(child) /\ Exists(p)
  /\ child # p
  /\ parent[p] = 0
  /\ \A c \in Chat : parent[c] # child
  /\ parent[child] # p
  /\ parent' = [parent EXCEPT ![child] = p]
  /\ UNCHANGED <<status, messageVars, voice, reviewVars, marking, runVars,
                 alertVars, scanVars>>

UnlinkChat(child) ==
  /\ marking = 0
  /\ parent[child] # 0
  /\ parent' = [parent EXCEPT ![child] = 0]
  /\ UNCHANGED <<status, messageVars, voice, reviewVars, marking, runVars,
                 alertVars, scanVars>>

Operator ==
  \/ \E c \in Chat, s \in Settable : SetChatStatus(c, s)
  \/ BaselineCursor
  \/ \E l \in Link : LinkChats(l[1], l[2])
  \/ \E c \in Chat : UnlinkChat(c)

-----------------------------------------------------------------------------
(* scan(): start, sync, transcription, selection. *)

BeginScan(p, mode) ==
  /\ pc[p] = "idle"
  /\ lastRun < MaxRun
  /\ lastRun' = lastRun + 1
  /\ runMode' = [runMode EXCEPT ![lastRun + 1] = mode]
  /\ runStatus' = [runStatus EXCEPT ![lastRun + 1] = "running"]
  /\ run' = [run EXCEPT ![p] = lastRun + 1]
  /\ pc' = [pc EXCEPT ![p] = IF mode = "live" THEN "sync" ELSE "select"]
  /\ UNCHANGED <<storeVars, runNotice, alertVars, okSources, batch, todo, head,
                 delta, left, fault, notice>>

\* Some source synced; a failed one only marks the run.  The batch of the
\* transcription phase is read: the notes to skip as stale or to transcribe.
SyncSources(p, ok) ==
  /\ pc[p] = "sync"
  /\ ok # {}
  /\ okSources' = [okSources EXCEPT ![p] = ok]
  /\ fault' = [fault EXCEPT ![p] = IF ok = Source THEN "none" ELSE "errors"]
  /\ batch' = [batch EXCEPT ![p] =
       IF Transcribing
       THEN {m \in stored : Untranscribed(m) \/ voice[m] = "nomedia"} ELSE {}]
  /\ pc' = [pc EXCEPT ![p] = "transcribe"]
  /\ UNCHANGED <<storeVars, runVars, alertVars, run, todo, head, delta, left,
                 notice>>

\* No source came up: nothing is read and the run closes as failed.
AbortOffline(p) ==
  /\ pc[p] = "sync"
  /\ fault' = [fault EXCEPT ![p] = "aborted"]
  /\ notice' = [notice EXCEPT ![p] = "offline"]
  /\ pc' = [pc EXCEPT ![p] = "close"]
  /\ UNCHANGED <<storeVars, runVars, alertVars, run, okSources, batch, todo, head,
                 delta, left>>

\* One note of the batch gets its outcome, whatever another scan made of it since.
MarkTranscription(p, m, v) ==
  /\ pc[p] = "transcribe"
  /\ m \in batch[p]
  /\ v \in {"done", "failed", "skipped_old"}
  /\ voice[m] = "nomedia" => v = "skipped_old"
  /\ voice' = [voice EXCEPT ![m] = v]
  /\ batch' = [batch EXCEPT ![p] = @ \ {m}]
  /\ UNCHANGED <<chatVars, messageVars, reviewVars, marking, runVars, alertVars,
                 pc, run, okSources, todo, head, delta, left, fault, notice>>

\* The batch is over, or the backend is down and the rest stays as it is.
EndTranscription(p) ==
  /\ pc[p] = "transcribe"
  /\ batch' = [batch EXCEPT ![p] = {}]
  /\ pc' = [pc EXCEPT ![p] = "select"]
  /\ UNCHANGED <<storeVars, runVars, alertVars, run, okSources, todo, head, delta,
                 left, fault, notice>>

SelectMonitored(p) ==
  /\ pc[p] = "select"
  /\ todo' = [todo EXCEPT ![p] = MonitoredChats]
  /\ pc' = [pc EXCEPT ![p] = "next"]
  /\ UNCHANGED <<storeVars, runVars, alertVars, run, okSources, batch, head, delta,
                 left, fault, notice>>

\* The loop head: the next family in id order, skipped when it has no delta.
NextChat(p) ==
  /\ pc[p] = "next"
  /\ \E h \in todo[p] :
       /\ \A c \in todo[p] : h <= c
       /\ todo' = [todo EXCEPT ![p] = @ \ {h}]
       /\ \/ /\ ChatDelta(p, h) = {}
             /\ UNCHANGED <<pc, head, delta>>
          \/ /\ ChatDelta(p, h) # {}
             /\ head' = [head EXCEPT ![p] = h]
             /\ delta' = [delta EXCEPT ![p] = ChatDelta(p, h)]
             /\ pc' = [pc EXCEPT ![p] = "analyze"]
  /\ UNCHANGED <<storeVars, runVars, alertVars, run, okSources, batch, left, fault,
                 notice>>

EndOfChats(p) ==
  /\ pc[p] = "next"
  /\ todo[p] = {}
  /\ pc' = [pc EXCEPT ![p] = "deliver"]
  /\ UNCHANGED <<storeVars, runVars, alertVars, localVars>>

-----------------------------------------------------------------------------
(* scan(): one family's verdict.  Its rows name the head chat, so they fail    *)
(* (and the scan dies, see Crash) once retention has deleted it.               *)

\* A Stage-1 reject or a parsed Stage-2 answer: the item row is committed.
PersistAnalysisResult(p, actionable) ==
  /\ pc[p] = "analyze"
  /\ Exists(head[p])
  /\ items' = items \cup
       {[run |-> run[p], chat |-> head[p], actionable |-> actionable]}
  /\ pc' = [pc EXCEPT ![p] = "trace"]
  /\ UNCHANGED <<storeVars, runVars, notified, surfaced, localVars>>

\* Mutant: an unparseable answer advances the cursors like a verdict.
FailureAdvances(p) ==
  /\ pc[p] = "analyze"
  /\ fault' = [fault EXCEPT ![p] = "errors"]
  /\ left' = [left EXCEPT ![p] = IF MovesCursors(p) THEN {chatOf[m] : m \in delta[p]}
                                                  ELSE {}]
  /\ pc' = [pc EXCEPT ![p] = "advance"]
  /\ UNCHANGED <<storeVars, runVars, alertVars, run, okSources, batch, todo, head, delta,
                 notice>>

\* ContractError: a trace, no item and no advance; the next chat is analysed.
ContractFailure(p) ==
  /\ pc[p] = "analyze"
  /\ Exists(head[p])
  /\ fault' = [fault EXCEPT ![p] = "errors"]
  /\ head' = [head EXCEPT ![p] = 0]
  /\ delta' = [delta EXCEPT ![p] = {}]
  /\ pc' = [pc EXCEPT ![p] = "next"]
  /\ UNCHANGED <<storeVars, runVars, alertVars, run, okSources, batch, todo, left,
                 notice>>

\* Mutant: the abort closes the run without its digest.
AbortWithoutDigest(p) ==
  /\ pc[p] = "analyze"
  /\ fault' = [fault EXCEPT ![p] = "aborted"]
  /\ notice' = [notice EXCEPT ![p] = "classifier_offline"]
  /\ pc' = [pc EXCEPT ![p] = "close"]
  /\ UNCHANGED <<storeVars, runVars, alertVars, run, okSources, batch, todo, head,
                 delta, left>>

\* ClassifierUnavailable: the run stops here and goes straight to delivery.
ClassifierAbort(p) ==
  /\ pc[p] = "analyze"
  /\ fault' = [fault EXCEPT ![p] = "aborted"]
  /\ todo' = [todo EXCEPT ![p] = {}]
  /\ head' = [head EXCEPT ![p] = 0]
  /\ delta' = [delta EXCEPT ![p] = {}]
  /\ pc' = [pc EXCEPT ![p] = "deliver"]
  /\ UNCHANGED <<storeVars, runVars, alertVars, run, okSources, batch, left,
                 notice>>

\* write_trace, then the chats whose cursor must move: every chat of the delta.
WriteTrace(p) ==
  /\ pc[p] = "trace"
  /\ Exists(head[p])
  /\ IF MovesCursors(p)
     THEN /\ reviewed' = reviewed \cup delta[p]
          /\ left' = [left EXCEPT ![p] = {chatOf[m] : m \in delta[p]}]
     ELSE UNCHANGED <<reviewed, left>>
  /\ pc' = [pc EXCEPT ![p] = "advance"]
  /\ UNCHANGED <<chatVars, messageVars, voice, cursor, baselined, marking, runVars,
                 alertVars, run, okSources, batch, todo, head, delta, fault, notice>>

\* Mutant: the last sent message, as delta[-1] would give.
LastSent(p, c, m) ==
  LET part == {n \in delta[p] : chatOf[n] = c}
  IN  /\ m \in part
      /\ \A n \in part \ {m} : sentAt[n] < sentAt[m] \/ (sentAt[n] = sentAt[m] /\ n < m)

\* Mutant: the last message stored by now, not the last one analysed.
LastStored(p, c, m) == IsMax(m, MessagesForChat(c))

\* The last ingested message of a chat's part of the delta, not the last sent.
CursorTarget(p, c, m) == IsMax(m, {n \in delta[p] : chatOf[n] = c})

\* advance_family_cursors: one upsert per member.  The row references the message.
AdvanceCursor(p, c) ==
  /\ pc[p] = "advance"
  /\ c \in left[p]
  /\ \E m \in stored :
       /\ CursorTarget(p, c, m)
       /\ cursor' = [cursor EXCEPT ![c] = m]
  /\ left' = [left EXCEPT ![p] = @ \ {c}]
  /\ UNCHANGED <<chatVars, messageVars, voice, reviewed, baselined, marking,
                 runVars, alertVars, pc, run, okSources, batch, todo, head, delta,
                 fault, notice>>

EndOfAdvance(p) ==
  /\ pc[p] = "advance"
  /\ left[p] = {}
  /\ head' = [head EXCEPT ![p] = 0]
  /\ delta' = [delta EXCEPT ![p] = {}]
  /\ pc' = [pc EXCEPT ![p] = "next"]
  /\ UNCHANGED <<storeVars, runVars, alertVars, run, okSources, batch, todo, left,
                 fault, notice>>

-----------------------------------------------------------------------------
(* scan(): the digest, the end of the run, and processes that die. *)

\* Only a digest with items is dispatched, and only by a delivering run.
DeliverDigest(p, outcome) ==
  /\ pc[p] = "deliver"
  /\ Delivers(p)
  /\ ActionableItemsForRun(run[p]) # {}
  /\ notified' = [notified EXCEPT ![run[p]] = outcome]
  /\ notice' = [notice EXCEPT ![p] = outcome]
  /\ surfaced' = IF outcome = "sent" THEN surfaced \cup ActionableItemsForRun(run[p])
                                     ELSE surfaced
  /\ pc' = [pc EXCEPT ![p] = "close"]
  /\ UNCHANGED <<storeVars, runVars, items, run, okSources, batch, todo, head,
                 delta, left, fault>>

WithholdDigest(p) ==
  /\ pc[p] = "deliver"
  /\ Delivers(p) => ActionableItemsForRun(run[p]) = {}
  /\ notice' = [notice EXCEPT ![p] =
       IF fault[p] = "aborted" THEN "classifier_offline"
       ELSE IF runMode[run[p]] = "dry_run" \/ ActionableItemsForRun(run[p]) # {}
            THEN "dry_run" ELSE "none"]
  /\ pc' = [pc EXCEPT ![p] = "close"]
  /\ UNCHANGED <<storeVars, runVars, alertVars, run, okSources, batch, todo, head,
                 delta, left, fault>>

\* finish_run commits the status, record_run_funnel the notification status.
FinishRun(p) ==
  /\ pc[p] = "close"
  /\ runStatus' = [runStatus EXCEPT ![run[p]] =
       CASE fault[p] = "aborted" -> "failed"
         [] fault[p] = "errors"  -> "completed_with_errors"
         [] OTHER                -> "completed"]
  /\ pc' = [pc EXCEPT ![p] = "funnel"]
  /\ UNCHANGED <<storeVars, lastRun, runMode, runNotice, alertVars, localVars>>

\* The locals of a scan that is over.
Reset(p) ==
  /\ pc' = [pc EXCEPT ![p] = "idle"]
  /\ run' = [run EXCEPT ![p] = 0]
  /\ okSources' = [okSources EXCEPT ![p] = {}]
  /\ batch' = [batch EXCEPT ![p] = {}]
  /\ todo' = [todo EXCEPT ![p] = {}]
  /\ head' = [head EXCEPT ![p] = 0]
  /\ delta' = [delta EXCEPT ![p] = {}]
  /\ left' = [left EXCEPT ![p] = {}]
  /\ fault' = [fault EXCEPT ![p] = "none"]
  /\ notice' = [notice EXCEPT ![p] = "unset"]

RecordRunFunnel(p) ==
  /\ pc[p] = "funnel"
  /\ runNotice' = [runNotice EXCEPT ![run[p]] = notice[p]]
  /\ Reset(p)
  /\ UNCHANGED <<storeVars, lastRun, runMode, runStatus, alertVars>>

\* The process is killed, or a row it writes references a chat or a message that
\* retention deleted and the IntegrityError ends it.  The run row stays as it is.
Crash(p) ==
  /\ pc[p] # "idle"
  /\ Reset(p)
  /\ UNCHANGED <<storeVars, runVars, alertVars>>

\* `wr notify [--run r]`: deliver a recorded run's digest, whatever its mode.
Notify(r, outcome) ==
  /\ r <= lastRun
  /\ ActionableItemsForRun(r) # {}
  /\ notified' = [notified EXCEPT ![r] = outcome]
  /\ surfaced' = IF outcome = "sent" THEN surfaced \cup ActionableItemsForRun(r)
                                     ELSE surfaced
  /\ UNCHANGED <<storeVars, runVars, items, scanVars>>

ScanStep(p) ==
  \/ \E ok \in SUBSET Source : SyncSources(p, ok)
  \/ AbortOffline(p)
  \/ \E m \in MessageId, v \in VoiceStatus : MarkTranscription(p, m, v)
  \/ EndTranscription(p)
  \/ SelectMonitored(p)
  \/ NextChat(p)
  \/ EndOfChats(p)
  \/ \E b \in Verdict : PersistAnalysisResult(p, b)
  \/ ContractFailure(p)
  \/ ClassifierAbort(p)
  \/ WriteTrace(p)
  \/ \E c \in Chat : AdvanceCursor(p, c)
  \/ EndOfAdvance(p)
  \/ \E d \in Outcome : DeliverDigest(p, d)
  \/ WithholdDigest(p)
  \/ FinishRun(p)
  \/ RecordRunFunnel(p)

\* Nothing dies, and retention deletes nothing.
Undisturbed ==
  \/ \E c \in Chat, t \in Time, v \in Kind : InsertMessage(c, t, v)
  \/ Operator
  \/ \E p \in Scanner, mode \in Mode : BeginScan(p, mode)
  \/ \E p \in Scanner : ScanStep(p)
  \/ \E r \in RunId, d \in Outcome : Notify(r, d)

Next ==
  \/ Undisturbed
  \/ \E t \in 1 .. MaxTime + 1 : PruneGmailUnmonitored(t)
  \/ \E p \in Scanner : Crash(p)

Spec == Init /\ [][Next]_vars
UndisturbedSpec == Init /\ [][Undisturbed]_vars

-----------------------------------------------------------------------------
(* Properties. *)

\* At-least-once review.  Whatever a chat's cursor has passed was either given a
\* persisted verdict by a cursor-moving run or lay behind a baseline: no hold-back,
\* failed source, contract failure, relink, concurrent scan or crash skips a message.
NothingSkipped ==
  \A m \in stored : m <= cursor[chatOf[m]] => m \in reviewed \cup baselined

\* A cursor moves only by a baseline, by retention dropping it, or by a scan that is
\* not a dry run, that read messages of that chat, and, when live, that synced the
\* chat's source: a failed source's cursors are held.
CursorsHeld ==
  [][\A c \in Chat :
       cursor'[c] # cursor[c] /\ cursor'[c] # 0 /\ marking # c =>
         \E p \in Scanner :
           /\ pc[p] = "advance" /\ MovesCursors(p)
           /\ \E m \in delta[p] : chatOf[m] = c
           /\ runMode[run[p]] = "live" => SourceOf(c) \in okSources[p]]_vars

\* Exactly-once review when one process scans, nothing dies and nothing is deleted:
\* no message a cursor-moving run already gave a verdict is read into a delta again,
\* however far out of send order it was ingested.
ReviewedOnce ==
  \A p \in Scanner :
    pc[p] \in {"analyze", "trace"} /\ MovesCursors(p) => delta[p] \cap reviewed = {}

\* A voice note that gets its transcript has not been reviewed as its placeholder:
\* the hold-back keeps every note that can still be transcribed out of the deltas.
TranscriptReachesReview ==
  [][\A m \in stored : voice[m] # "done" /\ voice'[m] = "done" => m \notin reviewed]_vars

\* A live or process run that recorded how it ended dispatched the alerts it raised,
\* also when the classifier died half way: only a run with none records none, and
\* a run recorded as sent has every one of its alerts in a sent digest.
AlertsDispatched ==
  \A r \in RunId :
    /\ runMode[r] \in {"live", "process"}
    /\ runNotice[r] # "unset"
    /\ ActionableItemsForRun(r) # {}
    => /\ runNotice[r] \in Delivery
       /\ runNotice[r] = "sent" => ActionableItemsForRun(r) \subseteq surfaced

\* The store is a review ledger: a message is passed when its chat's cursor has
\* reached it, and accounted when it has a verdict or a baseline.
Passed == {m \in stored : m <= cursor[chatOf[m]]}

Ledger == INSTANCE ReviewLedger
  WITH Message <- MessageId, present <- stored, accounted <- reviewed \cup baselined,
       passed <- Passed

\* Every step of every scan, of ingest, of retention and of the operator is a step of
\* the ledger: arrivals come in ahead of all cursors, verdicts are never forgotten, and
\* a cursor that jumps passes only messages accounted for before the jump.
ImplementsLedger == Ledger!Spec
=============================================================================
