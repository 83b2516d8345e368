------------------------- MODULE ScanPipelineProofs -------------------------
(***************************************************************************)
(* Proofs about ScanPipeline for every set of chats, scanners and modes    *)
(* and every bound.  NothingSkipped is not inductive: that a cursor may    *)
(* jump to the last message of a delta rests on what the scan's locals say *)
(* about the messages the delta left out, which ScanInv records.  The      *)
(* later sections are about alerts, and about one scanner.                 *)
(***************************************************************************)
EXTENDS ScanPipeline, TLAPS

Reviewing == {"analyze", "trace", "advance"}

\* Whatever a scan's delta jumps over within a chat is accounted for already.
Closed(p) ==
  \A d \in delta[p], m \in stored :
    chatOf[m] = chatOf[d] /\ m < d /\ m \notin delta[p] => m \in reviewed \cup baselined

LocalInv(p) ==
  /\ pc[p] # "idle" => run[p] # 0
  /\ delta[p] # {} => pc[p] \in Reviewing
  /\ pc[p] \in Reviewing => head[p] # 0
  /\ left[p] # {} => pc[p] = "advance" /\ MovesCursors(p) /\ delta[p] \subseteq reviewed
  /\ left[p] \subseteq {chatOf[m] : m \in delta[p]}
  /\ delta[p] # {} /\ runMode[run[p]] = "live"
       => \A d \in delta[p] : SourceOf(chatOf[d]) \in okSources[p]
  /\ delta[p] # {} /\ MovesCursors(p) => Closed(p)

ScanInv == \A p \in Scanner : LocalInv(p)

IInv == TypeOK /\ ScanInv /\ NothingSkipped

-----------------------------------------------------------------------------
(* Type correctness. *)

LEMMA TypeInit == Init => TypeOK
BY ChatAssumption, BoundAssumption
DEF Init, TypeOK, MessageId, Time, RunId, VoiceStatus, ChatStatus, RunStatus, Notice,
    Delivery, Step, Fault, Source, Item

LEMMA TypeInsert ==
  ASSUME TypeOK, NEW c \in Chat, NEW t \in Time, NEW v \in Kind, InsertMessage(c, t, v)
  PROVE  TypeOK'
<1>1. lastId' = lastId + 1 /\ lastId' \in 1 .. MaxMessage
  BY BoundAssumption DEF InsertMessage, TypeOK
<1>2. v \in VoiceStatus
  BY InputAssumption DEF VoiceStatus
<1> QED
  BY <1>1, <1>2, BoundAssumption
  DEF TypeOK, InsertMessage, MessageId, chatVars, reviewVars, runVars, alertVars,
      scanVars, localVars

LEMMA TypePrune ==
  ASSUME TypeOK, NEW t \in 1 .. MaxTime + 1, PruneGmailUnmonitored(t)
  PROVE  TypeOK'
<1> DEFINE pruned == {m \in stored : /\ chatOf[m] \in GmailChat
                                     /\ status[chatOf[m]] # "monitored"
                                     /\ sentAt[m] < t}
           gone   == {c \in GmailChat : /\ status[c] = "discovered"
                                        /\ MessagesForChat(c) \subseteq pruned}
<1> HIDE DEF pruned, gone
<1>1. /\ stored' = stored \ pruned
      /\ status' = [c \in Chat |-> IF c \in gone THEN "deleted" ELSE status[c]]
      /\ cursor' = [c \in Chat |-> IF cursor[c] \in pruned \/ c \in gone
                                   THEN 0 ELSE cursor[c]]
      /\ parent' = [c \in Chat |-> IF c \in gone \/ parent[c] \in gone
                                   THEN 0 ELSE parent[c]]
      /\ items' = {i \in items : i.chat \notin gone}
      /\ UNCHANGED <<lastId, chatOf, sentAt, voice, reviewed, baselined, marking,
                     runVars, notified, surfaced, scanVars>>
  BY DEF PruneGmailUnmonitored, pruned, gone
<1>2. cursor' \in [Chat -> 0 .. lastId']
  BY <1>1 DEF TypeOK
<1>3. /\ status' \in [Chat -> ChatStatus \cup {"deleted"}]
      /\ parent' \in [Chat -> Chat \cup {0}]
  BY <1>1 DEF TypeOK
<1> QED
  BY <1>1, <1>2, <1>3 DEF TypeOK, runVars, scanVars, localVars

LEMMA TypeOperator ==
  ASSUME TypeOK, Operator
  PROVE  TypeOK'
<1>1. ASSUME NEW c \in Chat, NEW s \in Settable, SetChatStatus(c, s)
      PROVE  TypeOK'
  BY <1>1, InputAssumption
  DEF TypeOK, SetChatStatus, ChatStatus, messageVars, reviewVars, runVars, alertVars,
      scanVars, localVars
<1>2. ASSUME BaselineCursor
      PROVE  TypeOK'
  <2>1. cursor' \in [Chat -> 0 .. lastId]
    <3>1. CASE UNCHANGED cursor
      BY <3>1 DEF TypeOK
    <3>2. CASE \E m \in MessageId : /\ IsMax(m, MessagesForChat(marking))
                                    /\ cursor' = [cursor EXCEPT ![marking] = m]
      <4>1. PICK m \in MessageId : /\ m \in stored
                                   /\ cursor' = [cursor EXCEPT ![marking] = m]
        BY <3>2 DEF IsMax, MessagesForChat
      <4>2. m \in 0 .. lastId
        BY <4>1 DEF TypeOK
      <4> QED
        BY <4>1, <4>2 DEF TypeOK
    <3> QED
      BY <1>2, <3>1, <3>2 DEF BaselineCursor
  <2>2. baselined' \subseteq 1 .. lastId /\ marking' = 0
    BY <1>2 DEF BaselineCursor, MessagesForChat, TypeOK
  <2> QED
    BY <1>2, <2>1, <2>2
    DEF TypeOK, BaselineCursor, chatVars, messageVars, runVars, alertVars, scanVars,
        localVars
<1>3. ASSUME NEW l \in Link, LinkChats(l[1], l[2])
      PROVE  TypeOK'
  <2>1. l[1] \in Chat /\ l[2] \in Chat
    BY InputAssumption
  <2> QED
    BY <1>3, <2>1
    DEF TypeOK, LinkChats, messageVars, reviewVars, runVars, alertVars, scanVars,
        localVars
<1>4. ASSUME NEW c \in Chat, UnlinkChat(c)
      PROVE  TypeOK'
  BY <1>4
  DEF TypeOK, UnlinkChat, messageVars, reviewVars, runVars, alertVars, scanVars,
      localVars
<1> QED
  BY <1>1, <1>2, <1>3, <1>4 DEF Operator

LEMMA TypeBegin ==
  ASSUME TypeOK, NEW p \in Scanner, NEW mode \in Mode, BeginScan(p, mode)
  PROVE  TypeOK'
<1>1. lastRun + 1 \in RunId /\ lastRun' = lastRun + 1 /\ lastRun' \in 0 .. MaxRun
  BY BoundAssumption DEF BeginScan, TypeOK, RunId
<1>2. pc' \in [Scanner -> Step]
  BY DEF BeginScan, TypeOK, Step
<1>3. run' \in [Scanner -> 0 .. lastRun']
  BY <1>1, BoundAssumption DEF BeginScan, TypeOK
<1>4. /\ runMode' \in [RunId -> Mode \cup {"none"}]
      /\ runStatus' \in [RunId -> RunStatus]
  BY <1>1 DEF BeginScan, TypeOK, RunStatus
<1> QED
  BY <1>1, <1>2, <1>3, <1>4
  DEF TypeOK, BeginScan, storeVars, chatVars, messageVars, reviewVars, alertVars

\* The run of a scan that is under way is one that was started.
LEMMA RunIsStarted ==
  ASSUME TypeOK, ScanInv, NEW p \in Scanner, pc[p] # "idle"
  PROVE  run[p] \in 1 .. lastRun /\ run[p] \in RunId
BY BoundAssumption DEF TypeOK, ScanInv, LocalInv, RunId

LEMMA TypeReset ==
  ASSUME TypeOK, NEW p \in Scanner, Reset(p), UNCHANGED <<lastRun, lastId>>
  PROVE  /\ pc' \in [Scanner -> Step]
         /\ run' \in [Scanner -> 0 .. lastRun']
         /\ okSources' \in [Scanner -> SUBSET Source]
         /\ batch' \in [Scanner -> SUBSET (1 .. lastId')]
         /\ todo' \in [Scanner -> SUBSET Chat]
         /\ head' \in [Scanner -> Chat \cup {0}]
         /\ delta' \in [Scanner -> SUBSET (1 .. lastId')]
         /\ left' \in [Scanner -> SUBSET Chat]
         /\ fault' \in [Scanner -> Fault]
         /\ notice' \in [Scanner -> Notice]
<1>1. 0 \in 0 .. lastRun
  BY BoundAssumption DEF TypeOK
<1> QED
  BY <1>1 DEF TypeOK, Reset, Step, Fault, Notice, Delivery

\* What scan() reads of a family are stored messages.
LEMMA DeltaIsStored ==
  ASSUME NEW p \in Scanner, NEW h
  PROVE  ChatDelta(p, h) \subseteq stored
BY DEF ChatDelta, HoldBackUntranscribed, FromSyncedSource, FamilyDeltaReplay,
       FamilyDeltaSinceCursor, MessagesSinceCursor, MessagesForChat

LEMMA TypeScan ==
  ASSUME TypeOK, ScanInv, NEW p \in Scanner, ScanStep(p)
  PROVE  TypeOK'
<1>1. ASSUME NEW ok \in SUBSET Source, SyncSources(p, ok)
      PROVE  TypeOK'
  BY <1>1
  DEF TypeOK, SyncSources, Step, Fault, Notice, Delivery, storeVars, chatVars, messageVars, reviewVars, runVars, alertVars,
      localVars
<1>2. ASSUME AbortOffline(p)
      PROVE  TypeOK'
  BY <1>2
  DEF TypeOK, AbortOffline, Step, Fault, Notice, Delivery, storeVars, chatVars, messageVars, reviewVars, runVars, alertVars,
      localVars
<1>3. ASSUME NEW m \in MessageId, NEW v \in VoiceStatus, MarkTranscription(p, m, v)
      PROVE  TypeOK'
  BY <1>3
  DEF TypeOK, MarkTranscription, Step, Fault, Notice, Delivery, storeVars, chatVars, messageVars, reviewVars, runVars, alertVars,
      localVars
<1>4. ASSUME EndTranscription(p)
      PROVE  TypeOK'
  BY <1>4
  DEF TypeOK, EndTranscription, Step, Fault, Notice, Delivery, storeVars, chatVars, messageVars, reviewVars, runVars, alertVars,
      localVars
<1>5. ASSUME SelectMonitored(p)
      PROVE  TypeOK'
  BY <1>5
  DEF TypeOK, SelectMonitored, MonitoredChats, Step, Fault, Notice, Delivery, storeVars, chatVars, messageVars, reviewVars, runVars, alertVars,
      localVars
<1>6. ASSUME NextChat(p)
      PROVE  TypeOK'
  <2>1. PICK h \in todo[p] :
          /\ todo' = [todo EXCEPT ![p] = @ \ {h}]
          /\ \/ UNCHANGED <<pc, head, delta>>
             \/ /\ head' = [head EXCEPT ![p] = h]
                /\ delta' = [delta EXCEPT ![p] = ChatDelta(p, h)]
                /\ pc' = [pc EXCEPT ![p] = "analyze"]
    BY <1>6 DEF NextChat
  <2>2. h \in Chat /\ ChatDelta(p, h) \subseteq 1 .. lastId
    BY <2>1, DeltaIsStored DEF TypeOK
  <2> DEFINE D == ChatDelta(p, h)
  <2> HIDE DEF D
  <2>3. /\ todo' = [todo EXCEPT ![p] = @ \ {h}]
        /\ \/ UNCHANGED <<pc, head, delta>>
           \/ /\ head' = [head EXCEPT ![p] = h]
              /\ delta' = [delta EXCEPT ![p] = D]
              /\ pc' = [pc EXCEPT ![p] = "analyze"]
        /\ D \in SUBSET (1 .. lastId)
    BY <2>1, <2>2 DEF D
  <2>4. todo' \in [Scanner -> SUBSET Chat]
    BY <2>3 DEF TypeOK
  <2>5. delta' \in [Scanner -> SUBSET (1 .. lastId)]
    BY <2>3 DEF TypeOK
  <2>6. head' \in [Scanner -> Chat \cup {0}] /\ pc' \in [Scanner -> Step]
    BY <2>2, <2>3 DEF TypeOK, Step
  <2>7. UNCHANGED <<storeVars, runVars, alertVars, run, okSources, batch, left, fault,
                    notice>>
    BY <1>6 DEF NextChat
  <2> QED
    BY <2>4, <2>5, <2>6, <2>7
    DEF TypeOK, storeVars, chatVars, messageVars, reviewVars, runVars, alertVars
<1>7. ASSUME EndOfChats(p)
      PROVE  TypeOK'
  BY <1>7
  DEF TypeOK, EndOfChats, Step, Fault, Notice, Delivery, storeVars, chatVars, messageVars, reviewVars, runVars, alertVars,
      localVars
<1>8. ASSUME NEW b \in Verdict, PersistAnalysisResult(p, b)
      PROVE  TypeOK'
  <2>1. run[p] \in RunId /\ head[p] \in Chat /\ b \in BOOLEAN
    BY <1>8, RunIsStarted, InputAssumption
    DEF PersistAnalysisResult, TypeOK, ScanInv, LocalInv, Reviewing
  <2>2. items' \subseteq Item
    BY <1>8, <2>1 DEF PersistAnalysisResult, TypeOK, Item
  <2> QED
    BY <1>8, <2>2
    DEF TypeOK, PersistAnalysisResult, Step, storeVars, chatVars, messageVars,
        reviewVars, runVars, localVars
<1>9. ASSUME ContractFailure(p)
      PROVE  TypeOK'
  BY <1>9
  DEF TypeOK, ContractFailure, Step, Fault, Notice, Delivery, storeVars, chatVars, messageVars, reviewVars, runVars, alertVars,
      localVars
<1>10. ASSUME ClassifierAbort(p)
      PROVE  TypeOK'
  BY <1>10
  DEF TypeOK, ClassifierAbort, Step, Fault, Notice, Delivery, storeVars, chatVars, messageVars, reviewVars, runVars, alertVars,
      localVars
<1>11. ASSUME WriteTrace(p)
      PROVE  TypeOK'
  <2> DEFINE chats == {chatOf[m] : m \in delta[p]}
  <2>1. chats \in SUBSET Chat /\ delta[p] \subseteq 1 .. lastId
    BY DEF TypeOK
  <2>2. \/ reviewed' = reviewed \cup delta[p] /\ left' = [left EXCEPT ![p] = chats]
        \/ UNCHANGED <<reviewed, left>>
    BY <1>11 DEF WriteTrace
  <2> HIDE DEF chats
  <2>3. /\ reviewed' \subseteq 1 .. lastId
        /\ left' \in [Scanner -> SUBSET Chat]
    BY <2>1, <2>2 DEF TypeOK
  <2>4. /\ UNCHANGED <<chatVars, messageVars, voice, cursor, baselined, marking, runVars,
                       alertVars, run, okSources, batch, todo, head, delta, fault,
                       notice>>
        /\ pc' = [pc EXCEPT ![p] = "advance"]
    BY <1>11 DEF WriteTrace
  <2> QED
    BY <2>3, <2>4 DEF TypeOK, Step, chatVars, messageVars, runVars, alertVars
<1>12. ASSUME NEW c \in Chat, AdvanceCursor(p, c)
      PROVE  TypeOK'
  <2>1. PICK m \in stored : cursor' = [cursor EXCEPT ![c] = m]
    BY <1>12 DEF AdvanceCursor
  <2>2. cursor' \in [Chat -> 0 .. lastId]
    BY <2>1 DEF TypeOK
  <2> QED
    BY <1>12, <2>2
    DEF TypeOK, AdvanceCursor, chatVars, messageVars, runVars, alertVars
<1>13. ASSUME EndOfAdvance(p)
      PROVE  TypeOK'
  BY <1>13
  DEF TypeOK, EndOfAdvance, Step, Fault, Notice, Delivery, storeVars, chatVars, messageVars, reviewVars, runVars, alertVars,
      localVars
<1>14. ASSUME NEW d \in Outcome, DeliverDigest(p, d)
      PROVE  TypeOK'
  <2>1. d \in Delivery
    BY InputAssumption DEF Delivery
  <2>2. /\ notified' \in [RunId -> Delivery \cup {"unset"}]
        /\ notice' \in [Scanner -> Notice]
        /\ surfaced' \subseteq Item
    BY <1>14, <2>1 DEF DeliverDigest, ActionableItemsForRun, TypeOK, Notice
  <2> QED
    BY <1>14, <2>2
    DEF TypeOK, DeliverDigest, Step, storeVars, chatVars, messageVars, reviewVars,
        runVars
<1>15. ASSUME WithholdDigest(p)
      PROVE  TypeOK'
  BY <1>15
  DEF TypeOK, WithholdDigest, Step, Fault, Notice, Delivery, storeVars, chatVars, messageVars, reviewVars, runVars, alertVars,
      localVars
<1>16. ASSUME FinishRun(p)
      PROVE  TypeOK'
  BY <1>16
  DEF TypeOK, FinishRun, RunStatus, Step, Fault, Notice, Delivery, storeVars, chatVars, messageVars, reviewVars, runVars, alertVars,
      localVars
<1>17. ASSUME RecordRunFunnel(p)
      PROVE  TypeOK'
  <2>1. runNotice' \in [RunId -> Notice]
    BY <1>17 DEF RecordRunFunnel, TypeOK
  <2>2. Reset(p) /\ UNCHANGED <<lastRun, lastId>>
    BY <1>17 DEF RecordRunFunnel, storeVars, messageVars
  <2> QED
    BY <1>17, <2>1, <2>2, TypeReset
    DEF TypeOK, RecordRunFunnel, storeVars, chatVars, messageVars, reviewVars,
        alertVars
<1> QED
  BY <1>1, <1>2, <1>3, <1>4, <1>5, <1>6, <1>7, <1>8, <1>9,
     <1>10, <1>11, <1>12, <1>13, <1>14, <1>15, <1>16, <1>17
  DEF ScanStep

LEMMA TypeStep ==
  ASSUME TypeOK, ScanInv, [Next]_vars
  PROVE  TypeOK'
<1>1. ASSUME NEW r \in RunId, NEW d \in Outcome, Notify(r, d)
      PROVE  TypeOK'
  <2>1. d \in Delivery
    BY InputAssumption DEF Delivery
  <2> QED
    BY <1>1, <2>1
    DEF TypeOK, Notify, ActionableItemsForRun, storeVars, chatVars, messageVars,
        reviewVars, runVars, scanVars, localVars
<1>2. ASSUME NEW p \in Scanner, Crash(p)
      PROVE  TypeOK'
  <2>1. Reset(p) /\ UNCHANGED <<lastRun, lastId>>
    BY <1>2 DEF Crash, storeVars, messageVars, runVars
  <2> QED
    BY <1>2, <2>1, TypeReset
    DEF TypeOK, Crash, storeVars, chatVars, messageVars, reviewVars, runVars, alertVars
<1>3. CASE UNCHANGED vars
  BY <1>3
  DEF TypeOK, vars, storeVars, chatVars, messageVars, reviewVars, runVars, alertVars,
      scanVars, localVars
<1> QED
  BY <1>1, <1>2, <1>3, TypeInsert, TypePrune, TypeOperator, TypeBegin, TypeScan
  DEF Next, Undisturbed

-----------------------------------------------------------------------------
(* What a scan's locals say about the store. *)

LEMMA LocalInit == Init => ScanInv
BY DEF Init, ScanInv, LocalInv, Reviewing

\* A step that leaves a scan's position and locals alone, rewrites no message and
\* forgets no verdict leaves what the scan knows true: later messages have larger ids.
LEMMA LocalFrame ==
  ASSUME TypeOK, NEW p \in Scanner, LocalInv(p),
         pc'[p] = pc[p], run'[p] = run[p], head'[p] = head[p],
         okSources'[p] = okSources[p], delta'[p] = delta[p], left'[p] = left[p],
         \A r \in 1 .. lastRun : runMode'[r] = runMode[r],
         \A m \in 1 .. lastId : chatOf'[m] = chatOf[m],
         \A m \in stored' : m \in stored \/ m = lastId + 1,
         reviewed \subseteq reviewed', baselined \subseteq baselined'
  PROVE  LocalInv(p)'
<1> USE BoundAssumption DEF LocalInv, Reviewing, MovesCursors
<1>1. delta[p] \subseteq 1 .. lastId /\ run[p] \in 0 .. lastRun /\ stored \subseteq 1 .. lastId
  BY DEF TypeOK
<1>2. ASSUME pc[p] # "idle"
      PROVE  runMode'[run'[p]] = runMode[run[p]]
  BY <1>1, <1>2
<1>3. delta[p] # {} => pc[p] # "idle"
  OBVIOUS
<1>4. left'[p] # {} => pc'[p] = "advance" /\ MovesCursors(p)' /\ delta'[p] \subseteq reviewed'
  BY <1>2
<1>5. left'[p] \subseteq {chatOf'[m] : m \in delta'[p]}
  BY <1>1
<1>6. delta'[p] # {} /\ runMode'[run'[p]] = "live"
        => \A d \in delta'[p] : SourceOf(chatOf'[d]) \in okSources'[p]
  BY <1>1, <1>2, <1>3 DEF SourceOf
<1>7. ASSUME delta'[p] # {}, MovesCursors(p)'
      PROVE  Closed(p)'
  <2>1. Closed(p)
    BY <1>2, <1>3, <1>7
  <2>2. SUFFICES ASSUME NEW d \in delta'[p], NEW m \in stored',
                        chatOf'[m] = chatOf'[d], m < d, m \notin delta'[p]
                 PROVE  m \in reviewed' \cup baselined'
    BY DEF Closed
  <2>3. d \in 1 .. lastId /\ lastId \in Nat
    BY <1>1 DEF TypeOK
  <2>4. m \in stored /\ m \in 1 .. lastId
    <3>1. m # lastId + 1
      BY <2>2, <2>3
    <3>2. m \in stored
      BY <2>2, <3>1
    <3> QED
      BY <1>1, <3>2
  <2> QED
    BY <2>1, <2>2, <2>3, <2>4 DEF Closed
<1> QED
  BY <1>4, <1>5, <1>6, <1>7

\* A reset scan knows nothing.
LEMMA LocalReset ==
  ASSUME TypeOK, NEW p \in Scanner, Reset(p)
  PROVE  LocalInv(p)'
BY DEF Reset, LocalInv, Reviewing, TypeOK, MovesCursors, Closed

LEMMA FamilyDelta ==
  ASSUME NEW h, NEW m \in FamilyDeltaSinceCursor(h)
  PROVE  m \in stored /\ chatOf[m] \in FamilyMemberIds(h)
<1>1. PICK c \in FamilyMemberIds(h) : m \in MessagesSinceCursor(c)
  BY DEF FamilyDeltaSinceCursor
<1> QED
  BY <1>1 DEF MessagesSinceCursor, MessagesForChat

\* What ChatDelta leaves out below one of its messages lies behind a cursor.
LEMMA DeltaIsClosed ==
  ASSUME TypeOK, NothingSkipped, NEW p \in Scanner, NEW h \in Chat, MovesCursors(p),
         NEW d \in ChatDelta(p, h), NEW m \in stored,
         chatOf[m] = chatOf[d], m < d, m \notin ChatDelta(p, h)
  PROVE  m \in reviewed \cup baselined
<1> DEFINE synced == IF runMode[run[p]] = "live"
                     THEN FromSyncedSource(p, FamilyDeltaSinceCursor(h))
                     ELSE FamilyDeltaSinceCursor(h)
<1>1. ChatDelta(p, h) = IF Transcribing THEN HoldBackUntranscribed(synced) ELSE synced
  BY DEF ChatDelta, MovesCursors
<1>2. d \in synced /\ synced \subseteq FamilyDeltaSinceCursor(h)
  BY <1>1 DEF HoldBackUntranscribed, FromSyncedSource
<1>0. stored \subseteq Nat
  BY DEF TypeOK
<1>3. /\ d \in stored /\ d \in Nat /\ m \in Nat /\ chatOf[d] \in FamilyMemberIds(h)
  BY <1>0, <1>2, FamilyDelta
<1>4. SUFFICES ASSUME m > cursor[chatOf[m]]
               PROVE  FALSE
  <2>1. m \in 1 .. lastId /\ chatOf[m] \in Chat /\ cursor[chatOf[m]] \in Nat
    BY DEF TypeOK
  <2>2. m <= cursor[chatOf[m]] \/ m > cursor[chatOf[m]]
    BY <2>1
  <2> QED
    BY <2>2 DEF NothingSkipped
<1>5. m \in FamilyDeltaSinceCursor(h)
  <2>1. m \in MessagesSinceCursor(chatOf[d])
    BY <1>4 DEF MessagesSinceCursor, MessagesForChat
  <2> QED
    BY <1>3, <2>1 DEF FamilyDeltaSinceCursor
<1>6. m \in synced
  BY <1>2, <1>5 DEF FromSyncedSource
<1>7. synced \subseteq Nat
  BY <1>0, <1>2, FamilyDelta
<1> HIDE DEF synced
<1>8. ASSUME d \in HoldBackUntranscribed(synced)
      PROVE  m \in HoldBackUntranscribed(synced)
  BY <1>3, <1>6, <1>7, <1>8 DEF HoldBackUntranscribed
<1> QED
  BY <1>1, <1>6, <1>8

\* Each step of a scan keeps what that scan knows.
LEMMA LocalOwnStep ==
  ASSUME TypeOK, ScanInv, NothingSkipped, NEW p \in Scanner, ScanStep(p)
  PROVE  LocalInv(p)'
<1> USE DEF storeVars, chatVars, messageVars, reviewVars, runVars, alertVars, localVars
<1>1. LocalInv(p)
  BY DEF ScanInv
<1>2. ASSUME NEW ok \in SUBSET Source, SyncSources(p, ok)
      PROVE  LocalInv(p)'
  BY <1>1, <1>2 DEF SyncSources, TypeOK, LocalInv, Reviewing, MovesCursors, Closed
<1>3. ASSUME AbortOffline(p)
      PROVE  LocalInv(p)'
  BY <1>1, <1>3 DEF AbortOffline, TypeOK, LocalInv, Reviewing, MovesCursors, Closed
<1>4. ASSUME NEW m \in MessageId, NEW v \in VoiceStatus, MarkTranscription(p, m, v)
      PROVE  LocalInv(p)'
  BY <1>1, <1>4 DEF MarkTranscription, TypeOK, LocalInv, Reviewing, MovesCursors, Closed
<1>5. ASSUME EndTranscription(p) \/ SelectMonitored(p) \/ EndOfChats(p)
      PROVE  LocalInv(p)'
  BY <1>1, <1>5
  DEF EndTranscription, SelectMonitored, EndOfChats, TypeOK, LocalInv, Reviewing,
      MovesCursors, Closed
<1>6. ASSUME NextChat(p)
      PROVE  LocalInv(p)'
  <2>1. PICK h \in todo[p] :
          \/ UNCHANGED <<pc, head, delta>>
          \/ /\ head' = [head EXCEPT ![p] = h]
             /\ delta' = [delta EXCEPT ![p] = ChatDelta(p, h)]
             /\ pc' = [pc EXCEPT ![p] = "analyze"]
    BY <1>6 DEF NextChat
  <2>2. /\ h \in Chat /\ h # 0 /\ left[p] = {} /\ run[p] # 0
    BY <1>1, <1>6, ChatAssumption DEF TypeOK, LocalInv, NextChat, Reviewing
  <2>3. UNCHANGED <<storeVars, runVars, run, okSources, left>>
    BY <1>6 DEF NextChat
  <2>4. CASE UNCHANGED <<pc, head, delta>>
    BY <1>1, <2>3, <2>4 DEF LocalInv, MovesCursors, Closed, SourceOf
  <2>5. CASE /\ head'[p] = h /\ delta'[p] = ChatDelta(p, h) /\ pc'[p] = "analyze"
    <3>1. ASSUME runMode[run[p]] = "live"
          PROVE  \A d \in ChatDelta(p, h) : SourceOf(chatOf[d]) \in okSources[p]
      BY <3>1 DEF ChatDelta, FromSyncedSource, HoldBackUntranscribed
    <3>2. ASSUME MovesCursors(p), NEW d \in ChatDelta(p, h), NEW m \in stored,
                 chatOf[m] = chatOf[d], m < d, m \notin ChatDelta(p, h)
          PROVE  m \in reviewed \cup baselined
      BY <2>2, <3>2, DeltaIsClosed
    <3>3. MovesCursors(p)' = MovesCursors(p)
      BY <2>3 DEF MovesCursors
    <3>4. MovesCursors(p) => Closed(p)'
      BY <2>3, <2>5, <3>2 DEF Closed
    <3>5. runMode[run[p]] = "live"
            => \A d \in delta'[p] : SourceOf(chatOf'[d]) \in okSources'[p]
      BY <2>3, <2>5, <3>1 DEF SourceOf
    <3> QED
      BY <2>2, <2>3, <2>5, <3>3, <3>4, <3>5 DEF LocalInv, Reviewing
  <2> QED
    BY <2>1, <2>4, <2>5 DEF TypeOK
<1>7. ASSUME NEW b \in Verdict, PersistAnalysisResult(p, b)
      PROVE  LocalInv(p)'
  BY <1>1, <1>7
  DEF PersistAnalysisResult, TypeOK, LocalInv, Reviewing, MovesCursors, Closed, SourceOf
<1>8. ASSUME ContractFailure(p) \/ ClassifierAbort(p) \/ EndOfAdvance(p)
      PROVE  LocalInv(p)'
  BY <1>1, <1>8
  DEF ContractFailure, ClassifierAbort, EndOfAdvance, TypeOK, LocalInv, Reviewing,
      MovesCursors, Closed
<1>9. ASSUME WriteTrace(p)
      PROVE  LocalInv(p)'
  <2>1. /\ pc[p] = "trace" /\ pc'[p] = "advance" /\ left[p] = {}
        /\ UNCHANGED <<stored, chatOf, baselined, runVars, run, okSources, head, delta>>
    BY <1>1, <1>9 DEF WriteTrace, TypeOK, LocalInv
  <2>2. CASE MovesCursors(p)
    <3>1. reviewed' = reviewed \cup delta[p] /\ left'[p] = {chatOf[m] : m \in delta[p]}
      BY <1>9, <2>2 DEF WriteTrace, TypeOK
    <3> QED
      BY <1>1, <2>1, <2>2, <3>1 DEF LocalInv, Reviewing, MovesCursors, Closed, SourceOf
  <2>3. CASE ~MovesCursors(p)
    <3>1. UNCHANGED <<reviewed, left>>
      BY <1>9, <2>3 DEF WriteTrace
    <3> QED
      BY <1>1, <2>1, <2>3, <3>1 DEF LocalInv, Reviewing, MovesCursors, Closed, SourceOf
  <2> QED
    BY <2>2, <2>3
<1>10. ASSUME NEW c \in Chat, AdvanceCursor(p, c)
       PROVE  LocalInv(p)'
  <2>1. /\ left'[p] \subseteq left[p]
        /\ UNCHANGED <<stored, chatOf, reviewed, baselined, runVars, pc, run, okSources,
                       head, delta>>
    BY <1>10 DEF AdvanceCursor, TypeOK
  <2> QED
    BY <1>1, <2>1 DEF LocalInv, Reviewing, MovesCursors, Closed, SourceOf
<1>11. ASSUME NEW d \in Outcome, DeliverDigest(p, d)
       PROVE  LocalInv(p)'
  BY <1>1, <1>11 DEF DeliverDigest, TypeOK, LocalInv, Reviewing, MovesCursors, Closed
<1>12. ASSUME WithholdDigest(p) \/ FinishRun(p)
       PROVE  LocalInv(p)'
  BY <1>1, <1>12
  DEF WithholdDigest, FinishRun, TypeOK, LocalInv, Reviewing, MovesCursors, Closed
<1>13. ASSUME RecordRunFunnel(p)
       PROVE  LocalInv(p)'
  BY <1>13, LocalReset DEF RecordRunFunnel
<1> QED
  BY <1>2, <1>3, <1>4, <1>5, <1>6, <1>7, <1>8, <1>9, <1>10, <1>11, <1>12, <1>13
  DEF ScanStep

\* A step of one scan leaves what the others know true.
LEMMA LocalOtherStep ==
  ASSUME TypeOK, ScanInv, NEW p \in Scanner, ScanStep(p), NEW q \in Scanner, q # p
  PROVE  LocalInv(q)'
<1> DEFINE Framed ==
      /\ pc'[q] = pc[q] /\ run'[q] = run[q] /\ head'[q] = head[q]
      /\ okSources'[q] = okSources[q] /\ delta'[q] = delta[q] /\ left'[q] = left[q]
      /\ UNCHANGED <<runMode, chatOf, stored, baselined>>
      /\ reviewed \subseteq reviewed'
<1> USE DEF storeVars, chatVars, messageVars, reviewVars, runVars, alertVars, localVars
<1>1. ASSUME NEW ok \in SUBSET Source, SyncSources(p, ok)
      PROVE  Framed
  BY <1>1 DEF SyncSources, TypeOK
<1>2. ASSUME NEW m \in MessageId, NEW v \in VoiceStatus, MarkTranscription(p, m, v)
      PROVE  Framed
  BY <1>2 DEF MarkTranscription, TypeOK
<1>3. ASSUME AbortOffline(p) \/ EndTranscription(p) \/ SelectMonitored(p) \/ EndOfChats(p)
      PROVE  Framed
  BY <1>3 DEF AbortOffline, EndTranscription, SelectMonitored, EndOfChats, TypeOK
<1>4. ASSUME NextChat(p)
      PROVE  Framed
  BY <1>4 DEF NextChat, TypeOK
<1>5. ASSUME NEW b \in Verdict, PersistAnalysisResult(p, b)
      PROVE  Framed
  BY <1>5 DEF PersistAnalysisResult, TypeOK
<1>6. ASSUME ContractFailure(p) \/ ClassifierAbort(p) \/ EndOfAdvance(p)
      PROVE  Framed
  BY <1>6 DEF ContractFailure, ClassifierAbort, EndOfAdvance, TypeOK
<1>7. ASSUME WriteTrace(p)
      PROVE  Framed
  BY <1>7 DEF WriteTrace, TypeOK
<1>8. ASSUME NEW c \in Chat, AdvanceCursor(p, c)
      PROVE  Framed
  BY <1>8 DEF AdvanceCursor, TypeOK
<1>9. ASSUME NEW d \in Outcome, DeliverDigest(p, d)
      PROVE  Framed
  BY <1>9 DEF DeliverDigest, TypeOK
<1>10. ASSUME WithholdDigest(p) \/ FinishRun(p)
       PROVE  Framed
  BY <1>10 DEF WithholdDigest, FinishRun, TypeOK
<1>11. ASSUME RecordRunFunnel(p)
       PROVE  Framed
  BY <1>11 DEF RecordRunFunnel, Reset, TypeOK
<1>12. Framed
  BY <1>1, <1>2, <1>3, <1>4, <1>5, <1>6, <1>7, <1>8, <1>9, <1>10, <1>11 DEF ScanStep
<1>13. LocalInv(q)
  BY DEF ScanInv
<1> QED
  BY <1>12, <1>13, LocalFrame

LEMMA LocalStep ==
  ASSUME IInv, [Next]_vars
  PROVE  ScanInv'
<1> USE DEF IInv
<1>1. SUFFICES ASSUME NEW q \in Scanner
               PROVE  LocalInv(q)'
  BY DEF ScanInv
<1>2. LocalInv(q)
  BY DEF ScanInv
<1>3. ASSUME NEW c \in Chat, NEW t \in Time, NEW v \in Kind, InsertMessage(c, t, v)
      PROVE  LocalInv(q)'
  <2>1. \A m \in 1 .. lastId : chatOf'[m] = chatOf[m]
    BY <1>3, BoundAssumption DEF InsertMessage, TypeOK, MessageId
  <2>2. /\ stored' = stored \cup {lastId + 1}
        /\ UNCHANGED <<reviewed, baselined, runMode, scanVars>>
    BY <1>3 DEF InsertMessage, reviewVars, runVars
  <2> QED
    BY <1>2, <2>1, <2>2, LocalFrame DEF scanVars, localVars
<1>4. ASSUME NEW t \in 1 .. MaxTime + 1, PruneGmailUnmonitored(t)
      PROVE  LocalInv(q)'
  <2>1. /\ stored' \subseteq stored
        /\ UNCHANGED <<chatOf, reviewed, baselined, runMode, scanVars>>
    BY <1>4 DEF PruneGmailUnmonitored, runVars
  <2> QED
    BY <1>2, <2>1, LocalFrame DEF scanVars, localVars
<1>5. ASSUME Operator
      PROVE  LocalInv(q)'
  <2>1. /\ UNCHANGED <<stored, chatOf, reviewed, runMode, scanVars>>
        /\ baselined \subseteq baselined'
    BY <1>5
    DEF Operator, SetChatStatus, BaselineCursor, LinkChats, UnlinkChat, messageVars,
        reviewVars, runVars
  <2> QED
    BY <1>2, <2>1, LocalFrame DEF scanVars, localVars
<1>6. ASSUME NEW p \in Scanner, NEW mode \in Mode, BeginScan(p, mode)
      PROVE  LocalInv(q)'
  <2>1. \A r \in 1 .. lastRun : runMode'[r] = runMode[r]
    BY <1>6, BoundAssumption DEF BeginScan, TypeOK, RunId
  <2>2. UNCHANGED <<stored, chatOf, reviewed, baselined, head, okSources, delta, left>>
    BY <1>6 DEF BeginScan, storeVars, messageVars, reviewVars
  <2>3. CASE q # p
    <3>1. pc'[q] = pc[q] /\ run'[q] = run[q]
      BY <1>6, <2>3 DEF BeginScan, TypeOK
    <3> QED
      BY <1>2, <2>1, <2>2, <3>1, LocalFrame
  <2>4. CASE q = p
    <3>1. delta[q] = {} /\ left[q] = {}
      BY <1>2, <1>6, <2>4 DEF BeginScan, LocalInv, Reviewing
    <3>2. run'[q] # 0 /\ pc'[q] \notin Reviewing
      BY <1>6, <2>4, BoundAssumption DEF BeginScan, TypeOK, Reviewing
    <3> QED
      BY <2>2, <3>1, <3>2 DEF LocalInv
  <2> QED
    BY <2>3, <2>4
<1>7. ASSUME NEW p \in Scanner, ScanStep(p)
      PROVE  LocalInv(q)'
  BY <1>7, LocalOwnStep, LocalOtherStep
<1>8. ASSUME NEW p \in Scanner, Crash(p)
      PROVE  LocalInv(q)'
  <2>1. CASE q = p
    BY <1>8, <2>1, LocalReset DEF Crash
  <2>2. CASE q # p
    <3>1. /\ pc'[q] = pc[q] /\ run'[q] = run[q] /\ head'[q] = head[q]
          /\ okSources'[q] = okSources[q] /\ delta'[q] = delta[q] /\ left'[q] = left[q]
          /\ UNCHANGED <<stored, chatOf, reviewed, baselined, runMode>>
      BY <1>8, <2>2
      DEF Crash, Reset, TypeOK, storeVars, messageVars, reviewVars, runVars
    <3> QED
      BY <1>2, <3>1, LocalFrame
  <2> QED
    BY <2>1, <2>2
<1>9. ASSUME \/ \E r \in RunId, d \in Outcome : Notify(r, d)
             \/ UNCHANGED vars
      PROVE  LocalInv(q)'
  <2>1. UNCHANGED <<stored, chatOf, reviewed, baselined, runMode, scanVars>>
    BY <1>9 DEF Notify, vars, storeVars, messageVars, reviewVars, runVars
  <2> QED
    BY <1>2, <2>1, LocalFrame DEF scanVars, localVars
<1> QED
  BY <1>3, <1>4, <1>5, <1>6, <1>7, <1>8, <1>9 DEF Next, Undisturbed

-----------------------------------------------------------------------------
(* No cursor passes an unaccounted message. *)

LEMMA SkipInit == Init => NothingSkipped
BY DEF Init, NothingSkipped

\* Steps that move no cursor, forget no verdict and rewrite no message.
LEMMA SkipFrame ==
  ASSUME TypeOK, NothingSkipped, UNCHANGED <<cursor, chatOf>>, stored' \subseteq stored,
         reviewed \subseteq reviewed', baselined \subseteq baselined'
  PROVE  NothingSkipped'
BY DEF NothingSkipped

LEMMA SkipStep ==
  ASSUME IInv, [Next]_vars
  PROVE  NothingSkipped'
<1> USE DEF IInv
<1>0. stored \subseteq 1 .. lastId /\ lastId \in Nat
      /\ \A m \in stored : chatOf[m] \in Chat /\ cursor[chatOf[m]] \in 0 .. lastId
  BY DEF TypeOK
<1>1. ASSUME NEW c \in Chat, NEW t \in Time, NEW v \in Kind, InsertMessage(c, t, v)
      PROVE  NothingSkipped'
  <2>1. SUFFICES ASSUME NEW m \in stored', m <= cursor'[chatOf'[m]]
                 PROVE  m \in reviewed' \cup baselined'
    BY DEF NothingSkipped
  <2>2. UNCHANGED <<cursor, reviewed, baselined>>
    BY <1>1 DEF InsertMessage, reviewVars
  <2>3. CASE m = lastId + 1
    <3>1. chatOf'[m] = c /\ cursor[c] <= lastId /\ cursor[c] \in Nat
      BY <1>0, <1>1, <2>3, BoundAssumption DEF InsertMessage, TypeOK, MessageId
    <3> QED
      BY <1>0, <2>1, <2>2, <2>3, <3>1
  <2>4. CASE m \in stored
    <3>1. chatOf'[m] = chatOf[m]
      BY <1>0, <1>1, <2>4, BoundAssumption DEF InsertMessage, TypeOK, MessageId
    <3> QED
      BY <2>1, <2>2, <2>4, <3>1 DEF NothingSkipped
  <2> QED
    BY <1>1, <2>3, <2>4 DEF InsertMessage
<1>2. ASSUME NEW t \in 1 .. MaxTime + 1, PruneGmailUnmonitored(t)
      PROVE  NothingSkipped'
  <2>1. /\ stored' \subseteq stored
        /\ UNCHANGED <<chatOf, reviewed, baselined>>
    BY <1>2 DEF PruneGmailUnmonitored
  <2>2. \A c \in Chat : cursor'[c] = cursor[c] \/ cursor'[c] = 0
    BY <1>2 DEF PruneGmailUnmonitored, TypeOK
  <2>3. SUFFICES ASSUME NEW m \in stored', m <= cursor'[chatOf'[m]]
                 PROVE  m \in reviewed' \cup baselined'
    BY DEF NothingSkipped
  <2>4. cursor'[chatOf[m]] = cursor[chatOf[m]]
    BY <1>0, <2>1, <2>2, <2>3
  <2> QED
    BY <2>1, <2>3, <2>4 DEF NothingSkipped
<1>3. ASSUME BaselineCursor
      PROVE  NothingSkipped'
  <2>1. UNCHANGED <<stored, chatOf, reviewed>>
    BY <1>3 DEF BaselineCursor, messageVars
  <2>2. CASE UNCHANGED <<cursor, baselined>>
    BY <2>1, <2>2, SkipFrame
  <2>3. CASE /\ \E m \in MessageId : /\ IsMax(m, MessagesForChat(marking))
                                     /\ cursor' = [cursor EXCEPT ![marking] = m]
             /\ baselined' = baselined \cup MessagesForChat(marking)
    <3>1. SUFFICES ASSUME NEW n \in stored, n <= cursor'[chatOf[n]]
                   PROVE  n \in reviewed \cup baselined'
      BY <2>1 DEF NothingSkipped
    <3>2. CASE chatOf[n] = marking
      BY <2>3, <3>2 DEF MessagesForChat
    <3>3. CASE chatOf[n] # marking
      <4>1. cursor'[chatOf[n]] = cursor[chatOf[n]]
        BY <1>0, <2>3, <3>3 DEF TypeOK
      <4> QED
        BY <2>3, <3>1, <4>1 DEF NothingSkipped
    <3> QED
      BY <3>2, <3>3
  <2> QED
    BY <1>3, <2>2, <2>3 DEF BaselineCursor
<1>4. ASSUME NEW p \in Scanner, NEW c \in Chat, AdvanceCursor(p, c)
      PROVE  NothingSkipped'
  <2>1. PICK m \in stored : /\ IsMax(m, {n \in delta[p] : chatOf[n] = c})
                            /\ cursor' = [cursor EXCEPT ![c] = m]
    BY <1>4 DEF AdvanceCursor, CursorTarget
  <2>2. UNCHANGED <<stored, chatOf, reviewed, baselined>>
    BY <1>4 DEF AdvanceCursor, messageVars
  <2>3. m \in delta[p] /\ chatOf[m] = c /\ left[p] # {}
    BY <1>4, <2>1 DEF AdvanceCursor, IsMax
  <2>4. delta[p] \subseteq reviewed /\ Closed(p)
    BY <2>3 DEF ScanInv, LocalInv
  <2>5. SUFFICES ASSUME NEW n \in stored, n <= cursor'[chatOf[n]]
                 PROVE  n \in reviewed \cup baselined
    BY <2>2 DEF NothingSkipped
  <2>6. CASE chatOf[n] = c
    <3>1. n <= m
      BY <1>0, <2>1, <2>5, <2>6 DEF TypeOK
    <3>2. CASE n \in delta[p]
      BY <2>4, <3>2
    <3>3. CASE n \notin delta[p]
      <4>1. n < m
        BY <1>0, <2>3, <3>1, <3>3
      <4> QED
        BY <2>3, <2>4, <2>6, <3>3, <4>1 DEF Closed
    <3> QED
      BY <3>2, <3>3
  <2>7. CASE chatOf[n] # c
    <3>1. cursor'[chatOf[n]] = cursor[chatOf[n]]
      BY <1>0, <2>1, <2>7 DEF TypeOK
    <3> QED
      BY <2>5, <3>1 DEF NothingSkipped
  <2> QED
    BY <2>6, <2>7
<1>5. ASSUME NEW p \in Scanner, ScanStep(p), ~ \E c \in Chat : AdvanceCursor(p, c)
      PROVE  NothingSkipped'
  <2>1. /\ UNCHANGED <<cursor, chatOf, stored, baselined>>
        /\ reviewed \subseteq reviewed'
    BY <1>5
    DEF ScanStep, SyncSources, AbortOffline, MarkTranscription, EndTranscription,
        SelectMonitored, NextChat, EndOfChats, PersistAnalysisResult, ContractFailure,
        ClassifierAbort, WriteTrace, EndOfAdvance, DeliverDigest, WithholdDigest,
        FinishRun, RecordRunFunnel, storeVars, messageVars, reviewVars
  <2> QED
    BY <2>1, SkipFrame
<1>6. ASSUME \/ \E c \in Chat, s \in Settable : SetChatStatus(c, s)
             \/ \E l \in Link : LinkChats(l[1], l[2])
             \/ \E c \in Chat : UnlinkChat(c)
             \/ \E p \in Scanner, mode \in Mode : BeginScan(p, mode)
             \/ \E p \in Scanner : Crash(p)
             \/ \E r \in RunId, d \in Outcome : Notify(r, d)
             \/ UNCHANGED vars
      PROVE  NothingSkipped'
  <2>1. UNCHANGED <<cursor, chatOf, stored, reviewed, baselined>>
    BY <1>6
    DEF SetChatStatus, LinkChats, UnlinkChat, BeginScan, Crash, Notify, vars, storeVars,
        messageVars, reviewVars
  <2> QED
    BY <2>1, SkipFrame
<1> QED
  BY <1>1, <1>2, <1>3, <1>4, <1>5, <1>6 DEF Next, Undisturbed, Operator

-----------------------------------------------------------------------------
(* The theorems. *)

LEMMA Inductive == Spec => []IInv
<1>1. Init => IInv
  BY TypeInit, LocalInit, SkipInit DEF IInv
<1>2. IInv /\ [Next]_vars => IInv'
  BY TypeStep, LocalStep, SkipStep DEF IInv
<1> QED
  BY <1>1, <1>2, PTL DEF Spec

\* The store and the scans' locals keep their types in every reachable state.
THEOREM TypeCorrect == Spec => []TypeOK
<1>1. IInv => TypeOK
  BY DEF IInv
<1> QED
  BY <1>1, Inductive, PTL

\* No message is ever passed by its chat's cursor without a persisted verdict or a
\* baseline, for any number of concurrent scans, crashes, failed sources and deletions.
THEOREM ReviewIsComplete == Spec => []NothingSkipped
<1>1. IInv => NothingSkipped
  BY DEF IInv
<1> QED
  BY <1>1, Inductive, PTL

\* A cursor moves only by a baseline, by retention, or by a scan that may move it:
\* dry runs and failed sources leave cursors where they are.
THEOREM CursorsAreHeld == Spec => CursorsHeld
<1> DEFINE Justified(c) ==
      cursor'[c] # cursor[c] /\ cursor'[c] # 0 /\ marking # c =>
        \E p \in Scanner :
          /\ pc[p] = "advance" /\ MovesCursors(p)
          /\ \E m \in delta[p] : chatOf[m] = c
          /\ runMode[run[p]] = "live" => SourceOf(c) \in okSources[p]
<1>1. ASSUME IInv, Next, NEW c \in Chat
      PROVE  Justified(c)
  <2> USE <1>1 DEF IInv
  <2>1. CASE cursor' = cursor
    BY <2>1
  <2>2. ASSUME NEW t \in 1 .. MaxTime + 1, PruneGmailUnmonitored(t)
        PROVE  Justified(c)
    BY <2>2 DEF PruneGmailUnmonitored, TypeOK
  <2>3. ASSUME BaselineCursor
        PROVE  Justified(c)
    BY <2>3 DEF BaselineCursor, TypeOK
  <2>4. ASSUME NEW p \in Scanner, NEW b \in Chat, AdvanceCursor(p, b)
        PROVE  Justified(c)
    <3>1. CASE b # c
      BY <2>4, <3>1 DEF AdvanceCursor, TypeOK
    <3>2. CASE b = c
      <4>1. pc[p] = "advance" /\ c \in left[p] /\ MovesCursors(p)
        BY <2>4, <3>2 DEF AdvanceCursor, ScanInv, LocalInv
      <4>2. PICK m \in delta[p] : chatOf[m] = c
        BY <4>1 DEF ScanInv, LocalInv
      <4>3. runMode[run[p]] = "live" => SourceOf(c) \in okSources[p]
        BY <4>2 DEF ScanInv, LocalInv
      <4> QED
        BY <4>1, <4>2, <4>3
    <3> QED
      BY <3>1, <3>2
  <2>5. \/ cursor' = cursor
        \/ \E t \in 1 .. MaxTime + 1 : PruneGmailUnmonitored(t)
        \/ BaselineCursor
        \/ \E p \in Scanner, b \in Chat : AdvanceCursor(p, b)
    BY <1>1
    DEF Next, Undisturbed, Operator, InsertMessage, SetChatStatus, LinkChats, UnlinkChat,
        BeginScan, Notify, Crash, ScanStep, SyncSources, AbortOffline, MarkTranscription,
        EndTranscription, SelectMonitored, NextChat, EndOfChats, PersistAnalysisResult,
        ContractFailure, ClassifierAbort, WriteTrace, EndOfAdvance, DeliverDigest,
        WithholdDigest, FinishRun, RecordRunFunnel, storeVars, reviewVars
  <2> QED
    BY <2>1, <2>2, <2>3, <2>4, <2>5
<1>2. IInv /\ [Next]_vars => [\A c \in Chat : Justified(c)]_vars
  BY <1>1
<1> QED
  BY <1>2, Inductive, PTL DEF Spec, CursorsHeld

-----------------------------------------------------------------------------
(* The store implements the review ledger. *)

LEMMA LedgerFrame ==
  ASSUME UNCHANGED <<stored, chatOf, cursor>>
  PROVE  Passed' = Passed
BY DEF Passed

LEMMA LedgerArrive ==
  ASSUME TypeOK, NEW c \in Chat, NEW t \in Time, NEW v \in Kind, InsertMessage(c, t, v)
  PROVE  Ledger!Arrive(lastId + 1)
<1> DEFINE new == lastId + 1
<1>1. /\ stored' = stored \cup {new}
      /\ chatOf' = [chatOf EXCEPT ![new] = c]
      /\ UNCHANGED <<cursor, reviewed, baselined>>
  BY DEF InsertMessage, reviewVars
<1>2. new \notin stored /\ new \in MessageId
  BY BoundAssumption DEF InsertMessage, TypeOK, MessageId
<1>3. \A m \in stored : chatOf'[m] = chatOf[m]
  BY <1>1, <1>2 DEF TypeOK
<1>4. chatOf'[new] = c
  BY <1>1, <1>2 DEF TypeOK
<1>5. ~ (new <= cursor[c])
  BY DEF TypeOK
<1>6. Passed' = Passed
  BY <1>1, <1>3, <1>4, <1>5 DEF Passed
<1> QED
  BY <1>1, <1>2, <1>6 DEF Ledger!Arrive

LEMMA LedgerDelete ==
  ASSUME TypeOK, NEW t \in 1 .. MaxTime + 1, PruneGmailUnmonitored(t)
  PROVE  \E S \in SUBSET MessageId : Ledger!Delete(S)
<1>1. PICK S : /\ S \subseteq stored
               /\ stored' = stored \ S
               /\ \A c \in Chat : cursor'[c] \in {0, cursor[c]}
               /\ UNCHANGED <<chatOf, reviewed, baselined>>
  BY DEF PruneGmailUnmonitored
<1>2. S \in SUBSET MessageId
  BY <1>1, BoundAssumption DEF TypeOK, MessageId
<1>3. \A m \in stored : chatOf[m] \in Chat /\ m \in Nat \ {0}
  BY DEF TypeOK
<1>4. Passed' \subseteq Passed \ S
  <2>1. SUFFICES ASSUME NEW m \in stored, m \notin S, m <= cursor'[chatOf[m]]
                 PROVE  m <= cursor[chatOf[m]]
    BY <1>1 DEF Passed
  <2>2. cursor'[chatOf[m]] # 0
    BY <1>3, <2>1
  <2> QED
    BY <1>1, <1>3, <2>1, <2>2
<1> QED
  BY <1>1, <1>2, <1>4 DEF Ledger!Delete

LEMMA LedgerBaseline ==
  ASSUME TypeOK, BaselineCursor
  PROVE  \/ \E S \in SUBSET MessageId : Ledger!Baseline(S)
         \/ UNCHANGED <<stored, reviewed \cup baselined, Passed>>
<1>1. UNCHANGED <<stored, chatOf, reviewed>>
  BY DEF BaselineCursor, messageVars
<1>2. CASE UNCHANGED <<cursor, baselined>>
  BY <1>1, <1>2, LedgerFrame
<1>3. ASSUME cursor[marking] = 0,
             NEW m \in MessageId, IsMax(m, MessagesForChat(marking)),
             cursor' = [cursor EXCEPT ![marking] = m],
             baselined' = baselined \cup MessagesForChat(marking)
      PROVE  \E S \in SUBSET MessageId : Ledger!Baseline(S)
  <2> DEFINE S == MessagesForChat(marking)
  <2>1. S \in SUBSET MessageId /\ S \subseteq stored
    <3>1. stored \subseteq MessageId
      BY BoundAssumption DEF TypeOK, MessageId
    <3> QED
      BY <3>1 DEF MessagesForChat
  <2>2. marking \in Chat
    BY DEF BaselineCursor, TypeOK
  <2>3. \A n \in stored : chatOf[n] = marking => n \in S /\ n <= m
    BY <1>3 DEF IsMax, MessagesForChat
  <2>4. \A n \in stored : chatOf[n] # marking => cursor'[chatOf[n]] = cursor[chatOf[n]]
    BY <1>3 DEF TypeOK
  <2>5. cursor'[marking] = m /\ \A n \in S : n \in stored /\ chatOf[n] = marking
    BY <1>3, <2>2 DEF TypeOK, MessagesForChat
  <2>6. \A n \in stored : chatOf[n] = marking => ~ (n <= cursor[chatOf[n]])
    BY <1>3 DEF TypeOK
  <2>7. Passed' = Passed \cup S
    BY <1>1, <2>3, <2>4, <2>5, <2>6 DEF Passed
  <2> QED
    BY <1>1, <1>3, <2>1, <2>7 DEF Ledger!Baseline
<1> QED
  BY <1>2, <1>3 DEF BaselineCursor

LEMMA LedgerPass ==
  ASSUME NothingSkipped', NEW p \in Scanner, NEW c \in Chat, AdvanceCursor(p, c)
  PROVE  Ledger!Pass
<1>1. UNCHANGED <<stored, chatOf, reviewed, baselined>>
  BY DEF AdvanceCursor, messageVars
<1>2. Passed' \in SUBSET (stored \cap (reviewed \cup baselined))
  BY <1>1 DEF NothingSkipped, Passed
<1> QED
  BY <1>1, <1>2 DEF Ledger!Pass

LEMMA LedgerStep ==
  ASSUME IInv, NothingSkipped', [Next]_vars
  PROVE  [Ledger!Next]_(Ledger!vars)
<1> USE DEF IInv
<1> DEFINE Same == UNCHANGED <<stored, reviewed \cup baselined, Passed>>
<1>1. Same => UNCHANGED Ledger!vars
  BY DEF Ledger!vars
<1>2. ASSUME NEW c \in Chat, NEW t \in Time, NEW v \in Kind, InsertMessage(c, t, v)
      PROVE  Ledger!Next
  <2>1. lastId + 1 \in MessageId
    BY <1>2, BoundAssumption DEF InsertMessage, TypeOK, MessageId
  <2> QED
    BY <1>2, <2>1, LedgerArrive DEF Ledger!Next
<1>3. ASSUME NEW t \in 1 .. MaxTime + 1, PruneGmailUnmonitored(t)
      PROVE  Ledger!Next
  BY <1>3, LedgerDelete DEF Ledger!Next
<1>4. ASSUME BaselineCursor
      PROVE  Ledger!Next \/ Same
  BY <1>4, LedgerBaseline DEF Ledger!Next
<1>5. ASSUME NEW p \in Scanner, NEW c \in Chat, AdvanceCursor(p, c)
      PROVE  Ledger!Next
  BY <1>5, LedgerPass DEF Ledger!Next
<1>6. ASSUME NEW p \in Scanner, WriteTrace(p)
      PROVE  Ledger!Next \/ Same
  <2>1. UNCHANGED <<stored, chatOf, cursor, baselined>> /\ Passed' = Passed
    BY <1>6, LedgerFrame DEF WriteTrace, messageVars
  <2>2. CASE UNCHANGED reviewed
    BY <2>1, <2>2
  <2>3. CASE reviewed' = reviewed \cup delta[p]
    <3>1. delta[p] \in SUBSET MessageId
      BY BoundAssumption DEF TypeOK, MessageId
    <3>2. Ledger!Account(delta[p])
      BY <2>1, <2>3 DEF Ledger!Account
    <3> QED
      BY <3>1, <3>2 DEF Ledger!Next
  <2> QED
    BY <1>6, <2>2, <2>3 DEF WriteTrace
<1>7. ASSUME NEW p \in Scanner, ScanStep(p), ~ WriteTrace(p),
             ~ \E c \in Chat : AdvanceCursor(p, c)
      PROVE  Same
  <2>1. UNCHANGED <<cursor, chatOf, stored, baselined, reviewed>>
    BY <1>7
    DEF ScanStep, SyncSources, AbortOffline, MarkTranscription, EndTranscription,
        SelectMonitored, NextChat, EndOfChats, PersistAnalysisResult, ContractFailure,
        ClassifierAbort, EndOfAdvance, DeliverDigest, WithholdDigest, FinishRun,
        RecordRunFunnel, storeVars, messageVars, reviewVars
  <2> QED
    BY <2>1, LedgerFrame
<1>8. ASSUME \/ \E c \in Chat, s \in Settable : SetChatStatus(c, s)
             \/ \E l \in Link : LinkChats(l[1], l[2])
             \/ \E c \in Chat : UnlinkChat(c)
             \/ \E p \in Scanner, mode \in Mode : BeginScan(p, mode)
             \/ \E p \in Scanner : Crash(p)
             \/ \E r \in RunId, d \in Outcome : Notify(r, d)
             \/ UNCHANGED vars
      PROVE  Same
  <2>1. UNCHANGED <<cursor, chatOf, stored, reviewed, baselined>>
    BY <1>8
    DEF SetChatStatus, LinkChats, UnlinkChat, BeginScan, Crash, Notify, vars, storeVars,
        messageVars, reviewVars
  <2> QED
    BY <2>1, LedgerFrame
<1> QED
  BY <1>1, <1>2, <1>3, <1>4, <1>5, <1>6, <1>7, <1>8 DEF Next, Undisturbed, Operator

\* The store, its scans, ingest, retention and the operator implement the ledger that
\* only ever passes messages with a recorded verdict or baseline.
THEOREM StoreImplementsLedger == Spec => ImplementsLedger
<1>1. Init => Ledger!Init
  BY DEF Init, Ledger!Init, Passed
<1>2. IInv /\ NothingSkipped' /\ [Next]_vars => [Ledger!Next]_(Ledger!vars)
  BY LedgerStep
<1> QED
  BY <1>1, <1>2, Inductive, ReviewIsComplete, PTL DEF Spec, ImplementsLedger, Ledger!Spec

-----------------------------------------------------------------------------
(* Alerts reach their dispatch. *)

\* A run that delivers has its alerts dispatched, as it is noted in n.
Dispatched(r, n) == n \in Delivery /\ (n = "sent" => ActionableItemsForRun(r) \subseteq surfaced)

\* The scan of a run knows how the alerts were dispatched before it notes it on the
\* run's row, and until then the row has no note.
ScanAlerts(p) ==
  /\ run[p] # 0 => runNotice[run[p]] = "unset"
  /\ pc[p] = "sync" => ActionableItemsForRun(run[p]) = {}
  /\ pc[p] \in {"close", "funnel"} /\ Delivers(p) /\ ActionableItemsForRun(run[p]) # {}
       => Dispatched(run[p], notice[p])

\* No two scans share a run, and a run that has not begun has neither items nor a note.
AlertInv ==
  /\ \A i \in items : i.run <= lastRun
  /\ \A p, q \in Scanner : run[p] = run[q] /\ run[p] # 0 => p = q
  /\ \A r \in RunId : r > lastRun => runNotice[r] = "unset"
  /\ \A p \in Scanner : ScanAlerts(p)

AInv == IInv /\ AlertInv /\ AlertsDispatched

LEMMA AlertInit == Init => AlertInv /\ AlertsDispatched
BY DEF Init, AlertInv, ScanAlerts, AlertsDispatched

\* What a step must leave alone for a scan's knowledge of its alerts to stand.
AlertKept(p) ==
  /\ run'[p] \in {run[p], 0}
  /\ pc'[p] = "sync" => pc[p] = "sync" /\ run'[p] = run[p]
  /\ pc'[p] \in {"close", "funnel"} =>
       pc[p] \in {"close", "funnel"} /\ run'[p] = run[p] /\ notice'[p] = notice[p]

\* Steps that begin no run, note nothing on a row and add no item.
LEMMA AlertFrame ==
  ASSUME AInv, UNCHANGED <<lastRun, runMode, runNotice>>, items' \subseteq items,
         surfaced \subseteq surfaced', \A p \in Scanner : AlertKept(p)
  PROVE  AlertInv' /\ AlertsDispatched'
<1> USE DEF AInv, IInv, AlertInv
<1>1. ASSUME NEW p \in Scanner
      PROVE  ScanAlerts(p)'
  <2>1. ScanAlerts(p) /\ AlertKept(p)
    OBVIOUS
  <2>2. run'[p] # 0 => runNotice'[run'[p]] = "unset"
    BY <2>1 DEF ScanAlerts, AlertKept
  <2>3. pc'[p] = "sync" => ActionableItemsForRun(run[p])' = {}
    BY <2>1 DEF ScanAlerts, AlertKept, ActionableItemsForRun
  <2>4. ASSUME pc'[p] \in {"close", "funnel"}, Delivers(p)',
               ActionableItemsForRun(run[p])' # {}
        PROVE  Dispatched(run[p], notice[p])'
    <3>1. /\ pc[p] \in {"close", "funnel"} /\ run'[p] = run[p] /\ notice'[p] = notice[p]
          /\ Delivers(p)
      BY <2>1, <2>4 DEF AlertKept, Delivers
    <3>2. ActionableItemsForRun(run[p])' \subseteq ActionableItemsForRun(run[p])
      BY <3>1 DEF ActionableItemsForRun
    <3>3. Dispatched(run[p], notice[p])
      BY <2>1, <2>4, <3>1, <3>2 DEF ScanAlerts
    <3> QED
      BY <3>1, <3>2, <3>3 DEF Dispatched
  <2> QED
    BY <2>2, <2>3, <2>4 DEF ScanAlerts
<1>2. \A p, q \in Scanner : run'[p] = run'[q] /\ run'[p] # 0 => p = q
  BY DEF AlertKept
<1>3. AlertsDispatched'
  <2>1. \A r \in RunId : ActionableItemsForRun(r)' \subseteq ActionableItemsForRun(r)
    BY DEF ActionableItemsForRun
  <2> QED
    BY <2>1 DEF AlertsDispatched
<1> QED
  BY <1>1, <1>2, <1>3

\* The new run has no items and no note, and nobody else works on it.
LEMMA AlertBegin ==
  ASSUME AInv, NEW p \in Scanner, NEW mode \in Mode, BeginScan(p, mode)
  PROVE  AlertInv' /\ AlertsDispatched'
<1> USE DEF AInv, IInv, AlertInv
<1>1. /\ lastRun' = lastRun + 1 /\ lastRun \in Nat /\ lastRun + 1 \in RunId
      /\ UNCHANGED <<runNotice, items, surfaced, notice>>
      /\ \A r \in RunId : r # lastRun + 1 => runMode'[r] = runMode[r]
      /\ run' = [run EXCEPT ![p] = lastRun + 1]
      /\ pc' = [pc EXCEPT ![p] = IF mode = "live" THEN "sync" ELSE "select"]
  BY BoundAssumption DEF BeginScan, TypeOK, RunId, alertVars
<1>2. \A q \in Scanner : run[q] \in 0 .. lastRun /\ (pc[q] # "idle" => run[q] \in RunId)
  BY <1>1, RunIsStarted DEF TypeOK
<1>3. \A r \in RunId : ActionableItemsForRun(r)' = ActionableItemsForRun(r)
  BY <1>1 DEF ActionableItemsForRun
<1>4. ActionableItemsForRun(lastRun + 1) = {}
  BY <1>1 DEF ActionableItemsForRun, TypeOK, Item, RunId
<1>5. ASSUME NEW q \in Scanner
      PROVE  ScanAlerts(q)'
  <2>1. CASE q = p
    <3>1. run'[q] = lastRun + 1 /\ pc'[q] \in {"sync", "select"}
      BY <1>1, <2>1 DEF TypeOK
    <3> QED
      BY <1>1, <1>3, <1>4, <3>1 DEF ScanAlerts, ActionableItemsForRun
  <2>2. CASE q # p
    <3>1. run'[q] = run[q] /\ pc'[q] = pc[q] /\ notice'[q] = notice[q]
      BY <1>1, <2>2 DEF TypeOK
    <3>2. ASSUME pc[q] # "idle"
          PROVE  runMode'[run[q]] = runMode[run[q]]
      BY <1>1, <1>2, <3>2
    <3> QED
      BY <1>1, <3>1, <3>2 DEF ScanAlerts, Delivers, Dispatched, ActionableItemsForRun
  <2> QED
    BY <2>1, <2>2
<1>6. \A q, s \in Scanner : run'[q] = run'[s] /\ run'[q] # 0 => q = s
  BY <1>1, <1>2 DEF TypeOK
<1>7. \A i \in items' : i.run <= lastRun'
  BY <1>1 DEF TypeOK, Item, RunId
<1>8. AlertsDispatched'
  BY <1>1, <1>3, <1>4 DEF AlertsDispatched, RunId
<1>9. \A r \in RunId : r > lastRun' => runNotice'[r] = "unset"
  BY <1>1 DEF RunId
<1> QED
  BY <1>5, <1>6, <1>7, <1>8, <1>9

\* The scan adds an item to its own run, which it has not noted yet.
LEMMA AlertPersist ==
  ASSUME AInv, NEW p \in Scanner, NEW b \in Verdict, PersistAnalysisResult(p, b)
  PROVE  AlertInv' /\ AlertsDispatched'
<1> USE DEF AInv, IInv, AlertInv
<1>1. PICK i : /\ i = [run |-> run[p], chat |-> head[p], actionable |-> b]
               /\ items' = items \cup {i}
  BY DEF PersistAnalysisResult
<1>2. /\ UNCHANGED <<lastRun, runMode, runNotice, surfaced, run, notice>>
      /\ pc[p] = "analyze" /\ pc' = [pc EXCEPT ![p] = "trace"]
  BY DEF PersistAnalysisResult, runVars, localVars
<1>3. run[p] \in 1 .. lastRun /\ run[p] \in RunId /\ i.run = run[p] /\ lastRun \in Nat
  BY <1>1, <1>2, RunIsStarted, BoundAssumption DEF TypeOK
<1>4. \A r : r # run[p] => ActionableItemsForRun(r)' = ActionableItemsForRun(r)
  BY <1>1, <1>3 DEF ActionableItemsForRun
<1>5. ASSUME NEW q \in Scanner
      PROVE  ScanAlerts(q)'
  <2>1. CASE q = p
    <3>1. pc'[q] = "trace"
      BY <1>2, <2>1 DEF TypeOK
    <3> QED
      BY <1>2, <3>1 DEF ScanAlerts
  <2>2. CASE q # p
    <3>1. pc'[q] = pc[q] /\ run[q] # run[p]
      BY <1>2, <1>3, <2>2 DEF TypeOK
    <3>2. ActionableItemsForRun(run[q])' = ActionableItemsForRun(run[q])
      BY <1>2, <1>4, <3>1 DEF ActionableItemsForRun
    <3> QED
      BY <1>2, <3>1, <3>2 DEF ScanAlerts, Delivers, Dispatched
  <2> QED
    BY <2>1, <2>2
<1>6. AlertsDispatched'
  <2>1. runNotice[run[p]] = "unset"
    BY <1>3 DEF ScanAlerts
  <2> QED
    BY <1>2, <1>4, <2>1 DEF AlertsDispatched
<1>7. \A k \in items' : k.run <= lastRun'
  BY <1>1, <1>2, <1>3
<1> QED
  BY <1>2, <1>5, <1>6, <1>7

\* A scan reaches its close without a run or an item changing: having given up at the
\* start, dispatched its digest, or had nothing to dispatch.
LEMMA AlertClose ==
  ASSUME AInv, NEW p \in Scanner,
         \/ AbortOffline(p)
         \/ \E d \in Outcome : DeliverDigest(p, d)
         \/ WithholdDigest(p)
  PROVE  AlertInv' /\ AlertsDispatched'
<1> USE DEF AInv, IInv, AlertInv
<1>1. /\ UNCHANGED <<lastRun, runMode, runNotice, items, run>>
      /\ surfaced \subseteq surfaced' /\ pc[p] # "idle" /\ pc' = [pc EXCEPT ![p] = "close"]
      /\ \A q \in Scanner \ {p} : notice'[q] = notice[q]
  BY DEF AbortOffline, DeliverDigest, WithholdDigest, runVars, alertVars, TypeOK
<1>2. \A r : ActionableItemsForRun(r)' = ActionableItemsForRun(r)
  BY <1>1 DEF ActionableItemsForRun
<1>3. ASSUME Delivers(p), ActionableItemsForRun(run[p]) # {}
      PROVE  Dispatched(run[p], notice[p])'
  <2>1. PICK d \in Outcome : DeliverDigest(p, d)
    BY <1>3 DEF ScanAlerts, AbortOffline, WithholdDigest
  <2>2. /\ notice'[p] = d /\ d \in Delivery
        /\ d = "sent" => surfaced' = surfaced \cup ActionableItemsForRun(run[p])
    BY <2>1, InputAssumption DEF DeliverDigest, TypeOK, Delivery
  <2>3. ActionableItemsForRun(run[p])' = ActionableItemsForRun(run[p])
    BY <1>1 DEF ActionableItemsForRun
  <2> QED
    BY <2>2, <2>3 DEF Dispatched
<1>4. ASSUME NEW q \in Scanner
      PROVE  ScanAlerts(q)'
  <2>0. /\ ScanAlerts(q) /\ run'[q] = run[q] /\ runNotice' = runNotice
        /\ (Delivers(q)' <=> Delivers(q))
        /\ ActionableItemsForRun(run[q])' = ActionableItemsForRun(run[q])
    BY <1>1 DEF Delivers, ActionableItemsForRun
  <2>1. CASE q = p
    <3>1. pc'[q] = "close"
      BY <1>1, <2>1 DEF TypeOK
    <3> QED
      BY <1>3, <2>0, <2>1, <3>1 DEF ScanAlerts
  <2>2. CASE q # p
    <3>1. pc'[q] = pc[q] /\ notice'[q] = notice[q]
      BY <1>1, <2>2 DEF TypeOK
    <3> QED
      BY <1>1, <2>0, <3>1 DEF ScanAlerts, Dispatched
  <2> QED
    BY <2>1, <2>2
<1>5. AlertsDispatched'
  BY <1>1, <1>2 DEF AlertsDispatched
<1> QED
  BY <1>1, <1>4, <1>5

\* The row gets its note: what the scan knows of its dispatch.
LEMMA AlertNote ==
  ASSUME AInv, NEW p \in Scanner, RecordRunFunnel(p)
  PROVE  AlertInv' /\ AlertsDispatched'
<1> USE DEF AInv, IInv, AlertInv
<1>1. /\ UNCHANGED <<lastRun, runMode, items, surfaced>>
      /\ pc[p] = "funnel" /\ pc' = [pc EXCEPT ![p] = "idle"]
      /\ run' = [run EXCEPT ![p] = 0] /\ notice' = [notice EXCEPT ![p] = "unset"]
      /\ runNotice' = [runNotice EXCEPT ![run[p]] = notice[p]]
  BY DEF RecordRunFunnel, Reset, alertVars
<1>2. run[p] \in 1 .. lastRun /\ run[p] \in RunId
  BY <1>1, RunIsStarted
<1>3. \A r : ActionableItemsForRun(r)' = ActionableItemsForRun(r)
  BY <1>1 DEF ActionableItemsForRun
<1>4. ASSUME NEW q \in Scanner
      PROVE  ScanAlerts(q)'
  <2>1. CASE q = p
    <3>1. pc'[q] = "idle" /\ run'[q] = 0
      BY <1>1, <2>1 DEF TypeOK
    <3> QED
      BY <3>1 DEF ScanAlerts
  <2>2. CASE q # p
    <3>1. /\ pc'[q] = pc[q] /\ notice'[q] = notice[q] /\ run'[q] = run[q]
          /\ run[q] # run[p] \/ run[q] = 0
      BY <1>1, <1>2, <2>2 DEF TypeOK
    <3>2. run[q] # 0 => runNotice'[run[q]] = runNotice[run[q]]
      BY <1>1, <1>2, <3>1, RunIsStarted DEF TypeOK, RunId
    <3>3. ActionableItemsForRun(run[q])' = ActionableItemsForRun(run[q])
      BY <1>1, <3>1 DEF ActionableItemsForRun
    <3> QED
      BY <1>1, <3>1, <3>2, <3>3 DEF ScanAlerts, Delivers, Dispatched
  <2> QED
    BY <2>1, <2>2
<1>5. AlertsDispatched'
  <2>1. SUFFICES ASSUME NEW r \in RunId, runMode[r] \in {"live", "process"},
                        runNotice'[r] # "unset", ActionableItemsForRun(r) # {}
                 PROVE  Dispatched(r, runNotice'[r])
    BY <1>1, <1>3 DEF AlertsDispatched, Dispatched
  <2>2. CASE r = run[p]
    <3>1. ScanAlerts(p) /\ Delivers(p) /\ runNotice'[r] = notice[p]
      BY <1>1, <1>2, <2>1, <2>2 DEF Delivers, TypeOK
    <3> QED
      BY <1>1, <2>1, <2>2, <3>1 DEF ScanAlerts
  <2>3. CASE r # run[p]
    <3>1. runNotice'[r] = runNotice[r]
      BY <1>1, <1>2, <2>3 DEF TypeOK
    <3> QED
      BY <2>1, <3>1 DEF AlertsDispatched, Dispatched
  <2> QED
    BY <2>2, <2>3
<1>6. \A r \in RunId : r > lastRun' => runNotice'[r] = "unset"
  BY <1>1, <1>2 DEF TypeOK, RunId
<1>7. \A q, s \in Scanner : run'[q] = run'[s] /\ run'[q] # 0 => q = s
  BY <1>1 DEF TypeOK
<1> QED
  BY <1>1, <1>4, <1>5, <1>6, <1>7

LEMMA AlertStep ==
  ASSUME AInv, [Next]_vars
  PROVE  AlertInv' /\ AlertsDispatched'
<1> USE DEF AInv, IInv
<1>1. ASSUME NEW p \in Scanner, ScanStep(p)
      PROVE  AlertInv' /\ AlertsDispatched'
  <2>1. ASSUME \/ \E ok \in SUBSET Source : SyncSources(p, ok)
               \/ \E m \in MessageId, v \in VoiceStatus : MarkTranscription(p, m, v)
               \/ EndTranscription(p) \/ SelectMonitored(p) \/ EndOfChats(p)
               \/ NextChat(p)
               \/ ContractFailure(p) \/ ClassifierAbort(p)
               \/ WriteTrace(p)
               \/ \E c \in Chat : AdvanceCursor(p, c)
               \/ EndOfAdvance(p) \/ FinishRun(p)
        PROVE  AlertInv' /\ AlertsDispatched'
    <3>1. /\ UNCHANGED <<lastRun, runMode, runNotice, items, surfaced, run, notice>>
          /\ \E s \in Step : pc' = [pc EXCEPT ![p] = s] /\ s \notin {"sync", "close"}
               /\ (s = "funnel" => pc[p] = "close")
      <4>1. CASE \E ok \in SUBSET Source : SyncSources(p, ok)
        BY <4>1 DEF SyncSources, Step, runVars, alertVars
      <4>2. CASE \/ EndTranscription(p) \/ SelectMonitored(p) \/ EndOfChats(p)
                 \/ ContractFailure(p) \/ ClassifierAbort(p) \/ EndOfAdvance(p)
        BY <4>2 DEF EndTranscription, SelectMonitored, EndOfChats, ContractFailure,
           ClassifierAbort, EndOfAdvance, Step, runVars, alertVars, localVars
      <4>3. CASE \E m \in MessageId, v \in VoiceStatus : MarkTranscription(p, m, v)
        <5>1. pc' = pc /\ pc[p] = "transcribe" /\ pc' = [pc EXCEPT ![p] = "transcribe"]
          BY <4>3 DEF MarkTranscription, TypeOK
        <5> QED
          BY <4>3, <5>1 DEF MarkTranscription, Step, runVars, alertVars
      <4>4. CASE NextChat(p)
        <5>1. \/ pc' = pc /\ pc[p] = "next" /\ pc' = [pc EXCEPT ![p] = "next"]
              \/ pc' = [pc EXCEPT ![p] = "analyze"]
          BY <4>4 DEF NextChat, TypeOK
        <5> QED
          BY <4>4, <5>1 DEF NextChat, Step, runVars, alertVars
      <4>5. CASE WriteTrace(p)
        BY <4>5 DEF WriteTrace, Step, runVars, alertVars
      <4>6. CASE \E c \in Chat : AdvanceCursor(p, c)
        <5>1. pc' = pc /\ pc[p] = "advance" /\ pc' = [pc EXCEPT ![p] = "advance"]
          BY <4>6 DEF AdvanceCursor, TypeOK
        <5> QED
          BY <4>6, <5>1 DEF AdvanceCursor, Step, runVars, alertVars
      <4>7. CASE FinishRun(p)
        BY <4>7 DEF FinishRun, Step, alertVars, localVars
      <4> QED
        BY <2>1, <4>1, <4>2, <4>3, <4>4, <4>5, <4>6, <4>7
    <3>2. \A q \in Scanner : AlertKept(q)
      BY <3>1 DEF AlertKept, TypeOK
    <3> QED
      BY <3>1, <3>2, AlertFrame
  <2> QED
    BY <1>1, <2>1, AlertPersist, AlertClose, AlertNote DEF ScanStep
<1>2. ASSUME NEW p \in Scanner, Crash(p)
      PROVE  AlertInv' /\ AlertsDispatched'
  <2>1. UNCHANGED <<lastRun, runMode, runNotice, items, surfaced>>
    BY <1>2 DEF Crash, runVars, alertVars
  <2>2. \A q \in Scanner : AlertKept(q)
    BY <1>2 DEF AlertKept, Crash, Reset, TypeOK
  <2> QED
    BY <2>1, <2>2, AlertFrame
<1>3. ASSUME \/ \E c \in Chat, t \in Time, v \in Kind : InsertMessage(c, t, v)
             \/ \E t \in 1 .. MaxTime + 1 : PruneGmailUnmonitored(t)
             \/ Operator
             \/ \E r \in RunId, d \in Outcome : Notify(r, d)
             \/ UNCHANGED vars
      PROVE  AlertInv' /\ AlertsDispatched'
  <2>1. /\ UNCHANGED <<lastRun, runMode, runNotice, pc, run, notice>>
        /\ items' \subseteq items /\ surfaced \subseteq surfaced'
    BY <1>3 DEF InsertMessage, PruneGmailUnmonitored, Operator, SetChatStatus,
       BaselineCursor, LinkChats, UnlinkChat, Notify, vars, runVars, alertVars, scanVars,
       localVars
  <2>2. \A q \in Scanner : AlertKept(q)
    BY <2>1 DEF AlertKept
  <2> QED
    BY <2>1, <2>2, AlertFrame
<1> QED
  BY <1>1, <1>2, <1>3, AlertBegin DEF Next, Undisturbed

\* A live or process run that recorded how it ended dispatched the alerts it raised,
\* whatever crashed, was deleted, was notified again or was scanned at the same time.
THEOREM AlertsReachDispatch == Spec => []AlertsDispatched
<1>1. Init => AInv
  BY TypeInit, LocalInit, SkipInit, AlertInit DEF AInv, IInv
<1>2. AInv /\ [Next]_vars => AInv'
  BY TypeStep, LocalStep, SkipStep, AlertStep DEF AInv, IInv
<1>3. AInv => AlertsDispatched
  BY DEF AInv
<1> QED
  BY <1>1, <1>2, <1>3, PTL DEF Spec

-----------------------------------------------------------------------------
(* One scanner that nothing disturbs reviews each message once. *)

\* A message with a verdict is behind its cursor, or its cursor is about to be moved
\* to the end of the delta it is in.
Passing(p) ==
  \A m \in reviewed :
    \/ m <= cursor[chatOf[m]]
    \/ pc[p] = "advance" /\ m \in delta[p] /\ chatOf[m] \in left[p]

\* What a delta holds of a chat came after what had been reviewed of it.
Ahead(p) ==
  pc[p] \in Reviewing /\ MovesCursors(p) =>
    \A d \in delta[p], m \in reviewed \ delta[p] : chatOf[m] = chatOf[d] => m < d

OnceInv == \A p \in Scanner : Passing(p) /\ Ahead(p)

OInv == IInv /\ OnceInv /\ ReviewedOnce

LEMMA OnceInit == Init => OnceInv /\ ReviewedOnce
BY DEF Init, OnceInv, Passing, Ahead, Reviewing, ReviewedOnce

\* Steps that give no verdict, start no review and set no cursor back.
LEMMA OnceFrame ==
  ASSUME OInv, \A p, q \in Scanner : p = q, NEW p \in Scanner,
         reviewed' = reviewed,
         \A c \in Chat : cursor'[c] \in Nat /\ cursor[c] <= cursor'[c],
         \A m \in 1 .. lastId : chatOf'[m] = chatOf[m],
         pc[p] = "advance" => pc'[p] = "advance",
         pc'[p] \in {"analyze", "trace"} => pc[p] \in {"analyze", "trace"},
         pc'[p] = "advance" => pc[p] = "advance",
         pc'[p] \in Reviewing =>
           /\ delta'[p] = delta[p] /\ left'[p] = left[p]
           /\ (MovesCursors(p)' <=> MovesCursors(p))
  PROVE  OnceInv' /\ ReviewedOnce'
<1> USE DEF OInv, IInv
<1>1. /\ reviewed \subseteq 1 .. lastId /\ delta[p] \subseteq 1 .. lastId /\ lastId \in Nat
      /\ \A m \in 1 .. lastId : chatOf[m] \in Chat
      /\ \A c \in Chat : cursor[c] \in Nat
  BY BoundAssumption DEF TypeOK
<1>2. Passing(p) /\ Ahead(p)
  BY DEF OnceInv
<1>3. Passing(p)'
  <2>1. SUFFICES ASSUME NEW m \in reviewed
                 PROVE  \/ m <= cursor'[chatOf'[m]]
                        \/ pc'[p] = "advance" /\ m \in delta'[p] /\ chatOf'[m] \in left'[p]
    BY DEF Passing
  <2>2. chatOf'[m] = chatOf[m] /\ cursor[chatOf[m]] <= cursor'[chatOf[m]]
        /\ chatOf[m] \in Chat /\ m \in Nat
    BY <1>1
  <2>3. CASE m <= cursor[chatOf[m]]
    <3>1. cursor[chatOf[m]] \in Nat
      BY <1>1, <2>2
    <3>2. cursor'[chatOf[m]] \in Nat
      BY <2>2
    <3> QED
      BY <2>2, <2>3, <3>1, <3>2
  <2>4. CASE pc[p] = "advance" /\ m \in delta[p] /\ chatOf[m] \in left[p]
    BY <2>2, <2>4 DEF Reviewing
  <2> QED
    BY <1>2, <2>3, <2>4 DEF Passing
<1>4. Ahead(p)'
  <2>1. SUFFICES ASSUME pc'[p] \in Reviewing, MovesCursors(p)', NEW d \in delta'[p],
                        NEW m \in reviewed \ delta'[p], chatOf'[m] = chatOf'[d]
                 PROVE  m < d
    BY DEF Ahead
  <2>2. delta'[p] = delta[p] /\ MovesCursors(p) /\ pc[p] \in Reviewing
    BY <2>1 DEF Reviewing
  <2>3. chatOf[m] = chatOf[d]
    BY <1>1, <2>1, <2>2
  <2> QED
    BY <1>2, <2>1, <2>2, <2>3 DEF Ahead
<1>5. ReviewedOnce'
  BY DEF ReviewedOnce, Reviewing
<1> QED
  BY <1>3, <1>4, <1>5 DEF OnceInv

\* What a cursor-moving scan reads lies beyond the cursors.
LEMMA DeltaIsAhead ==
  ASSUME NEW p \in Scanner, NEW h, MovesCursors(p), NEW d \in ChatDelta(p, h)
  PROVE  d > cursor[chatOf[d]]
<1>1. d \in FamilyDeltaSinceCursor(h)
  BY DEF ChatDelta, MovesCursors, HoldBackUntranscribed, FromSyncedSource
<1>2. PICK c \in FamilyMemberIds(h) : d \in MessagesSinceCursor(c)
  BY <1>1 DEF FamilyDeltaSinceCursor
<1> QED
  BY <1>2 DEF MessagesSinceCursor, MessagesForChat

\* A new delta: between two reviews everything with a verdict is behind its cursor.
LEMMA OnceNextChat ==
  ASSUME OInv, \A p, q \in Scanner : p = q, NEW p \in Scanner, NextChat(p)
  PROVE  OnceInv' /\ ReviewedOnce'
<1> USE DEF OInv, IInv
<1>1. /\ UNCHANGED <<reviewed, cursor, chatOf, left, runMode, run>>
      /\ pc[p] = "next"
  BY DEF NextChat, storeVars, messageVars, reviewVars, runVars
<1>2. \A m \in reviewed : m <= cursor[chatOf[m]] /\ m \in Nat /\ cursor[chatOf[m]] \in Nat
  BY <1>1, BoundAssumption DEF OnceInv, Passing, TypeOK
<1>3. Passing(p)'
  BY <1>1, <1>2 DEF Passing
<1>4. ASSUME pc'[p] \in Reviewing, MovesCursors(p)'
      PROVE  \A d \in delta'[p], m \in reviewed : m # d /\ (chatOf[m] = chatOf[d] => m < d)
  <2>1. PICK h \in todo[p] : delta' = [delta EXCEPT ![p] = ChatDelta(p, h)]
    BY <1>1, <1>4 DEF NextChat, Reviewing
  <2>2. delta'[p] = ChatDelta(p, h) /\ MovesCursors(p)
    BY <1>1, <1>4, <2>1 DEF MovesCursors, TypeOK
  <2>3. SUFFICES ASSUME NEW d \in ChatDelta(p, h), NEW m \in reviewed
                 PROVE  m # d /\ (chatOf[m] = chatOf[d] => m < d)
    BY <2>2
  <2>4. d > cursor[chatOf[d]] /\ d \in Nat /\ cursor[chatOf[d]] \in Nat
    <3>1. d \in stored
      BY DeltaIsStored
    <3>2. d \in Nat /\ cursor[chatOf[d]] \in Nat
      BY <3>1, BoundAssumption DEF TypeOK
    <3> QED
      BY <2>2, <3>2, DeltaIsAhead
  <2> QED
    BY <1>2, <2>4
<1>5. Ahead(p)'
  BY <1>1, <1>4 DEF Ahead
<1>6. ReviewedOnce'
  BY <1>1, <1>4 DEF ReviewedOnce, Reviewing
<1> QED
  BY <1>3, <1>5, <1>6 DEF OnceInv

\* The verdicts of a delta: its chats' cursors are all about to be moved.
LEMMA OnceTrace ==
  ASSUME OInv, \A p, q \in Scanner : p = q, NEW p \in Scanner, WriteTrace(p)
  PROVE  OnceInv' /\ ReviewedOnce'
<1> USE DEF OInv, IInv
<1>1. /\ UNCHANGED <<cursor, chatOf, delta, runMode, run>>
      /\ pc[p] = "trace" /\ pc'[p] = "advance"
  BY DEF WriteTrace, messageVars, runVars, TypeOK
<1>2. Passing(p) /\ Ahead(p)
  BY DEF OnceInv
<1>3. \A m \in reviewed : m <= cursor[chatOf[m]]
  BY <1>1, <1>2 DEF Passing
<1>4. CASE MovesCursors(p)
  <2>1. reviewed' = reviewed \cup delta[p] /\ left'[p] = {chatOf[m] : m \in delta[p]}
    BY <1>4 DEF WriteTrace, TypeOK
  <2>2. Passing(p)'
    BY <1>1, <1>3, <2>1 DEF Passing
  <2>3. Ahead(p)'
    BY <1>1, <1>2, <1>4, <2>1 DEF Ahead, Reviewing
  <2> QED
    BY <1>1, <2>2, <2>3 DEF OnceInv, ReviewedOnce
<1>5. CASE ~MovesCursors(p)
  <2>1. reviewed' = reviewed /\ ~MovesCursors(p)'
    BY <1>1, <1>5 DEF WriteTrace, MovesCursors
  <2> QED
    BY <1>1, <1>3, <2>1 DEF OnceInv, Passing, Ahead, ReviewedOnce
<1> QED
  BY <1>4, <1>5

\* A cursor lands on the last of its part of the delta, beyond all that was reviewed.
LEMMA OnceAdvance ==
  ASSUME OInv, \A p, q \in Scanner : p = q, NEW p \in Scanner, NEW c \in Chat,
         AdvanceCursor(p, c)
  PROVE  OnceInv' /\ ReviewedOnce'
<1> USE DEF OInv, IInv
<1>1. /\ UNCHANGED <<reviewed, chatOf, delta, runMode, run, pc>>
      /\ pc[p] = "advance" /\ c \in left[p] /\ left' = [left EXCEPT ![p] = left[p] \ {c}]
  BY DEF AdvanceCursor, messageVars, runVars
<1>2. PICK t \in stored : /\ IsMax(t, {n \in delta[p] : chatOf[n] = c})
                          /\ cursor' = [cursor EXCEPT ![c] = t]
  BY DEF AdvanceCursor, CursorTarget
<1>3. Passing(p) /\ Ahead(p) /\ MovesCursors(p)
  BY <1>1 DEF OnceInv, ScanInv, LocalInv
<1>4. Passing(p)'
  <2>1. SUFFICES ASSUME NEW m \in reviewed
                 PROVE  \/ m <= cursor'[chatOf[m]]
                        \/ m \in delta[p] /\ chatOf[m] \in left'[p]
    BY <1>1 DEF Passing
  <2>2. CASE chatOf[m] = c
    <3>1. cursor'[chatOf[m]] = t /\ t \in delta[p] /\ chatOf[t] = c
      BY <1>2, <2>2 DEF IsMax, TypeOK
    <3>2. t \in Nat /\ m \in Nat
      BY BoundAssumption DEF TypeOK
    <3>3. m <= t
      <4>1. CASE m \in delta[p]
        BY <1>2, <2>2, <4>1 DEF IsMax
      <4>2. CASE m \notin delta[p]
        <5>1. m < t
          BY <1>1, <1>3, <2>2, <3>1, <4>2 DEF Ahead, Reviewing
        <5> QED
          BY <3>2, <5>1
      <4> QED
        BY <4>1, <4>2
    <3> QED
      BY <3>1, <3>3
  <2>3. CASE chatOf[m] # c
    <3>1. cursor'[chatOf[m]] = cursor[chatOf[m]]
      BY <1>2, <2>3 DEF TypeOK
    <3>2. chatOf[m] \in left[p] => chatOf[m] \in left'[p]
      BY <1>1, <2>3 DEF TypeOK
    <3> QED
      BY <1>1, <1>3, <3>1, <3>2 DEF Passing
  <2> QED
    BY <2>2, <2>3
<1>5. Ahead(p)'
  BY <1>1, <1>3 DEF Ahead, Reviewing, MovesCursors
<1> QED
  BY <1>1, <1>4, <1>5 DEF OnceInv, ReviewedOnce

LEMMA OnceStep ==
  ASSUME OInv, \A p, q \in Scanner : p = q, [Undisturbed]_vars
  PROVE  OnceInv' /\ ReviewedOnce'
<1> USE DEF OInv, IInv
<1>1. CASE Scanner = {}
  BY <1>1 DEF OnceInv, ReviewedOnce
<1>2. SUFFICES ASSUME NEW p \in Scanner
               PROVE  OnceInv' /\ ReviewedOnce'
  BY <1>1
<1>3. \A c \in Chat : cursor[c] \in Nat
  BY BoundAssumption DEF TypeOK
<1>4. ASSUME ScanStep(p)
      PROVE  OnceInv' /\ ReviewedOnce'
  <2>1. CASE EndOfAdvance(p)
    <3>1. /\ UNCHANGED <<reviewed, cursor, chatOf>>
          /\ pc[p] = "advance" /\ left[p] = {} /\ pc'[p] = "next"
      BY <2>1 DEF EndOfAdvance, storeVars, messageVars, reviewVars, TypeOK
    <3> QED
      BY <3>1 DEF OnceInv, Passing, Ahead, Reviewing, ReviewedOnce
  <2>2. ASSUME \/ \E ok \in SUBSET Source : SyncSources(p, ok)
               \/ AbortOffline(p)
               \/ \E m \in MessageId, v \in VoiceStatus : MarkTranscription(p, m, v)
               \/ EndTranscription(p) \/ SelectMonitored(p) \/ EndOfChats(p)
               \/ \E b \in Verdict : PersistAnalysisResult(p, b)
               \/ ContractFailure(p) \/ ClassifierAbort(p)
               \/ \E d \in Outcome : DeliverDigest(p, d)
               \/ WithholdDigest(p) \/ FinishRun(p) \/ RecordRunFunnel(p)
        PROVE  OnceInv' /\ ReviewedOnce'
    <3>1. UNCHANGED <<reviewed, cursor, chatOf, runMode>>
      BY <2>2 DEF SyncSources, AbortOffline, MarkTranscription, EndTranscription,
         SelectMonitored, EndOfChats, PersistAnalysisResult, ContractFailure,
         ClassifierAbort, DeliverDigest, WithholdDigest, FinishRun, RecordRunFunnel,
         storeVars, messageVars, reviewVars, runVars
    <3>2. \/ pc[p] = "analyze" /\ pc'[p] = "trace" /\ UNCHANGED <<delta, left, run>>
          \/ pc[p] # "advance" /\ pc'[p] \notin Reviewing
      BY <2>2 DEF SyncSources, AbortOffline, MarkTranscription, EndTranscription,
         SelectMonitored, EndOfChats, PersistAnalysisResult, ContractFailure,
         ClassifierAbort, DeliverDigest, WithholdDigest, FinishRun, RecordRunFunnel,
         Reset, localVars, Reviewing, TypeOK
    <3>3. pc'[p] \in Reviewing => /\ delta'[p] = delta[p] /\ left'[p] = left[p]
                                  /\ (MovesCursors(p)' <=> MovesCursors(p))
      BY <3>1, <3>2 DEF MovesCursors
    <3>4. /\ \A c \in Chat : cursor'[c] \in Nat /\ cursor[c] <= cursor'[c]
          /\ \A m \in 1 .. lastId : chatOf'[m] = chatOf[m]
      BY <1>3, <3>1
    <3> QED
      BY <3>1, <3>2, <3>3, <3>4, OnceFrame DEF Reviewing
  <2> QED
    BY <1>4, <2>1, <2>2, OnceNextChat, OnceTrace, OnceAdvance DEF ScanStep
<1>5. ASSUME NEW mode \in Mode, BeginScan(p, mode)
      PROVE  OnceInv' /\ ReviewedOnce'
  <2>1. /\ UNCHANGED <<reviewed, cursor, chatOf>>
        /\ pc[p] = "idle" /\ pc'[p] \notin Reviewing
    BY <1>5 DEF BeginScan, storeVars, messageVars, reviewVars, TypeOK, Reviewing
  <2>2. \A c \in Chat : cursor'[c] \in Nat /\ cursor[c] <= cursor'[c]
    BY <1>3, <2>1
  <2> QED
    BY <2>1, <2>2, OnceFrame DEF Reviewing
<1>6. ASSUME \/ \E c \in Chat, t \in Time, v \in Kind : InsertMessage(c, t, v)
             \/ Operator
             \/ \E r \in RunId, d \in Outcome : Notify(r, d)
             \/ UNCHANGED vars
      PROVE  OnceInv' /\ ReviewedOnce'
  <2>1. UNCHANGED <<reviewed, runMode, run, pc, delta, left>>
    BY <1>6 DEF InsertMessage, Operator, SetChatStatus, BaselineCursor, LinkChats,
       UnlinkChat, Notify, vars, storeVars, reviewVars, runVars, scanVars, localVars
  <2>2. \A m \in 1 .. lastId : chatOf'[m] = chatOf[m]
    <3>1. ASSUME NEW c \in Chat, NEW t \in Time, NEW v \in Kind, InsertMessage(c, t, v)
          PROVE  \A m \in 1 .. lastId : chatOf'[m] = chatOf[m]
      BY <3>1, BoundAssumption DEF InsertMessage, TypeOK, MessageId
    <3> QED
      BY <1>6, <3>1 DEF Operator, SetChatStatus, BaselineCursor, LinkChats,
         UnlinkChat, Notify, vars, storeVars, messageVars
  <2>3. \A c \in Chat : cursor'[c] \in Nat /\ cursor[c] <= cursor'[c]
    <3>1. CASE cursor' = cursor
      BY <1>3, <3>1
    <3>2. CASE BaselineCursor
      BY <1>3, <3>2 DEF BaselineCursor, MessageId, TypeOK
    <3>3. cursor' = cursor \/ BaselineCursor
      BY <1>6 DEF InsertMessage, Operator, SetChatStatus, LinkChats,
         UnlinkChat, Notify, vars, storeVars, reviewVars
    <3> QED
      BY <3>1, <3>2, <3>3
  <2>4. MovesCursors(p)' <=> MovesCursors(p)
    BY <2>1 DEF MovesCursors
  <2> QED
    BY <2>1, <2>2, <2>3, <2>4, OnceFrame
<1> QED
  BY <1>4, <1>5, <1>6 DEF Undisturbed

\* When one process scans at a time, nothing dies and nothing is deleted, no message
\* that has a verdict is read for review again, in whatever order messages arrive and
\* the operator monitors, links and unlinks chats.
THEOREM ReviewHappensOnce ==
  ASSUME \A p, q \in Scanner : p = q
  PROVE  UndisturbedSpec => []ReviewedOnce
<1>1. Init => OInv
  BY TypeInit, LocalInit, SkipInit, OnceInit DEF OInv, IInv
<1>2. OInv /\ [Undisturbed]_vars => OInv'
  <2>1. [Undisturbed]_vars => [Next]_vars
    BY DEF Next
  <2> QED
    BY <2>1, TypeStep, LocalStep, SkipStep, OnceStep DEF OInv, IInv
<1>3. OInv => ReviewedOnce
  BY DEF OInv
<1> QED
  BY <1>1, <1>2, <1>3, PTL DEF UndisturbedSpec

-----------------------------------------------------------------------------
(* One scanner reviews no note that it may still transcribe. *)

\* A scan that will give a verdict has held its untranscribed notes back, and what it is
\* to transcribe has no transcript yet.
HeldBack(p) ==
  /\ Transcribing /\ pc[p] \in {"analyze", "trace"} /\ MovesCursors(p)
       => \A m \in delta[p] : ~Untranscribed(m)
  /\ batch[p] # {} => Transcribing /\ pc[p] = "transcribe"
  /\ \A m \in batch[p] : Untranscribed(m) \/ voice[m] = "nomedia"

NoteInv ==
  /\ Transcribing => \A m \in reviewed : ~Untranscribed(m)
  /\ \A p \in Scanner : HeldBack(p)

LEMMA NoteInit == Init => NoteInv
BY DEF Init, NoteInv, HeldBack

\* Steps that touch no known note, give no verdict, begin no phase and start no review.
LEMMA NoteFrame ==
  ASSUME TypeOK, NoteInv, \A p, q \in Scanner : p = q, reviewed' = reviewed,
         \A m \in 1 .. lastId : voice'[m] = voice[m], NEW p \in Scanner,
         batch'[p] = {} \/ (batch'[p] = batch[p] /\ pc'[p] = pc[p]),
         pc'[p] \in {"analyze", "trace"} =>
           /\ pc[p] \in {"analyze", "trace"} /\ delta'[p] = delta[p]
           /\ (MovesCursors(p)' <=> MovesCursors(p))
  PROVE  NoteInv'
<1>1. \A m \in 1 .. lastId : Untranscribed(m)' <=> Untranscribed(m)
  BY DEF Untranscribed
<1>2. reviewed \subseteq 1 .. lastId
  BY DEF TypeOK
<1>3. HeldBack(p)'
  <2>1. batch[p] \subseteq 1 .. lastId /\ delta[p] \subseteq 1 .. lastId
    BY DEF TypeOK
  <2>2. HeldBack(p)
    BY DEF NoteInv
  <2>3. (Transcribing /\ pc[p] \in {"analyze", "trace"} /\ MovesCursors(p)
           => \A m \in delta[p] : ~Untranscribed(m))'
    BY <1>1, <2>1, <2>2 DEF HeldBack
  <2>4. /\ batch'[p] # {} => Transcribing /\ pc'[p] = "transcribe"
        /\ \A m \in batch'[p] : Untranscribed(m)' \/ voice'[m] = "nomedia"
    BY <1>1, <2>1, <2>2 DEF HeldBack
  <2> QED
    BY <2>3, <2>4 DEF HeldBack
<1> QED
  BY <1>1, <1>2, <1>3 DEF NoteInv

\* The batch of a phase is what has no transcript when it begins.
LEMMA NoteSync ==
  ASSUME TypeOK, NoteInv, \A p, q \in Scanner : p = q, NEW p \in Scanner,
         NEW ok \in SUBSET Source, SyncSources(p, ok)
  PROVE  NoteInv'
<1>1. /\ UNCHANGED <<reviewed, voice>> /\ pc'[p] = "transcribe"
      /\ batch'[p] = IF Transcribing
                     THEN {m \in stored : Untranscribed(m) \/ voice[m] = "nomedia"} ELSE {}
  BY DEF SyncSources, storeVars, reviewVars, TypeOK
<1> QED
  BY <1>1, TranscribingAssumption DEF NoteInv, HeldBack, Untranscribed

\* One note of the batch changes: it had no transcript, so it had no verdict.
LEMMA NoteMark ==
  ASSUME TypeOK, NoteInv, \A p, q \in Scanner : p = q, NEW p \in Scanner,
         NEW m \in MessageId, NEW v \in VoiceStatus, MarkTranscription(p, m, v)
  PROVE  NoteInv' /\ (v = "done" => m \notin reviewed)
<1>1. /\ UNCHANGED <<reviewed, pc>> /\ pc[p] = "transcribe" /\ m \in batch[p]
      /\ voice' = [voice EXCEPT ![m] = v] /\ batch'[p] = batch[p] \ {m}
      /\ voice[m] = "nomedia" => v = "skipped_old"
  BY DEF MarkTranscription, reviewVars, TypeOK
<1>2. Transcribing /\ HeldBack(p)
  BY <1>1 DEF NoteInv, HeldBack
<1>3. \A n \in MessageId \ {m} : voice'[n] = voice[n]
  BY <1>1 DEF TypeOK
<1>4. voice'[m] = v
  BY <1>1 DEF TypeOK
<1>5. batch[p] \subseteq MessageId /\ reviewed \subseteq MessageId
  BY BoundAssumption DEF TypeOK, MessageId
<1>6. Untranscribed(m) => m \notin reviewed
  BY <1>2 DEF NoteInv
<1>7. Untranscribed(m) \/ v = "skipped_old"
  BY <1>1, <1>2 DEF HeldBack
<1>8. \A n \in reviewed : ~Untranscribed(n)'
  BY <1>2, <1>3, <1>4, <1>5, <1>6, <1>7 DEF NoteInv, Untranscribed
<1>9. HeldBack(p)'
  BY <1>1, <1>2, <1>3, <1>5 DEF HeldBack, Untranscribed
<1> QED
  BY <1>1, <1>6, <1>7, <1>8, <1>9 DEF NoteInv

LEMMA NoteNext ==
  ASSUME TypeOK, NoteInv, \A p, q \in Scanner : p = q, NEW p \in Scanner, NextChat(p)
  PROVE  NoteInv'
<1>1. /\ UNCHANGED <<reviewed, voice, batch, runMode, run>> /\ pc[p] = "next"
  BY DEF NextChat, storeVars, reviewVars, runVars
<1>2. pc'[p] = "next" \/ pc'[p] = "analyze"
  BY <1>1 DEF NextChat, TypeOK
<1>3. batch'[p] = {}
  BY <1>1 DEF NoteInv, HeldBack
<1>4. ASSUME Transcribing, pc'[p] = "analyze", MovesCursors(p)'
      PROVE  \A m \in delta'[p] : ~Untranscribed(m)
  <2>1. PICK h \in todo[p] : delta' = [delta EXCEPT ![p] = ChatDelta(p, h)]
    BY <1>1, <1>4 DEF NextChat
  <2>2. delta'[p] = ChatDelta(p, h) /\ MovesCursors(p)
    BY <1>1, <1>4, <2>1 DEF MovesCursors, TypeOK
  <2>3. PICK D : D \subseteq stored /\ ChatDelta(p, h) = HoldBackUntranscribed(D)
    <3> DEFINE read == FamilyDeltaSinceCursor(h)
               synced == IF runMode[run[p]] = "live" THEN FromSyncedSource(p, read) ELSE read
    <3>1. ChatDelta(p, h) = HoldBackUntranscribed(synced)
      BY <1>4, <2>2 DEF ChatDelta, MovesCursors
    <3>2. synced \subseteq stored
      BY DEF FromSyncedSource, FamilyDeltaSinceCursor, MessagesSinceCursor, MessagesForChat
    <3> QED
      BY <3>1, <3>2
  <2>4. stored \subseteq Nat
    BY BoundAssumption DEF TypeOK
  <2>5. \A m \in HoldBackUntranscribed(D) : Untranscribed(m) => m < m
    BY DEF HoldBackUntranscribed
  <2>6. HoldBackUntranscribed(D) \subseteq Nat
    BY <2>3, <2>4 DEF HoldBackUntranscribed
  <2>7. \A m \in Nat : ~(m < m)
    OBVIOUS
  <2> QED
    BY <2>2, <2>3, <2>5, <2>6, <2>7
<1> QED
  BY <1>1, <1>2, <1>3, <1>4 DEF NoteInv, HeldBack, Untranscribed

LEMMA NoteTrace ==
  ASSUME TypeOK, NoteInv, \A p, q \in Scanner : p = q, NEW p \in Scanner, WriteTrace(p)
  PROVE  NoteInv'
<1>1. /\ UNCHANGED <<voice, batch, runMode, run, delta>>
      /\ pc[p] = "trace" /\ pc'[p] = "advance"
  BY DEF WriteTrace, runVars, TypeOK
<1>2. reviewed' = reviewed \/ (MovesCursors(p) /\ reviewed' = reviewed \cup delta[p])
  BY DEF WriteTrace
<1> QED
  BY <1>1, <1>2 DEF NoteInv, HeldBack, Untranscribed

\* The whole step: what it keeps, and that it transcribes nothing that was reviewed.
LEMMA NoteStep ==
  ASSUME TypeOK, NoteInv, \A p, q \in Scanner : p = q, [Next]_vars
  PROVE  /\ NoteInv'
         /\ \A m \in stored : voice[m] # "done" /\ voice'[m] = "done" => m \notin reviewed
<1> DEFINE Goal ==
      /\ NoteInv'
      /\ \A m \in stored : voice[m] # "done" /\ voice'[m] = "done" => m \notin reviewed
<1>0. stored \subseteq 1 .. lastId
  BY DEF TypeOK
<1>1. ASSUME NEW p \in Scanner, ScanStep(p)
      PROVE  Goal
  <2>1. ASSUME NEW m \in MessageId, NEW v \in VoiceStatus, MarkTranscription(p, m, v)
        PROVE  Goal
    <3>1. \A n \in stored \ {m} : voice'[n] = voice[n]
      BY <2>1, BoundAssumption DEF MarkTranscription, TypeOK, MessageId
    <3>2. voice'[m] = v
      BY <2>1 DEF MarkTranscription, TypeOK
    <3> QED
      BY <2>1, <3>1, <3>2, NoteMark
  <2>2. ASSUME \/ \E ok \in SUBSET Source : SyncSources(p, ok)
               \/ NextChat(p) \/ WriteTrace(p)
        PROVE  Goal
    <3>1. voice' = voice
      BY <2>2 DEF SyncSources, NextChat, WriteTrace, storeVars
    <3> QED
      BY <2>2, <3>1, NoteSync, NoteNext, NoteTrace
  <2>3. ASSUME \/ AbortOffline(p) \/ EndTranscription(p) \/ SelectMonitored(p)
               \/ EndOfChats(p)
               \/ \E b \in Verdict : PersistAnalysisResult(p, b)
               \/ ContractFailure(p) \/ ClassifierAbort(p)
               \/ \E c \in Chat : AdvanceCursor(p, c)
               \/ EndOfAdvance(p)
               \/ \E d \in Outcome : DeliverDigest(p, d)
               \/ WithholdDigest(p) \/ FinishRun(p) \/ RecordRunFunnel(p)
        PROVE  Goal
    <3>1. UNCHANGED <<reviewed, voice, runMode>>
      BY <2>3 DEF AbortOffline, EndTranscription, SelectMonitored, EndOfChats,
         PersistAnalysisResult, ContractFailure, ClassifierAbort, AdvanceCursor,
         EndOfAdvance, DeliverDigest, WithholdDigest, FinishRun, RecordRunFunnel,
         storeVars, reviewVars, runVars
    <3>2. \/ pc[p] = "analyze" /\ pc'[p] = "trace" /\ UNCHANGED <<delta, run>>
          \/ pc'[p] \notin {"analyze", "trace"}
      BY <2>3 DEF AbortOffline, EndTranscription, SelectMonitored, EndOfChats,
         PersistAnalysisResult, ContractFailure, ClassifierAbort, AdvanceCursor,
         EndOfAdvance, DeliverDigest, WithholdDigest, FinishRun, RecordRunFunnel,
         Reset, localVars, TypeOK
    <3>3. pc'[p] \in {"analyze", "trace"} =>
            /\ pc[p] \in {"analyze", "trace"} /\ delta'[p] = delta[p]
            /\ (MovesCursors(p)' <=> MovesCursors(p))
      BY <3>1, <3>2 DEF MovesCursors
    <3>4. CASE EndTranscription(p) \/ RecordRunFunnel(p)
      BY <3>1, <3>3, <3>4, NoteFrame DEF EndTranscription, RecordRunFunnel, Reset, TypeOK
    <3>5. CASE ~EndTranscription(p) /\ ~RecordRunFunnel(p)
      <4>1. UNCHANGED batch /\ pc[p] # "transcribe"
        BY <2>3, <3>5 DEF AbortOffline, SelectMonitored, EndOfChats,
           PersistAnalysisResult, ContractFailure, ClassifierAbort, AdvanceCursor,
           EndOfAdvance, DeliverDigest, WithholdDigest, FinishRun, localVars
      <4>2. batch'[p] = {}
        BY <4>1 DEF NoteInv, HeldBack
      <4> QED
        BY <3>1, <3>3, <4>2, NoteFrame
    <3>6. NoteInv'
      BY <3>4, <3>5
    <3> QED
      BY <3>1, <3>6
  <2> QED
    BY <1>1, <2>1, <2>2, <2>3 DEF ScanStep
<1>2. ASSUME NEW p \in Scanner, (\E mode \in Mode : BeginScan(p, mode)) \/ Crash(p)
      PROVE  Goal
  <2>1. /\ UNCHANGED <<reviewed, voice>>
        /\ pc'[p] \notin {"analyze", "trace"}
    BY <1>2 DEF BeginScan, Crash, Reset, storeVars, reviewVars, TypeOK
  <2>2. batch'[p] = {}
    <3>1. CASE Crash(p)
      BY <3>1 DEF Crash, Reset, TypeOK
    <3>2. CASE \E mode \in Mode : BeginScan(p, mode)
      BY <3>2 DEF BeginScan, NoteInv, HeldBack
    <3> QED
      BY <1>2, <3>1, <3>2
  <2>3. NoteInv'
    BY <2>1, <2>2, NoteFrame
  <2> QED
    BY <2>1, <2>3
<1>3. ASSUME \/ \E c \in Chat, t \in Time, v \in Kind : InsertMessage(c, t, v)
             \/ \E t \in 1 .. MaxTime + 1 : PruneGmailUnmonitored(t)
             \/ Operator
             \/ \E r \in RunId, d \in Outcome : Notify(r, d)
             \/ UNCHANGED vars
      PROVE  Goal
  <2>1. UNCHANGED <<reviewed, runMode, run, pc, delta, batch>>
    BY <1>3 DEF InsertMessage, PruneGmailUnmonitored, Operator, SetChatStatus,
       BaselineCursor, LinkChats, UnlinkChat, Notify, vars, storeVars, reviewVars,
       runVars, scanVars, localVars
  <2>2. \A m \in 1 .. lastId : voice'[m] = voice[m]
    <3>1. ASSUME NEW c \in Chat, NEW t \in Time, NEW v \in Kind, InsertMessage(c, t, v)
          PROVE  \A m \in 1 .. lastId : voice'[m] = voice[m]
      BY <3>1, BoundAssumption DEF InsertMessage, TypeOK, MessageId
    <3> QED
      BY <1>3, <3>1 DEF PruneGmailUnmonitored, Operator, SetChatStatus, BaselineCursor,
         LinkChats, UnlinkChat, Notify, vars, storeVars
  <2>3. CASE Scanner = {}
    <3>1. reviewed \subseteq 1 .. lastId
      BY DEF TypeOK
    <3> QED
      BY <1>0, <2>1, <2>2, <2>3, <3>1 DEF NoteInv, Untranscribed
  <2>4. ASSUME NEW p \in Scanner
        PROVE  NoteInv'
    <3>1. MovesCursors(p)' <=> MovesCursors(p)
      BY <2>1 DEF MovesCursors
    <3> QED
      BY <2>1, <2>2, <3>1, NoteFrame
  <2> QED
    BY <1>0, <2>2, <2>3, <2>4
<1> QED
  BY <1>1, <1>2, <1>3 DEF Next, Undisturbed

\* With one scanning process no voice note is reviewed as its placeholder and transcribed
\* later, whatever crashes, arrives, fails or is deleted, also when a note is given up.
THEOREM TranscriptsReachReview ==
  ASSUME \A p, q \in Scanner : p = q
  PROVE  Spec => TranscriptReachesReview
<1>1. Init => IInv /\ NoteInv
  BY TypeInit, LocalInit, SkipInit, NoteInit DEF IInv
<1>2. IInv /\ NoteInv /\ [Next]_vars => (IInv /\ NoteInv)'
  BY TypeStep, LocalStep, SkipStep, NoteStep DEF IInv
<1>3. IInv /\ NoteInv /\ [Next]_vars =>
        [\A m \in stored : voice[m] # "done" /\ voice'[m] = "done" => m \notin reviewed]_vars
  BY NoteStep DEF IInv
<1> QED
  BY <1>1, <1>2, <1>3, PTL DEF Spec, TranscriptReachesReview
=============================================================================
