-------------------------- MODULE ReprocessProofs ---------------------------
(***************************************************************************)
(* Proofs about the rebuild for any store, sources and mapping of keys:    *)
(* what the operator had decided is never lost for good, a finished        *)
(* rebuild has put it back, and families stay one level deep.              *)
(***************************************************************************)
EXTENDS Reprocess, TLAPS

Early == {"prepare", "snapshot", "backup"}
Late  == {"wipe", "ingest", "restore", "rest", "link", "done"}

\* The backup file has every decision the checkpoint did not leave in the WAL.
InFile == \E f \in backup : \A k \in Key \ unfolded : f[k] = wanted[k]

\* Nobody edits: until the backup the store is as the operator left it, from then on the
\* backup file is; a failed rebuild was in either of these.
Backed ==
  /\ pc \in Early => status = wanted
  /\ pc \in Late => InFile
  /\ pc = "failed" => status = wanted \/ InFile
  /\ pc \in {"prepare", "snapshot"} => \A k \in Key \ chats : status[k] = "discovered"

\* The snapshot tells every decision, and no other.
Told ==
  pc \in {"backup"} \cup Late =>
    /\ \A r \in snapshot : r.status = wanted[r.key]
    /\ \A k \in Key : Decided(k) => \E r \in snapshot : r.key = k

\* A decision whose row has been handled has survived so far.
Handled ==
  /\ pc \in {"restore", "rest"} =>
       \A k \in Key : Decided(k) /\ (\A r \in todo : r.key # k) => Survives(k)
  /\ pc \in {"link", "done"} => \A k \in Key : Decided(k) => Survives(k)

\* No row is being put back before there is a snapshot of all of them.
Idle == pc \in Early \cup {"wipe", "ingest"} => todo = {} /\ row = NoRow

KeepInv == TypeOK /\ Idle /\ FamiliesFlat /\ (edits = 0 => Backed /\ Told /\ Handled)

USE KeyAssumption, CanonAssumption, BufferAssumption, EditAssumption, OlderAssumption

LEMMA KeepInitInv == Init => KeepInv
<1> SUFFICES ASSUME Init PROVE KeepInv
  OBVIOUS
<1>1. TypeOK
  BY DEF Init, TypeOK
<1>2. Idle /\ FamiliesFlat
  BY DEF Init, Idle, FamiliesFlat
<1>3. Backed /\ Told /\ Handled
  BY DEF Init, Backed, InFile, Told, Handled, Early, Late
<1> QED
  BY <1>1, <1>2, <1>3 DEF KeepInv

-----------------------------------------------------------------------------
(* Types. *)

LEMMA RestoreType ==
  ASSUME TypeOK, NEW r \in snapshot, RestoreStatus(r) \/ RestoreLink(r)
  PROVE  TypeOK'
<1>1. r \in Row /\ Canon[r.key] \in Key
  BY DEF TypeOK, Row
<1>2. status' \in [Key -> Status] /\ unmapped' \subseteq Key
  BY <1>1 DEF TypeOK, Row, RestoreStatus, RestoreLink
<1>3. parent' \in [Key -> Key \cup {NoKey}]
  BY <1>1 DEF TypeOK, RestoreStatus, RestoreLink, LinkAllowed
<1> QED
  BY <1>1, <1>2, <1>3 DEF TypeOK, RestoreStatus, RestoreLink, fileVars, syncVars

LEMMA RestType ==
  ASSUME TypeOK, RestoreRest
  PROVE  TypeOK'
<1>1. \A a, b \in BOOLEAN : (a \/ b) \in BOOLEAN
  OBVIOUS
<1>2. row.alias \in BOOLEAN
  <2>1. CASE row \in snapshot
    BY <2>1 DEF TypeOK, Row
  <2>2. CASE row = NoRow
    BY <2>2 DEF NoRow
  <2> QED
    BY <2>1, <2>2 DEF TypeOK
<1>3. alias' \in [Key -> BOOLEAN]
  BY <1>1, <1>2 DEF TypeOK, RestoreRest
<1>4. cursor' \in [Key -> BOOLEAN]
  BY DEF TypeOK, RestoreRest
<1> QED
  BY <1>3, <1>4 DEF TypeOK, RestoreRest, fileVars, syncVars

LEMMA SetStatusType ==
  ASSUME TypeOK, NEW k \in Key, NEW s \in Status, SetStatus(k, s)
  PROVE  TypeOK'
<1>1. cursor' \in [Key -> BOOLEAN]
  BY DEF TypeOK, SetStatus
<1>2. status' \in [Key -> Status] /\ wanted' \in [Key -> Status] /\ edits' \in 0 .. MaxEdit
  BY DEF TypeOK, SetStatus
<1> QED
  BY <1>1, <1>2 DEF TypeOK, SetStatus, fileVars, syncVars, passVars

LEMMA TypeStep == TypeOK /\ Idle /\ [Next]_vars => TypeOK'
<1> SUFFICES ASSUME TypeOK, Idle, [Next]_vars PROVE TypeOK'
  OBVIOUS
<1> USE DEF storeVars, fileVars, syncVars, passVars
<1>1. ASSUME NEW s \in Source, PrepareSource(s) PROVE TypeOK'
  BY <1>1 DEF TypeOK, PrepareSource
<1>2. CASE SourceOffline \/ BackupDb \/ Finish \/ Crash
  BY <1>2 DEF TypeOK, SourceOffline, BackupDb, Finish, Crash
<1>3. CASE SnapshotOperatorState
  <2>1. snapshot' \subseteq Row
    BY <1>3 DEF TypeOK, SnapshotOperatorState, Row
  <2>2. todo' = {} /\ row' = NoRow
    BY <1>3 DEF SnapshotOperatorState, Idle, Early
  <2> QED
    BY <1>3, <2>1, <2>2 DEF TypeOK, SnapshotOperatorState
<1>4. CASE ClearAllData
  BY <1>4 DEF TypeOK, ClearAllData, Status
<1>5. ASSUME NEW k \in Key, IngestChat(k) PROVE TypeOK'
  BY <1>5 DEF TypeOK, IngestChat
<1>6. ASSUME NEW s \in Source, NEW ok \in BOOLEAN, EndSource(s, ok) PROVE TypeOK'
  BY <1>6 DEF TypeOK, EndSource
<1>7. CASE EndResync \/ EndRestore
  BY <1>7 DEF TypeOK, EndResync, EndRestore
<1>8. ASSUME NEW r \in snapshot, RestoreStatus(r) \/ RestoreLink(r) PROVE TypeOK'
  BY <1>8, RestoreType
<1>9. CASE RestoreRest
  BY <1>9, RestType
<1>10. ASSUME NEW k \in Key, NEW s \in Status, SetStatus(k, s) PROVE TypeOK'
  BY <1>10, SetStatusType
<1>11. CASE UNCHANGED vars
  BY <1>11 DEF TypeOK, vars
<1> QED
  BY <1>1, <1>2, <1>3, <1>4, <1>5, <1>6, <1>7, <1>8, <1>9, <1>10, <1>11 DEF Next

LEMMA IdleStep == TypeOK /\ Idle /\ [Next]_vars => Idle'
<1> SUFFICES ASSUME TypeOK, Idle, [Next]_vars PROVE Idle'
  OBVIOUS
<1> USE DEF storeVars, fileVars, syncVars, passVars, Idle, Early
<1>1. ASSUME NEW s \in Source, PrepareSource(s) PROVE Idle'
  BY <1>1 DEF PrepareSource
<1>2. CASE SourceOffline \/ SnapshotOperatorState \/ BackupDb \/ ClearAllData \/ Finish \/ Crash
  BY <1>2 DEF SourceOffline, SnapshotOperatorState, BackupDb, ClearAllData, Finish, Crash
<1>3. CASE EndResync \/ RestoreRest \/ EndRestore
  BY <1>3 DEF EndResync, RestoreRest, EndRestore
<1>4. ASSUME NEW k \in Key, IngestChat(k) PROVE Idle'
  BY <1>4 DEF IngestChat
<1>5. ASSUME NEW s \in Source, NEW ok \in BOOLEAN, EndSource(s, ok) PROVE Idle'
  BY <1>5 DEF EndSource
<1>6. ASSUME NEW r \in snapshot, RestoreStatus(r) \/ RestoreLink(r) PROVE Idle'
  BY <1>6 DEF RestoreStatus, RestoreLink
<1>7. ASSUME NEW k \in Key, NEW s \in Status, SetStatus(k, s) PROVE Idle'
  BY <1>7 DEF SetStatus
<1>8. CASE UNCHANGED vars
  BY <1>8 DEF vars
<1> QED
  BY <1>1, <1>2, <1>3, <1>4, <1>5, <1>6, <1>7, <1>8 DEF Next

-----------------------------------------------------------------------------
(* Families. *)

LEMMA FlatStep == TypeOK /\ FamiliesFlat /\ [Next]_vars => FamiliesFlat'
<1> SUFFICES ASSUME TypeOK, FamiliesFlat, [Next]_vars PROVE FamiliesFlat'
  OBVIOUS
<1> USE DEF storeVars
<1>1. CASE UNCHANGED <<chats, parent>>
  BY <1>1 DEF FamiliesFlat
<1>2. ASSUME NEW k \in Key, IngestChat(k) PROVE FamiliesFlat'
  BY <1>2 DEF IngestChat, FamiliesFlat
<1>3. CASE ClearAllData
  BY <1>3 DEF ClearAllData, FamiliesFlat
<1>4. ASSUME NEW r \in snapshot, RestoreLink(r) PROVE FamiliesFlat'
  <2> DEFINE child == Canon[r.key]  p == Canon[r.parent]
  <2>1. CASE parent' = parent /\ chats' = chats
    BY <1>1, <2>1
  <2>2. CASE LinkAllowed(child, p) /\ parent' = [parent EXCEPT ![child] = p] /\ chats' = chats
    <3> HIDE DEF child, p
    <3>1. /\ child \in chats /\ p \in chats /\ child \in Key /\ p \in Key /\ child # p
          /\ parent[p] = NoKey /\ \A k \in Key : parent[k] # child
      BY <2>2 DEF LinkAllowed, TypeOK
    <3>2. parent'[child] = p /\ \A k \in Key : k # child => parent'[k] = parent[k]
      BY <2>2, <3>1 DEF TypeOK
    <3>3. \A k \in Key : parent[k] \in Key \cup {NoKey}
      BY DEF TypeOK
    <3> QED
      BY <2>2, <3>1, <3>2, <3>3 DEF FamiliesFlat
  <2> QED
    BY <1>4, <2>1, <2>2 DEF RestoreLink
<1> QED
  BY <1>1, <1>2, <1>3, <1>4 DEF Next, vars, PrepareSource, SourceOffline, SnapshotOperatorState,
     BackupDb, EndSource, EndResync, RestoreStatus, RestoreRest, EndRestore, Finish, Crash, SetStatus

-----------------------------------------------------------------------------
(* Decisions. *)

Kept == Backed /\ Told /\ Handled

\* Until somebody edits, a decision changes only with the store it is in.
LEMMA SurvivesOn ==
  ASSUME NEW k \in Key, UNCHANGED <<status, wanted>>, unmapped \subseteq unmapped', Survives(k)
  PROVE  Survives(k)'
BY DEF Survives, Decided

LEMMA KeptAsItIs ==
  ASSUME Kept, UNCHANGED <<chats, status, wanted, snapshot, backup, unfolded, unmapped, todo, pc>>
  PROVE  Kept'
BY DEF Kept, Backed, InFile, Told, Handled, Survives, Decided

LEMMA SnapshotKeeps ==
  ASSUME KeepInv, Kept, SnapshotOperatorState
  PROVE  Kept'
<1>1. pc = "snapshot" /\ pc' = "backup" /\ UNCHANGED <<status, wanted>> /\ status = wanted
  BY DEF SnapshotOperatorState, storeVars, Kept, Backed, InFile, Early
<1>2. Told'
  <2>1. \A r \in snapshot' : r.status = wanted[r.key]
    BY <1>1 DEF SnapshotOperatorState
  <2>2. \A k \in Key : Decided(k) => k \in chats
    BY <1>1 DEF Decided, Kept, Backed
  <2>3. ASSUME NEW k \in Key, Decided(k) PROVE \E r \in snapshot' : r.key = k
    <3> DEFINE r == [key |-> k, status |-> status[k], alias |-> alias[k], parent |-> parent[k]]
    <3>1. k \in {c \in chats : status[c] # "discovered" \/ alias[c] \/ parent[c] # NoKey}
      BY <1>1, <2>2, <2>3 DEF Decided
    <3>2. r \in snapshot' /\ r.key = k
      BY <3>1 DEF SnapshotOperatorState
    <3> QED
      BY <3>2
  <2> QED
    BY <1>1, <2>1, <2>3 DEF Told, Decided
<1>3. Backed' /\ Handled'
  BY <1>1 DEF Backed, InFile, Handled, Early, Late
<1> QED
  BY <1>2, <1>3 DEF Kept

LEMMA RestoreStatusKeeps ==
  ASSUME KeepInv, Kept, NEW r \in snapshot, RestoreStatus(r)
  PROVE  Kept'
<1>1. /\ pc = "restore" /\ pc' \in {"restore", "rest"} /\ r \in todo /\ todo' = todo \ {r}
      /\ unmapped \subseteq unmapped' /\ UNCHANGED <<chats, wanted, snapshot, backup, unfolded>>
  BY DEF RestoreStatus, fileVars
<1>2. r.key \in Key /\ Canon[r.key] \in Key /\ r.status = wanted[r.key]
  BY <1>1 DEF KeepInv, TypeOK, Row, Kept, Told, Late
<1>3. \/ r.status = "discovered" /\ status' = status
      \/ r.status # "discovered" /\ status' = [status EXCEPT ![Canon[r.key]] = r.status]
      \/ r.key \in unmapped' /\ status' = status
  BY DEF RestoreStatus
<1>4. \A k \in Key : Survives(k) => Survives(k)'
  <2>1. SUFFICES ASSUME NEW k \in Key, Survives(k) PROVE Survives(k)'
    OBVIOUS
  <2>2. CASE status' = status
    BY <1>1, <2>1, <2>2, SurvivesOn
  <2>3. CASE r.status # "discovered" /\ status' = [status EXCEPT ![Canon[r.key]] = r.status]
    <3>1. CASE Canon[k] # Canon[r.key]
      <4>1. status'[Canon[k]] = status[Canon[k]]
        BY <2>3, <3>1 DEF KeepInv, TypeOK
      <4> QED
        BY <1>1, <2>1, <4>1 DEF Survives, Decided
    <3>2. CASE Canon[k] = Canon[r.key] /\ wanted[k] = wanted[r.key]
      BY <1>1, <1>2, <2>3, <3>2 DEF Survives, KeepInv, TypeOK
    <3>3. CASE Canon[k] = Canon[r.key] /\ wanted[k] # wanted[r.key]
      BY <1>1, <1>2, <2>3, <3>3 DEF Survives, Decided
    <3> QED
      BY <3>1, <3>2, <3>3
  <2> QED
    BY <1>3, <2>2, <2>3
<1>5. Decided(r.key) => Survives(r.key)'
  BY <1>1, <1>2, <1>3 DEF Survives, Decided, KeepInv, TypeOK
<1>6. Handled'
  <2>1. SUFFICES ASSUME NEW k \in Key, Decided(k)', \A q \in todo' : q.key # k PROVE Survives(k)'
    BY <1>1 DEF Handled
  <2>2. Decided(k)
    BY <1>1, <2>1 DEF Decided
  <2>3. CASE k = r.key
    BY <1>5, <2>2, <2>3
  <2>4. CASE k # r.key
    <3>1. \A q \in todo : q.key # k
      BY <1>1, <2>1, <2>4
    <3>2. Survives(k)
      BY <1>1, <2>2, <3>1 DEF Kept, Handled
    <3> QED
      BY <1>4, <3>2
  <2> QED
    BY <2>3, <2>4
<1>7. Backed' /\ Told'
  BY <1>1 DEF Kept, Backed, InFile, Told, Decided, Early, Late
<1> QED
  BY <1>6, <1>7 DEF Kept

LEMMA KeptStep ==
  ASSUME KeepInv, edits = 0 => Kept, [Next]_vars, edits' = 0
  PROVE  Kept'
<1> USE DEF storeVars, fileVars, syncVars, passVars
<1>0. edits \in Nat
  BY DEF KeepInv, TypeOK
<1>1. ASSUME NEW k \in Key, NEW s \in Status, SetStatus(k, s) PROVE FALSE
  BY <1>0, <1>1 DEF SetStatus
<1>2. edits = 0
  BY <1>0, <1>1 DEF Next, vars, PrepareSource, SourceOffline, SnapshotOperatorState, BackupDb,
     ClearAllData, IngestChat, EndSource, EndResync, RestoreStatus, RestoreLink, RestoreRest,
     EndRestore, Finish, Crash
<1>3. Kept
  BY <1>2
<1>4. ASSUME NEW s \in Source, PrepareSource(s) PROVE Kept'
  BY <1>3, <1>4 DEF PrepareSource, Kept, Backed, InFile, Told, Handled, Early, Late
<1>5. CASE SourceOffline \/ Crash
  BY <1>3, <1>5 DEF SourceOffline, Crash, Kept, Backed, InFile, Told, Handled, Early, Late, KeepInv, TypeOK
<1>6. CASE SnapshotOperatorState
  BY <1>3, <1>6, SnapshotKeeps
<1>7. CASE BackupDb
  BY <1>3, <1>7 DEF BackupDb, Kept, Backed, InFile, Told, Handled, Decided, Early, Late
<1>8. CASE ClearAllData
  BY <1>3, <1>8 DEF ClearAllData, Kept, Backed, InFile, Told, Handled, Decided, Early, Late
<1>9. ASSUME NEW k \in Key, IngestChat(k) PROVE Kept'
  BY <1>3, <1>9 DEF IngestChat, Kept, Backed, InFile, Told, Handled, Decided, Early, Late
<1>10. ASSUME NEW s \in Source, NEW ok \in BOOLEAN, EndSource(s, ok) PROVE Kept'
  BY <1>3, <1>10, KeptAsItIs DEF EndSource
<1>11. CASE EndResync
  <2>1. pc = "ingest" /\ UNCHANGED <<chats, status, wanted, snapshot, backup, unfolded>>
        /\ (pc' = "failed" \/ (pc' = "restore" /\ todo' = snapshot))
    BY <1>11 DEF EndResync
  <2>2. Handled'
    BY <1>3, <2>1 DEF Kept, Told, Handled, Decided, Late
  <2> QED
    BY <1>3, <2>1, <2>2 DEF Kept, Backed, InFile, Told, Decided, Early, Late
<1>12. ASSUME NEW r \in snapshot, RestoreStatus(r) PROVE Kept'
  BY <1>3, <1>12, RestoreStatusKeeps
<1>13. ASSUME NEW r \in snapshot, RestoreLink(r) PROVE Kept'
  BY <1>3, <1>13 DEF RestoreLink, Kept, Backed, InFile, Told, Handled, Survives, Decided, Early, Late
<1>14. CASE RestoreRest
  BY <1>3, <1>14 DEF RestoreRest, Kept, Backed, InFile, Told, Handled, Survives, Decided, Early, Late
<1>15. CASE EndRestore
  BY <1>3, <1>15 DEF EndRestore, Kept, Backed, InFile, Told, Handled, Survives, Decided, Early, Late
<1>16. CASE Finish
  BY <1>3, <1>16 DEF Finish, Kept, Backed, InFile, Told, Handled, Survives, Decided, Early, Late
<1>17. CASE UNCHANGED vars
  BY <1>3, <1>17, KeptAsItIs DEF vars
<1> QED
  BY <1>1, <1>4, <1>5, <1>6, <1>7, <1>8, <1>9, <1>10, <1>11, <1>12, <1>13, <1>14, <1>15, <1>16, <1>17 DEF Next

LEMMA KeepStep == KeepInv /\ [Next]_vars => KeepInv'
<1> SUFFICES ASSUME KeepInv, [Next]_vars PROVE KeepInv'
  OBVIOUS
<1>1. TypeOK' /\ Idle' /\ FamiliesFlat'
  BY TypeStep, IdleStep, FlatStep DEF KeepInv
<1>2. edits' = 0 => Backed' /\ Told' /\ Handled'
  BY KeptStep DEF KeepInv, Kept
<1> QED
  BY <1>1, <1>2 DEF KeepInv

LEMMA KeepAlways == Spec => []KeepInv
BY KeepInitInv, KeepStep, PTL DEF Spec

\* As long as nobody edits during the rebuild, the operator's decisions are in the store or in
\* the backup file at every moment, wherever a source or the process fails, but for those a
\* checkpoint another connection held up left in the WAL (reprocess.py:61-69).
THEOREM NothingLost == Spec => []NothingLostForGood
<1>1. KeepInv => NothingLostForGood
  BY DEF KeepInv, NothingLostForGood, Backed, InFile, TypeOK, Early, Late
<1> QED
  BY <1>1, KeepAlways, PTL

\* A rebuild that finishes has put every decision back on the chat the reader now uses, unless
\* that chat is reported as unmapped or two decisions that disagree fold into one chat.
THEOREM DecisionsRestored == Spec => []DecisionsSurvive
<1>1. KeepInv => DecisionsSurvive
  BY DEF KeepInv, DecisionsSurvive, Handled
<1> QED
  BY <1>1, KeepAlways, PTL

\* Families stay one level deep and inside the store through the wipe and the restore, whatever
\* keys the reader now folds together (link_chats).
THEOREM FamiliesStayFlat == Spec => []FamiliesFlat
<1>1. KeepInv => FamiliesFlat
  BY DEF KeepInv
<1> QED
  BY <1>1, KeepAlways, PTL
=============================================================================
