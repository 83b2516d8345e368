----------------------------- MODULE Reprocess ------------------------------
(***************************************************************************)
(* `wr reprocess --confirm`: the store is wiped and ingested again from    *)
(* the connectors' buffers, and what the operator had set on the chats     *)
(* (status, alias, family link) is put back, mapped through the reader's   *)
(* current idea of a chat's key.  Each write commits on its own; a source  *)
(* or the process may fail at any of them, and the operator goes on using  *)
(* the web app.                                                            *)
(***************************************************************************)
EXTENDS Naturals, FiniteSets

CONSTANTS
  Key,            \* source_chat_id values, old ones and current ones
  NoKey,
  Source,         \* the enabled sources
  SourceOf,       \* the source of a key
  Canon,          \* canonical_source_id: the key the current reader uses
  Buffer,         \* the chats the connectors list, under their current keys
  Older,          \* in the copied file: whatever stood there before the last decision
  MaxEdit         \* bound: changes of status by the operator during the rebuild

Status == {"discovered", "monitored", "ignored"}

ASSUME KeyAssumption    == NoKey \notin Key /\ SourceOf \in [Key -> Source]
ASSUME CanonAssumption  == Canon \in [Key -> Key] /\ \A k \in Key : Canon[Canon[k]] = Canon[k]
ASSUME BufferAssumption == Buffer \subseteq {Canon[k] : k \in Key}
ASSUME EditAssumption   == MaxEdit \in Nat
ASSUME OlderAssumption  == Older \notin Status

VARIABLES
  chats,        \* the keys of the rows in chats
  status, alias, parent,
  cursor,       \* the chat has a review cursor, at its newest message
  pc,           \* where the rebuild is
  prepared,     \* sources that proved live
  snapshot,     \* the chats the operator had touched, with what he had set
  backup,       \* the copied database files of this rebuild: the statuses in them
  unfolded,     \* history: chats whose last decision the checkpoint left in the WAL
  tried, synced,\* sources the resync has tried, and those that came through
  todo,         \* snapshot rows of the current pass
  row,          \* the row whose status is set and whose rest is not
  unmapped,     \* keys reported as not mapped to any rebuilt chat
  wanted,       \* history: the last status anybody asked for, by key
  edits

storeVars == <<chats, status, alias, parent, cursor>>
fileVars  == <<snapshot, backup, unfolded>>
syncVars  == <<prepared, tried, synced>>
passVars  == <<todo, row, unmapped>>
vars == <<storeVars, fileVars, syncVars, passVars, pc, wanted, edits>>

NoRow == [key |-> NoKey, status |-> "discovered", alias |-> FALSE, parent |-> NoKey]
Row == [key : Key, status : Status, alias : BOOLEAN, parent : Key \cup {NoKey}]

TypeOK ==
  /\ chats \subseteq Key
  /\ status \in [Key -> Status]
  /\ alias \in [Key -> BOOLEAN]
  /\ parent \in [Key -> Key \cup {NoKey}]
  /\ cursor \in [Key -> BOOLEAN]
  /\ pc \in {"prepare", "snapshot", "backup", "wipe", "ingest", "restore", "rest",
             "link", "done", "failed"}
  /\ prepared \subseteq Source
  /\ snapshot \subseteq Row
  /\ backup \subseteq [Key -> Status \cup {Older}]
  /\ unfolded \subseteq Key
  /\ tried \subseteq Source /\ synced \subseteq tried
  /\ todo \subseteq snapshot
  /\ row \in snapshot \cup {NoRow}
  /\ unmapped \subseteq Key
  /\ wanted \in [Key -> Status]
  /\ edits \in 0 .. MaxEdit

\* A store that has been in use: any chats, statuses, aliases and depth-1 families.
Init ==
  /\ chats \in SUBSET Key
  /\ status \in {f \in [Key -> Status] : \A k \in Key \ chats : f[k] = "discovered"}
  /\ alias \in {f \in [Key -> BOOLEAN] : \A k \in Key \ chats : ~f[k]}
  /\ parent \in {f \in [Key -> Key \cup {NoKey}] :
                   \A k \in Key : f[k] # NoKey =>
                     k \in chats /\ f[k] \in chats \ {k} /\ f[f[k]] = NoKey}
  /\ cursor = [k \in Key |-> k \in chats]
  /\ pc = "prepare"
  /\ prepared = {}
  /\ snapshot = {}
  /\ backup = {} /\ unfolded = {}
  /\ tried = {} /\ synced = {}
  /\ todo = {}
  /\ row = NoRow
  /\ unmapped = {}
  /\ wanted = status
  /\ edits = 0

-----------------------------------------------------------------------------
(* Before the wipe. *)

\* Every source must prove live; the first that does not ends the rebuild.
PrepareSource(s) ==
  /\ pc = "prepare"
  /\ s \notin prepared
  /\ prepared' = prepared \cup {s}
  /\ pc' = IF prepared' = Source THEN "snapshot" ELSE "prepare"
  /\ UNCHANGED <<storeVars, fileVars, tried, synced, passVars, wanted, edits>>

SourceOffline ==
  /\ pc = "prepare"
  /\ pc' = "failed"
  /\ UNCHANGED <<storeVars, fileVars, syncVars, passVars, wanted, edits>>

SnapshotOperatorState ==
  /\ pc = "snapshot"
  /\ snapshot' =
       {[key |-> k, status |-> status[k], alias |-> alias[k], parent |-> parent[k]] :
          k \in {c \in chats : \/ status[c] # "discovered"
                               \/ alias[c]
                               \/ parent[c] # NoKey}}
  /\ pc' = "backup"
  /\ UNCHANGED <<storeVars, backup, unfolded, syncVars, passVars, wanted, edits>>

\* Mutant: the database is wiped first and copied then.
BackupSkipped ==
  /\ pc = "backup"
  /\ pc' = "wipe"
  /\ UNCHANGED <<storeVars, fileVars, syncVars, passVars, wanted, edits>>

\* The WAL is folded in and the main file copied.  While another connection reads, the
\* checkpoint gives up (held # {}): it says so in its result, which nobody looks at, and
\* the copied file lacks what is still in the WAL.
BackupDb ==
  /\ pc = "backup"
  /\ \E held \in SUBSET chats :
       /\ unfolded' = held
       /\ backup' = {[k \in Key |-> IF k \in held THEN Older ELSE status[k]]}
  /\ pc' = "wipe"
  /\ UNCHANGED <<storeVars, snapshot, syncVars, passVars, wanted, edits>>

-----------------------------------------------------------------------------
(* The wipe and the resync. *)

ClearAllData ==
  /\ pc = "wipe"
  /\ chats' = {}
  /\ status' = [k \in Key |-> "discovered"]
  /\ alias' = [k \in Key |-> FALSE]
  /\ parent' = [k \in Key |-> NoKey]
  /\ cursor' = [k \in Key |-> FALSE]
  /\ pc' = "ingest"
  /\ UNCHANGED <<fileVars, syncVars, passVars, wanted, edits>>

\* Sources are ingested one after the other.
Current(s) == s \notin tried /\ \A k \in chats : SourceOf[k] \in tried \cup {s}

\* One chat of a source with its messages; the source may still fail after it.
IngestChat(k) ==
  /\ pc = "ingest"
  /\ k \in Buffer \ chats
  /\ Current(SourceOf[k])
  /\ chats' = chats \cup {k}
  /\ UNCHANGED <<status, alias, parent, cursor, fileVars, syncVars, passVars, pc, wanted,
                 edits>>

\* All its chats are in, or it went offline somewhere on the way.
EndSource(s, ok) ==
  /\ pc = "ingest"
  /\ Current(s)
  /\ ok => \A k \in Buffer : SourceOf[k] = s => k \in chats
  /\ tried' = tried \cup {s}
  /\ synced' = IF ok THEN synced \cup {s} ELSE synced
  /\ UNCHANGED <<storeVars, prepared, fileVars, passVars, pc, wanted, edits>>

\* One source that came through is enough; with none, resync raises.
EndResync ==
  /\ pc = "ingest"
  /\ tried = Source
  /\ IF synced = {} THEN pc' = "failed" /\ UNCHANGED todo
                    ELSE pc' = "restore" /\ todo' = snapshot
  /\ UNCHANGED <<storeVars, fileVars, syncVars, row, unmapped, wanted, edits>>

-----------------------------------------------------------------------------
(* Putting the operator's state back. *)

\* Mutant: a chat that cannot be mapped is dropped without a word.
RestoreMappedOnly(r) ==
  /\ pc = "restore"
  /\ r \in todo
  /\ todo' = todo \ {r}
  /\ IF Canon[r.key] \in chats
     THEN /\ status' = IF r.status = "discovered" THEN status
                       ELSE [status EXCEPT ![Canon[r.key]] = r.status]
          /\ row' = r
          /\ pc' = "rest"
     ELSE UNCHANGED <<status, row, pc>>
  /\ UNCHANGED <<chats, alias, parent, cursor, fileVars, syncVars, unmapped, wanted, edits>>

\* The status of one snapshot row, committed before its baseline and alias.
RestoreStatus(r) ==
  /\ pc = "restore"
  /\ r \in todo
  /\ todo' = todo \ {r}
  /\ IF Canon[r.key] \in chats
     THEN /\ status' = IF r.status = "discovered" THEN status
                       ELSE [status EXCEPT ![Canon[r.key]] = r.status]
          /\ row' = r
          /\ pc' = "rest"
          /\ UNCHANGED unmapped
     ELSE /\ unmapped' = unmapped \cup {r.key}
          /\ UNCHANGED <<status, row, pc>>
  /\ UNCHANGED <<chats, alias, parent, cursor, fileVars, syncVars, wanted, edits>>

\* A monitored chat starts after its backlog again; an alias is set again.
RestoreRest ==
  /\ pc = "rest"
  /\ cursor' = IF row.status = "monitored"
               THEN [cursor EXCEPT ![Canon[row.key]] = TRUE] ELSE cursor
  /\ alias' = [alias EXCEPT ![Canon[row.key]] = @ \/ row.alias]
  /\ row' = NoRow
  /\ pc' = "restore"
  /\ UNCHANGED <<chats, status, parent, fileVars, syncVars, todo, unmapped, wanted, edits>>

EndRestore ==
  /\ pc = "restore"
  /\ todo = {}
  /\ todo' = {r \in snapshot : r.parent # NoKey}
  /\ pc' = "link"
  /\ UNCHANGED <<storeVars, fileVars, syncVars, row, unmapped, wanted, edits>>

\* Mutant: a child of anybody, as a plain update of the column would make it.
AnyLink(child, p) == child \in chats /\ p \in chats /\ child # p

\* link_chats refuses chains; a refused link is dropped.
LinkAllowed(child, p) ==
  /\ child \in chats /\ p \in chats
  /\ child # p
  /\ parent[p] = NoKey
  /\ \A k \in Key : parent[k] # child

RestoreLink(r) ==
  /\ pc = "link"
  /\ r \in todo
  /\ todo' = todo \ {r}
  /\ parent' = IF LinkAllowed(Canon[r.key], Canon[r.parent])
               THEN [parent EXCEPT ![Canon[r.key]] = Canon[r.parent]] ELSE parent
  /\ UNCHANGED <<chats, status, alias, cursor, fileVars, syncVars, pc, row, unmapped,
                 wanted, edits>>

Finish ==
  /\ pc = "link"
  /\ todo = {}
  /\ pc' = "done"
  /\ UNCHANGED <<storeVars, fileVars, syncVars, passVars, wanted, edits>>

\* The process is killed, or an error other than "offline" ends it.
Crash ==
  /\ pc \notin {"done", "failed"}
  /\ pc' = "failed"
  /\ UNCHANGED <<storeVars, fileVars, syncVars, passVars, wanted, edits>>

-----------------------------------------------------------------------------
(* The operator in the web app. *)

SetStatus(k, s) ==
  /\ pc \notin {"done", "failed"}
  /\ edits < MaxEdit
  /\ k \in chats
  /\ status[k] # s
  /\ status' = [status EXCEPT ![k] = s]
  /\ wanted' = [wanted EXCEPT ![k] = s]
  /\ cursor' = [cursor EXCEPT ![k] = @ \/ s = "monitored"]
  /\ edits' = edits + 1
  /\ UNCHANGED <<chats, alias, parent, fileVars, syncVars, passVars, pc>>

Next ==
  \/ \E s \in Source : PrepareSource(s)
  \/ SourceOffline
  \/ SnapshotOperatorState \/ BackupDb \/ ClearAllData
  \/ \E k \in Key : IngestChat(k)
  \/ \E s \in Source, ok \in BOOLEAN : EndSource(s, ok)
  \/ EndResync
  \/ \E r \in snapshot : RestoreStatus(r) \/ RestoreLink(r)
  \/ RestoreRest \/ EndRestore \/ Finish \/ Crash
  \/ \E k \in Key, s \in Status : SetStatus(k, s)

Spec == Init /\ [][Next]_vars

-----------------------------------------------------------------------------
(* Properties. *)

\* As long as nobody edits meanwhile, what the operator had decided is in the store or
\* in the backup file at every moment, however the rebuild ends, but for the decisions
\* that a checkpoint another connection held up left in the WAL (reprocess.py:65 does not
\* ask whether it came through): with those chats alone can it be lost.
NothingLostForGood ==
  edits = 0 =>
    \/ status = wanted
    \/ \E f \in backup : \A k \in Key \ unfolded : f[k] = wanted[k]

Decided(k) == wanted[k] # "discovered"

\* Nothing about k got lost without a report or a conflict: it is set on the chat that k
\* is now, k is reported as unmapped, or another chat folded into the same one was
\* decided otherwise.
Survives(k) ==
  \/ status[Canon[k]] = wanted[k]
  \/ k \in unmapped
  \/ \E j \in Key : Canon[j] = Canon[k] /\ Decided(j) /\ wanted[j] # wanted[k]

\* A finished rebuild has kept every decision that was made before it.
DecisionsSurvive == pc = "done" /\ edits = 0 => \A k \in Key : Decided(k) => Survives(k)

\* Families stay one level deep and inside the store, also when the reader now takes
\* two members of different families for one chat.
FamiliesFlat ==
  \A k \in Key : parent[k] # NoKey =>
    /\ k \in chats /\ parent[k] \in chats \ {k}
    /\ parent[parent[k]] = NoKey
=============================================================================
