---------------------------- MODULE ProbeSnapshot ----------------------------
(***************************************************************************)
(* DemandSnapshot, as the sources' health uses it: a slow value served from *)
(* memory, rebuilt inline when it is missing, old or for another key, and  *)
(* refreshed by a thread of its own while someone reads.  The settings and *)
(* the token that it is built from may change at any moment of a build.    *)
(***************************************************************************)
EXTENDS Naturals

CONSTANTS
  Reader,     \* 1 .. n: bound on the requests
  LastEdit,   \* bound: edits of the settings; an edit never restores an old key
  LastTime,   \* bound: the last value of the clock
  Refresh, Demand, Stale,
  NoValue

ASSUME SnapshotAssumption ==
  /\ LastEdit \in Nat /\ LastTime \in Nat
  /\ Refresh \in Nat /\ Demand \in Nat /\ Stale \in Nat

VARIABLES
  time,
  edits,     \* the version of the settings, which is also their key
  value,     \* [world, for, at] or NoValue; world: the version it was built from
  lastRead,
  ticker,    \* the refresh thread: [at, key, since, world]
  holder,    \* who holds the lock: a reader, the ticker (0) or NoValue
  reader,    \* of a request: [at, key, world, got, asked]
  closed

snapshotVars == <<time, edits, value, lastRead, ticker, holder, reader, closed>>

Ticker == 0
Started == [at |-> "none", key |-> 0, world |-> 0, got |-> NoValue, asked |-> 0]

Value == [world : 0 .. LastEdit, for : 0 .. LastEdit, at : 0 .. LastTime]
Served == [world : 0 .. LastEdit, age : 0 .. LastTime]
Refresher == [at : {"none", "wait", "lock", "build", "store"}, key : 0 .. LastEdit,
              world : 0 .. LastEdit, since : 0 .. LastTime]
Request == [at : {"none", "key", "lock", "build", "store", "done", "failed"},
            key : 0 .. LastEdit, world : 0 .. LastEdit, got : Served \cup {NoValue},
            asked : 0 .. LastEdit]

SnapshotTypeOK ==
  /\ time \in 0 .. LastTime /\ edits \in 0 .. LastEdit /\ closed \in BOOLEAN
  /\ value \in Value \cup {NoValue}
  /\ lastRead \in 0 .. LastTime /\ holder \in Reader \cup {Ticker, NoValue}
  /\ ticker \in Refresher /\ reader \in [Reader -> Request]

SnapshotInit ==
  /\ time = 0 /\ edits = 0 /\ value = NoValue /\ lastRead = 0 /\ holder = NoValue /\ closed = FALSE
  /\ ticker = [at |-> "none", key |-> 0, world |-> 0, since |-> 0]
  /\ reader = [r \in Reader |-> Started]

-----------------------------------------------------------------------------

\* _fresh
Fresh(key) == value # NoValue /\ value.for = key /\ time - value.at <= Stale
Hit == [world |-> value.world, age |-> time - value.at]

\* get: the key is read, the reader noted, and a ticker started if none is alive.
ReadKey(r) ==
  /\ reader[r].at = "none" /\ \A s \in Reader : s < r => reader[s].at # "none"
  /\ reader' = [reader EXCEPT ![r].at = "key", ![r].key = edits, ![r].asked = edits]
  /\ UNCHANGED <<time, edits, value, lastRead, ticker, holder, closed>>

Touch(r) ==
  /\ lastRead' = time
  /\ ticker' = IF closed \/ ticker.at # "none" THEN ticker
               ELSE [ticker EXCEPT !.at = "wait", !.since = time]

GetHit(r) ==
  /\ reader[r].at = "key" /\ Touch(r)
  /\ reader' = IF Fresh(reader[r].key) THEN [reader EXCEPT ![r].at = "done", ![r].got = Hit]
               ELSE [reader EXCEPT ![r].at = "lock"]
  /\ UNCHANGED <<time, edits, value, holder, closed>>

\* The second look, with the lock.
Acquire(r) ==
  /\ reader[r].at = "lock" /\ holder = NoValue
  /\ IF Fresh(reader[r].key)
     THEN reader' = [reader EXCEPT ![r].at = "done", ![r].got = Hit] /\ UNCHANGED holder
     ELSE reader' = [reader EXCEPT ![r].at = "build"] /\ holder' = r
  /\ UNCHANGED <<time, edits, value, lastRead, ticker, closed>>

\* Mutant: the key is read once the value is built.
KeyAfter(key) == edits
\* The key the value is kept for was read before the build.
KeyBefore(key) == key

Keep(world, key) == value' = [world |-> world, for |-> KeyBefore(key), at |-> time]

\* The build reads the settings of its moment, or raises, which keeps the old value.
BuildInline(r) ==
  /\ reader[r].at = "build"
  /\ \/ reader' = [reader EXCEPT ![r].at = "store", ![r].world = edits] /\ UNCHANGED holder
     \/ reader' = [reader EXCEPT ![r].at = "failed"] /\ holder' = NoValue
  /\ UNCHANGED <<time, edits, value, lastRead, ticker, closed>>
StoreInline(r) ==
  /\ reader[r].at = "store" /\ holder' = NoValue
  /\ Keep(reader[r].world, reader[r].key)
  /\ reader' = [reader EXCEPT ![r].at = "done", ![r].got = [world |-> reader[r].world, age |-> 0]]
  /\ UNCHANGED <<time, edits, lastRead, ticker, closed>>

\* _tick: idle or closed, it ends; else it refreshes.
TickIdle ==
  /\ ticker.at = "wait" /\ (closed \/ time - ticker.since >= Refresh)
  /\ closed \/ time - lastRead > Demand
  /\ ticker' = [ticker EXCEPT !.at = "none"]
  /\ UNCHANGED <<time, edits, value, lastRead, holder, reader, closed>>
TickDue ==
  /\ ticker.at = "wait" /\ ~closed /\ time - ticker.since >= Refresh /\ time - lastRead <= Demand
  /\ ticker' = [ticker EXCEPT !.at = "lock"]
  /\ UNCHANGED <<time, edits, value, lastRead, holder, reader, closed>>
TickAcquire ==
  /\ ticker.at = "lock" /\ holder = NoValue /\ holder' = Ticker
  /\ ticker' = [ticker EXCEPT !.at = "build", !.key = edits]
  /\ UNCHANGED <<time, edits, value, lastRead, reader, closed>>
TickBuild ==
  /\ ticker.at = "build"
  /\ \/ ticker' = [ticker EXCEPT !.at = "store", !.world = edits] /\ UNCHANGED holder
     \/ ticker' = [ticker EXCEPT !.at = "wait", !.since = time] /\ holder' = NoValue
  /\ UNCHANGED <<time, edits, value, lastRead, reader, closed>>
TickStore ==
  /\ ticker.at = "store" /\ holder' = NoValue
  /\ Keep(ticker.world, ticker.key)
  /\ ticker' = [ticker EXCEPT !.at = "wait", !.since = time]
  /\ UNCHANGED <<time, edits, lastRead, reader, closed>>

CloseSnapshot == ~closed /\ closed' = TRUE
                 /\ UNCHANGED <<time, edits, value, lastRead, ticker, holder, reader>>
EditSettings == edits < LastEdit /\ edits' = edits + 1
                /\ UNCHANGED <<time, value, lastRead, ticker, holder, reader, closed>>
PassTime == time < LastTime /\ time' = time + 1
            /\ UNCHANGED <<edits, value, lastRead, ticker, holder, reader, closed>>

SnapshotNext ==
  \/ \E r \in Reader : ReadKey(r) \/ GetHit(r) \/ Acquire(r) \/ BuildInline(r) \/ StoreInline(r)
  \/ TickIdle \/ TickDue \/ TickAcquire \/ TickBuild \/ TickStore
  \/ CloseSnapshot \/ EditSettings \/ PassTime

SnapshotSpec == SnapshotInit /\ [][SnapshotNext]_snapshotVars

-----------------------------------------------------------------------------

\* What a request is served was built from settings no older than those it was
\* made under, whatever edits, builds and refreshes it ran into; and what it was
\* not built for itself is no staler than agreed.
NeverOlder ==
  \A r \in Reader : reader[r].got # NoValue =>
    reader[r].got.world >= reader[r].asked /\ reader[r].got.age <= Stale

=============================================================================
