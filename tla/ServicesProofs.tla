--------------------------- MODULE ServicesProofs ---------------------------
(***************************************************************************)
(* Proofs about the services around the scan: the web application's        *)
(* control (WebappControl), the snapshot of the sources' health            *)
(* (ProbeSnapshot), the launcher of runs (RunLauncher), the lock-out of    *)
(* the password route (LoginStreaks) and the gate of the ratchets          *)
(* (ShipGate), for any number of threads, requests, runs, kinds, restarts,   *)
(* clients and repositories.  Single flight rests on run ids: two runs of  *)
(* one kind never share one, so that a watcher clears another run's handle *)
(* only across kinds.  The lock-out rests on its table being in the order  *)
(* of the last failures, the gate on a baseline being what some tree of    *)
(* the repository counted, with that tree's debt as what was reviewed.     *)
(***************************************************************************)
EXTENDS WebappControl, ProbeSnapshot, RunLauncher, LoginStreaks, ShipGate, FiniteSetTheorems,
        SequenceTheorems, TLAPS

-----------------------------------------------------------------------------
(* The web application's control. *)

Entered == {"looks", "spawns", "waits"}

\* As long as nothing lapsed: who is inside start() holds the lock, nobody spawns over a
\* live server, a server that boots is waited for by a thread of the process that has it on
\* record, and a stop() clears the record of a process it has ended.
OneAtATime ==
  /\ \A th \in Thread : step[th] \in Entered => lock = th
  /\ \A th \in Thread : step[th] = "spawns" => \A s \in Server : ~ServerAlive(s)
  /\ \A s \in Server : server[s] = "boots" =>
       \E th \in Thread : step[th] = "waits" /\ mine[TrayOf[th]] = s
  /\ \A s, q \in Server : ServerAlive(s) /\ ServerAlive(q) => s = q
  /\ \A th \in Thread : step[th] \in {"stops", "clears"} => doomed[th] \in Server
  /\ \A th \in Thread : step[th] = "clears" => server[doomed[th]] = "dead"

WebappInv == WebappTypeOK /\ (~lapse => OneAtATime)

LEMMA WebappInitInv == WebappInit => WebappInv
BY DEF WebappInit, WebappInv, WebappTypeOK, OneAtATime, Entered, ServerAlive

LEMMA WebappTypeStep == WebappTypeOK /\ [WebappNext]_webappVars => WebappTypeOK'
<1> SUFFICES ASSUME WebappTypeOK, [WebappNext]_webappVars PROVE WebappTypeOK'
  OBVIOUS
<1> USE WebappAssumption DEF WebappTypeOK, Release
<1>1. CASE UNCHANGED webappVars
  BY <1>1 DEF webappVars
<1>2. ASSUME NEW th \in Thread,
             BeginStart(th) \/ TakeLock(th) \/ LockLapses(th) \/ Look(th) \/ SpawnFails(th)
      PROVE  WebappTypeOK'
  BY <1>2 DEF BeginStart, TakeLock, LockLapses, Look, SpawnFails
<1>3. ASSUME NEW th \in Thread,
             WaitEnds(th) \/ WaitLapses(th) \/ (\E s \in Server : Spawn(th, s))
      PROVE  WebappTypeOK'
  <2>1. CASE WaitEnds(th) \/ WaitLapses(th)
    BY <2>1 DEF WaitEnds, WaitLapses
  <2>2. ASSUME NEW s \in Server, Spawn(th, s) PROVE WebappTypeOK'
    BY <2>2 DEF Spawn
  <2> QED
    BY <1>3, <2>1, <2>2
<1>4. ASSUME NEW th \in Thread, StopStep(th) PROVE WebappTypeOK'
  <2>1. CASE BeginStop(th) \/ StopFindsNone(th) \/ ReadProc(th)
    BY <2>1 DEF BeginStop, StopFindsNone, ReadProc, After
  <2>2. CASE StopProc(th)
    BY <2>2 DEF StopProc
  <2>3. CASE ClearProc(th)
    BY <2>3 DEF ClearProc, After, Waiting
  <2> QED
    BY <1>4, <2>1, <2>2, <2>3 DEF StopStep
<1>5. ASSUME NEW t \in Tray, TrayDies(t) PROVE WebappTypeOK'
  BY <1>5 DEF TrayDies, Waiting
<1>6. ASSUME NEW s \in Server, Bind(s) \/ Exit(s) PROVE WebappTypeOK'
  BY <1>6 DEF Bind, Exit
<1> QED
  BY <1>1, <1>2, <1>3, <1>4, <1>5, <1>6 DEF WebappNext, StartStep

\* The steps that leave the servers and the records alone.
LEMMA StartStepOne ==
  ASSUME WebappInv, ~lapse', NEW th \in Thread,
         BeginStart(th) \/ TakeLock(th) \/ LockLapses(th) \/ Look(th)
           \/ SpawnFails(th) \/ WaitEnds(th) \/ WaitLapses(th)
  PROVE  OneAtATime'
<1> USE WebappAssumption DEF WebappInv, WebappTypeOK, OneAtATime, Entered, ServerAlive, Release
<1>1. CASE BeginStart(th)
  BY <1>1 DEF BeginStart
<1>2. CASE TakeLock(th)
  BY <1>2 DEF TakeLock, CanTake
<1>3. CASE LockLapses(th)
  BY <1>3 DEF LockLapses
<1>4. CASE Look(th)
  BY <1>4 DEF Look, Reachable
<1>5. CASE SpawnFails(th)
  BY <1>5 DEF SpawnFails
<1>6. CASE WaitEnds(th)
  BY <1>6 DEF WaitEnds, Reachable, LiveServers
<1>7. CASE WaitLapses(th)
  BY <1>7 DEF WaitLapses
<1> QED
  BY <1>1, <1>2, <1>3, <1>4, <1>5, <1>6, <1>7

\* stop() is under no lock: it ends one server and clears a record no other thread of its
\* process is waiting on.
LEMMA StopStepOne ==
  ASSUME WebappInv, ~lapse', NEW th \in Thread, StopStep(th)
  PROVE  OneAtATime'
<1> USE WebappAssumption DEF WebappInv, WebappTypeOK, OneAtATime, Entered, ServerAlive
<1>1. CASE BeginStop(th)
  BY <1>1 DEF BeginStop
<1>2. CASE StopFindsNone(th)
  BY <1>2 DEF StopFindsNone, After
<1>3. CASE ReadProc(th)
  BY <1>3 DEF ReadProc
<1>4. CASE StopProc(th)
  BY <1>4 DEF StopProc
<1>5. CASE ClearProc(th)
  <2> DEFINE t == TrayOf[th]
  <2>1. /\ step[th] = "clears" /\ t \in Tray /\ UNCHANGED <<server, lock>>
        /\ mine' = [mine EXCEPT ![t] = None] /\ doomed' = [doomed EXCEPT ![th] = None]
        /\ \E next \in {"asks", "idle"} : step' = [step EXCEPT ![th] = next]
        /\ ~lapse /\ (mine[t] = doomed[th] \/ ~Waiting(t))
    BY <1>5 DEF ClearProc, After
  <2>2. \A o \in Thread : o # th => step'[o] = step[o] /\ doomed'[o] = doomed[o]
    BY <2>1
  <2>3. step'[th] \in {"asks", "idle"}
    BY <2>1
  <2>4. ASSUME NEW s \in Server, server'[s] = "boots"
        PROVE  \E o \in Thread : step'[o] = "waits" /\ mine'[TrayOf[o]] = s
    <3>1. PICK o \in Thread : step[o] = "waits" /\ mine[TrayOf[o]] = s
      BY <2>1, <2>4
    <3>2. o # th /\ step'[o] = "waits"
      BY <2>1, <2>2, <3>1
    <3>3. TrayOf[o] # t
      <4>1. SUFFICES ASSUME TrayOf[o] = t PROVE FALSE
        OBVIOUS
      <4>2. Waiting(t) /\ mine[t] = s
        BY <3>1, <4>1 DEF Waiting
      <4>3. server[s] = "dead"
        BY <2>1, <4>2
      <4> QED
        BY <2>1, <2>4, <4>3
    <3> QED
      BY <2>1, <3>1, <3>2, <3>3
  <2>5. \A o \in Thread : step'[o] \in Entered => lock' = o
    BY <2>1, <2>2, <2>3
  <2>6. \A o \in Thread : step'[o] \in {"stops", "clears"} =>
          doomed'[o] \in Server /\ (step'[o] = "clears" => server'[doomed'[o]] = "dead")
    BY <2>1, <2>2, <2>3
  <2>7. \A o \in Thread : step'[o] = "spawns" => \A s \in Server : ~ServerAlive(s)'
    BY <2>1, <2>2, <2>3
  <2> QED
    BY <2>1, <2>4, <2>5, <2>6, <2>7
<1> QED
  BY <1>1, <1>2, <1>3, <1>4, <1>5 DEF StopStep

LEMMA ServerStepOne ==
  ASSUME WebappInv, ~lapse', NEW s \in Server,
         (\E th \in Thread : Spawn(th, s)) \/ Bind(s) \/ Exit(s)
  PROVE  OneAtATime'
<1> USE WebappAssumption DEF WebappInv, WebappTypeOK, OneAtATime, Entered, ServerAlive
<1>1. ASSUME NEW th \in Thread, Spawn(th, s) PROVE OneAtATime'
  BY <1>1 DEF Spawn
<1>2. CASE Bind(s)
  BY <1>2 DEF Bind, Reachable
<1>3. CASE Exit(s)
  BY <1>3 DEF Exit
<1> QED
  BY <1>1, <1>2, <1>3

LEMMA DeathStepOne ==
  ASSUME WebappInv, ~lapse', NEW t \in Tray, TrayDies(t)
  PROVE  OneAtATime'
BY WebappAssumption DEF TrayDies, Waiting, WebappInv, WebappTypeOK, OneAtATime, Entered, ServerAlive

\* However starts, restarts and quits of any threads and processes meet, two servers live at
\* once only after the lock, a wait or a record was lost in one of the ways the property
\* names (WebappManager.start, .restart and .stop, cross_process_lock).
THEOREM OneServer == WebappSpec => []SingleWebapp
<1>1. WebappInv /\ [WebappNext]_webappVars => WebappInv'
  <2> SUFFICES ASSUME WebappInv, [WebappNext]_webappVars, ~lapse' PROVE OneAtATime'
    BY WebappTypeStep DEF WebappInv
  <2>1. CASE UNCHANGED webappVars
    BY <2>1 DEF webappVars, WebappInv, OneAtATime, ServerAlive
  <2> QED
    BY <2>1, StartStepOne, StopStepOne, ServerStepOne, DeathStepOne DEF WebappNext, StartStep
<1>2. WebappInv => SingleWebapp
  <2> SUFFICES ASSUME OneAtATime PROVE ~(Cardinality(LiveServers) > 1)
    BY DEF WebappInv, SingleWebapp
  <2>1. CASE LiveServers = {}
    BY <2>1, FS_EmptySet
  <2>2. ASSUME NEW s \in LiveServers PROVE Cardinality(LiveServers) = 1
    <3>1. LiveServers = {s}
      BY DEF OneAtATime, LiveServers
    <3> QED
      BY <3>1, FS_Singleton
  <2> QED
    BY <2>1, <2>2
<1> QED
  BY <1>1, <1>2, WebappInitInv, PTL DEF WebappSpec

-----------------------------------------------------------------------------
(* The snapshot of the sources' health. *)

\* A value was kept for a key read before its build, so that it is from settings no older
\* than its key; and a request's key is from the moment it was made.
NoOlderThanKey ==
  /\ value # NoValue => value.world >= value.for /\ value.world <= edits /\ value.at <= time
  /\ ticker.key <= edits /\ ticker.world <= edits
  /\ ticker.at = "store" => ticker.world >= ticker.key
  /\ \A r \in Reader :
       /\ reader[r].key <= edits /\ reader[r].world <= edits
       /\ reader[r].key = reader[r].asked
       /\ reader[r].at = "store" => reader[r].world >= reader[r].key
       /\ reader[r].at # "done" => reader[r].got = NoValue

SnapshotInv == SnapshotTypeOK /\ NoOlderThanKey /\ NeverOlder

LEMMA SnapshotInitInv == SnapshotInit => SnapshotInv
<1> SUFFICES ASSUME SnapshotInit PROVE SnapshotInv
  OBVIOUS
<1>1. Started \in Request
  BY SnapshotAssumption DEF Started, Request
<1>2. ticker \in Refresher
  BY SnapshotAssumption DEF SnapshotInit, Refresher
<1>3. closed \in BOOLEAN
  BY DEF SnapshotInit
<1>4. SnapshotTypeOK
  BY <1>1, <1>2, <1>3, SnapshotAssumption DEF SnapshotInit, SnapshotTypeOK
<1>5. NoOlderThanKey /\ NeverOlder
  BY DEF SnapshotInit, NoOlderThanKey, NeverOlder, Started
<1> QED
  BY <1>4, <1>5 DEF SnapshotInv

\* What is served from memory was kept for the reader's own key.
LEMMA HitIsNoOlder ==
  ASSUME SnapshotInv, NEW r \in Reader, Fresh(reader[r].key)
  PROVE  Hit \in Served /\ Hit.world >= reader[r].asked /\ Hit.age <= Stale
<1>1. value \in Value /\ value.for = reader[r].key /\ time - value.at <= Stale
  BY DEF Fresh, SnapshotInv, SnapshotTypeOK
<1>2. value.world >= value.for /\ value.at <= time /\ reader[r].key = reader[r].asked
  BY <1>1 DEF SnapshotInv, NoOlderThanKey, Fresh
<1>3. time \in 0 .. LastTime /\ value.at \in 0 .. LastTime /\ value.world \in 0 .. LastEdit
  BY <1>1 DEF SnapshotInv, SnapshotTypeOK, Value
<1>4. time - value.at \in 0 .. LastTime
  BY <1>2, <1>3, SnapshotAssumption
<1> QED
  BY <1>1, <1>2, <1>3, <1>4 DEF Hit, Served

\* What the invariant asks of one request, of the ticker and of the value.
RequestOK(q) ==
  /\ q \in Request
  /\ q.key <= edits /\ q.world <= edits /\ q.key = q.asked
  /\ q.at = "store" => q.world >= q.key
  /\ q.at # "done" => q.got = NoValue
  /\ q.got # NoValue => q.got.world >= q.asked /\ q.got.age <= Stale

RefresherOK(q) ==
  /\ q \in Refresher
  /\ q.key <= edits /\ q.world <= edits
  /\ q.at = "store" => q.world >= q.key

ValueOK(v) ==
  /\ v \in Value \cup {NoValue}
  /\ v # NoValue => v.world >= v.for /\ v.world <= edits /\ v.at <= time

AllOK ==
  /\ time \in 0 .. LastTime /\ edits \in 0 .. LastEdit /\ closed \in BOOLEAN
  /\ lastRead \in 0 .. LastTime /\ holder \in Reader \cup {Ticker, NoValue}
  /\ ValueOK(value) /\ RefresherOK(ticker)
  /\ reader \in [Reader -> Request] /\ \A r \in Reader : RequestOK(reader[r])

LEMMA Parts == (SnapshotInv <=> AllOK) /\ (SnapshotInv' <=> AllOK')
BY DEF SnapshotInv, SnapshotTypeOK, NoOlderThanKey, NeverOlder, RequestOK, RefresherOK, ValueOK,
       AllOK

\* A step that changes one request at most, and leaves clock and settings alone.
LEMMA OneRequest ==
  ASSUME SnapshotInv, UNCHANGED <<time, edits, closed>>, NEW r \in Reader, NEW q,
         RequestOK(q), reader' = [reader EXCEPT ![r] = q],
         lastRead' \in 0 .. LastTime, holder' \in Reader \cup {Ticker, NoValue},
         ValueOK(value'), RefresherOK(ticker')
  PROVE  SnapshotInv'
<1>1. reader' \in [Reader -> Request] /\ \A s \in Reader : RequestOK(reader'[s])
  BY Parts DEF AllOK, RequestOK
<1> QED
  BY <1>1, Parts DEF AllOK, RequestOK, RefresherOK, ValueOK

LEMMA RequestStep ==
  ASSUME SnapshotInv, NEW r \in Reader,
         ReadKey(r) \/ GetHit(r) \/ Acquire(r) \/ BuildInline(r) \/ StoreInline(r)
  PROVE  SnapshotInv'
<1>1. RequestOK(reader[r]) /\ ValueOK(value) /\ RefresherOK(ticker)
      /\ time \in 0 .. LastTime /\ edits \in 0 .. LastEdit /\ lastRead \in 0 .. LastTime
      /\ holder \in Reader \cup {Ticker, NoValue} /\ reader \in [Reader -> Request]
  BY Parts DEF AllOK
<1>2. CASE ReadKey(r)
  <2> DEFINE q == [reader[r] EXCEPT !.at = "key", !.key = edits, !.asked = edits]
  <2>1. q \in Request
    BY <1>1 DEF RequestOK, Request
  <2>2. RequestOK(q)
    BY <1>1, <1>2, <2>1 DEF ReadKey, RequestOK, Request
  <2>3. reader' = [reader EXCEPT ![r] = q]
    BY <1>1, <1>2 DEF ReadKey
  <2> QED
    BY <1>1, <1>2, <2>2, <2>3, OneRequest DEF ReadKey
<1>3. CASE GetHit(r)
  <2> DEFINE q == IF Fresh(reader[r].key) THEN [reader[r] EXCEPT !.at = "done", !.got = Hit]
                  ELSE [reader[r] EXCEPT !.at = "lock"]
  <2>1. RefresherOK(ticker') /\ lastRead' \in 0 .. LastTime
    BY <1>1, <1>3 DEF GetHit, Touch, RefresherOK, Refresher
  <2>2. RequestOK(q)
    BY <1>1, <1>3, HitIsNoOlder DEF GetHit, RequestOK, Request
  <2>3. reader' = [reader EXCEPT ![r] = q]
    BY <1>1, <1>3 DEF GetHit
  <2> QED
    BY <1>1, <1>3, <2>1, <2>2, <2>3, OneRequest DEF GetHit
<1>4. CASE Acquire(r)
  <2> DEFINE q == IF Fresh(reader[r].key) THEN [reader[r] EXCEPT !.at = "done", !.got = Hit]
                  ELSE [reader[r] EXCEPT !.at = "build"]
  <2>1. RequestOK(q)
    BY <1>1, <1>4, HitIsNoOlder DEF Acquire, RequestOK, Request
  <2>2. reader' = [reader EXCEPT ![r] = q]
    BY <1>1, <1>4 DEF Acquire
  <2> QED
    BY <1>1, <1>4, <2>1, <2>2, OneRequest DEF Acquire
<1>5. CASE BuildInline(r)
  <2> DEFINE built == [reader[r] EXCEPT !.at = "store", !.world = edits]
             raised == [reader[r] EXCEPT !.at = "failed"]
  <2>1. built \in Request /\ raised \in Request
    BY <1>1 DEF RequestOK, Request
  <2>2. RequestOK(built) /\ RequestOK(raised)
    BY <1>1, <1>5, <2>1, SnapshotAssumption DEF BuildInline, RequestOK, Request
  <2>3. \/ reader' = [reader EXCEPT ![r] = built]
        \/ reader' = [reader EXCEPT ![r] = raised]
    BY <1>1, <1>5 DEF BuildInline
  <2> HIDE DEF built, raised
  <2> QED
    BY <1>1, <1>5, <2>2, <2>3, OneRequest DEF BuildInline
<1>6. CASE StoreInline(r)
  <2> DEFINE g == [world |-> reader[r].world, age |-> 0]
             q == [reader[r] EXCEPT !.at = "done", !.got = g]
  <2>0. g \in Served /\ g.world >= reader[r].asked /\ g.age <= Stale
    BY <1>1, <1>6, SnapshotAssumption DEF StoreInline, RequestOK, Request, Served
  <2>1. RequestOK(q)
    <3> HIDE DEF g
    <3> QED
      BY <1>1, <2>0 DEF RequestOK, Request
  <2>2. reader' = [reader EXCEPT ![r] = q]
    BY <1>1, <1>6 DEF StoreInline, Request
  <2>3. ValueOK(value')
    BY <1>1, <1>6 DEF StoreInline, Keep, KeyBefore, ValueOK, Value, RequestOK, Request
  <2> QED
    BY <1>1, <1>6, <2>1, <2>2, <2>3, OneRequest DEF StoreInline
<1> QED
  BY <1>2, <1>3, <1>4, <1>5, <1>6

LEMMA TickerStep ==
  ASSUME SnapshotInv, TickIdle \/ TickDue \/ TickAcquire \/ TickBuild \/ TickStore
  PROVE  SnapshotInv'
<1>1. ValueOK(value) /\ RefresherOK(ticker)
      /\ time \in 0 .. LastTime /\ edits \in 0 .. LastEdit
      /\ holder \in Reader \cup {Ticker, NoValue}
  BY Parts DEF AllOK
<1>2. UNCHANGED <<time, edits, lastRead, reader, closed>>
  BY DEF TickIdle, TickDue, TickAcquire, TickBuild, TickStore
<1>3. holder' \in Reader \cup {Ticker, NoValue}
  BY <1>1 DEF TickIdle, TickDue, TickAcquire, TickBuild, TickStore
<1>4. RefresherOK(ticker')
  <2> USE <1>1, <1>2, SnapshotAssumption DEF RefresherOK, Refresher
  <2>1. CASE TickIdle \/ TickDue
    BY <2>1 DEF TickIdle, TickDue
  <2>2. CASE TickAcquire
    <3>1. ticker' \in Refresher /\ ticker'.key = edits /\ ticker'.world = ticker.world
          /\ ticker'.at = "build"
      BY <2>2 DEF TickAcquire
    <3> QED
      BY <3>1
  <2>3. CASE TickBuild
    <3>1. CASE ticker' = [ticker EXCEPT !.at = "store", !.world = edits]
      <4>1. ticker' \in Refresher /\ ticker'.key = ticker.key /\ ticker'.world = edits
        BY <3>1
      <4> QED
        BY <4>1
    <3>2. CASE ticker' = [ticker EXCEPT !.at = "wait", !.since = time]
      BY <3>2
    <3> QED
      BY <2>3, <3>1, <3>2 DEF TickBuild
  <2>4. CASE TickStore
    BY <2>4 DEF TickStore
  <2> QED
    BY <2>1, <2>2, <2>3, <2>4
<1>5. ValueOK(value')
  <2>1. CASE TickStore
    BY <1>1, <2>1 DEF TickStore, Keep, KeyBefore, ValueOK, Value, RefresherOK, Refresher
  <2> QED
    BY <1>1, <1>2, <2>1 DEF TickIdle, TickDue, TickAcquire, TickBuild, ValueOK
<1> QED
  BY <1>2, <1>3, <1>4, <1>5, Parts DEF AllOK, RequestOK, RefresherOK, ValueOK

LEMMA OutsideStep ==
  ASSUME SnapshotInv, CloseSnapshot \/ EditSettings \/ PassTime \/ UNCHANGED snapshotVars
  PROVE  SnapshotInv'
<1>1. UNCHANGED <<value, lastRead, ticker, holder, reader>>
      /\ time' \in 0 .. LastTime /\ edits' \in 0 .. LastEdit
      /\ time <= time' /\ edits <= edits'
  BY SnapshotAssumption, Parts DEF AllOK, CloseSnapshot, EditSettings, PassTime, snapshotVars
<1>2. time \in Nat /\ edits \in Nat /\ time' \in Nat /\ edits' \in Nat
  BY <1>1, Parts DEF AllOK
<1>3. ASSUME NEW r \in Reader PROVE RequestOK(reader[r])'
  BY <1>1, <1>2, Parts DEF AllOK, RequestOK, Request
<1>4. RefresherOK(ticker)'
  BY <1>1, <1>2, Parts DEF AllOK, RefresherOK, Refresher
<1>5. ValueOK(value)'
  BY <1>1, <1>2, Parts DEF AllOK, ValueOK, Value
<1>6. reader' \in [Reader -> Request] /\ holder' \in Reader \cup {Ticker, NoValue}
      /\ lastRead' \in 0 .. LastTime
  BY <1>1, Parts DEF AllOK
<1>7. closed' \in BOOLEAN
  BY Parts DEF AllOK, CloseSnapshot, EditSettings, PassTime, snapshotVars
<1> QED
  BY <1>1, <1>3, <1>4, <1>5, <1>6, <1>7, Parts DEF AllOK

\* For any number of requests, edits, builds and refreshes: no request is served a value
\* older than the settings it was made under, nor one staler than agreed (DemandSnapshot.get).
THEOREM ServedIsNeverOlder == SnapshotSpec => []NeverOlder
<1>1. SnapshotInv /\ [SnapshotNext]_snapshotVars => SnapshotInv'
  BY RequestStep, TickerStep, OutsideStep DEF SnapshotNext
<1>2. SnapshotInv => NeverOlder
  BY DEF SnapshotInv
<1> QED
  BY <1>1, <1>2, SnapshotInitInv, PTL DEF SnapshotSpec

-----------------------------------------------------------------------------
(* The launcher of runs. *)

\* Nothing is known of a run that was not started.
Unstarted == \A r \in Run : r > count => ~kept[r] /\ watch[r] = "none" /\ outcome[r] = "none"

\* A run writes its outcome once, as it leaves its work.
Unfinished == \A r \in Run : pc[r] \in {"none", "start", "sweep", "work"} => outcome[r] = "none"

\* What the web app holds: handle and watchers are of started runs with a record, a watcher
\* that finalized outlived its process, and no run is of a later life.
Held ==
  /\ active # NoRun => active <= count /\ kept[active]
  /\ \A r \in Run : boot[r] <= life
  /\ \A r \in Run : watch[r] # "none" => kept[r]
  /\ \A r \in Run : watch[r] \in {"prune", "clear"} => ~Alive(r)

LauncherInv ==
  LauncherTypeOK /\ Unstarted /\ Unfinished /\ OutcomeStands /\ LiveRecordKept /\ Held /\ SingleFlight

USE KindAssumption, BoundAssumption, AgeAssumption

LEMMA LauncherInitInv == LauncherInit => LauncherInv
<1> SUFFICES ASSUME LauncherInit PROVE LauncherInv
  OBVIOUS
<1>1. LauncherTypeOK
  BY DEF LauncherInit, LauncherTypeOK, AlivePc
<1>2. Unstarted /\ Unfinished /\ OutcomeStands /\ LiveRecordKept /\ Held /\ SingleFlight
  BY DEF LauncherInit, Unstarted, Unfinished, OutcomeStands, LiveRecordKept, Held,
         SingleFlight, Alive, AlivePc
<1> QED
  BY <1>1, <1>2 DEF LauncherInv

-----------------------------------------------------------------------------
(* Types. *)

LEMMA RunsFollow == ASSUME LauncherTypeOK, NEW r \in Run PROVE r \in Nat /\ count \in Nat
BY DEF LauncherTypeOK, Run

LEMMA NewRunType ==
  ASSUME LauncherTypeOK, NEW k \in Kind, NEW o \in {"web", "cli"}, NEW r \in Run,
         NewRun(k, o, life, r)
  PROVE  /\ r \in Nat /\ count' = count + 1 /\ r = count + 1 /\ count' \in 0 .. MaxRun
         /\ kind' \in [Run -> Kind \cup {NoKind}] /\ origin' \in [Run -> {"web", "cli"}]
         /\ started' \in [Run -> 0 .. MaxTime] /\ boot' \in [Run -> 0 .. MaxRestart]
         /\ \A q \in Run : q # r => /\ kind'[q] = kind[q] /\ origin'[q] = origin[q]
                                    /\ started'[q] = started[q] /\ boot'[q] = boot[q]
         /\ kind'[r] = k /\ origin'[r] = o /\ started'[r] = now /\ boot'[r] = life
BY DEF NewRun, LauncherTypeOK, Run

LEMMA PruneType ==
  ASSUME LauncherTypeOK, NEW h, PruneRuns(h)
  PROVE  /\ rec' \in [Run -> {"none", "running", "completed", "failed"}]
         /\ \A r \in Run : rec'[r] = rec[r] \/ rec'[r] = "none"
         /\ \A r \in Run : rec[r] = "running" /\ ~IsStaleRunning(r) => rec'[r] = "running"
<1> DEFINE D == Prunable(h)
<1>1. PICK E \in SUBSET D : rec' = [r \in Run |-> IF r \in E THEN "none" ELSE rec[r]]
  BY DEF PruneRuns
<1>2. \A r \in D : ~(rec[r] = "running" /\ ~IsStaleRunning(r))
  BY DEF Prunable
<1> HIDE DEF D
<1> QED
  BY <1>1, <1>2 DEF LauncherTypeOK

LEMMA StartType ==
  ASSUME LauncherTypeOK, NEW k \in Kind, NEW r \in Run,
         StartRun(k, r) \/ StartFails(k, r) \/ StartCli(k, r)
  PROVE  LauncherTypeOK'
<1>1. life \in 0 .. MaxRestart /\ now \in 0 .. MaxTime
  BY DEF LauncherTypeOK
<1>2. \/ NewRun(k, "web", life, r) \/ NewRun(k, "cli", life, r)
  BY DEF StartRun, StartFails, StartCli
<1>3. /\ r = count + 1 /\ count' = count + 1 /\ count' \in 0 .. MaxRun
      /\ kind' \in [Run -> Kind \cup {NoKind}] /\ origin' \in [Run -> {"web", "cli"}]
      /\ started' \in [Run -> 0 .. MaxTime] /\ boot' \in [Run -> 0 .. MaxRestart]
  BY <1>2, NewRunType
<1>4. now' = now /\ life' = life /\ row' = row /\ outcome' = outcome /\ exit' = exit /\ stale' = stale
  BY DEF StartRun, StartFails, StartCli, rowVars, appVars
<1>5. /\ rec' \in [Run -> {"none", "running", "completed", "failed"}]
      /\ kept' \in [Run -> BOOLEAN]
      /\ pc' \in [Run -> AlivePc \cup {"none", "dead"}]
      /\ watch' \in [Run -> {"none", "wait", "prune", "clear", "done"}]
      /\ active' \in Run \cup {NoRun}
  <2> USE DEF LauncherTypeOK, AlivePc, appVars
  <2>1. CASE StartRun(k, r)
    BY <2>1 DEF StartRun
  <2>2. CASE StartFails(k, r)
    BY <2>2 DEF StartFails
  <2>3. CASE StartCli(k, r)
    BY <2>3 DEF StartCli
  <2> QED
    BY <2>1, <2>2, <2>3
<1>6. \A q \in Run : q > count' => pc'[q] = "none" /\ rec'[q] = "none" /\ row'[q] = "none"
  <2> SUFFICES ASSUME NEW q \in Run, q > count'
               PROVE  pc'[q] = "none" /\ rec'[q] = "none" /\ row'[q] = "none"
    OBVIOUS
  <2>1. q # r /\ q > count
    BY <1>3, RunsFollow
  <2>2. pc'[q] = pc[q] /\ rec'[q] = rec[q]
    BY <2>1 DEF StartRun, StartFails, StartCli, LauncherTypeOK
  <2> QED
    BY <1>4, <2>1, <2>2 DEF LauncherTypeOK
<1> QED
  BY <1>1, <1>3, <1>4, <1>5, <1>6 DEF LauncherTypeOK

RecType == [Run -> {"none", "running", "completed", "failed"}]
RowType == [Run -> {"none", "running", "completed", "failed", "abandoned"}]

\* What the steps of one process and its kill leave alone, and what they make of the rest.
LEMMA ProcessFrame ==
  ASSUME LauncherTypeOK, NEW r \in Run, KillRun(r) \/ ProcessStep(r)
  PROVE  UNCHANGED <<now, runVars, kept, appVars>>
BY DEF KillRun, ProcessStep, SelfSkip, ReadStaleRows, SweepRow, OpenRow, FinishRow, EmitResult,
       Interrupt, CliFinalize, CliPrune, Die, recordVars

LEMMA ProcessPc ==
  ASSUME LauncherTypeOK, NEW r \in Run, KillRun(r) \/ ProcessStep(r)
  PROVE  /\ Alive(r) /\ r <= count
         /\ pc' \in [Run -> AlivePc \cup {"none", "dead"}]
         /\ exit' \in [Run -> {"none", "zero", "other"}]
         /\ \A q \in Run : q # r => pc'[q] = pc[q]
         /\ pc'[r] \in {"sweep", "work", "report", "end", "prune", "dead"}
<1> DEFINE PcMoved == /\ Alive(r)
                      /\ \/ pc' = [pc EXCEPT ![r] = "sweep"] \/ pc' = [pc EXCEPT ![r] = "work"]
                         \/ pc' = [pc EXCEPT ![r] = "report"] \/ pc' = [pc EXCEPT ![r] = "end"]
                         \/ pc' = [pc EXCEPT ![r] = "prune"] \/ pc' = [pc EXCEPT ![r] = "dead"]
                         \/ pc' = pc /\ pc[r] = "sweep"
           ExitMoved == \/ exit' = exit
                        \/ exit' = [exit EXCEPT ![r] = "zero"]
                        \/ exit' = [exit EXCEPT ![r] = "other"]
           Moved == PcMoved /\ ExitMoved
<1>1. AfterCommand(r) = "end" \/ AfterCommand(r) = "dead"
  BY DEF AfterCommand
<1>2. ASSUME KillRun(r) \/ Die(r) PROVE Moved
  BY <1>2 DEF KillRun, Die, ActiveRun, Run
<1>3. ASSUME SelfSkip(r) \/ ReadStaleRows(r) \/ EmitResult(r) \/ Interrupt(r) PROVE Moved
  BY <1>1, <1>3 DEF SelfSkip, ReadStaleRows, EmitResult, Interrupt, Alive, AlivePc
<1>4. ASSUME SweepRow(r) \/ OpenRow(r) \/ CliFinalize(r) \/ CliPrune(r) PROVE Moved
  BY <1>4 DEF SweepRow, OpenRow, CliFinalize, CliPrune, Alive, AlivePc
<1>5. ASSUME NEW s \in {"completed", "failed"}, FinishRow(r, s) PROVE Moved
  BY <1>5 DEF FinishRow, Alive, AlivePc
<1>6. Moved
  <2>1. CASE KillRun(r)
    BY <1>2, <2>1
  <2>2. CASE ProcessStep(r)
    BY <1>2, <1>3, <1>4, <1>5, <2>2 DEF ProcessStep
  <2> QED
    BY <2>1, <2>2
<1>7. r <= count
  BY <1>6, RunsFollow DEF Alive, AlivePc, LauncherTypeOK
<1>8. /\ pc' \in [Run -> AlivePc \cup {"none", "dead"}]
      /\ \A q \in Run : q # r => pc'[q] = pc[q]
      /\ pc'[r] \in {"sweep", "work", "report", "end", "prune", "dead"}
  BY <1>6 DEF LauncherTypeOK, AlivePc
<1>9. exit' \in [Run -> {"none", "zero", "other"}]
  BY <1>6 DEF LauncherTypeOK
<1> QED
  BY <1>6, <1>7, <1>8, <1>9

\* A row is abandoned only while it runs.
LEMMA AbandonType ==
  ASSUME LauncherTypeOK, NEW q \in Run, AbandonRun(q)
  PROVE  /\ row' \in RowType
         /\ \A p \in Run : row'[p] = row[p] \/ (row[p] = "running" /\ row'[p] = "abandoned")
BY DEF AbandonRun, LauncherTypeOK, RowType

\* Rows and outcomes: a running row may be abandoned by anyone, and only the run itself,
\* leaving its start or its work, writes anything else.
LEMMA ProcessRow ==
  ASSUME LauncherTypeOK, NEW r \in Run, KillRun(r) \/ ProcessStep(r)
  PROVE  /\ row' \in RowType /\ outcome' \in [Run -> {"none", "completed", "failed"}]
         /\ \A q \in Run :
              \/ outcome'[q] = outcome[q]
                 /\ (row'[q] = row[q] \/ (row[q] = "running" /\ row'[q] = "abandoned"))
              \/ q = r /\ outcome'[q] = outcome[q] /\ pc[q] \in {"start", "sweep"}
              \/ q = r /\ row'[q] = outcome'[q] /\ pc'[q] = "report"
<1> USE DEF LauncherTypeOK, RowType
<1>1. CASE KillRun(r) \/ SelfSkip(r) \/ ReadStaleRows(r) \/ EmitResult(r) \/ CliFinalize(r)
           \/ CliPrune(r) \/ Die(r)
  BY <1>1 DEF KillRun, SelfSkip, ReadStaleRows, EmitResult, CliFinalize, CliPrune, Die, rowVars
<1>2. CASE SweepRow(r)
  <2>1. PICK q \in stale[r] : AbandonRun(q)
    BY <1>2 DEF SweepRow
  <2> QED
    BY <1>2, <2>1, AbandonType DEF SweepRow
<1>3. CASE Interrupt(r)
  BY <1>3, AbandonType DEF Interrupt
<1>4. CASE OpenRow(r)
  BY <1>4 DEF OpenRow
<1>5. ASSUME NEW s \in {"completed", "failed"}, FinishRow(r, s)
      PROVE  /\ row' \in RowType /\ outcome' \in [Run -> {"none", "completed", "failed"}]
             /\ pc'[r] = "report" /\ \A q \in Run : q # r => row'[q] = row[q] /\ outcome'[q] = outcome[q]
             /\ row'[r] = outcome'[r] \/ (row'[r] = row[r] /\ outcome'[r] = outcome[r])
  <2>1. CASE kind[r] \in RowKind
    BY <1>5, <2>1 DEF FinishRow
  <2>2. CASE kind[r] \notin RowKind
    BY <1>5, <2>2 DEF FinishRow, rowVars
  <2> QED
    BY <2>1, <2>2
<1>6. CASE \E s \in {"completed", "failed"} : FinishRow(r, s)
  BY <1>5, <1>6
<1> QED
  BY <1>1, <1>2, <1>3, <1>4, <1>6 DEF ProcessStep

\* Records: a prune, or the finalize of a process at its end.
LEMMA ProcessRecord ==
  ASSUME LauncherTypeOK, NEW r \in Run, KillRun(r) \/ ProcessStep(r)
  PROVE  /\ rec' \in RecType
         /\ \A q \in Run : rec[q] = "none" => rec'[q] = "none"
         /\ \A q \in Run : rec[q] = "running" /\ ~IsStaleRunning(q) =>
              rec'[q] = "running" \/ (q = r /\ pc'[q] \in {"prune", "dead"})
<1> USE DEF RecType
<1>1. CASE CliPrune(r)
  BY <1>1, PruneType DEF CliPrune
<1>2. CASE CliFinalize(r)
  BY <1>2 DEF CliFinalize, FinalRecord, LauncherTypeOK
<1>3. CASE rec' = rec
  BY <1>3 DEF LauncherTypeOK
<1> QED
  BY <1>1, <1>2, <1>3 DEF ProcessStep, KillRun, SelfSkip, ReadStaleRows, SweepRow, OpenRow,
       FinishRow, EmitResult, Interrupt, Die, recordVars

LEMMA ProcessStale ==
  ASSUME LauncherTypeOK, NEW r \in Run, KillRun(r) \/ ProcessStep(r)
  PROVE  stale' \in [Run -> SUBSET Run]
<1>1. StaleRows \in SUBSET Run
  BY DEF StaleRows
<1>2. stale' = stale \/ \E S \in SUBSET Run : stale' = [stale EXCEPT ![r] = S]
  <2>1. CASE ReadStaleRows(r)
    BY <1>1, <2>1 DEF ReadStaleRows
  <2>2. CASE SweepRow(r)
    <3>1. PICK q \in stale[r] : stale' = [stale EXCEPT ![r] = @ \ {q}]
      BY <2>2 DEF SweepRow
    <3>2. stale[r] \ {q} \in SUBSET Run
      BY DEF LauncherTypeOK
    <3> QED
      BY <3>1, <3>2
  <2>3. CASE KillRun(r) \/ Die(r)
    BY <2>3 DEF KillRun, Die
  <2> QED
    BY <2>1, <2>2, <2>3 DEF ProcessStep, SelfSkip, OpenRow, FinishRow, EmitResult, Interrupt,
         CliFinalize, CliPrune
<1> QED
  BY <1>2 DEF LauncherTypeOK

LEMMA ProcessTypeOK ==
  ASSUME LauncherTypeOK, NEW r \in Run, KillRun(r) \/ ProcessStep(r)
  PROVE  LauncherTypeOK'
<1>1. \A q \in Run : q > count => pc'[q] = "none" /\ rec'[q] = "none" /\ row'[q] = "none"
  <2> SUFFICES ASSUME NEW q \in Run, q > count
               PROVE  pc'[q] = "none" /\ rec'[q] = "none" /\ row'[q] = "none"
    OBVIOUS
  <2>1. q # r
    BY ProcessPc, RunsFollow
  <2>2. pc[q] = "none" /\ rec[q] = "none" /\ row[q] = "none"
    BY DEF LauncherTypeOK
  <2> QED
    BY <2>1, <2>2, ProcessPc, ProcessRow, ProcessRecord
<1> QED
  BY <1>1, ProcessFrame, ProcessPc, ProcessRow, ProcessRecord, ProcessStale
     DEF LauncherTypeOK, runVars, appVars, RowType, RecType

LEMMA WatchType ==
  ASSUME LauncherTypeOK, NEW r \in Run, WatchStep(r)
  PROVE  /\ LauncherTypeOK'
         /\ UNCHANGED <<now, runVars, kept, rowVars, procVars, life>>
         /\ \A q \in Run : q # r => watch'[q] = watch[q]
         /\ watch[r] # "none"
         /\ watch'[r] \in {"prune", "clear", "done"} /\ (watch[r] = "wait" => ~Alive(r))
         /\ \A q \in Run : rec[q] = "running" /\ ~IsStaleRunning(q) =>
              rec'[q] = "running" \/ (q = r /\ ~Alive(r))
         /\ \/ active' = active
            \/ active' = NoRun /\ active # NoRun /\ watch[r] = "clear" /\ SameId(active, r)
<1> USE DEF RecType
<1>1. CASE WatchFinalize(r)
  <2>1. CASE rec[r] = "none"
    BY <1>1, <2>1 DEF WatchFinalize, LauncherTypeOK, runVars, rowVars, procVars
  <2>2. CASE rec[r] # "none"
    <3>1. rec' \in RecType /\ (\A q \in Run : q # r => rec'[q] = rec[q])
      BY <1>1, <2>2 DEF WatchFinalize, FinalRecord, LauncherTypeOK
    <3>2. r <= count
      BY <2>2, RunsFollow DEF LauncherTypeOK
    <3>3. watch' = [watch EXCEPT ![r] = "prune"]
      BY <1>1, <2>2 DEF WatchFinalize
    <3> QED
      BY <1>1, <3>1, <3>2, <3>3, RunsFollow
         DEF WatchFinalize, LauncherTypeOK, runVars, rowVars, procVars
  <2> QED
    BY <2>1, <2>2
<1>2. CASE WatchPrune(r)
  BY <1>2, PruneType DEF WatchPrune, LauncherTypeOK, runVars, rowVars, procVars
<1>3. CASE WatchClear(r)
  BY <1>3 DEF WatchClear, LauncherTypeOK, runVars, rowVars, procVars, recordVars
<1> QED
  BY <1>1, <1>2, <1>3 DEF WatchStep

LEMMA RestartType ==
  ASSUME LauncherTypeOK, RestartWebapp
  PROVE  /\ LauncherTypeOK'
         /\ life' = life + 1 /\ active' = NoRun /\ watch' = [r \in Run |-> "none"]
         /\ UNCHANGED <<now, runVars, kept, outcome, procVars>>
         /\ \A q \in Run : rec[q] = "running" /\ ~IsStaleRunning(q) => rec'[q] = "running"
         /\ \A q \in Run : row'[q] = row[q] \/ (row[q] = "running" /\ row'[q] = "abandoned")
<1>1. PruneRuns(NoRun) /\ row' = [q \in Run |-> IF q \in StaleRows THEN "abandoned" ELSE row[q]]
      /\ life < MaxRestart /\ life' = life + 1 /\ active' = NoRun
      /\ watch' = [r \in Run |-> "none"] /\ UNCHANGED <<now, runVars, kept, outcome, procVars>>
  BY DEF RestartWebapp
<1>2. \A q \in StaleRows : row[q] = "running"
  BY DEF StaleRows
<1>3. /\ row' \in RowType
      /\ \A q \in Run : row'[q] = row[q] \/ (row[q] = "running" /\ row'[q] = "abandoned")
  <2> DEFINE Old == StaleRows
  <2>1. row' = [q \in Run |-> IF q \in Old THEN "abandoned" ELSE row[q]]
        /\ \A q \in Old : row[q] = "running"
    BY <1>1, <1>2
  <2> HIDE DEF Old
  <2> QED
    BY <2>1 DEF LauncherTypeOK, RowType
<1>4. life' \in 0 .. MaxRestart
  BY <1>1 DEF LauncherTypeOK
<1>5. watch' \in [Run -> {"none", "wait", "prune", "clear", "done"}]
  BY <1>1
<1> QED
  BY <1>1, <1>3, <1>4, <1>5, PruneType DEF LauncherTypeOK, RowType, runVars, procVars

LEMMA TickType ==
  ASSUME LauncherTypeOK, Tick
  PROVE  LauncherTypeOK' /\ now' >= now /\ UNCHANGED <<runVars, recordVars, rowVars, procVars, appVars>>
BY DEF Tick, LauncherTypeOK, runVars, recordVars, rowVars, procVars, appVars

LEMMA LauncherTypeStep == LauncherTypeOK /\ [LauncherNext]_launcherVars => LauncherTypeOK'
<1> SUFFICES ASSUME LauncherTypeOK, [LauncherNext]_launcherVars PROVE LauncherTypeOK'
  OBVIOUS
<1>1. CASE UNCHANGED launcherVars
  BY <1>1 DEF LauncherTypeOK, launcherVars, runVars, recordVars, rowVars, procVars, appVars
<1>2. CASE LauncherNext
  BY <1>2, StartType, ProcessTypeOK, WatchType, RestartType, TickType DEF LauncherNext
<1> QED
  BY <1>1, <1>2

\* What a start changes: the next run only, and the handle if it succeeds.
LEMMA StartFrame ==
  ASSUME LauncherTypeOK, NEW k \in Kind, NEW r \in Run,
         StartRun(k, r) \/ StartFails(k, r) \/ StartCli(k, r)
  PROVE  /\ r = count + 1 /\ count' = r /\ r \in Nat /\ count \in Nat
         /\ kind'[r] = k /\ started'[r] = now /\ boot'[r] = life
         /\ \A q \in Run : q # r =>
              /\ kind'[q] = kind[q] /\ origin'[q] = origin[q] /\ started'[q] = started[q]
              /\ boot'[q] = boot[q] /\ kept'[q] = kept[q] /\ rec'[q] = rec[q]
              /\ pc'[q] = pc[q] /\ watch'[q] = watch[q]
         /\ UNCHANGED <<now, rowVars, life>>
         /\ \/ /\ ActiveRun = NoRun /\ active' = r /\ kept'[r] /\ pc'[r] = "start"
               /\ rec'[r] = "running" /\ watch'[r] = "wait"
            \/ active' = active /\ pc'[r] = "dead" /\ watch' = watch
            \/ /\ active' = active /\ origin'[r] = "cli" /\ pc'[r] = "start" /\ watch' = watch
               /\ kept'[r] => rec'[r] = "running"
<1>1. \/ NewRun(k, "web", life, r)
      \/ NewRun(k, "cli", life, r) /\ StartCli(k, r)
  BY DEF StartRun, StartFails, StartCli
<1>2. /\ r = count + 1 /\ count' = r /\ r \in Nat /\ count \in Nat
      /\ kind'[r] = k /\ started'[r] = now /\ boot'[r] = life
      /\ (StartCli(k, r) => origin'[r] = "cli" \/ NewRun(k, "web", life, r))
      /\ \A q \in Run : q # r =>
              /\ kind'[q] = kind[q] /\ origin'[q] = origin[q] /\ started'[q] = started[q]
              /\ boot'[q] = boot[q]
  BY <1>1, NewRunType, RunsFollow
<1>3. UNCHANGED <<now, rowVars, life>>
  BY DEF StartRun, StartFails, StartCli, appVars
<1>4. CASE StartRun(k, r)
  BY <1>2, <1>3, <1>4 DEF StartRun, Busy, LauncherTypeOK
<1>5. CASE StartFails(k, r)
  BY <1>2, <1>3, <1>5 DEF StartFails, LauncherTypeOK, appVars
<1>6. CASE StartCli(k, r)
  <2>1. NewRun(k, "cli", life, r)
    BY <1>6 DEF StartCli
  <2>2. origin'[r] = "cli"
    BY <2>1, NewRunType
  <2>3. PICK made \in BOOLEAN : rec' = [rec EXCEPT ![r] = IF made THEN "running" ELSE "none"]
                                /\ kept' = [kept EXCEPT ![r] = made]
    BY <1>6 DEF StartCli
  <2>4. \A q \in Run : q # r => kept'[q] = kept[q] /\ rec'[q] = rec[q]
    BY <2>3 DEF LauncherTypeOK
  <2>5. kept'[r] => rec'[r] = "running"
    BY <2>3 DEF LauncherTypeOK
  <2>6. pc' = [pc EXCEPT ![r] = "start"] /\ active' = active /\ watch' = watch
    BY <1>6 DEF StartCli, appVars
  <2> QED
    BY <1>2, <1>3, <2>2, <2>4, <2>5, <2>6 DEF LauncherTypeOK
<1> QED
  BY <1>4, <1>5, <1>6

-----------------------------------------------------------------------------
(* Records and outcomes. *)

LEMMA RecordStep ==
  ASSUME LauncherTypeOK, LiveRecordKept, [LauncherNext]_launcherVars
  PROVE  LiveRecordKept'
<1> SUFFICES ASSUME NEW q \in Run,
                    kept'[q] /\ pc'[q] \in AlivePc \ {"prune"} /\ ~(now' >= started'[q] + StaleRecord)
             PROVE  rec'[q] = "running"
  BY DEF LiveRecordKept, IsStaleRunning
<1> DEFINE Was == kept[q] /\ pc[q] \in AlivePc \ {"prune"} /\ ~IsStaleRunning(q)
<1>0. Was => rec[q] = "running"
  BY DEF LiveRecordKept
<1>1. ASSUME NEW k \in Kind, NEW r \in Run, StartRun(k, r) \/ StartFails(k, r) \/ StartCli(k, r)
      PROVE  rec'[q] = "running"
  BY <1>0, <1>1, StartFrame DEF IsStaleRunning, AlivePc
<1>2. ASSUME NEW r \in Run, KillRun(r) \/ ProcessStep(r) PROVE rec'[q] = "running"
  <2>0. pc[r] = "prune" => pc'[r] = "dead"
    <3> USE DEF LauncherTypeOK
    <3>1. CASE KillRun(r) \/ CliPrune(r) \/ Die(r)
      BY <3>1 DEF KillRun, CliPrune, Die
    <3> QED
      BY <1>2, <3>1 DEF ProcessStep, SelfSkip, ReadStaleRows, SweepRow, OpenRow, FinishRow,
           EmitResult, Interrupt, CliFinalize
  <2>1. Was
    BY <1>2, <2>0, ProcessFrame, ProcessPc DEF runVars, IsStaleRunning, Alive, AlivePc
  <2> QED
    BY <1>0, <1>2, <2>1, ProcessRecord DEF AlivePc
<1>3. ASSUME NEW r \in Run, WatchStep(r) PROVE rec'[q] = "running"
  BY <1>0, <1>3, WatchType DEF runVars, procVars, IsStaleRunning, Alive
<1>4. CASE RestartWebapp
  BY <1>0, <1>4, RestartType DEF runVars, procVars, IsStaleRunning
<1>5. CASE Tick
  <2>1. now \in Nat /\ now' \in Nat /\ started[q] \in Nat /\ now <= now' /\ started'[q] = started[q]
    BY <1>5, TickType DEF LauncherTypeOK, runVars
  <2>2. ~IsStaleRunning(q)
    BY <2>1 DEF IsStaleRunning
  <2> QED
    BY <1>0, <1>5, <2>2, TickType DEF recordVars, procVars
<1>6. CASE UNCHANGED launcherVars
  BY <1>0, <1>6 DEF launcherVars, runVars, recordVars, procVars, IsStaleRunning
<1> QED
  BY <1>1, <1>2, <1>3, <1>4, <1>5, <1>6 DEF LauncherNext

LEMMA UnstartedStep ==
  ASSUME LauncherTypeOK, Unstarted, [LauncherNext]_launcherVars
  PROVE  Unstarted'
<1> SUFFICES ASSUME NEW q \in Run, q > count'
             PROVE  ~kept'[q] /\ watch'[q] = "none" /\ outcome'[q] = "none"
  BY DEF Unstarted
<1> DEFINE Blank == ~kept[q] /\ watch[q] = "none" /\ outcome[q] = "none"
<1>0. q > count => Blank
  BY DEF Unstarted
<1>1. ASSUME NEW k \in Kind, NEW r \in Run, StartRun(k, r) \/ StartFails(k, r) \/ StartCli(k, r)
      PROVE  ~kept'[q] /\ watch'[q] = "none" /\ outcome'[q] = "none"
  <2>1. q # r /\ q > count
    BY <1>1, StartFrame DEF Run
  <2> QED
    BY <1>0, <1>1, <2>1, StartFrame DEF rowVars
<1>2. ASSUME NEW r \in Run, KillRun(r) \/ ProcessStep(r)
      PROVE  ~kept'[q] /\ watch'[q] = "none" /\ outcome'[q] = "none"
  <2>1. UNCHANGED <<count, kept, watch>> /\ r <= count
    BY <1>2, ProcessFrame, ProcessPc DEF runVars, appVars
  <2>2. q # r
    BY <2>1, RunsFollow
  <2> QED
    BY <1>0, <1>2, <2>1, <2>2, ProcessRow
<1>3. ASSUME NEW r \in Run, WatchStep(r)
      PROVE  ~kept'[q] /\ watch'[q] = "none" /\ outcome'[q] = "none"
  BY <1>0, <1>3, WatchType DEF runVars, rowVars
<1>4. CASE RestartWebapp
  BY <1>0, <1>4, RestartType DEF runVars
<1>5. CASE Tick
  BY <1>0, <1>5, TickType DEF runVars, recordVars, rowVars, appVars
<1>6. CASE UNCHANGED launcherVars
  BY <1>0, <1>6 DEF launcherVars, runVars, recordVars, rowVars, appVars
<1> QED
  BY <1>1, <1>2, <1>3, <1>4, <1>5, <1>6 DEF LauncherNext

\* Whoever abandons a row, and whatever was read of it before, it runs at that moment.
LEMMA OutcomeStep ==
  ASSUME LauncherTypeOK, Unstarted, Unfinished, OutcomeStands, [LauncherNext]_launcherVars
  PROVE  Unfinished' /\ OutcomeStands'
<1> SUFFICES ASSUME NEW q \in Run
             PROVE  /\ pc'[q] \in {"none", "start", "sweep", "work"} => outcome'[q] = "none"
                    /\ outcome'[q] # "none" => row'[q] = outcome'[q]
  BY DEF Unfinished, OutcomeStands
<1> DEFINE Goal == /\ pc'[q] \in {"none", "start", "sweep", "work"} => outcome'[q] = "none"
                   /\ outcome'[q] # "none" => row'[q] = outcome'[q]
<1>0. /\ pc[q] \in {"none", "start", "sweep", "work"} => outcome[q] = "none"
      /\ outcome[q] # "none" => row[q] = outcome[q] /\ row[q] # "running"
  BY DEF Unfinished, OutcomeStands, LauncherTypeOK
<1>1. ASSUME NEW k \in Kind, NEW r \in Run, StartRun(k, r) \/ StartFails(k, r) \/ StartCli(k, r)
      PROVE  Goal
  <2>1. outcome[r] = "none"
    BY <1>1, StartFrame DEF Unstarted
  <2> QED
    BY <1>0, <1>1, <2>1, StartFrame DEF rowVars
<1>2. ASSUME NEW r \in Run, KillRun(r) \/ ProcessStep(r) PROVE Goal
  <2>1. Alive(r) /\ (q # r => pc'[q] = pc[q])
        /\ pc'[r] \in {"sweep", "work", "report", "end", "prune", "dead"}
    BY <1>2, ProcessPc
  <2>2. \/ outcome'[q] = outcome[q]
           /\ (row'[q] = row[q] \/ (row[q] = "running" /\ row'[q] = "abandoned"))
        \/ q = r /\ outcome'[q] = outcome[q] /\ pc[q] \in {"start", "sweep"}
        \/ q = r /\ row'[q] = outcome'[q] /\ pc'[q] = "report"
    BY <1>2, ProcessRow
  <2>3. pc'[q] \in {"sweep", "work"} => pc[q] \in {"start", "sweep", "work"}
    <3>1. pc'[r] \in {"sweep", "work"} => pc[r] \in {"start", "sweep", "work"}
      <4> USE DEF LauncherTypeOK
      <4>1. CASE KillRun(r) \/ SelfSkip(r) \/ ReadStaleRows(r) \/ SweepRow(r) \/ OpenRow(r) \/ Die(r)
        BY <4>1 DEF KillRun, SelfSkip, ReadStaleRows, SweepRow, OpenRow, Die, AfterCommand
      <4>2. CASE EmitResult(r) \/ Interrupt(r) \/ CliFinalize(r) \/ CliPrune(r)
                 \/ \E s \in {"completed", "failed"} : FinishRow(r, s)
        BY <4>2 DEF EmitResult, Interrupt, CliFinalize, CliPrune, FinishRow, AfterCommand
      <4> QED
        BY <1>2, <4>1, <4>2 DEF ProcessStep
    <3> QED
      BY <2>1, <3>1
  <2> QED
    BY <1>0, <2>1, <2>2, <2>3
<1>3. ASSUME NEW r \in Run, WatchStep(r) PROVE Goal
  BY <1>0, <1>3, WatchType DEF rowVars, procVars
<1>4. CASE RestartWebapp
  BY <1>0, <1>4, RestartType DEF procVars
<1>5. CASE Tick
  BY <1>0, <1>5, TickType DEF rowVars, procVars
<1>6. CASE UNCHANGED launcherVars
  BY <1>0, <1>6 DEF launcherVars, rowVars, procVars
<1> QED
  BY <1>1, <1>2, <1>3, <1>4, <1>5, <1>6 DEF LauncherNext

-----------------------------------------------------------------------------
(* Single flight. *)

\* Of two runs of one kind with records, started in one second, the later has the greater
\* suffix: the earlier one's name is taken.
LEMMA SuffixGrows ==
  ASSUME NEW q \in Run, NEW r \in Run, q < r, kept[q], kind[q] = kind[r], started[q] = started[r]
  PROVE  Suffix(q) # Suffix(r)
<1> DEFINE Earlier(s) == {p \in Run : p < s /\ kept[p] /\ kind[p] = kind[s] /\ started[p] = started[s]}
<1>1. IsFiniteSet(Run)
  BY FS_Interval DEF Run
<1>2. IsFiniteSet(Earlier(r)) /\ IsFiniteSet(Earlier(q))
  BY <1>1, FS_Subset
<1>3. Earlier(q) \subseteq Earlier(r)
  BY DEF Run
<1>4. q \in Earlier(r) /\ q \notin Earlier(q)
  BY DEF Run
<1>5. Cardinality(Earlier(q)) # Cardinality(Earlier(r))
  <2> HIDE DEF Earlier
  <2> QED
    BY <1>2, <1>3, <1>4, FS_Subset, FS_CardinalityType
<1> QED
  BY <1>5 DEF Suffix

LEMMA IdsDiffer ==
  ASSUME NEW q \in Run, NEW r \in Run, q # r, kept[q], kept[r], SameId(q, r)
  PROVE  kind[q] # kind[r]
<1>1. q < r \/ r < q
  BY DEF Run
<1> QED
  BY <1>1, SuffixGrows DEF SameId

\* Runs that were started keep their ids.
LEMMA IdsStay ==
  ASSUME LauncherTypeOK, NEW q \in Run, q <= count,
         \A p \in Run : p <= count => kind'[p] = kind[p] /\ started'[p] = started[p] /\ kept'[p] = kept[p]
  PROVE  Suffix(q)' = Suffix(q) /\ kind'[q] = kind[q] /\ started'[q] = started[q]
<1> DEFINE Earlier == {p \in Run : p < q /\ kept[p] /\ kind[p] = kind[q] /\ started[p] = started[q]}
<1>1. \A p \in Run : p < q => p <= count
  BY RunsFollow
<1>2. Earlier' = Earlier
  BY <1>1
<1> QED
  BY <1>2 DEF Suffix

\* The web app's handle names the run, or a run of another kind has its id.
Named(r) == active = r \/ \E q \in 1 .. count : q # r /\ kind[q] # kind[r] /\ SameId(q, r)

\* A step that starts no run and moves neither handle nor lives keeps what names a run.
LEMMA NamedStays ==
  ASSUME LauncherTypeOK, NEW r \in Run, r <= count, Named(r), count <= count', count' \in Nat,
         count <= MaxRun,
         \A p \in Run : p <= count => kind'[p] = kind[p] /\ started'[p] = started[p] /\ kept'[p] = kept[p],
         active' = active \/ active # r
  PROVE  Named(r)'
<1>1. CASE active = r
  BY <1>1 DEF Named
<1>2. ASSUME NEW q \in 1 .. count, q # r, kind[q] # kind[r], SameId(q, r) PROVE Named(r)'
  <2>1. q \in Run /\ q <= count /\ q \in 1 .. count'
    BY RunsFollow DEF Run
  <2>2. /\ Suffix(q)' = Suffix(q) /\ kind'[q] = kind[q] /\ started'[q] = started[q]
        /\ Suffix(r)' = Suffix(r) /\ kind'[r] = kind[r] /\ started'[r] = started[r]
    BY <2>1, IdsStay
  <2> QED
    BY <1>2, <2>1, <2>2 DEF Named, SameId
<1> QED
  BY <1>1, <1>2 DEF Named

LEMMA HeldStep ==
  ASSUME LauncherTypeOK, Unstarted, Held, [LauncherNext]_launcherVars
  PROVE  Held'
<1>0. life \in Nat /\ \A r \in Run : boot[r] \in Nat
  BY DEF LauncherTypeOK
<1>1. ASSUME NEW k \in Kind, NEW r \in Run, StartRun(k, r) \/ StartFails(k, r) \/ StartCli(k, r)
      PROVE  Held'
  <2>1. active' # NoRun => active' <= count' /\ kept'[active']
    <3>1. CASE active' = active
      <4> SUFFICES ASSUME active # NoRun PROVE active <= count' /\ kept'[active]
        BY <3>1
      <4>1. active \in Run /\ active <= count /\ kept[active]
        BY DEF Held, LauncherTypeOK
      <4>2. active \in Nat /\ count \in Nat /\ r = count + 1 /\ count' = r
        BY <1>1, <4>1, StartFrame, RunsFollow
      <4>3. active # r /\ active <= count'
        BY <4>1, <4>2
      <4> QED
        BY <1>1, <4>1, <4>3, StartFrame
    <3> QED
      BY <1>1, <3>1, StartFrame
  <2>2. \A q \in Run : boot'[q] <= life'
    BY <1>0, <1>1, StartFrame DEF Held
  <2>3. watch[r] = "none"
    BY <1>1, StartFrame DEF Unstarted
  <2>4. \A q \in Run : /\ watch'[q] # "none" => kept'[q]
                       /\ watch'[q] \in {"prune", "clear"} => ~Alive(q)'
    BY <1>1, <2>3, StartFrame DEF Held, Alive
  <2> QED
    BY <2>1, <2>2, <2>4 DEF Held
<1>2. ASSUME NEW r \in Run, KillRun(r) \/ ProcessStep(r) PROVE Held'
  <2>1. UNCHANGED <<count, kept, boot, watch, active, life>> /\ Alive(r)
        /\ \A q \in Run : q # r => pc'[q] = pc[q]
    BY <1>2, ProcessFrame, ProcessPc DEF runVars, appVars
  <2> QED
    BY <2>1 DEF Held, Alive
<1>3. ASSUME NEW r \in Run, WatchStep(r) PROVE Held'
  <2>1. UNCHANGED <<count, kept, boot, pc, life>> /\ active' \in {active, NoRun}
    BY <1>3, WatchType DEF runVars, procVars
  <2>2. ~Alive(r)
    BY <1>3 DEF WatchStep, WatchFinalize, WatchPrune, WatchClear, Held
  <2>3. kept[r]
    BY <1>3, WatchType DEF Held
  <2>4. \A q \in Run : q # r => watch'[q] = watch[q]
    BY <1>3, WatchType
  <2> QED
    BY <2>1, <2>2, <2>3, <2>4 DEF Held, Alive
<1>4. CASE RestartWebapp
  BY <1>0, <1>4, RestartType DEF Held, runVars
<1>5. CASE Tick
  BY <1>5, TickType DEF Held, runVars, recordVars, procVars, appVars, Alive
<1>6. CASE UNCHANGED launcherVars
  BY <1>6 DEF Held, launcherVars, runVars, recordVars, procVars, appVars, Alive
<1> QED
  BY <1>1, <1>2, <1>3, <1>4, <1>5, <1>6 DEF LauncherNext

LEMMA FlightStep ==
  ASSUME LauncherTypeOK, Unstarted, Held, SingleFlight, [LauncherNext]_launcherVars
  PROVE  SingleFlight'
<1> SUFFICES ASSUME NEW r \in Run, (origin[r] = "web" /\ boot[r] = life /\ Alive(r))'
             PROVE  Named(r)'
  BY DEF SingleFlight, Named
<1> DEFINE Flies == origin[r] = "web" /\ boot[r] = life /\ Alive(r)
<1>0. /\ Flies => Named(r)
      /\ Alive(r) => r <= count
      /\ life \in Nat /\ boot[r] \in Nat /\ count \in Nat /\ count <= MaxRun
  BY RunsFollow DEF SingleFlight, Named, LauncherTypeOK, Alive, AlivePc
<1>1. ASSUME NEW k \in Kind, NEW n \in Run, StartRun(k, n) \/ StartFails(k, n) \/ StartCli(k, n)
      PROVE  Named(r)'
  <2>1. CASE r = n
    BY <1>1, <2>1, StartFrame DEF Named, Alive, AlivePc
  <2>2. CASE r # n
    <3>1. Flies
      BY <1>1, <2>2, StartFrame DEF Alive
    <3>2. \A p \in Run : p <= count => kind'[p] = kind[p] /\ started'[p] = started[p] /\ kept'[p] = kept[p]
      BY <1>1, StartFrame DEF Run
    <3>3. active' = active \/ active # r
      BY <1>1, <3>1, StartFrame DEF ActiveRun, Run
    <3> QED
      BY <1>0, <1>1, <3>1, <3>2, <3>3, NamedStays, StartFrame
  <2> QED
    BY <2>1, <2>2
<1>2. ASSUME NEW n \in Run, KillRun(n) \/ ProcessStep(n) PROVE Named(r)'
  <2>1. UNCHANGED <<count, kind, origin, started, boot, kept, watch, active, life>> /\ Alive(n)
        /\ \A q \in Run : q # n => pc'[q] = pc[q]
    BY <1>2, ProcessFrame, ProcessPc DEF runVars, appVars
  <2> QED
    BY <1>0, <2>1, NamedStays DEF Alive
<1>3. ASSUME NEW n \in Run, WatchStep(n) PROVE Named(r)'
  <2>1. UNCHANGED <<count, kind, origin, started, boot, kept, pc, life>>
    BY <1>3, WatchType DEF runVars, procVars
  <2>2. Flies /\ r <= count /\ Named(r)
    BY <1>0, <2>1 DEF Alive
  <2>3. CASE active' = active \/ active # r
    BY <1>0, <2>1, <2>2, <2>3, NamedStays
  <2>4. CASE active = r /\ watch[n] = "clear" /\ SameId(active, n)
    <3>1. ~Alive(n) /\ kept[n] /\ kept[r] /\ n # r
      <4>1. active # NoRun
        BY <2>4 DEF Run
      <4> QED
        BY <2>2, <2>4, <4>1 DEF Held
    <3>2. kind[r] # kind[n]
      BY <2>4, <3>1, IdsDiffer
    <3>3. n <= count
      BY <3>1, RunsFollow DEF Unstarted
    <3>4. n \in 1 .. count'
      BY <2>1, <3>3, RunsFollow DEF Run
    <3>5. SameId(n, r)'
      <4>1. Suffix(n)' = Suffix(n) /\ Suffix(r)' = Suffix(r)
        BY <2>1, <2>2, <3>3, IdsStay
      <4> QED
        BY <2>1, <2>4, <4>1 DEF SameId
    <3> QED
      BY <2>1, <3>1, <3>2, <3>4, <3>5 DEF Named
  <2> QED
    BY <1>3, <2>3, <2>4, WatchType
<1>4. CASE RestartWebapp
  BY <1>0, <1>4, RestartType DEF Held, runVars
<1>5. CASE Tick \/ UNCHANGED launcherVars
  <2>1. UNCHANGED <<count, kind, origin, started, boot, kept, pc, active, life>>
    BY <1>5 DEF Tick, launcherVars, runVars, recordVars, procVars, appVars
  <2> QED
    BY <1>0, <2>1, NamedStays DEF Alive
<1> QED
  BY <1>1, <1>2, <1>3, <1>4, <1>5 DEF LauncherNext

-----------------------------------------------------------------------------
(* Theorems. *)

LEMMA LauncherInductive == LauncherSpec => []LauncherInv
<1>1. LauncherInv /\ [LauncherNext]_launcherVars => LauncherInv'
  BY LauncherTypeStep, UnstartedStep, OutcomeStep, RecordStep, HeldStep, FlightStep DEF LauncherInv
<1> QED
  BY <1>1, LauncherInitInv, PTL DEF LauncherSpec

\* A live run the present web app started is the one its handle names, unless a run of
\* another kind shares its id (runs.start_run, _watch): for any number of runs and restarts.
THEOREM OneFlight == LauncherSpec => []SingleFlight
<1>1. LauncherInv => SingleFlight
  BY DEF LauncherInv
<1> QED
  BY <1>1, LauncherInductive, PTL

\* No sweep of stale rows, however long ago it read them, overwrites the outcome a run
\* wrote on its own row (reconcile_stale_runs).
THEOREM OutcomesStand == LauncherSpec => []OutcomeStands
<1>1. LauncherInv => OutcomeStands
  BY DEF LauncherInv
<1> QED
  BY <1>1, LauncherInductive, PTL

\* No prune pass, of the web app or of a process, takes the record of a live run that is not
\* stale (runs.prune_runs).
THEOREM LiveRecordsKept == LauncherSpec => []LiveRecordKept
<1>1. LauncherInv => LiveRecordKept
  BY DEF LauncherInv
<1> QED
  BY <1>1, LauncherInductive, PTL

-----------------------------------------------------------------------------
(* The lock-out table. *)

\* No client twice, and in the order of the last failures f tells.
Ordered(table, f) ==
  \A i, j \in DOMAIN table : i < j => table[i] # table[j] /\ f[table[i]].last <= f[table[j]].last

StreakInv ==
  /\ moment \in Nat
  /\ streak = [c \in Client |-> streak[c]]
  /\ \A c \in Client : streak[c].last \in Nat /\ streak[c].last <= moment
  /\ order \in Seq(Client) /\ Len(order) <= MaxClients
  /\ Ordered(order, streak)

LEMMA StreakInitInv == StreakInit => StreakInv
BY StreakAssumption DEF StreakInit, StreakInv, Ordered, NoStreak

LEMMA FirstNumbers == \A n \in Nat : IsFiniteSet(1 .. n) /\ Cardinality(1 .. n) = n
BY FS_Interval

LEMMA RemoveAtIs ==
  ASSUME NEW S, NEW s \in Seq(S), NEW k \in 1 .. Len(s)
  PROVE  /\ RemoveAt(s, k) \in Seq(S)
         /\ Len(RemoveAt(s, k)) = Len(s) - 1
         /\ \A i \in 1 .. Len(s) - 1 : RemoveAt(s, k)[i] = IF i < k THEN s[i] ELSE s[i + 1]
<1> DEFINE front == SubSeq(s, 1, k - 1)
           back == SubSeq(s, k + 1, Len(s))
<1>1. Len(s) \in Nat /\ \A i \in 1 .. Len(s) : s[i] \in S
  OBVIOUS
<1>2. /\ front \in Seq(S) /\ Len(front) = k - 1
      /\ \A i \in 1 .. k - 1 : front[i] = s[i]
  BY <1>1, SubSeqProperties
<1>3. /\ back \in Seq(S) /\ Len(back) = Len(s) - k
      /\ \A i \in 1 .. Len(s) - k : back[i] = s[i + k]
  BY <1>1, SubSeqProperties
<1>4. RemoveAt(s, k) = front \o back
  BY DEF RemoveAt
<1> HIDE DEF front, back
<1>5. /\ front \o back \in Seq(S) /\ Len(front \o back) = Len(front) + Len(back)
      /\ \A i \in 1 .. Len(front) + Len(back) :
           (front \o back)[i] = IF i <= Len(front) THEN front[i] ELSE back[i - Len(front)]
  BY <1>2, <1>3, ConcatProperties
<1>6. ASSUME NEW i \in 1 .. Len(s) - 1
      PROVE  RemoveAt(s, k)[i] = IF i < k THEN s[i] ELSE s[i + 1]
  <2>0. i \in 1 .. Len(front) + Len(back) /\ Len(front) = k - 1
    BY <1>1, <1>2, <1>3
  <2>1. RemoveAt(s, k)[i] = IF i <= k - 1 THEN front[i] ELSE back[i - (k - 1)]
    BY <1>4, <1>5, <2>0
  <2>2. CASE i < k
    BY <1>2, <2>1, <2>2
  <2>3. CASE ~(i < k)
    <3>1. i - (k - 1) \in 1 .. Len(s) - k /\ (i - (k - 1)) + k = i + 1
      BY <1>1, <2>3
    <3> QED
      BY <1>3, <2>1, <2>3, <3>1
  <2> QED
    BY <2>2, <2>3
<1>7. Len(front) + Len(back) = Len(s) - 1
  BY <1>1, <1>2, <1>3
<1> QED
  BY <1>4, <1>5, <1>6, <1>7

\* Taking a client out of the table keeps the others in their order.
LEMMA WithoutIs ==
  ASSUME NEW s \in Seq(Client), NEW f, Ordered(s, f), NEW c
  PROVE  /\ Without(s, c) \in Seq(Client)
         /\ Ordered(Without(s, c), f)
         /\ ToSet(Without(s, c)) = ToSet(s) \ {c}
         /\ c \notin ToSet(s) => Without(s, c) = s
         /\ c \in ToSet(s) => Len(Without(s, c)) = Len(s) - 1
<1>1. CASE c \notin ToSet(s)
  BY <1>1 DEF Without
<1>2. CASE c \in ToSet(s)
  <2> DEFINE k == CHOOSE i \in DOMAIN s : s[i] = c
             r == Without(s, c)
  <2>1. k \in 1 .. Len(s) /\ s[k] = c /\ Len(s) \in Nat
    BY <1>2 DEF ToSet
  <2>2. r = RemoveAt(s, k)
    BY <1>2 DEF Without
  <2> HIDE DEF k, r
  <2>3. /\ r \in Seq(Client) /\ Len(r) = Len(s) - 1
        /\ \A i \in 1 .. Len(s) - 1 : r[i] = IF i < k THEN s[i] ELSE s[i + 1]
    BY <2>1, <2>2, RemoveAtIs
  <2>4. DOMAIN r = 1 .. Len(s) - 1 /\ DOMAIN s = 1 .. Len(s)
    BY <2>3
  <2>5. Ordered(r, f)
    <3>1. SUFFICES ASSUME NEW i \in 1 .. Len(s) - 1, NEW j \in 1 .. Len(s) - 1, i < j
                   PROVE  r[i] # r[j] /\ f[r[i]].last <= f[r[j]].last
      BY <2>4 DEF Ordered
    <3>2. PICK a \in 1 .. Len(s), b \in 1 .. Len(s) : a < b /\ r[i] = s[a] /\ r[j] = s[b]
      <4>0. i \in 1 .. Len(s) /\ j \in 1 .. Len(s) /\ i + 1 \in 1 .. Len(s)
            /\ j + 1 \in 1 .. Len(s)
        BY <2>1
      <4>1. CASE j < k
        <5>1. r[i] = s[i] /\ r[j] = s[j]
          BY <2>1, <2>3, <3>1, <4>1
        <5> QED
          BY <3>1, <4>0, <5>1
      <4>2. CASE i < k /\ ~(j < k)
        <5>1. r[i] = s[i] /\ r[j] = s[j + 1] /\ i < j + 1
          BY <2>1, <2>3, <3>1, <4>2
        <5> QED
          BY <4>0, <5>1
      <4>3. CASE ~(i < k)
        <5>1. r[i] = s[i + 1] /\ r[j] = s[j + 1] /\ i + 1 < j + 1
          BY <2>1, <2>3, <3>1, <4>3
        <5> QED
          BY <4>0, <5>1
      <4> QED
        BY <2>1, <3>1, <4>1, <4>2, <4>3
    <3> QED
      BY <2>4, <3>2 DEF Ordered
  <2>6. ToSet(r) \subseteq ToSet(s) \ {c}
    <3>1. SUFFICES ASSUME NEW i \in 1 .. Len(s) - 1
                   PROVE  r[i] \in ToSet(s) /\ r[i] # c
      BY <2>4 DEF ToSet
    <3>2. CASE i < k
      <4>1. i \in DOMAIN s /\ k \in DOMAIN s /\ r[i] = s[i]
        BY <2>1, <2>3, <2>4, <3>2
      <4> QED
        BY <2>1, <3>2, <4>1 DEF ToSet, Ordered
    <3>3. CASE ~(i < k)
      <4>1. i + 1 \in DOMAIN s /\ k \in DOMAIN s /\ k < i + 1 /\ r[i] = s[i + 1]
        BY <2>1, <2>3, <2>4, <3>3
      <4> QED
        BY <2>1, <4>1 DEF ToSet, Ordered
    <3> QED
      BY <3>2, <3>3
  <2>7. ToSet(s) \ {c} \subseteq ToSet(r)
    <3>1. SUFFICES ASSUME NEW i \in 1 .. Len(s), s[i] # c
                   PROVE  s[i] \in ToSet(r)
      BY <2>4 DEF ToSet
    <3>2. CASE i < k
      <4>1. i \in 1 .. Len(s) - 1 /\ r[i] = s[i]
        BY <2>1, <2>3, <3>2
      <4> QED
        BY <2>4, <4>1 DEF ToSet
    <3>3. CASE i > k
      <4>1. i - 1 \in 1 .. Len(s) - 1 /\ r[i - 1] = s[i]
        BY <2>1, <2>3, <3>3
      <4> QED
        BY <2>4, <4>1 DEF ToSet
    <3> QED
      BY <2>1, <3>1, <3>2, <3>3
  <2> QED
    BY <1>2, <2>3, <2>5, <2>6, <2>7 DEF r
<1> QED
  BY <1>1, <1>2

\* Making room drops clients from the front: those whose streak is forgotten, and the first
\* of a table that is still full.
LEMMA MakeRoomIs ==
  ASSUME NEW s \in Seq(Client), Len(s) <= MaxClients
  PROVE  \E k \in 0 .. Len(s) :
           /\ MakeRoom(s) \in Seq(Client)
           /\ Len(MakeRoom(s)) = Len(s) - k /\ Len(MakeRoom(s)) < MaxClients
           /\ \A i \in 1 .. Len(s) - k : MakeRoom(s)[i] = s[i + k]
           /\ \A i \in 1 .. k : Forgotten(s[i]) \/ (i = 1 /\ Len(s) = MaxClients)
<1> DEFINE early(i) == \A j \in 1 .. i - 1 : Forgotten(s[j])
           dropped == {i \in DOMAIN s : early(i) /\ Forgotten(s[i])}
           drop == Cardinality(dropped)
           rest == SubSeq(s, drop + 1, Len(s))
<1>1. MakeRoom(s) = IF Len(rest) >= MaxClients THEN Tail(rest) ELSE rest
  BY DEF MakeRoom
<1>0. Len(s) \in Nat
  OBVIOUS
<1>2. DOMAIN s = 1 .. Len(s) /\ \A i \in 1 .. Len(s) : s[i] \in Client
  OBVIOUS
<1>3. drop \in 0 .. Len(s)
  <2>1. dropped \in SUBSET (1 .. Len(s))
    BY <1>2
  <2> HIDE DEF dropped
  <2>2. IsFiniteSet(1 .. Len(s)) /\ Cardinality(1 .. Len(s)) = Len(s)
    BY <1>0, FirstNumbers
  <2>3. IsFiniteSet(dropped) /\ Cardinality(dropped) <= Len(s)
    BY <2>1, <2>2, FS_Subset
  <2> QED
    BY <1>0, <2>3, FS_CardinalityType
<1>4. ASSUME NEW i \in 1 .. drop
      PROVE  Forgotten(s[i])
  <2>1. SUFFICES ASSUME ~Forgotten(s[i])
                 PROVE  FALSE
    OBVIOUS
  <2>2. i \in 1 .. Len(s)
    BY <1>0, <1>2, <1>3
  <2>3. dropped \in SUBSET (1 .. i - 1)
    <3>1. SUFFICES ASSUME NEW n \in dropped, ~(n < i)
                   PROVE  FALSE
      BY <1>0, <1>2, <2>2
    <3>2. n \in 1 .. Len(s) /\ (n = i \/ i \in 1 .. n - 1)
      BY <1>0, <1>2, <2>2, <3>1
    <3> QED
      BY <2>1, <3>1, <3>2
  <2>4. IsFiniteSet(1 .. i - 1) /\ Cardinality(1 .. i - 1) = i - 1
    BY <1>0, <2>2, FirstNumbers
  <2> HIDE DEF dropped
  <2>5. Cardinality(dropped) <= i - 1
    BY <2>3, <2>4, FS_Subset
  <2> QED
    BY <1>0, <1>3, <2>2, <2>5
<1> HIDE DEF dropped, drop
<1>5. /\ rest \in Seq(Client) /\ Len(rest) = Len(s) - drop
      /\ \A i \in 1 .. Len(s) - drop : rest[i] = s[i + drop]
  <2>1. \A i \in drop + 1 .. Len(s) : s[i] \in Client
    BY <1>0, <1>2, <1>3
  <2>2. drop + 1 \in Int /\ Len(s) \in Int
    BY <1>0, <1>2, <1>3
  <2>3. /\ rest \in Seq(Client)
        /\ Len(rest) = IF drop + 1 <= Len(s) THEN Len(s) - (drop + 1) + 1 ELSE 0
        /\ \A i \in 1 .. Len(s) - (drop + 1) + 1 : rest[i] = s[(drop + 1) + i - 1]
    BY <2>1, <2>2, SubSeqProperties
  <2>4. ASSUME NEW i \in 1 .. Len(s) - drop
        PROVE  rest[i] = s[i + drop]
    <3>1. i \in 1 .. Len(s) - (drop + 1) + 1 /\ (drop + 1) + i - 1 = i + drop
      BY <1>0, <1>2, <1>3
    <3> QED
      BY <2>3, <3>1
  <2> HIDE DEF rest
  <2>5. Len(rest) = Len(s) - drop
    BY <1>0, <1>3, <2>3
  <2> QED
    BY <2>3, <2>4, <2>5
<1> HIDE DEF rest
<1>6. CASE Len(rest) < MaxClients
  <2>1. MakeRoom(s) = rest
    BY <1>0, <1>1, <1>3, <1>5, <1>6, StreakAssumption
  <2> WITNESS drop \in 0 .. Len(s)
  <2> QED
    BY <1>4, <1>5, <1>6, <2>1
<1>7. CASE Len(rest) >= MaxClients
  <2>1. drop = 0 /\ Len(s) = MaxClients /\ Len(s) >= 1
    BY <1>0, <1>3, <1>5, <1>7, StreakAssumption
  <2>2. rest # <<>> /\ Len(rest) = Len(s) /\ \A i \in 1 .. Len(s) : rest[i] = s[i]
    BY <1>0, <1>5, <2>1
  <2>3. /\ Tail(rest) \in Seq(Client) /\ Len(Tail(rest)) = Len(s) - 1
        /\ \A i \in 1 .. Len(s) - 1 : Tail(rest)[i] = s[i + 1]
    BY <1>0, <1>5, <2>1, <2>2, HeadTailProperties
  <2>4. MakeRoom(s) = Tail(rest)
    BY <1>1, <1>7
  <2>5. 1 \in 0 .. Len(s)
    BY <2>1
  <2> WITNESS 1 \in 0 .. Len(s)
  <2> QED
    BY <1>0, <2>1, <2>3, <2>4
<1>8. Len(rest) < MaxClients \/ Len(rest) >= MaxClients
  BY <1>0, <1>3, <1>5, StreakAssumption
<1> QED
  BY <1>6, <1>7, <1>8

LEMMA LiveIs ==
  ASSUME StreakInv, NEW c
  PROVE  /\ Live(order, c) = order \/ (c \in ToSet(order) /\ Live(order, c) = Without(order, c))
         /\ Live(order, c) \in Seq(Client) /\ Len(Live(order, c)) <= MaxClients
         /\ Ordered(Live(order, c), streak)
         /\ ToSet(Live(order, c)) \subseteq ToSet(order)
         /\ c \in ToSet(Live(order, c)) => Live(order, c) = order
<1>1. /\ Without(order, c) \in Seq(Client) /\ Ordered(Without(order, c), streak)
      /\ ToSet(Without(order, c)) = ToSet(order) \ {c}
      /\ c \in ToSet(order) => Len(Without(order, c)) = Len(order) - 1
  BY WithoutIs DEF StreakInv
<1>2. Len(order) \in Nat
  BY DEF StreakInv
<1>3. CASE Live(order, c) = order
  BY <1>3 DEF StreakInv
<1>4. CASE c \in ToSet(order) /\ Live(order, c) = Without(order, c)
  <2>1. Len(Live(order, c)) <= MaxClients
    BY <1>1, <1>2, <1>4, StreakAssumption DEF StreakInv
  <2> QED
    BY <1>1, <1>4, <2>1
<1> QED
  BY <1>3, <1>4 DEF Live

\* The table with one more failure at its end.
LEMMA AppendIs ==
  ASSUME NEW t \in Seq(Client), NEW c \in Client
  PROVE  /\ Append(t, c) \in Seq(Client) /\ Len(Append(t, c)) = Len(t) + 1
         /\ DOMAIN Append(t, c) = 1 .. Len(t) + 1 /\ Append(t, c)[Len(t) + 1] = c
         /\ \A i \in 1 .. Len(t) : Append(t, c)[i] = t[i]
         /\ ToSet(Append(t, c)) = ToSet(t) \cup {c}
<1> DEFINE a == Append(t, c)
<1>1. /\ a \in Seq(Client) /\ Len(a) = Len(t) + 1 /\ a[Len(t) + 1] = c
      /\ \A i \in 1 .. Len(t) : a[i] = t[i]
  BY AppendProperties
<1>2. Len(t) \in Nat /\ DOMAIN t = 1 .. Len(t)
  OBVIOUS
<1> HIDE DEF a
<1>3. DOMAIN a = 1 .. Len(t) + 1
  BY <1>1
<1>4. ToSet(a) = ToSet(t) \cup {c}
  <2>1. ASSUME NEW i \in 1 .. Len(t) + 1
        PROVE  a[i] \in ToSet(t) \cup {c}
    <3>1. CASE i = Len(t) + 1
      BY <1>1, <3>1
    <3>2. CASE i # Len(t) + 1
      <4>1. i \in 1 .. Len(t) /\ a[i] = t[i]
        BY <1>1, <1>2, <3>2
      <4> QED
        BY <1>2, <4>1 DEF ToSet
    <3> QED
      BY <3>1, <3>2
  <2>2. ASSUME NEW i \in 1 .. Len(t)
        PROVE  t[i] \in ToSet(a)
    <3>1. i \in 1 .. Len(t) + 1 /\ a[i] = t[i]
      BY <1>1, <1>2
    <3> QED
      BY <1>3, <3>1 DEF ToSet
  <2>3. c \in ToSet(a)
    <3>1. Len(t) + 1 \in 1 .. Len(t) + 1
      BY <1>2
    <3> QED
      BY <1>1, <1>3, <3>1 DEF ToSet
  <2> QED
    BY <1>2, <1>3, <2>1, <2>2, <2>3 DEF ToSet
<1> QED
  BY <1>1, <1>3, <1>4 DEF a

LEMMA PlacedIs ==
  ASSUME StreakInv, NEW c \in Client, NEW t \in Seq(Client), Ordered(t, streak), c \notin ToSet(t),
         NEW f, \A d \in ToSet(t) : f[d].last = streak[d].last, f[c].last = moment
  PROVE  Ordered(Append(t, c), f)
<1> DEFINE a == Append(t, c)
<1>1. /\ DOMAIN a = 1 .. Len(t) + 1 /\ a[Len(t) + 1] = c
      /\ \A i \in 1 .. Len(t) : a[i] = t[i]
  BY AppendIs
<1>2. Len(t) \in Nat /\ DOMAIN t = 1 .. Len(t)
  OBVIOUS
<1> HIDE DEF a
<1>3. SUFFICES ASSUME NEW i \in 1 .. Len(t) + 1, NEW j \in 1 .. Len(t) + 1, i < j
               PROVE  a[i] # a[j] /\ f[a[i]].last <= f[a[j]].last
  BY <1>1 DEF Ordered
<1>4. i \in DOMAIN t /\ a[i] = t[i]
  BY <1>1, <1>2, <1>3
<1>5. t[i] \in ToSet(t) /\ t[i] \in Client
  BY <1>4 DEF ToSet
<1>6. f[t[i]].last = streak[t[i]].last /\ streak[t[i]].last <= moment
  BY <1>5 DEF StreakInv
<1>7. CASE j = Len(t) + 1
  BY <1>1, <1>4, <1>5, <1>6, <1>7
<1>8. CASE j # Len(t) + 1
  <2>1. j \in DOMAIN t /\ a[j] = t[j]
    BY <1>1, <1>2, <1>3, <1>8
  <2>2. t[j] \in ToSet(t)
    BY <2>1 DEF ToSet
  <2>3. f[t[j]].last = streak[t[j]].last
    BY <2>2
  <2> QED
    BY <1>3, <1>4, <1>6, <2>1, <2>3 DEF Ordered
<1> QED
  BY <1>7, <1>8

\* What the table loses in a step: the forgotten, who logs in, and the oldest of a full
\* table to a newcomer.
Spared ==
  \A c \in ToSet(order) \ ToSet(order') :
    \/ Forgotten(c)
    \/ LogIn(c)
    \/ /\ Len(order) = MaxClients /\ ToSet(order') \ ToSet(order) # {}
       /\ \A d \in ToSet(order) : streak[d].last >= streak[c].last

LEMMA FailStep ==
  ASSUME StreakInv, NEW c \in Client, Fail(c)
  PROVE  StreakInv' /\ Spared
<1> DEFINE live == Live(order, c)
           room == IF c \in ToSet(live) THEN live ELSE MakeRoom(live)
           rest == Without(room, c)
<1>1. PICK e : /\ e.last = moment
               /\ streak' = [d \in Client |-> IF d = c THEN e
                                             ELSE IF d \in ToSet(order') THEN streak[d] ELSE NoStreak]
  <2>1. \E n, b : streak' = [d \in Client |->
             IF d = c THEN [failures |-> n, deadline |-> moment + Delay(n), last |-> moment,
                            alerted |-> b]
             ELSE IF d \in ToSet(order') THEN streak[d] ELSE NoStreak]
    BY DEF Fail
  <2>2. PICK n, b : streak' = [d \in Client |->
             IF d = c THEN [failures |-> n, deadline |-> moment + Delay(n), last |-> moment,
                            alerted |-> b]
             ELSE IF d \in ToSet(order') THEN streak[d] ELSE NoStreak]
    BY <2>1
  <2> DEFINE entry == [failures |-> n, deadline |-> moment + Delay(n), last |-> moment, alerted |-> b]
  <2>3. entry.last = moment
    OBVIOUS
  <2>4. streak' = [d \in Client |-> IF d = c THEN entry
                                   ELSE IF d \in ToSet(order') THEN streak[d] ELSE NoStreak]
    BY <2>2
  <2> HIDE DEF entry
  <2> QED
    BY <2>3, <2>4
<1>2. order' = Append(rest, c) /\ moment' = moment
  BY DEF Fail, Place
<1>3. /\ live = order \/ (c \in ToSet(order) /\ live = Without(order, c))
      /\ live \in Seq(Client) /\ Len(live) <= MaxClients
      /\ Ordered(live, streak) /\ ToSet(live) \subseteq ToSet(order)
      /\ c \in ToSet(live) => live = order
  BY LiveIs
<1> HIDE DEF live
<1>4. /\ rest \in Seq(Client) /\ Ordered(rest, streak) /\ Len(rest) < MaxClients
      /\ c \notin ToSet(rest) /\ ToSet(rest) \subseteq ToSet(live)
      /\ c \in ToSet(live) => ToSet(order) \ {c} \subseteq ToSet(rest)
      /\ c \notin ToSet(live) =>
           \A d \in ToSet(live) \ ToSet(rest) :
             \/ Forgotten(d)
             \/ Len(live) = MaxClients /\ \A x \in ToSet(live) : streak[x].last >= streak[d].last
  <2>0. Len(live) \in Nat /\ DOMAIN live = 1 .. Len(live)
    BY <1>3
  <2>1. CASE c \in ToSet(live)
    <3>1. rest = Without(live, c)
      BY <2>1
    <3>2. /\ Without(live, c) \in Seq(Client) /\ Ordered(Without(live, c), streak)
          /\ ToSet(Without(live, c)) = ToSet(live) \ {c}
          /\ Len(Without(live, c)) = Len(live) - 1
      BY <1>3, <2>1, WithoutIs
    <3>3. Len(rest) < MaxClients
      BY <1>3, <2>0, <3>1, <3>2, StreakAssumption
    <3> HIDE DEF rest
    <3> QED
      BY <1>3, <2>1, <3>1, <3>2, <3>3
  <2>2. CASE c \notin ToSet(live)
    <3>1. PICK k \in 0 .. Len(live) :
           /\ MakeRoom(live) \in Seq(Client)
           /\ Len(MakeRoom(live)) = Len(live) - k /\ Len(MakeRoom(live)) < MaxClients
           /\ \A i \in 1 .. Len(live) - k : MakeRoom(live)[i] = live[i + k]
           /\ \A i \in 1 .. k : Forgotten(live[i]) \/ (i = 1 /\ Len(live) = MaxClients)
      BY <1>3, MakeRoomIs
    <3> DEFINE new == MakeRoom(live)
    <3> HIDE DEF new
    <3>2. /\ new \in Seq(Client) /\ DOMAIN new = 1 .. Len(live) - k /\ Len(new) < MaxClients
          /\ \A i \in 1 .. Len(live) - k : new[i] = live[i + k] /\ i + k \in DOMAIN live
      BY <2>0, <3>1 DEF new
    <3>3. Ordered(new, streak)
      <4>1. SUFFICES ASSUME NEW i \in 1 .. Len(live) - k, NEW j \in 1 .. Len(live) - k, i < j
                     PROVE  new[i] # new[j] /\ streak[new[i]].last <= streak[new[j]].last
        BY <3>2 DEF Ordered
      <4>2. i + k < j + k
        BY <2>0, <4>1
      <4> QED
        BY <1>3, <3>2, <4>2 DEF Ordered
    <3>4. ToSet(new) \subseteq ToSet(live)
      BY <3>2 DEF ToSet
    <3>5. c \notin ToSet(new)
      BY <2>2, <3>4
    <3>6. rest = new
      <4>1. rest = Without(new, c)
        BY <2>2 DEF new
      <4> QED
        BY <3>5, <4>1 DEF Without
    <3>7. ASSUME NEW d \in ToSet(live) \ ToSet(new)
          PROVE  \/ Forgotten(d)
                 \/ Len(live) = MaxClients /\ \A x \in ToSet(live) : streak[x].last >= streak[d].last
      <4>1. PICK i \in 1 .. Len(live) : live[i] = d
        BY <2>0 DEF ToSet
      <4>2. i \in 1 .. k
        <5>1. SUFFICES ASSUME ~(i <= k)
                       PROVE  FALSE
          BY <2>0
        <5>2. i - k \in 1 .. Len(live) - k /\ (i - k) + k = i
          BY <2>0, <5>1
        <5>3. new[i - k] = d /\ i - k \in DOMAIN new
          BY <3>2, <4>1, <5>2
        <5> QED
          BY <5>3 DEF ToSet
      <4>3. CASE Forgotten(live[i])
        BY <4>1, <4>3
      <4>4. CASE i = 1 /\ Len(live) = MaxClients
        <5>1. ASSUME NEW x \in ToSet(live)
              PROVE  streak[x].last >= streak[d].last
          <6>1. PICK j \in 1 .. Len(live) : live[j] = x
            BY <2>0 DEF ToSet
          <6>2. x \in Client /\ streak[x].last \in Nat /\ d \in Client /\ streak[d].last \in Nat
            BY <1>3, <4>1, <6>1 DEF StreakInv
          <6>3. CASE j = 1
            BY <4>1, <4>4, <6>1, <6>2, <6>3
          <6>4. CASE j # 1
            <7>1. 1 < j /\ 1 \in DOMAIN live /\ j \in DOMAIN live
              BY <2>0, <4>4, <6>4
            <7>2. streak[live[1]].last <= streak[live[j]].last
              BY <1>3, <7>1 DEF Ordered
            <7> QED
              BY <4>1, <4>4, <6>1, <6>2, <7>2
          <6> QED
            BY <6>3, <6>4
        <5> QED
          BY <4>4, <5>1
      <4> QED
        BY <3>1, <4>2, <4>3, <4>4
    <3> QED
      BY <2>2, <3>2, <3>3, <3>4, <3>5, <3>6, <3>7
  <2> QED
    BY <2>1, <2>2
<1> HIDE DEF rest, room
<1>5. \A d \in Client : IF d = c THEN streak'[d].last = moment
                        ELSE streak'[d].last = IF d \in ToSet(order') THEN streak[d].last ELSE 0
  BY <1>1 DEF NoStreak
<1>6. Len(rest) \in Nat /\ ToSet(rest) \subseteq Client /\ Len(order) \in Nat
  BY <1>4 DEF ToSet, StreakInv
<1>7. /\ ToSet(order') = ToSet(rest) \cup {c} /\ order' \in Seq(Client)
      /\ Len(order') = Len(rest) + 1
  BY <1>2, <1>4, AppendIs
<1>8. Ordered(order', streak')
  <2>1. streak'[c].last = moment
    BY <1>5
  <2>2. \A d \in ToSet(rest) : streak'[d].last = streak[d].last
    BY <1>4, <1>5, <1>6, <1>7
  <2> QED
    BY <1>2, <1>4, <2>1, <2>2, PlacedIs
<1>9. StreakInv'
  <2>1. Len(order') <= MaxClients
    BY <1>4, <1>6, <1>7, StreakAssumption
  <2>2. \A d \in Client : streak'[d].last \in Nat /\ streak'[d].last <= moment'
    BY <1>2, <1>5 DEF StreakInv
  <2>3. streak' = [d \in Client |-> streak'[d]]
    BY <1>1
  <2> QED
    BY <1>2, <1>7, <1>8, <2>1, <2>2, <2>3 DEF StreakInv
<1>10. Spared
  <2>1. SUFFICES ASSUME NEW d \in ToSet(order) \ ToSet(order')
                 PROVE  \/ Forgotten(d)
                        \/ /\ Len(order) = MaxClients /\ ToSet(order') \ ToSet(order) # {}
                           /\ \A x \in ToSet(order) : streak[x].last >= streak[d].last
    BY DEF Spared
  <2>2. d # c /\ d \notin ToSet(rest)
    BY <1>7, <2>1
  <2>3. c \notin ToSet(live)
    BY <1>4, <1>3, <2>1, <2>2
  <2>4. CASE c \in ToSet(order)
    <3>1. live = Without(order, c)
      BY <1>3, <2>3, <2>4
    <3>2. ToSet(live) = ToSet(order) \ {c} /\ Len(live) = Len(order) - 1
      BY <2>4, <3>1, WithoutIs DEF StreakInv
    <3>3. Len(live) # MaxClients
      BY <1>6, <3>2, StreakAssumption DEF StreakInv
    <3>4. d \in ToSet(live) \ ToSet(rest)
      BY <2>1, <2>2, <3>2
    <3> QED
      BY <1>4, <2>3, <3>3, <3>4
  <2>5. CASE c \notin ToSet(order)
    <3>1. live = order /\ c \in ToSet(order') \ ToSet(order)
      BY <1>3, <1>7, <2>5
    <3>2. d \in ToSet(live) \ ToSet(rest)
      BY <2>1, <2>2, <3>1
    <3> QED
      BY <1>4, <2>3, <3>1, <3>2
  <2> QED
    BY <2>4, <2>5
<1> QED
  BY <1>9, <1>10

\* A table that lost at most c, whose streak is forgotten if it did.
LEMMA KeptIs ==
  ASSUME StreakInv, NEW c \in Client, NEW t \in Seq(Client), Ordered(t, streak),
         Len(t) <= MaxClients, order' = t, moment' = moment,
         streak' = [d \in Client |-> IF d = c /\ c \notin ToSet(t) THEN NoStreak ELSE streak[d]]
  PROVE  StreakInv'
<1>1. \A d \in Client : streak'[d].last \in Nat /\ streak'[d].last <= moment
  BY DEF StreakInv, NoStreak
<1>2. streak' = [d \in Client |-> streak'[d]]
  OBVIOUS
<1>3. \A i \in DOMAIN t : t[i] \in ToSet(t) /\ t[i] \in Client
  BY DEF ToSet
<1>4. \A i \in DOMAIN t : streak'[t[i]] = streak[t[i]]
  BY <1>3
<1>5. Ordered(t, streak')
  BY <1>4 DEF Ordered
<1> QED
  BY <1>1, <1>2, <1>5 DEF StreakInv

LEMMA StreakStep ==
  ASSUME StreakInv, [StreakNext]_streakVars
  PROVE  StreakInv' /\ Spared
<1>1. ASSUME NEW c \in Client, Admit(c)
      PROVE  StreakInv' /\ Spared
  <2>1. /\ order' = Live(order, c) /\ moment' = moment
        /\ streak' = [streak EXCEPT ![c] = IF c \in ToSet(order') THEN streak[c] ELSE NoStreak]
    BY <1>1 DEF Admit
  <2>2. /\ order' \in Seq(Client) /\ Len(order') <= MaxClients
        /\ Ordered(order', streak) /\ ToSet(order') \subseteq ToSet(order)
    BY <2>1, LiveIs
  <2>3. streak' = [d \in Client |-> IF d = c /\ c \notin ToSet(order') THEN NoStreak ELSE streak[d]]
    BY <2>1 DEF StreakInv
  <2>4. ToSet(Without(order, c)) = ToSet(order) \ {c}
    BY WithoutIs DEF StreakInv
  <2>5. \A d \in ToSet(order) \ ToSet(order') : Forgotten(d)
    BY <2>1, <2>4 DEF Live
  <2>6. StreakInv'
    BY <2>1, <2>2, <2>3, KeptIs
  <2> QED
    BY <2>5, <2>6 DEF Spared
<1>2. ASSUME NEW c \in Client, LogIn(c)
      PROVE  StreakInv' /\ Spared
  <2>1. /\ order' = Without(order, c) /\ moment' = moment
        /\ streak' = [streak EXCEPT ![c] = NoStreak]
    BY <1>2 DEF LogIn
  <2>2. /\ order' \in Seq(Client) /\ Ordered(order', streak)
        /\ ToSet(order') = ToSet(order) \ {c}
        /\ order' = order \/ Len(order') = Len(order) - 1
    BY <2>1, WithoutIs DEF StreakInv
  <2>3. Len(order') <= MaxClients
    BY <2>2, StreakAssumption DEF StreakInv
  <2>4. streak' = [d \in Client |-> IF d = c /\ c \notin ToSet(order') THEN NoStreak ELSE streak[d]]
    BY <2>1, <2>2 DEF StreakInv
  <2>5. \A d \in ToSet(order) \ ToSet(order') : LogIn(d)
    BY <1>2, <2>2
  <2>6. StreakInv'
    BY <2>1, <2>2, <2>3, <2>4, KeptIs
  <2> QED
    BY <2>5, <2>6 DEF Spared
<1>3. CASE PassMoment \/ UNCHANGED streakVars
  <2>1. UNCHANGED <<order, streak>> /\ (moment' = moment \/ moment' = moment + 1)
    BY <1>3 DEF PassMoment, streakVars
  <2>2. StreakInv'
    <3>1. moment' \in Nat /\ \A c \in Client : streak'[c].last <= moment'
      BY <2>1 DEF StreakInv
    <3>2. Ordered(order', streak')
      BY <2>1 DEF StreakInv
    <3> QED
      BY <2>1, <3>1, <3>2 DEF StreakInv
  <2> QED
    BY <2>1, <2>2 DEF Spared
<1> QED
  BY <1>1, <1>2, <1>3, FailStep DEF StreakNext

\* A live streak goes only for a login from its own address, or as the oldest of a full table
\* when a client without one fails, for any number of clients and any delays (LoginLockout).
THEOREM StreaksAreKept == StreakSpec => StreaksStand
<1>1. StreakInv /\ [StreakNext]_streakVars => StreakInv'
  BY StreakStep
<1>2. StreakInv /\ [StreakNext]_streakVars =>
        [\A c \in ToSet(order) \ ToSet(order') :
           \/ Forgotten(c)
           \/ LogIn(c)
           \/ /\ Len(order) = MaxClients /\ ToSet(order') \ ToSet(order) # {}
              /\ \A d \in ToSet(order) : streak[d].last >= streak[c].last]_streakVars
  BY StreakStep DEF Spared
<1> QED
  BY <1>1, <1>2, StreakInitInv, PTL DEF StreakSpec, StreaksStand

-----------------------------------------------------------------------------
(* The ship gate, for any ratchet whose scan is faithful to a reader. *)

\* A scan of this checkout ends with counts.
Scanned(c) == Takes[c].sure /\ ~Takes[c].bad

\* What of S a baseline that lacks these kinds compares, and the kinds a baseline may lack.
Compares(S, lacking) == {k \in S : lacking # {} => k[1] \notin lacking}
Lackings(c) == {{}} \cup (IF Repos[c[1]].ratchet = "structure" THEN {LayoutKinds \cup {"band"}} ELSE {})

\* What the scan counts, and what a reader finds, more in c than in b.
CountedMore(c, b) == Rose(Takes[c].counts, Takes[b].counts)
FoundMore(c, b) == Rose(Owed[c], Owed[b])

\* Two trees of one repository that can be scanned.
Comparable(c, b) == c \in Checkouts /\ b \in Checkouts /\ c[1] = b[1] /\ Scanned(c) /\ Scanned(b)

Numbered ==
  \A c \in Checkouts : /\ \A k \in DOMAIN Takes[c].counts : Takes[c].counts[k] \in Nat
                       /\ \A k \in DOMAIN Owed[c] : Owed[c][k] \in Nat

\* Where a reader finds more the scan counts more, and the other way round.
ScansComplete ==
  \A c \in Checkouts, b \in Checkouts : Comparable(c, b) =>
    \A l \in Lackings(c) : Compares(CountedMore(c, b), l) = {} => Compares(FoundMore(c, b), l) = {}
ScansSound ==
  \A c \in Checkouts, b \in Checkouts : Comparable(c, b) /\ Repos[c[1]].ratchet # "static" =>
    \A l \in Lackings(c) : Compares(FoundMore(c, b), l) = {} => Compares(CountedMore(c, b), l) = {}

LEMMA MergeKinds ==
  ASSUME NEW f, NEW g
  PROVE  /\ DOMAIN (f ++ g) = DOMAIN f \cup DOMAIN g
         /\ \A k \in DOMAIN f : (f ++ g)[k] = f[k]
         /\ \A k \in DOMAIN g : k \notin DOMAIN f => (f ++ g)[k] = g[k]
BY DEF ++

LEMMA MergeLacks ==
  ASSUME NEW f, NEW g, NEW word,
         \A k \in DOMAIN f : k[1] # word,
         \A k \in DOMAIN g : k[1] # word
  PROVE  \A k \in DOMAIN (f ++ g) : k[1] # word
<1>1. DOMAIN (f ++ g) = DOMAIN f \cup DOMAIN g
  BY MergeKinds
<1> QED
  BY <1>1

LEMMA PositiveLacks ==
  ASSUME NEW f, NEW word, \A k \in DOMAIN f : k[1] # word
  PROVE  \A k \in DOMAIN Positive(f) : k[1] # word
BY DEF Positive, RestrictValues, Restrict

\* The structure ratchet always records its band and that it has a layout record, which is no count.
LEMMA StructureRecords ==
  ASSUME NEW tree
  PROVE  /\ <<"band", "files">> \in DOMAIN StructureCounts(tree)
         /\ <<"recorded", "layout">> \in DOMAIN StructureCounts(tree)
         /\ \A k \in DOMAIN StructureCounts(tree) : k[1] = "recorded" => StructureCounts(tree)[k] = 0
<1> DEFINE spans == [p \in MeasuredFiles(tree) |-> Spans(tree, p)]
           f1 == SizeCounts(tree)
           f2 == FunctionCounts(spans)
           f3 == UnmeasuredCounts(spans)
           f4 == LayerCounts(tree)
           f5 == FolderCounts(tree)
           f6 == BandCounts(tree, spans)
           f7 == LayoutCounts(tree)
           f8 == [k \in {<<"recorded", "layout">>} |-> 0]
           Lacks(f) == \A k \in DOMAIN f : k[1] # "recorded"
<1>1. StructureCounts(tree) = f1 ++ f2 ++ f3 ++ f4 ++ f5 ++ f6 ++ f7 ++ f8
  BY DEF StructureCounts, StructureOf
<1>2. Lacks(f1) /\ Lacks(f5) /\ Lacks(f6)
  BY DEF SizeCounts, FolderCounts, BandCounts
<1>3. Lacks(f2)
  BY DEF FunctionCounts
<1>4. Lacks(f3)
  BY PositiveLacks DEF UnmeasuredCounts
<1>5. Lacks(f4)
  BY PositiveLacks DEF LayerCounts
<1>8. Lacks(f7)
  <2> DEFINE folders == {About[p].folder : p \in Listed(tree)}
             odd(k) == IF k[1] = "type" THEN {p \in Listed(tree) : About[p].folder = k[2] /\ About[p].mistyped /\ Counted(p)}
                       ELSE {p \in Listed(tree) : About[p].folder = k[2] /\ About[p].homeless /\ ~HasSurface(tree, k[2])}
             loose == [k \in {"rootfile"} \X {p \in Listed(tree) : About[p].loose} |-> 1]
             astray == [k \in {"type", "place"} \X folders |-> Cardinality(odd(k))]
  <2>1. f7 = Positive(loose) ++ Positive(astray)
    BY DEF LayoutCounts
  <2>2. Lacks(loose) /\ Lacks(astray)
    OBVIOUS
  <2> HIDE DEF loose, astray, f7
  <2>3. Lacks(Positive(loose)) /\ Lacks(Positive(astray))
    BY <2>2, PositiveLacks
  <2>4. Lacks(Positive(loose) ++ Positive(astray))
    BY <2>3, MergeLacks
  <2> QED
    BY <2>1, <2>4
<1>9. <<"band", "files">> \in DOMAIN f6
  BY DEF BandCounts
<1>10. DOMAIN f8 = {<<"recorded", "layout">>} /\ f8[<<"recorded", "layout">>] = 0
  OBVIOUS
<1> HIDE DEF f1, f2, f3, f4, f5, f6, f7, f8
<1> DEFINE g2 == f1 ++ f2
           g3 == g2 ++ f3
           g4 == g3 ++ f4
           g5 == g4 ++ f5
           g6 == g5 ++ f6
           g7 == g6 ++ f7
<1>11. StructureCounts(tree) = g7 ++ f8
  BY <1>1
<1> HIDE DEF Lacks
<1>m. \A f, g : Lacks(f) /\ Lacks(g) => Lacks(f ++ g)
  BY MergeLacks DEF Lacks
<1>12. Lacks(g2) BY <1>m, <1>2, <1>3
<1> HIDE DEF g2
<1>13. Lacks(g3) BY <1>m, <1>12, <1>4
<1> HIDE DEF g3
<1>14. Lacks(g4) BY <1>m, <1>13, <1>5
<1> HIDE DEF g4
<1>15. Lacks(g5) BY <1>m, <1>14, <1>2
<1> HIDE DEF g5
<1>16. Lacks(g6) /\ <<"band", "files">> \in DOMAIN g6
  <2>1. Lacks(g6) BY <1>m, <1>15, <1>2
  <2>2. <<"band", "files">> \in DOMAIN g6 BY <1>9, MergeKinds
  <2> QED BY <2>1, <2>2
<1> HIDE DEF g6
<1>17. Lacks(g7) /\ <<"band", "files">> \in DOMAIN g7
  <2>1. Lacks(g7) BY <1>m, <1>16, <1>8
  <2>2. <<"band", "files">> \in DOMAIN g7 BY <1>16, MergeKinds
  <2> QED BY <2>1, <2>2
<1> HIDE DEF g7
<1>18. DOMAIN (g7 ++ f8) = DOMAIN g7 \cup DOMAIN f8 /\ \A k \in DOMAIN f8 : k \notin DOMAIN g7 => (g7 ++ f8)[k] = f8[k]
  BY MergeKinds
<1> QED
  BY <1>10, <1>11, <1>17, <1>18 DEF Lacks

-----------------------------------------------------------------------------
\* What the structure ratchet of before the band and the layout wrote of these counts.
NewKinds == LayoutKinds \cup {"band", "recorded"}
Aged(counts) == Restrict(counts, {k \in DOMAIN counts : k[1] \notin NewKinds})
Adoptable == LayoutKinds \cup {"band"}

\* The baseline holds what the scan of checkout b counted, all of it or what an
\* older structure ratchet records, and what was reviewed is what b owes.
Recalls(b, lacking) ==
  \/ lacking = {} /\ baseline = Takes[b].counts
  \/ lacking = Adoptable /\ ratchet = "structure" /\ baseline = Aged(Takes[b].counts)
Reviews(b, lacking) ==
  \A k \in DOMAIN Owed[b] \cup DOMAIN reviewed :
    (lacking # {} => k[1] \notin lacking) => Count(reviewed, k) = Count(Owed[b], k)

Accounted ==
  Recorded => \E b \in Checkouts : /\ b[1] = repo /\ Scanned(b)
                                   /\ \E lacking \in {{}, Adoptable} : Recalls(b, lacking) /\ Reviews(b, lacking)
InHand == repo \in DOMAIN Repos /\ worktree \in Trees(versions)
GateInv == InHand /\ Accounted

-----------------------------------------------------------------------------
LEMMA TabledIs ==
  ASSUME NEW f
  PROVE  Tabled(f) = f
BY DEF Tabled

LEMMA TakesIs ==
  ASSUME NEW c \in Checkouts
  PROVE  Takes[c] = Taken(Repos[c[1]].ratchet, Contents(c[2]))
<1> DEFINE T == [d \in Checkouts |-> Taken(Repos[d[1]].ratchet, Contents(d[2]))]
<1>1. Takes = Tabled(T)
  BY DEF Takes
<1>2. Tabled(T) = T
  BY TabledIs
<1>3. T[c] = Taken(Repos[c[1]].ratchet, Contents(c[2]))
  OBVIOUS
<1> QED
  BY <1>1, <1>2, <1>3

\* The counts of the structure ratchet are those of the tree.
LEMMA StructureTaken ==
  ASSUME NEW c \in Checkouts, Repos[c[1]].ratchet = "structure"
  PROVE  Takes[c].counts = StructureCounts(Contents(c[2]))
<1> DEFINE t == Contents(c[2])
<1>1. Takes[c] = StructureRun(t)
  BY TakesIs DEF Taken
<1>2. StructureRun(t) = [Measure(StructureSure(t), StructureCounts(t)) EXCEPT !.problem = LayoutProblems(t) # {}]
  BY DEF StructureRun
<1> HIDE DEF t
<1>3. [Measure(StructureSure(t), StructureCounts(t)) EXCEPT !.problem = LayoutProblems(t) # {}].counts = StructureCounts(t)
  BY DEF Measure
<1> QED
  BY <1>1, <1>2, <1>3 DEF t

LEMMA StructureRecorded ==
  ASSUME NEW c \in Checkouts, Repos[c[1]].ratchet = "structure"
  PROVE  /\ <<"band", "files">> \in DOMAIN Takes[c].counts
         /\ <<"recorded", "layout">> \in DOMAIN Takes[c].counts
         /\ \A k \in DOMAIN Takes[c].counts : k[1] = "recorded" => Takes[c].counts[k] = 0
BY StructureTaken, StructureRecords

LEMMA AgedIs ==
  ASSUME NEW f
  PROVE  /\ DOMAIN Aged(f) = {k \in DOMAIN f : k[1] \notin NewKinds}
         /\ \A k \in DOMAIN Aged(f) : Aged(f)[k] = f[k]
BY DEF Aged, Restrict

LEMMA AgedTwice ==
  ASSUME NEW f
  PROVE  Aged(Aged(f)) = Aged(f)
<1> DEFINE a == Aged(f)
<1>1. {k \in DOMAIN a : k[1] \notin NewKinds} = DOMAIN a
  BY AgedIs
<1>2. Aged(a) = [k \in {j \in DOMAIN a : j[1] \notin NewKinds} |-> a[k]]
  BY DEF Aged, Restrict
<1>3. a = [k \in DOMAIN a |-> a[k]]
  BY DEF Aged, Restrict
<1> HIDE DEF a
<1> QED
  BY <1>1, <1>2, <1>3 DEF a

\* A whole structure baseline lacks no field, an old one lacks them all.
LEMMA WholeRecords ==
  ASSUME NEW c \in Checkouts, Repos[c[1]].ratchet = "structure"
  PROVE  Unrecorded(Takes[c].counts) = {}
BY StructureRecorded DEF Unrecorded

LEMMA AgedRecords ==
  ASSUME NEW f
  PROVE  Unrecorded(Aged(f)) = Adoptable
<1> DEFINE band == <<"band", "files">>
           layout == <<"recorded", "layout">>
<1>1. band[1] \in NewKinds /\ layout[1] \in NewKinds
  BY DEF NewKinds
<1> HIDE DEF band, layout
<1>2. band \notin DOMAIN Aged(f) /\ layout \notin DOMAIN Aged(f)
  BY <1>1, AgedIs
<1> QED
  BY <1>2 DEF Unrecorded, Adoptable, band, layout

LEMMA UnrecordedKinds ==
  ASSUME NEW f
  PROVE  Unrecorded(f) \subseteq Adoptable
BY DEF Unrecorded, Adoptable

\* Over any baseline that is not the structure ratchet's, a rise is what the scan counts more.
LEMMA RisenWhole ==
  ASSUME NEW c \in Checkouts, NEW b \in Checkouts, c[1] = repo, b[1] = repo, baseline = Takes[b].counts
  PROVE  Risen(Takes[c].counts) = CountedMore(c, b)
<1> DEFINE nowCounts == Takes[c].counts
           thenCounts == Takes[b].counts
<1>1. CASE ratchet # "structure"
  BY <1>1 DEF Risen, Record, CountedMore
<1>2. CASE ratchet = "structure"
  <2>1. Unrecorded(baseline) = {}
    BY <1>2, WholeRecords DEF ratchet
  <2> DEFINE filled == Restrict(nowCounts, {k \in DOMAIN nowCounts : k[1] \in Unrecorded(baseline)})
  <2>2. Record(nowCounts) = thenCounts ++ filled
    BY <1>2 DEF Record, Adopted
  <2>3. DOMAIN filled = {}
    BY <2>1 DEF Restrict
  <2> HIDE DEF filled, nowCounts, thenCounts
  <2> DEFINE was == thenCounts ++ filled
  <2>m. DOMAIN was = DOMAIN thenCounts /\ \A k \in DOMAIN thenCounts : was[k] = thenCounts[k]
    <3>1. DOMAIN was = DOMAIN thenCounts \cup DOMAIN filled /\ \A k \in DOMAIN thenCounts : was[k] = thenCounts[k]
      BY MergeKinds
    <3> QED
      BY <2>3, <3>1
  <2> HIDE DEF was
  <2>4. \A k : Count(was, k) = Count(thenCounts, k)
    BY <2>m DEF Count
  <2>5. Rose(nowCounts, was) = Rose(nowCounts, thenCounts)
    BY <2>4 DEF Rose
  <2> QED
    BY <2>2, <2>5 DEF Risen, CountedMore, nowCounts, thenCounts, was
<1> QED
  BY <1>1, <1>2

\* Over an old structure baseline, a rise is what the scan counts more in the kinds it has.
LEMMA RisenAged ==
  ASSUME NEW c \in Checkouts, NEW b \in Checkouts, c[1] = repo, b[1] = repo,
         ratchet = "structure", baseline = Aged(Takes[b].counts), Numbered
  PROVE  Risen(Takes[c].counts) = Compares(CountedMore(c, b), Adoptable)
<1> DEFINE nowCounts == Takes[c].counts
           thenCounts == Takes[b].counts
           filled == Restrict(nowCounts, {k \in DOMAIN nowCounts : k[1] \in Unrecorded(baseline)})
<1>1. Record(nowCounts) = Aged(thenCounts) ++ filled
  BY DEF Record, Adopted
<1>2. DOMAIN filled = {k \in DOMAIN nowCounts : k[1] \in Adoptable} /\ \A k \in DOMAIN filled : filled[k] = nowCounts[k]
  BY AgedRecords DEF Restrict
<1>3. /\ \A k \in DOMAIN nowCounts : nowCounts[k] \in Nat /\ (k[1] = "recorded" => nowCounts[k] = 0)
      /\ \A k \in DOMAIN thenCounts : thenCounts[k] \in Nat /\ (k[1] = "recorded" => thenCounts[k] = 0)
  BY StructureRecorded DEF ratchet, Numbered
<1>4. /\ DOMAIN Aged(thenCounts) = {k \in DOMAIN thenCounts : k[1] \notin NewKinds}
      /\ \A k \in DOMAIN Aged(thenCounts) : Aged(thenCounts)[k] = thenCounts[k]
  BY AgedIs
<1>5. Adoptable # {} /\ \A x : x \in NewKinds <=> x \in Adoptable \/ x = "recorded"
  BY DEF Adoptable, NewKinds
<1>6. \A x \in Adoptable : x # "recorded"
  BY DEF Adoptable, LayoutKinds
<1>7. Risen(nowCounts) = Rose(nowCounts, Aged(thenCounts) ++ filled)
  BY <1>1 DEF Risen
<1> HIDE DEF filled, nowCounts, thenCounts
<1> DEFINE was == Aged(thenCounts) ++ filled
<1>8. DOMAIN was = DOMAIN Aged(thenCounts) \cup DOMAIN filled
      /\ (\A k \in DOMAIN Aged(thenCounts) : was[k] = Aged(thenCounts)[k])
      /\ (\A k \in DOMAIN filled : k \notin DOMAIN Aged(thenCounts) => was[k] = filled[k])
  BY MergeKinds
<1> HIDE DEF was
<1>9. ASSUME NEW k \in DOMAIN nowCounts
      PROVE  nowCounts[k] > Count(was, k) <=> k[1] \notin Adoptable /\ nowCounts[k] > Count(thenCounts, k)
  <2>1. CASE k[1] \in Adoptable
    <3>1. k \in DOMAIN filled /\ k \notin DOMAIN Aged(thenCounts)
      BY <2>1, <1>2, <1>4, <1>5
    <3>2. Count(was, k) = nowCounts[k]
      BY <3>1, <1>2, <1>8 DEF Count
    <3> QED
      BY <3>2, <2>1, <1>3
  <2>2. CASE k[1] = "recorded"
    <3>1. k \notin DOMAIN filled /\ k \notin DOMAIN Aged(thenCounts)
      BY <2>2, <1>2, <1>4, <1>5, <1>6
    <3>2. Count(was, k) = 0
      BY <3>1, <1>8 DEF Count
    <3>3. Count(thenCounts, k) = 0
      BY <2>2, <1>3 DEF Count
    <3> QED
      BY <3>2, <3>3, <2>2, <1>3
  <2>3. CASE k[1] \notin Adoptable /\ k[1] # "recorded"
    <3>1. k \notin DOMAIN filled /\ (k \in DOMAIN Aged(thenCounts) <=> k \in DOMAIN thenCounts)
      BY <2>3, <1>2, <1>4, <1>5
    <3>2. Count(was, k) = Count(thenCounts, k)
      BY <3>1, <1>4, <1>8 DEF Count
    <3> QED
      BY <3>2, <2>3
  <2> QED
    BY <2>1, <2>2, <2>3
<1>10. Rose(nowCounts, was) = Compares(Rose(nowCounts, thenCounts), Adoptable)
  BY <1>9, <1>5 DEF Rose, Compares
<1> QED
  BY <1>7, <1>10 DEF CountedMore, nowCounts, thenCounts, was

\* What is compared is the same on both sides: a rise by the counts of the scan,
\* debt above what was reviewed by a reader's.
LEMMA Comparison ==
  ASSUME NEW b \in Checkouts, NEW lacking, b[1] = repo, InHand, Recorded,
         Recalls(b, lacking), Reviews(b, lacking), Numbered
  PROVE  /\ lacking \in Lackings(<<repo, worktree>>)
         /\ Risen(Measured.counts) = Compares(CountedMore(<<repo, worktree>>, b), lacking)
         /\ Grown = Compares(FoundMore(<<repo, worktree>>, b), lacking)
         /\ \A k : Waived(k) <=> lacking # {} /\ k[1] \in lacking
<1> DEFINE c == <<repo, worktree>>
<1>1. c \in Checkouts /\ c[1] = repo
  BY DEF InHand, Checkouts, versions
<1>2. Measured = Takes[c] /\ Debts = Owed[c]
  BY DEF Measured, Debts
<1>3. Takes[b].counts = baseline => \A k : ~Waived(k)
  BY WholeRecords DEF Waived, ratchet
<1>4. lacking = Adoptable => lacking # {}
  BY DEF Adoptable
<1>5. \A k : Waived(k) <=> lacking # {} /\ k[1] \in lacking
  <2>1. CASE lacking = {} /\ baseline = Takes[b].counts
    BY <2>1, <1>3
  <2>2. CASE lacking = Adoptable /\ ratchet = "structure" /\ baseline = Aged(Takes[b].counts)
    BY <2>2, <1>4, AgedRecords DEF Waived
  <2> QED
    BY <2>1, <2>2 DEF Recalls
<1>6. lacking \in Lackings(c)
  BY <1>1 DEF Recalls, Lackings, ratchet, Adoptable
<1>7. Risen(Measured.counts) = Compares(CountedMore(c, b), lacking)
  <2>1. CASE lacking = {} /\ baseline = Takes[b].counts
    <3>1. Risen(Takes[c].counts) = CountedMore(c, b)
      BY <2>1, <1>1, RisenWhole
    <3>2. Compares(CountedMore(c, b), lacking) = CountedMore(c, b)
      BY <2>1 DEF Compares
    <3> QED
      BY <1>2, <3>1, <3>2
  <2>2. CASE lacking = Adoptable /\ ratchet = "structure" /\ baseline = Aged(Takes[b].counts)
    <3>1. Risen(Takes[c].counts) = Compares(CountedMore(c, b), Adoptable)
      BY <2>2, <1>1, RisenAged
    <3> QED
      BY <1>2, <2>2, <3>1
  <2> QED
    BY <2>1, <2>2 DEF Recalls
<1>8. Grown = Compares(FoundMore(c, b), lacking)
  <2>1. \A k : ~Waived(k) => Count(reviewed, k) = Count(Owed[b], k)
    BY <1>5 DEF Reviews, Count
  <2>2. Grown = {k \in DOMAIN Owed[c] : ~Waived(k) /\ Owed[c][k] > Count(reviewed, k)}
    BY <1>2 DEF Grown, Above
  <2>3. Compares(FoundMore(c, b), lacking) = {k \in DOMAIN Owed[c] : ~Waived(k) /\ Owed[c][k] > Count(Owed[b], k)}
    BY <1>5 DEF Compares, FoundMore, Rose
  <2> QED
    BY <2>1, <2>2, <2>3
<1> QED
  BY <1>5, <1>6, <1>7, <1>8

-----------------------------------------------------------------------------
LEMMA MinOfTwo ==
  ASSUME NEW m \in Nat, NEW n \in Nat, m <= n
  PROVE  Min({m, n}) = m
BY DEF Min

\* Writing counts of checkout c as the baseline, with what c owes reviewed, accounts for it.
LEMMA WrittenAccounted ==
  ASSUME InHand, UNCHANGED <<repo, worktree>>, Scanned(<<repo, worktree>>),
         baseline' = Measured.counts, \A k : Count(reviewed', k) = Count(Debts, k)
  PROVE  GateInv'
<1> DEFINE c == <<repo, worktree>>
<1>1. c \in Checkouts /\ c[1] = repo
  BY DEF InHand, Checkouts, versions
<1>2. InHand'
  BY DEF InHand, versions
<1>3. baseline' = Takes[c].counts /\ Debts = Owed[c]
  BY DEF Measured, Debts
<1>4. Recalls(c, {})' /\ Reviews(c, {})'
  BY <1>3 DEF Recalls, Reviews
<1>5. repo' = repo /\ Scanned(c)
  OBVIOUS
<1> HIDE DEF c
<1>6. Accounted'
  <2> DEFINE L == {{}, Adoptable}
             Kept(b, lacking) == (Recalls(b, lacking) /\ Reviews(b, lacking))'
  <2>1. Kept(c, {}) /\ {} \in L
    BY <1>4
  <2>2. Accounted' <=> (Recorded' => \E b \in Checkouts : b[1] = repo' /\ Scanned(b) /\ \E lacking \in L : Kept(b, lacking))
    BY DEF Accounted
  <2> HIDE DEF L, Kept
  <2>3. \E lacking \in L : Kept(c, lacking)
    BY <2>1
  <2>4. \E b \in Checkouts : b[1] = repo' /\ Scanned(b) /\ \E lacking \in L : Kept(b, lacking)
    BY <1>1, <1>5, <2>3
  <2> QED
    BY <2>2, <2>4
<1> QED
  BY <1>2, <1>6 DEF GateInv

\* Steps that leave the baseline and what was reviewed.
LEMMA AccountStays ==
  ASSUME GateInv, InHand', UNCHANGED <<repo, baseline, reviewed>>
  PROVE  GateInv'
<1>1. Accounted'
  BY DEF GateInv, Accounted, Recorded, Recalls, Reviews, ratchet
<1> QED
  BY <1>1 DEF GateInv

LEMMA GateInit == ShipInit => GateInv
BY DEF ShipInit, GateInv, InHand, Accounted, Recorded

\* An update that no rise stops lowers nothing: what it leaves of the debt is what there is.
LEMMA UpdateKeeps ==
  ASSUME GateInv, Numbered, ScansComplete, Recorded, Scanned(<<repo, worktree>>), Risen(Measured.counts) = {}
  PROVE  \A k : Count(Lowered(Debts), k) = Count(Debts, k)
<1> DEFINE c == <<repo, worktree>>
<1>1. c \in Checkouts /\ c[1] = repo
  BY DEF GateInv, InHand, Checkouts, versions
<1>2. PICK b \in Checkouts : /\ b[1] = repo /\ Scanned(b)
                             /\ \E lacking \in {{}, Adoptable} : Recalls(b, lacking) /\ Reviews(b, lacking)
  BY DEF GateInv, Accounted
<1>3. PICK lacking \in {{}, Adoptable} : Recalls(b, lacking) /\ Reviews(b, lacking)
  BY <1>2
<1>4. /\ lacking \in Lackings(c)
      /\ Risen(Measured.counts) = Compares(CountedMore(c, b), lacking)
      /\ Grown = Compares(FoundMore(c, b), lacking)
      /\ \A k : Waived(k) <=> lacking # {} /\ k[1] \in lacking
  BY <1>2, <1>3, Comparison DEF GateInv
<1>5. Grown = {}
  BY <1>1, <1>2, <1>4 DEF ScansComplete, Comparable
<1>6. Debts = Owed[c]
  BY DEF Debts
<1>7. \A k \in DOMAIN Debts : Debts[k] \in Nat
  BY <1>1, <1>6 DEF Numbered
<1>8. \A k : ~Waived(k) => Count(reviewed, k) \in Nat
  <2>1. \A k : Count(Owed[b], k) \in Nat
    BY DEF Numbered, Count
  <2>2. \A k : ~Waived(k) => Count(reviewed, k) = Count(Owed[b], k)
    BY <1>3, <1>4 DEF Reviews, Count
  <2> QED
    BY <2>1, <2>2
<1>9. \A k \in DOMAIN Debts : ~Waived(k) => ~(Debts[k] > Count(reviewed, k))
  BY <1>5 DEF Grown, Above
<1> HIDE DEF c
<1>10. ASSUME NEW k \in DOMAIN Debts, ~Waived(k)
       PROVE  Min({Debts[k], Count(reviewed, k)}) = Debts[k]
  <2>1. Debts[k] \in Nat /\ Count(reviewed, k) \in Nat /\ ~(Debts[k] > Count(reviewed, k))
    BY <1>7, <1>8, <1>9, <1>10
  <2>2. Debts[k] <= Count(reviewed, k)
    BY <2>1
  <2> QED
    BY <2>1, <2>2, MinOfTwo
<1>11. DOMAIN Lowered(Debts) = DOMAIN Debts /\ \A k \in DOMAIN Debts : Lowered(Debts)[k] = Debts[k]
  BY <1>10 DEF Lowered
<1> QED
  BY <1>11 DEF Count

\* The scan of a run that passes, or that compares, is confirmed and its baseline is there.
LEMMA CodeCompared ==
  ASSUME NEW mode \in {"check", "init", "update", "raise"}, NEW down \in BOOLEAN, NEW m, switch = "on",
         ExitCode(mode, down, m) = 0 \/ (ExitCode(mode, down, m) = 1 /\ baseline # Missing)
  PROVE  /\ m.sure /\ ~m.bad
         /\ mode # "init" => Recorded
         /\ ExitCode(mode, down, m) = Compared(mode, m)
BY DEF ExitCode, Unusable, Recorded

LEMMA CodeOff ==
  ASSUME NEW mode \in {"init", "update", "raise"}, NEW down \in BOOLEAN, NEW m,
         switch \in {"on", "off", "broken"}, ExitCode(mode, down, m) = 0
  PROVE  switch = "on"
BY DEF ExitCode, Unusable

ShipShape == switch \in {"on", "off", "broken"} /\ ruling \in {"pass", "rise", "stop", "none"}
ShipInv == GateInv /\ ShipShape

LEMMA WriteAccounted ==
  ASSUME ShipInv, Numbered, ScansComplete, NEW mode \in {"init", "update", "raise"}, NEW down \in BOOLEAN,
         Write(mode, down)
  PROVE  GateInv'
<1>1. /\ ExitCode(mode, down, Measured) = 0
      /\ baseline' = Measured.counts
      /\ reviewed' = IF mode = "update" THEN Lowered(Debts) ELSE Debts
      /\ UNCHANGED <<repo, worktree>>
  BY DEF Write, Passes
<1>2. switch = "on"
  BY <1>1, CodeOff DEF ShipInv, ShipShape
<1>3. Measured.sure /\ ~Measured.bad /\ (mode # "init" => Recorded) /\ Compared(mode, Measured) = 0
  BY <1>1, <1>2, CodeCompared
<1>4. Scanned(<<repo, worktree>>)
  BY <1>3 DEF Scanned, Measured
<1>5. \A k : Count(reviewed', k) = Count(Debts, k)
  <2>1. CASE mode = "update"
    <3>1. Risen(Measured.counts) = {}
      BY <2>1, <1>3 DEF Compared
    <3>2. \A k : Count(Lowered(Debts), k) = Count(Debts, k)
      BY <2>1, <1>3, <1>4, <3>1, UpdateKeeps DEF ShipInv
    <3> QED
      BY <2>1, <1>1, <3>2
  <2>2. CASE mode # "update"
    <3>1. reviewed' = Debts
      BY <2>2, <1>1
    <3> QED
      BY <3>1
  <2> QED
    BY <2>1, <2>2
<1>6. InHand
  BY DEF ShipInv, GateInv
<1> QED
  BY <1>1, <1>4, <1>5, <1>6, WrittenAccounted

LEMMA RevendorAccounted ==
  ASSUME GateInv, RevendorStructure
  PROVE  GateInv'
<1>1. /\ ratchet = "structure" /\ Recorded
      /\ baseline' = Aged(baseline) /\ baseline' # baseline
      /\ UNCHANGED <<repo, worktree, reviewed>>
  BY DEF RevendorStructure, Aged, NewKinds
<1>2. InHand'
  BY <1>1 DEF GateInv, InHand, versions
<1>3. PICK b \in Checkouts : /\ b[1] = repo /\ Scanned(b)
                             /\ \E lacking \in {{}, Adoptable} : Recalls(b, lacking) /\ Reviews(b, lacking)
  BY <1>1 DEF GateInv, Accounted
<1>4. PICK lacking \in {{}, Adoptable} : Recalls(b, lacking) /\ Reviews(b, lacking)
  BY <1>3
<1>5. lacking = {} /\ baseline = Takes[b].counts
  BY <1>1, <1>4, AgedTwice DEF Recalls
<1>6. Recalls(b, Adoptable)'
  BY <1>1, <1>5 DEF Recalls, ratchet
<1>7. Reviews(b, Adoptable)'
  BY <1>1, <1>4, <1>5 DEF Reviews
<1>8. Accounted'
  <2> DEFINE L == {{}, Adoptable}
             Kept(x, l) == (Recalls(x, l) /\ Reviews(x, l))'
  <2>1. Kept(b, Adoptable) /\ Adoptable \in L /\ b[1] = repo'
    BY <1>1, <1>3, <1>6, <1>7
  <2>2. Accounted' <=> (Recorded' => \E x \in Checkouts : x[1] = repo' /\ Scanned(x) /\ \E l \in L : Kept(x, l))
    BY DEF Accounted
  <2> HIDE DEF L, Kept
  <2>3. \E l \in L : Kept(b, l)
    BY <2>1
  <2>4. \E x \in Checkouts : x[1] = repo' /\ Scanned(x) /\ \E l \in L : Kept(x, l)
    BY <1>3, <2>1, <2>3
  <2> QED
    BY <2>2, <2>4
<1> QED
  BY <1>2, <1>8 DEF GateInv

LEMMA EditInHand ==
  ASSUME InHand, NEW p \in DOMAIN worktree, NEW text \in versions[p], Edit(p, text)
  PROVE  InHand'
<1>1. repo' = repo /\ worktree' = [worktree EXCEPT ![p] = text]
  BY DEF Edit
<1> DEFINE T == versions
           U == UNION {T[q] : q \in DOMAIN T}
<1>2. worktree \in [DOMAIN T -> U] /\ \A q \in DOMAIN worktree : worktree[q] \in T[q]
  BY DEF InHand, Trees
<1>3. versions' = T
  BY <1>1 DEF versions
<1> HIDE DEF T
<1>4. worktree' \in [DOMAIN T -> U]
  <2>1. p \in DOMAIN T /\ text \in U
    BY <1>2 DEF T
  <2> QED
    BY <1>1, <1>2, <2>1
<1>5. \A q \in DOMAIN worktree' : worktree'[q] \in T[q]
  BY <1>1, <1>2 DEF T
<1>6. worktree' \in Trees(T)
  BY <1>4, <1>5 DEF Trees
<1> QED
  BY <1>1, <1>3, <1>6 DEF InHand

\* What a step does to the ruling: only the gate gives one, and it gives it on what is there.
Ruled == ruling' # "none" => \/ UNCHANGED shipVars
                             \/ \E down \in BOOLEAN : Gate(down)

LEMMA ShipStep ==
  ASSUME ShipInv, Numbered, ScansComplete, [ShipNext]_shipVars
  PROVE  ShipInv' /\ Ruled
<1>0. GateInv /\ ShipShape /\ InHand
  BY DEF ShipInv, GateInv
<1>1. ASSUME NEW p \in DOMAIN worktree, NEW text \in versions[p], Edit(p, text)
      PROVE  ShipInv' /\ Ruled
  <2>1. InHand'
    BY <1>0, <1>1, EditInHand
  <2>2. UNCHANGED <<repo, switch, baseline, reviewed>> /\ ruling' = "none"
    BY <1>1 DEF Edit
  <2>3. GateInv'
    BY <1>0, <2>1, <2>2, AccountStays
  <2> QED
    BY <1>0, <2>2, <2>3 DEF ShipInv, ShipShape, Ruled
<1>2. ASSUME NEW to \in {"on", "off", "broken"}, Reconfigure(to)
      PROVE  ShipInv' /\ Ruled
  <2>1. UNCHANGED <<repo, worktree, baseline, reviewed>> /\ ruling' = "none" /\ switch' = to
    BY <1>2 DEF Reconfigure
  <2>2. InHand'
    BY <1>0, <2>1 DEF InHand, versions
  <2>3. GateInv'
    BY <1>0, <2>1, <2>2, AccountStays
  <2> QED
    BY <2>1, <2>3 DEF ShipInv, ShipShape, Ruled
<1>3. ASSUME SpoilBaseline(Missing) \/ SpoilBaseline(Corrupt) \/ RestoreBaseline
      PROVE  ShipInv' /\ Ruled
  <2>1. /\ UNCHANGED <<repo, worktree, switch>> /\ ruling' = "none"
        /\ baseline' \in {Missing, Corrupt}
    BY <1>3 DEF SpoilBaseline, RestoreBaseline
  <2>2. InHand'
    BY <1>0, <2>1 DEF InHand, versions
  <2>3. Accounted'
    BY <2>1 DEF Accounted, Recorded
  <2> QED
    BY <1>0, <2>1, <2>2, <2>3 DEF ShipInv, GateInv, ShipShape, Ruled
<1>4. ASSUME RevendorStructure
      PROVE  ShipInv' /\ Ruled
  <2>1. switch' = switch /\ ruling' = "none"
    BY <1>4 DEF RevendorStructure
  <2>2. GateInv'
    BY <1>0, <1>4, RevendorAccounted
  <2> QED
    BY <1>0, <2>1, <2>2 DEF ShipInv, ShipShape, Ruled
<1>5. ASSUME NEW mode \in {"init", "update", "raise"}, NEW down \in BOOLEAN, Write(mode, down)
      PROVE  ShipInv' /\ Ruled
  <2>1. switch' = switch /\ ruling' = "none"
    BY <1>5 DEF Write
  <2>2. GateInv'
    BY <1>5, WriteAccounted
  <2> QED
    BY <1>0, <2>1, <2>2 DEF ShipInv, ShipShape, Ruled
<1>6. ASSUME NEW down \in BOOLEAN, Gate(down)
      PROVE  ShipInv' /\ Ruled
  <2>1. UNCHANGED <<repo, worktree, switch, baseline, reviewed>> /\ ruling' \in {"pass", "rise", "stop"}
    BY <1>6 DEF Gate, Verdict
  <2>2. InHand'
    BY <1>0, <2>1 DEF InHand, versions
  <2>3. GateInv'
    BY <1>0, <2>1, <2>2, AccountStays
  <2> QED
    BY <1>0, <1>6, <2>1, <2>3 DEF ShipInv, ShipShape, Ruled
<1>7. ASSUME UNCHANGED shipVars
      PROVE  ShipInv' /\ Ruled
  <2>1. InHand'
    BY <1>0, <1>7 DEF InHand, versions, shipVars
  <2>2. GateInv'
    BY <1>0, <1>7, <2>1, AccountStays DEF shipVars
  <2> QED
    BY <1>0, <1>7, <2>2 DEF ShipInv, ShipShape, Ruled, shipVars
<1> QED
  BY <1>1, <1>2, <1>3, <1>4, <1>5, <1>6, <1>7 DEF ShipNext

\* A pass finds no debt above what was reviewed, a rise without a layout problem some.
LEMMA GateTells ==
  ASSUME ShipInv, Numbered, NEW down \in BOOLEAN, switch = "on",
         ExitCode("check", down, Measured) = 0 \/ (ExitCode("check", down, Measured) = 1 /\ Recorded)
  PROVE  /\ ScansComplete /\ ExitCode("check", down, Measured) = 0 => Grown = {}
         /\ ScansSound /\ ExitCode("check", down, Measured) = 1 /\ ~Measured.problem /\ ratchet # "static" => Grown # {}
<1> DEFINE c == <<repo, worktree>>
<1>1. c \in Checkouts /\ c[1] = repo
  BY DEF ShipInv, GateInv, InHand, Checkouts, versions
<1>2. /\ Measured.sure /\ ~Measured.bad /\ Recorded
      /\ ExitCode("check", down, Measured) = Compared("check", Measured)
  BY CodeCompared DEF Recorded
<1>3. Scanned(c)
  BY <1>2 DEF Scanned, Measured
<1>4. PICK b \in Checkouts : /\ b[1] = repo /\ Scanned(b)
                             /\ \E lacking \in {{}, Adoptable} : Recalls(b, lacking) /\ Reviews(b, lacking)
  BY <1>2 DEF ShipInv, GateInv, Accounted
<1>5. PICK lacking \in {{}, Adoptable} : Recalls(b, lacking) /\ Reviews(b, lacking)
  BY <1>4
<1>6. /\ lacking \in Lackings(c)
      /\ Risen(Measured.counts) = Compares(CountedMore(c, b), lacking)
      /\ Grown = Compares(FoundMore(c, b), lacking)
  BY <1>2, <1>4, <1>5, Comparison DEF ShipInv, GateInv
<1>7. Comparable(c, b)
  BY <1>1, <1>3, <1>4 DEF Comparable
<1>8. Compared("check", Measured) = 0 => Risen(Measured.counts) = {}
  BY DEF Compared
<1>9. Compared("check", Measured) = 1 /\ ~Measured.problem => Risen(Measured.counts) # {}
  BY DEF Compared
<1>10. Repos[c[1]].ratchet = ratchet
  BY DEF ratchet
<1> HIDE DEF c
<1>11. ScansComplete /\ Compares(CountedMore(c, b), lacking) = {} => Compares(FoundMore(c, b), lacking) = {}
  BY <1>1, <1>6, <1>7 DEF ScansComplete
<1>12. ScansSound /\ ratchet # "static" /\ Compares(FoundMore(c, b), lacking) = {} => Compares(CountedMore(c, b), lacking) = {}
  BY <1>1, <1>6, <1>7, <1>10 DEF ScansSound
<1> QED
  BY <1>2, <1>6, <1>8, <1>9, <1>11, <1>12

LEMMA GrownStays ==
  ASSUME UNCHANGED <<repo, worktree, baseline, reviewed>>
  PROVE  /\ Grown' = Grown /\ (Recorded' <=> Recorded) /\ ratchet' = ratchet /\ Measured' = Measured
BY DEF Grown, Above, Waived, Debts, ratchet, Recorded, Measured

\* The exit code the ruling speaks of.
LEMMA VerdictOf ==
  ASSUME NEW down \in BOOLEAN, Gate(down)
  PROVE  /\ ruling' = "pass" => ExitCode("check", down, Measured) = 0
         /\ ruling' = "rise" => ExitCode("check", down, Measured) = 1
BY DEF Gate, Verdict, Passes

LEMMA RiseIsOn ==
  ASSUME NEW down \in BOOLEAN, NEW m, switch \in {"on", "off", "broken"}, ExitCode("check", down, m) = 1
  PROVE  switch = "on"
BY DEF ExitCode, Unusable

-----------------------------------------------------------------------------
\* What ships is reviewed, in any repository and for any ratchet whose scan is
\* complete: two trees between which a reader finds more of something the scan
\* counts more of something. The gate's own steps never lose a debt: not its
\* modes, not a ratchet switched off, a baseline deleted, broken, restored,
\* initialised again or written by an older version (run_ratchet).
THEOREM ShipReviewed ==
  ASSUME Numbered, ScansComplete
  PROVE  ShipSpec => []DebtIsReviewed
<1>1. ShipInit => ShipInv /\ DebtIsReviewed
  BY GateInit DEF ShipInit, ShipInv, ShipShape, DebtIsReviewed
<1>2. ShipInv /\ DebtIsReviewed /\ [ShipNext]_shipVars => (ShipInv /\ DebtIsReviewed)'
  <2> SUFFICES ASSUME ShipInv, DebtIsReviewed, [ShipNext]_shipVars
               PROVE  ShipInv' /\ DebtIsReviewed'
    OBVIOUS
  <2>1. ShipInv' /\ Ruled
    BY ShipStep
  <2>2. CASE ruling' = "none"
    BY <2>1, <2>2 DEF DebtIsReviewed
  <2>3. CASE UNCHANGED shipVars
    <3>1. Grown' = Grown /\ ruling' = ruling /\ switch' = switch
      BY <2>3, GrownStays DEF shipVars
    <3> QED
      BY <2>1, <3>1 DEF DebtIsReviewed
  <2>4. ASSUME NEW down \in BOOLEAN, Gate(down)
        PROVE  DebtIsReviewed'
    <3>1. Grown' = Grown /\ switch' = switch
      BY <2>4, GrownStays DEF Gate
    <3>2. ruling' = "pass" => ExitCode("check", down, Measured) = 0
      BY <2>4, VerdictOf
    <3>3. ExitCode("check", down, Measured) = 0 /\ switch = "on" => Grown = {}
      BY GateTells
    <3> QED
      BY <3>1, <3>2, <3>3 DEF DebtIsReviewed
  <2> QED
    BY <2>1, <2>2, <2>3, <2>4 DEF Ruled
<1> QED
  BY <1>1, <1>2, PTL DEF ShipSpec

\* The gate reports a rise only of debt that was not reviewed, the near-limit band
\* included, for any ratchet whose scan is complete and sound: where the scan counts
\* more, so does a reader.
THEOREM OnlyDebtRises ==
  ASSUME Numbered, ScansComplete, ScansSound
  PROVE  ShipSpec => []RisesAreDebt
<1>1. ShipInit => ShipInv /\ RisesAreDebt
  BY GateInit DEF ShipInit, ShipInv, ShipShape, RisesAreDebt
<1>2. ShipInv /\ RisesAreDebt /\ [ShipNext]_shipVars => (ShipInv /\ RisesAreDebt)'
  <2> SUFFICES ASSUME ShipInv, RisesAreDebt, [ShipNext]_shipVars
               PROVE  ShipInv' /\ RisesAreDebt'
    OBVIOUS
  <2>1. ShipInv' /\ Ruled
    BY ShipStep
  <2>2. CASE ruling' = "none"
    BY <2>1, <2>2 DEF RisesAreDebt
  <2>3. CASE UNCHANGED shipVars
    <3>1. Grown' = Grown /\ ruling' = ruling /\ (Recorded' <=> Recorded) /\ ratchet' = ratchet /\ Measured' = Measured
      BY <2>3, GrownStays DEF shipVars
    <3> QED
      BY <2>1, <3>1 DEF RisesAreDebt
  <2>4. ASSUME NEW down \in BOOLEAN, Gate(down)
        PROVE  RisesAreDebt'
    <3>1. Grown' = Grown /\ (Recorded' <=> Recorded) /\ ratchet' = ratchet /\ Measured' = Measured
      BY <2>4, GrownStays DEF Gate
    <3>2. ruling' = "rise" => ExitCode("check", down, Measured) = 1
      BY <2>4, VerdictOf
    <3>3. ExitCode("check", down, Measured) = 1 => switch = "on"
      BY RiseIsOn DEF ShipInv, ShipShape
    <3>4. ExitCode("check", down, Measured) = 1 /\ Recorded /\ ~Measured.problem /\ ratchet # "static" => Grown # {}
      BY <3>3, GateTells
    <3> QED
      BY <3>1, <3>2, <3>4 DEF RisesAreDebt
  <2> QED
    BY <2>1, <2>2, <2>3, <2>4 DEF Ruled
<1> QED
  BY <1>1, <1>2, PTL DEF ShipSpec
=============================================================================
