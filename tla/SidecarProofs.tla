---------------------------- MODULE SidecarProofs ----------------------------
(***************************************************************************)
(* Proofs about Sidecar: types, that clean launches keep one sidecar, and  *)
(* that a buffer counts as settled only after it was quiet long enough.     *)
(***************************************************************************)
EXTENDS Sidecar, TLAPS

Steps == {"idle", "ensure", "check", "spawn", "record", "poll", "reconnect", "settle",
          "settled", "unsettled"}

\* What a caller knows of the processes while it is between check and PID file, and what
\* the PID file says of them when nobody is.
LaunchInv ==
  clean =>
    /\ \A c, d \in Caller : Launching(c) /\ Launching(d) => c = d
    /\ \A c \in Caller : pc[c] = "spawn" => alive = {}
    /\ \A c \in Caller : pc[c] = "record" => alive \subseteq {child[c]}
    /\ (\A c \in Caller : ~Launching(c)) => alive \subseteq {tracked}

IInv == TypeOK /\ LaunchInv

USE BoundAssumption, CallerAssumption, PidAssumption

LEMMA InitIInv == Init => IInv
  BY DEF Init, IInv, TypeOK, LaunchInv, Launching, Report, Boot

-----------------------------------------------------------------------------
(* Types. *)

LEMMA WriteType ==
  ASSUME TypeOK, NEW p \in Pid, NEW a \in BOOLEAN, NEW b \in BOOLEAN, WriteStatus(p, a, b)
  PROVE  file' \in Report /\ age' \in 0 .. FreshTicks + 1 /\ memory' \in [Pid -> Report]
  BY DEF TypeOK, WriteStatus, Report

LEMMA NodeType == ASSUME TypeOK, NEW p \in Pid, NodeStep(p) PROVE TypeOK'
<1>1. CASE Heartbeat(p) \/ Opened(p) \/ ShowQr(p) \/ Closed(p)
  <2>1. PICK a \in BOOLEAN, b \in BOOLEAN : WriteStatus(p, a, b)
    BY <1>1 DEF Heartbeat, Opened, ShowQr, Closed, TypeOK, Report
  <2>2. UNCHANGED <<tracked, auth, alive, callerVars, clean, countVars>>
    BY <1>1 DEF Heartbeat, Opened, ShowQr, Closed
  <2> QED BY <2>1, <2>2, WriteType DEF TypeOK, callerVars, settleVars, countVars
<1>2. CASE Pair(p)
  BY <1>2 DEF Pair, TypeOK, fileVars, callerVars, settleVars, countVars
<1>3. CASE LoggedOut(p) \/ StartFailed(p)
  <2>1. WriteStatus(p, FALSE, FALSE) BY <1>3 DEF LoggedOut, StartFailed
  <2>2. file' \in Report /\ age' \in 0 .. FreshTicks + 1 /\ memory' \in [Pid -> Report]
    BY <2>1, WriteType
  <2>3. UNCHANGED <<tracked, callerVars, clean, fails>>
    BY <1>3 DEF LoggedOut, StartFailed
  <2>4. auth' \in BOOLEAN /\ alive' \subseteq Pid
    BY <1>3 DEF LoggedOut, StartFailed, TypeOK
  <2>5. deaths < MaxDeath /\ deaths' = deaths + 1
    BY <1>3 DEF LoggedOut, StartFailed
  <2>6. deaths' \in 0 .. MaxDeath
    BY <2>5 DEF TypeOK
  <2> QED BY <2>2, <2>3, <2>4, <2>6 DEF TypeOK, callerVars, settleVars
<1>4. CASE Die(p)
  BY <1>4 DEF Die, TypeOK, Report, Boot, fileVars, callerVars, settleVars
<1>5. CASE Append(p)
  BY <1>5 DEF Append, TypeOK, fileVars, nodeVars, countVars
<1> QED BY <1>1, <1>2, <1>3, <1>4, <1>5 DEF NodeStep

LEMMA ReturnType ==
  ASSUME TypeOK, NEW c \in Caller, Return(c)
  PROVE  /\ pc' \in [Caller -> Steps] /\ child' \in [Caller -> Pid \cup {NoPid}]
         /\ polls' \in [Caller -> Nat] /\ grew' \in [Caller -> BOOLEAN]
         /\ quiet' \in [Caller -> Nat] /\ still' \in [Caller -> Nat]
         /\ \A d \in Caller :
              /\ pc'[d] = "poll" => polls'[d] <= WaitPolls
              /\ pc'[d] = "settle" => polls'[d] <= SettlePolls /\ quiet'[d] < Settle
  BY DEF TypeOK, Return, Goto, Steps

LEMMA SettleType ==
  ASSUME TypeOK, NEW c \in Caller, BeginSettle(c)
  PROVE  /\ pc' \in [Caller -> Steps] /\ child' \in [Caller -> Pid \cup {NoPid}]
         /\ polls' \in [Caller -> Nat] /\ grew' \in [Caller -> BOOLEAN]
         /\ quiet' \in [Caller -> Nat] /\ still' \in [Caller -> Nat]
         /\ \A d \in Caller :
              /\ pc'[d] = "poll" => polls'[d] <= WaitPolls
              /\ pc'[d] = "settle" => polls'[d] <= SettlePolls /\ quiet'[d] < Settle
  BY DEF TypeOK, BeginSettle, Goto, Steps

LEMMA LeaveType ==
  ASSUME TypeOK, NEW c \in Caller, NEW l \in Steps \ {"poll", "settle"}, Leave(c, l)
  PROVE  /\ pc' \in [Caller -> Steps] /\ child' \in [Caller -> Pid \cup {NoPid}]
         /\ polls' \in [Caller -> Nat] /\ grew' \in [Caller -> BOOLEAN]
         /\ quiet' \in [Caller -> Nat] /\ still' \in [Caller -> Nat]
         /\ \A d \in Caller :
              /\ pc'[d] = "poll" => polls'[d] <= WaitPolls
              /\ pc'[d] = "settle" => polls'[d] <= SettlePolls /\ quiet'[d] < Settle
  BY DEF TypeOK, Leave, Goto, Steps, settleVars

LEMMA AfterLaunchType ==
  ASSUME TypeOK, NEW c \in Caller, AfterLaunch(c)
  PROVE  /\ pc' \in [Caller -> Steps]
         /\ polls' \in [Caller -> Nat] /\ grew' \in [Caller -> BOOLEAN]
         /\ quiet' \in [Caller -> Nat] /\ still' \in [Caller -> Nat]
         /\ \A d \in Caller :
              /\ pc'[d] = "poll" => polls'[d] <= WaitPolls
              /\ pc'[d] = "settle" => polls'[d] <= SettlePolls /\ quiet'[d] < Settle
  BY DEF TypeOK, AfterLaunch, Goto, Steps, settleVars

LEMMA LaunchType == ASSUME TypeOK, NEW c \in Caller, LaunchStep(c) PROVE TypeOK'
<1>1. CASE CheckRunning(c)
  <2>1. PICK f \in Reads :
          IF IsRunning(f) THEN AfterLaunch(c) /\ UNCHANGED <<child, clean>>
          ELSE /\ Leave(c, "spawn")
               /\ clean' = (clean /\ \A d \in Caller : ~Launching(d))
    BY <1>1 DEF CheckRunning
  <2>2. UNCHANGED <<fileVars, nodeVars, countVars>>
    BY <1>1 DEF CheckRunning
  <2>3. CASE IsRunning(f)
    BY <2>1, <2>2, <2>3, AfterLaunchType
       DEF TypeOK, Steps, fileVars, nodeVars, countVars
  <2>4. CASE ~IsRunning(f)
    <3>1. Leave(c, "spawn") /\ clean' \in BOOLEAN
      BY <2>1, <2>4 DEF TypeOK
    <3> QED BY <2>2, <3>1, LeaveType DEF TypeOK, Steps, fileVars, nodeVars, countVars
  <2> QED BY <2>3, <2>4
<1>2. CASE Spawn(c)
  BY <1>2 DEF Spawn, Goto, TypeOK, fileVars, settleVars, countVars
<1>3. CASE SpawnFails(c)
  <2>1. Leave(c, "idle") /\ "idle" \in Steps \ {"poll", "settle"}
    BY <1>3 DEF SpawnFails, Steps
  <2> QED BY <1>3, <2>1, LeaveType DEF SpawnFails, TypeOK, Steps, fileVars, nodeVars
<1>4. CASE RecordPid(c)
  <2>1. AfterLaunch(c) BY <1>4 DEF RecordPid
  <2> QED BY <1>4, <2>1, AfterLaunchType DEF RecordPid, TypeOK, Steps, nodeVars, countVars
<1> QED BY <1>1, <1>2, <1>3, <1>4 DEF LaunchStep

LEMMA PreflightType == ASSUME TypeOK, NEW c \in Caller, PreflightStep(c) PROVE TypeOK'
<1>1. CASE EnsureRunning(c)
  <2>1. PICK l \in {"reconnect", "check"} : Leave(c, l)
    BY <1>1 DEF EnsureRunning
  <2>2. l \in Steps \ {"poll", "settle"} BY DEF Steps
  <2> QED BY <1>1, <2>1, <2>2, LeaveType
          DEF EnsureRunning, TypeOK, Steps, fileVars, nodeVars, countVars
<1>2. CASE LaunchStep(c)
  BY <1>2, LaunchType
<1>3. CASE Poll(c)
  <2>1. UNCHANGED <<fileVars, nodeVars, clean, countVars>> /\ pc[c] = "poll"
    BY <1>3 DEF Poll
  <2>2. CASE Leave(c, "reconnect")
    BY <2>1, <2>2, LeaveType DEF TypeOK, Steps, fileVars, nodeVars, countVars
  <2>3. CASE /\ polls[c] # WaitPolls
             /\ polls' = [polls EXCEPT ![c] = @ + 1]
             /\ UNCHANGED <<pc, child, settleVars>>
    BY <2>1, <2>3 DEF TypeOK, fileVars, nodeVars, countVars, settleVars
  <2> QED BY <1>3, <2>2, <2>3 DEF Poll
<1>4. CASE Reconnect(c)
  <2>1. BeginSettle(c) \/ Return(c) BY <1>4 DEF Reconnect
  <2> QED BY <1>4, <2>1, SettleType, ReturnType
          DEF Reconnect, TypeOK, Steps, fileVars, nodeVars, countVars
<1>5. CASE SettlePoll(c)
  BY <1>5 DEF SettlePoll, DeadlineReached, Quiet, Goto, TypeOK, fileVars, nodeVars, countVars
<1>6. CASE SettleTimeout(c)
  <2>1. Leave(c, "unsettled") /\ "unsettled" \in Steps \ {"poll", "settle"}
    BY <1>6 DEF SettleTimeout, Steps
  <2> QED BY <1>6, <2>1, LeaveType
          DEF SettleTimeout, TypeOK, Steps, fileVars, nodeVars, countVars
<1>7. CASE ReadBuffer(c)
  <2>1. Return(c) BY <1>7 DEF ReadBuffer
  <2> QED BY <1>7, <2>1, ReturnType
          DEF ReadBuffer, TypeOK, Steps, fileVars, nodeVars, countVars
<1> QED BY <1>1, <1>2, <1>3, <1>4, <1>5, <1>6, <1>7 DEF PreflightStep

LEMMA CallerType ==
  ASSUME TypeOK, NEW c \in Caller,
         SuperviseOnce(c) \/ StartSidecar(c) \/ Preflight(c) \/ CallerDies(c)
  PROVE  TypeOK'
<1>1. CASE SuperviseOnce(c) \/ StartSidecar(c)
  <2>1. Leave(c, "check") /\ "check" \in Steps \ {"poll", "settle"}
    BY <1>1 DEF SuperviseOnce, StartSidecar, Steps
  <2> QED BY <1>1, <2>1, LeaveType
          DEF SuperviseOnce, StartSidecar, TypeOK, Steps, fileVars, nodeVars, countVars
<1>2. CASE Preflight(c)
  <2>1. BeginSettle(c) \/ Leave(c, "ensure") BY <1>2 DEF Preflight
  <2>2. "ensure" \in Steps \ {"poll", "settle"} BY DEF Steps
  <2> QED BY <1>2, <2>1, <2>2, SettleType, LeaveType
          DEF Preflight, TypeOK, Steps, fileVars, nodeVars, countVars
<1>3. CASE CallerDies(c)
  <2>1. Return(c) BY <1>3 DEF CallerDies
  <2> QED BY <1>3, <2>1, ReturnType DEF CallerDies, TypeOK, Steps, fileVars, nodeVars
<1> QED BY <1>1, <1>2, <1>3

LEMMA NextType == TypeOK /\ [Next]_vars => TypeOK'
<1> SUFFICES ASSUME TypeOK, [Next]_vars PROVE TypeOK'
  OBVIOUS
<1>1. CASE Tick
  BY <1>1 DEF Tick, TypeOK, nodeVars, callerVars, settleVars, countVars
<1>2. CASE UNCHANGED vars
  BY <1>2 DEF vars, TypeOK, fileVars, nodeVars, callerVars, settleVars, countVars
<1> QED BY <1>1, <1>2, NodeType, PreflightType, CallerType DEF Next

\* Every variable of the supervision keeps its type, and the polls of a preflight stay
\* within their deadlines, for any processes, callers and timings.
THEOREM TypeCorrect == Spec => []TypeOK
<1>1. Init => TypeOK BY InitIInv DEF IInv
<1> QED BY <1>1, NextType, PTL DEF Spec

-----------------------------------------------------------------------------
(* Clean launches. *)

\* A step that starts nothing and moves no caller into or out of a launch.
LEMMA LaunchFrame ==
  ASSUME LaunchInv, alive' \subseteq alive, UNCHANGED <<tracked, child, clean>>,
         \A c \in Caller : Launching(c) \/ pc'[c] \in {"spawn", "record"} => pc'[c] = pc[c]
  PROVE  LaunchInv'
<1>1. \A c \in Caller : Launching(c)' <=> Launching(c)
  BY DEF Launching
<1>2. \A c \in Caller : /\ pc'[c] = "spawn" => pc[c] = "spawn"
                        /\ pc'[c] = "record" => pc[c] = "record"
  OBVIOUS
<1> SUFFICES ASSUME clean PROVE LaunchInv'
  BY DEF LaunchInv
<1> QED BY <1>1, <1>2 DEF LaunchInv

LEMMA NodeLaunch == ASSUME TypeOK, LaunchInv, NEW p \in Pid, NodeStep(p) PROVE LaunchInv'
<1>1. alive' \subseteq alive /\ UNCHANGED <<tracked, child, clean, pc>>
  BY DEF NodeStep, Heartbeat, Opened, ShowQr, Closed, Pair, LoggedOut, StartFailed, Die,
     Append, WriteStatus, fileVars, nodeVars, callerVars
<1> QED BY <1>1, LaunchFrame

\* Once a launch is clean up to its check, nothing is alive: the PID file named all there
\* was, and the check found it dead.
LEMMA CheckLaunch ==
  ASSUME TypeOK, LaunchInv, NEW c \in Caller, CheckRunning(c)
  PROVE  LaunchInv'
<1>1. PICK f \in Reads :
        IF IsRunning(f) THEN AfterLaunch(c) /\ UNCHANGED <<child, clean>>
        ELSE /\ Leave(c, "spawn")
             /\ clean' = (clean /\ \A d \in Caller : ~Launching(d))
  BY DEF CheckRunning
<1>2. UNCHANGED <<alive, tracked>> /\ pc[c] = "check"
  BY DEF CheckRunning, fileVars, nodeVars
<1>3. CASE IsRunning(f)
  <2>1. AfterLaunch(c) /\ UNCHANGED <<child, clean>> BY <1>1, <1>3
  <2>2. \A d \in Caller : Launching(d) \/ pc'[d] \in {"spawn", "record"} => pc'[d] = pc[d]
    BY <1>2, <2>1 DEF AfterLaunch, Goto, Launching, TypeOK
  <2> QED BY <1>2, <2>1, <2>2, LaunchFrame
<1>4. CASE ~IsRunning(f)
  <2>1. Leave(c, "spawn") /\ clean' = (clean /\ \A d \in Caller : ~Launching(d))
    BY <1>1, <1>4
  <2> SUFFICES ASSUME clean' PROVE LaunchInv'
    BY DEF LaunchInv
  <2>2. alive \subseteq {tracked} /\ tracked \notin alive
    BY <1>4, <2>1 DEF LaunchInv, IsRunning
  <2>3. alive' = {} BY <1>2, <2>2
  <2>4. pc' = [pc EXCEPT ![c] = "spawn"] BY <2>1 DEF Leave, Goto
  <2>5. \A d \in Caller : Launching(d)' => d = c
    BY <2>1, <2>4 DEF Launching, TypeOK
  <2> QED BY <2>3, <2>5 DEF LaunchInv
<1> QED BY <1>3, <1>4

LEMMA SpawnLaunch ==
  ASSUME TypeOK, LaunchInv, NEW c \in Caller, Spawn(c)
  PROVE  LaunchInv'
<1>1. PICK p \in Pid \ alive : alive' = alive \cup {p} /\ child' = [child EXCEPT ![c] = p]
  BY DEF Spawn
<1>2. pc' = [pc EXCEPT ![c] = "record"] /\ pc[c] = "spawn" /\ UNCHANGED clean
  BY DEF Spawn, Goto
<1> SUFFICES ASSUME clean PROVE LaunchInv'
  BY <1>2 DEF LaunchInv
<1>3. alive = {} /\ \A d \in Caller : Launching(d) => d = c
  BY <1>2 DEF LaunchInv, Launching
<1>4. alive' \subseteq {child'[c]}
  BY <1>1, <1>3 DEF TypeOK
<1>5. \A d \in Caller : Launching(d)' => d = c
  BY <1>2, <1>3 DEF Launching, TypeOK
<1>6. pc'[c] = "record" BY <1>2 DEF TypeOK
<1> QED BY <1>4, <1>5, <1>6 DEF LaunchInv, Launching

LEMMA RecordLaunch ==
  ASSUME TypeOK, LaunchInv, NEW c \in Caller, RecordPid(c)
  PROVE  LaunchInv'
<1>1. /\ tracked' = child[c] /\ AfterLaunch(c) /\ pc[c] = "record"
      /\ UNCHANGED <<alive, clean>>
  BY DEF RecordPid, nodeVars
<1> SUFFICES ASSUME clean PROVE LaunchInv'
  BY <1>1 DEF LaunchInv
<1>2. alive' \subseteq {tracked'} BY <1>1 DEF LaunchInv
<1>3. \A d \in Caller : Launching(d) => d = c
  BY <1>1 DEF LaunchInv, Launching
<1>4. \A d \in Caller : ~Launching(d)'
  BY <1>1, <1>3 DEF AfterLaunch, Goto, Launching, TypeOK
<1> QED BY <1>2, <1>4 DEF LaunchInv, Launching

\* A launch that gives up before its spawn leaves nothing alive; one that dies after its
\* spawn is not clean.
LEMMA LeaveLaunch ==
  ASSUME TypeOK, LaunchInv, NEW c \in Caller, SpawnFails(c) \/ CallerDies(c)
  PROVE  LaunchInv'
<1>1. UNCHANGED <<alive, tracked>> /\ pc' = [pc EXCEPT ![c] = "idle"]
  BY DEF SpawnFails, CallerDies, Leave, Return, Goto, fileVars, nodeVars
<1>2. \A d \in Caller \ {c} : child'[d] = child[d] /\ pc'[d] = pc[d]
  BY DEF SpawnFails, CallerDies, Leave, Return, Goto, TypeOK
<1>3. clean' => clean /\ pc[c] # "record"
  BY DEF SpawnFails, CallerDies
<1> SUFFICES ASSUME clean' PROVE LaunchInv'
  BY DEF LaunchInv
<1>4. pc'[c] = "idle" BY <1>1 DEF TypeOK
<1>5. ASSUME ~Launching(c) PROVE LaunchInv'
  BY <1>1, <1>2, <1>3, <1>4, <1>5 DEF LaunchInv, Launching
<1>6. ASSUME Launching(c) PROVE LaunchInv'
  <2>1. alive = {} /\ \A d \in Caller : Launching(d) => d = c
    BY <1>3, <1>6 DEF LaunchInv, Launching
  <2>2. \A d \in Caller : ~Launching(d)'
    BY <1>2, <1>4, <2>1 DEF Launching
  <2> QED BY <1>1, <2>1, <2>2 DEF LaunchInv, Launching
<1> QED BY <1>5, <1>6

LEMMA OtherLaunch ==
  ASSUME TypeOK, LaunchInv, NEW c \in Caller,
         \/ SuperviseOnce(c) \/ StartSidecar(c) \/ Preflight(c) \/ EnsureRunning(c)
         \/ Poll(c) \/ Reconnect(c) \/ SettlePoll(c) \/ SettleTimeout(c) \/ ReadBuffer(c)
  PROVE  LaunchInv'
<1>1. UNCHANGED <<alive, tracked, clean>>
  BY DEF SuperviseOnce, StartSidecar, Preflight, EnsureRunning, Poll, Reconnect, SettlePoll,
     SettleTimeout, ReadBuffer, fileVars, nodeVars
<1>2. ~Launching(c)
  BY DEF SuperviseOnce, StartSidecar, Preflight, EnsureRunning, Poll, Reconnect, SettlePoll,
     SettleTimeout, ReadBuffer, Launching
<1>3. PICK l \in Steps \ {"spawn", "record"} : pc' = [pc EXCEPT ![c] = l]
  <2>1. CASE SuperviseOnce(c) \/ StartSidecar(c) \/ EnsureRunning(c) \/ Preflight(c)
    BY <2>1 DEF SuperviseOnce, StartSidecar, EnsureRunning, Preflight, Leave, BeginSettle,
       Goto, Steps
  <2>2. CASE Reconnect(c) \/ SettlePoll(c) \/ SettleTimeout(c) \/ ReadBuffer(c)
    BY <2>2 DEF Reconnect, SettlePoll, SettleTimeout, ReadBuffer, Leave, BeginSettle,
       Return, Goto, Steps
  <2>3. CASE Poll(c)
    <3>1. pc[c] = "poll" /\ (Leave(c, "reconnect") \/ UNCHANGED pc)
      BY <2>3 DEF Poll
    <3> QED BY <3>1 DEF Leave, Goto, Steps, TypeOK
  <2> QED BY <2>1, <2>2, <2>3
<1>4. \A d \in Caller \ {c} : child'[d] = child[d]
  BY DEF SuperviseOnce, StartSidecar, Preflight, EnsureRunning, Poll, Reconnect, SettlePoll,
     SettleTimeout, ReadBuffer, Leave, BeginSettle, Return, TypeOK
<1>5. \A d \in Caller : Launching(d)' <=> Launching(d)
  BY <1>2, <1>3 DEF Launching, TypeOK
<1>6. \A d \in Caller : Launching(d) => pc'[d] = pc[d] /\ child'[d] = child[d]
  BY <1>2, <1>3, <1>4 DEF TypeOK
<1> SUFFICES ASSUME clean PROVE LaunchInv'
  BY <1>1 DEF LaunchInv
<1>7. \A d \in Caller : pc'[d] = "spawn" => alive' = {}
  BY <1>1, <1>5, <1>6 DEF LaunchInv, Launching
<1>8. \A d \in Caller : pc'[d] = "record" => alive' \subseteq {child'[d]}
  BY <1>1, <1>5, <1>6 DEF LaunchInv, Launching
<1> QED BY <1>1, <1>5, <1>7, <1>8 DEF LaunchInv

LEMMA NextLaunch == TypeOK /\ LaunchInv /\ [Next]_vars => LaunchInv'
<1> SUFFICES ASSUME TypeOK, LaunchInv, [Next]_vars PROVE LaunchInv'
  OBVIOUS
<1>1. CASE Tick \/ UNCHANGED vars
  <2>1. UNCHANGED <<alive, tracked, child, clean, pc>>
    BY <1>1 DEF Tick, vars, fileVars, nodeVars, callerVars
  <2> QED BY <2>1, LaunchFrame
<1>2. ASSUME NEW p \in Pid, NodeStep(p) PROVE LaunchInv'
  BY <1>2, NodeLaunch
<1>3. ASSUME NEW c \in Caller,
             SuperviseOnce(c) \/ StartSidecar(c) \/ Preflight(c) \/ PreflightStep(c)
               \/ CallerDies(c)
      PROVE  LaunchInv'
  BY <1>3, CheckLaunch, SpawnLaunch, RecordLaunch, LeaveLaunch, OtherLaunch
     DEF PreflightStep, LaunchStep
<1> QED BY <1>1, <1>2, <1>3 DEF Next

\* Whatever processes hang, boot or die and however many callers there are, launches that
\* do not overlap and are not cut short never leave two sidecars behind.
THEOREM CleanLaunches == Spec => []CleanLaunchesKeepOne
<1>1. Init => IInv BY InitIInv
<1>2. IInv /\ [Next]_vars => IInv'
  BY NextType, NextLaunch DEF IInv
<1>3. IInv => CleanLaunchesKeepOne
  <2> SUFFICES ASSUME LaunchInv, clean, NEW p \in alive, NEW q \in alive PROVE p = q
    BY DEF IInv, CleanLaunchesKeepOne
  <2>1. CASE \A c \in Caller : ~Launching(c)
    BY <2>1 DEF LaunchInv
  <2>2. CASE \E c \in Caller : Launching(c)
    BY <2>2 DEF LaunchInv, Launching
  <2> QED BY <2>1, <2>2
<1> QED BY <1>1, <1>2, <1>3, PTL DEF Spec

-----------------------------------------------------------------------------
(* The settle time. *)

\* A preflight counts no more quiet polls than there were since the last append, unless
\* an append is still to be noticed.
SettleInv == \A c \in Caller : pc[c] = "settle" /\ ~grew[c] => quiet[c] <= still[c]

LEMMA NodeSettle == ASSUME TypeOK, SettleInv, NEW p \in Pid, NodeStep(p) PROVE SettleInv'
<1>1. CASE Append(p)
  <2>1. UNCHANGED pc /\ \A c \in Caller : grew'[c] = (pc[c] = "settle")
    BY <1>1 DEF Append
  <2> QED BY <2>1 DEF SettleInv
<1>2. CASE UNCHANGED <<pc, grew, quiet, still>>
  BY <1>2 DEF SettleInv
<1>3. Append(p) \/ UNCHANGED <<pc, grew, quiet, still>>
  BY DEF NodeStep, Heartbeat, Opened, ShowQr, Closed, Pair, LoggedOut, StartFailed, Die,
     callerVars, settleVars
<1> QED BY <1>1, <1>2, <1>3

LEMMA PollSettle ==
  ASSUME TypeOK, SettleInv, NEW c \in Caller, SettlePoll(c)
  PROVE  /\ SettleInv'
         /\ pc'[c] = "settled" => still'[c] >= Settle
<1>1. /\ pc[c] = "settle"
      /\ quiet' = [quiet EXCEPT ![c] = Quiet(c)]
      /\ grew' = [grew EXCEPT ![c] = FALSE]
      /\ still' = [still EXCEPT ![c] = still[c] + 1]
      /\ pc' = [pc EXCEPT ![c] = IF Quiet(c) >= Settle THEN "settled" ELSE "settle"]
  BY DEF SettlePoll, Goto
<1>2. quiet[c] \in Nat /\ still[c] \in Nat
  BY DEF TypeOK
<1>3. Quiet(c) <= still[c] + 1 /\ Quiet(c) \in Nat
  <2>1. CASE grew[c] BY <1>2, <2>1 DEF Quiet
  <2>2. CASE ~grew[c] BY <1>1, <1>2, <2>2 DEF Quiet, SettleInv
  <2> QED BY <2>1, <2>2
<1>4. quiet'[c] = Quiet(c) /\ still'[c] = still[c] + 1
  BY <1>1 DEF TypeOK
<1>5. \A d \in Caller \ {c} : pc'[d] = pc[d] /\ UNCHANGED <<grew[d], quiet[d], still[d]>>
  BY <1>1 DEF TypeOK
<1>6. SettleInv'
  BY <1>3, <1>4, <1>5 DEF SettleInv
<1>7. pc'[c] = "settled" => Quiet(c) >= Settle
  BY <1>1 DEF TypeOK
<1> QED BY <1>2, <1>3, <1>4, <1>6, <1>7

LEMMA CallerSettle ==
  ASSUME TypeOK, SettleInv, NEW c \in Caller,
         \/ SuperviseOnce(c) \/ StartSidecar(c) \/ Preflight(c) \/ CallerDies(c)
         \/ EnsureRunning(c) \/ LaunchStep(c) \/ Poll(c) \/ Reconnect(c)
         \/ SettleTimeout(c) \/ ReadBuffer(c)
  PROVE  SettleInv' /\ pc'[c] # "settled"
<1>1. \/ \E l \in Steps \ {"settle", "settled"} : Leave(c, l)
      \/ Return(c) \/ BeginSettle(c) \/ AfterLaunch(c)
      \/ Goto(c, "record") /\ UNCHANGED settleVars
      \/ pc[c] = "poll" /\ UNCHANGED <<pc, settleVars>>
  <2>1. CASE SuperviseOnce(c) \/ StartSidecar(c) \/ Preflight(c) \/ EnsureRunning(c)
    BY <2>1 DEF SuperviseOnce, StartSidecar, Preflight, EnsureRunning, Steps
  <2>2. CASE LaunchStep(c)
    BY <2>2 DEF LaunchStep, CheckRunning, Spawn, SpawnFails, RecordPid, Steps
  <2>3. CASE Poll(c)
    BY <2>3 DEF Poll, Steps
  <2>4. CASE Reconnect(c) \/ SettleTimeout(c) \/ ReadBuffer(c) \/ CallerDies(c)
    BY <2>4 DEF Reconnect, SettleTimeout, ReadBuffer, CallerDies, Steps
  <2> QED BY <2>1, <2>2, <2>3, <2>4
<1>2. \/ /\ pc'[c] \notin {"settle", "settled"}
         /\ \A d \in Caller \ {c} : UNCHANGED <<pc[d], grew[d], quiet[d], still[d]>>
      \/ /\ pc'[c] = "settle" /\ quiet'[c] = 0 /\ still'[c] = 0
         /\ \A d \in Caller \ {c} : UNCHANGED <<pc[d], grew[d], quiet[d], still[d]>>
  <2>1. CASE BeginSettle(c) BY <2>1 DEF BeginSettle, Goto, TypeOK
  <2>2. CASE Return(c) BY <2>2 DEF Return, Goto, TypeOK
  <2>3. CASE AfterLaunch(c) BY <2>3 DEF AfterLaunch, Goto, settleVars, TypeOK
  <2>4. CASE \E l \in Steps \ {"settle", "settled"} : Leave(c, l)
    BY <2>4 DEF Leave, Goto, settleVars, TypeOK
  <2>5. CASE Goto(c, "record") /\ UNCHANGED settleVars
    BY <2>5 DEF Goto, settleVars, TypeOK
  <2>6. CASE pc[c] = "poll" /\ UNCHANGED <<pc, settleVars>>
    BY <2>6 DEF settleVars
  <2> QED BY <1>1, <2>1, <2>2, <2>3, <2>4, <2>5, <2>6
<1>3. SettleInv'
  BY <1>2 DEF SettleInv
<1> QED BY <1>2, <1>3

\* Each step keeps SettleInv, and whoever finds the buffer settled has polled it Settle
\* times since the last append.
LEMMA NextSettle ==
  ASSUME TypeOK, SettleInv, [Next]_vars
  PROVE  /\ SettleInv'
         /\ \A c \in Caller : pc[c] = "settle" /\ pc'[c] = "settled" => still'[c] >= Settle
<1>1. CASE Tick \/ UNCHANGED vars
  <2>1. UNCHANGED <<pc, grew, quiet, still>>
    BY <1>1 DEF Tick, vars, callerVars, settleVars
  <2> QED BY <2>1 DEF SettleInv
<1>2. ASSUME NEW p \in Pid, NodeStep(p)
      PROVE  /\ SettleInv'
             /\ \A c \in Caller : pc[c] = "settle" /\ pc'[c] = "settled" => still'[c] >= Settle
  <2>1. UNCHANGED pc
    BY <1>2 DEF NodeStep, Heartbeat, Opened, ShowQr, Closed, Pair, LoggedOut, StartFailed,
       Die, Append, callerVars
  <2> QED BY <1>2, <2>1, NodeSettle
<1>3. ASSUME NEW c \in Caller,
             SuperviseOnce(c) \/ StartSidecar(c) \/ Preflight(c) \/ PreflightStep(c)
               \/ CallerDies(c)
      PROVE  /\ SettleInv'
             /\ \A d \in Caller : pc[d] = "settle" /\ pc'[d] = "settled" => still'[d] >= Settle
  <2>1. \A d \in Caller \ {c} : pc'[d] = pc[d]
    BY <1>3 DEF SuperviseOnce, StartSidecar, Preflight, PreflightStep, EnsureRunning,
       LaunchStep, CheckRunning, Spawn, SpawnFails, RecordPid, Poll, Reconnect, SettlePoll,
       SettleTimeout, ReadBuffer, CallerDies, Leave, Return, BeginSettle, AfterLaunch, Goto,
       TypeOK
  <2>2. SettleInv' /\ (pc'[c] = "settled" => still'[c] >= Settle)
    BY <1>3, PollSettle, CallerSettle DEF PreflightStep
  <2> QED BY <2>1, <2>2
<1> QED BY <1>1, <1>2, <1>3 DEF Next

\* A buffer is reported as settled only after Settle polls without an append, whatever
\* else the sidecars and the other callers do meanwhile.
THEOREM SettledAfterQuiet == Spec => SettledIsQuiet
<1>1. Init => TypeOK /\ SettleInv
  BY InitIInv DEF IInv, Init, SettleInv
<1>2. TypeOK /\ SettleInv /\ [Next]_vars => (TypeOK /\ SettleInv)'
  BY NextType, NextSettle
<1>3. TypeOK /\ SettleInv /\ [Next]_vars =>
        [\A c \in Caller :
           pc[c] = "settle" /\ pc'[c] = "settled" => still'[c] >= Settle]_vars
  BY NextSettle
<1> QED BY <1>1, <1>2, <1>3, PTL DEF Spec, SettledIsQuiet
=============================================================================
