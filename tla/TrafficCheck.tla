---------------------------- MODULE TrafficCheck ----------------------------
(***************************************************************************)
(* The traffic check: every live fire of it that its cadence lets through  *)
(* prices the legs of the coming hours and tells the family about a delay, *)
(* a hop that cannot be made, or that it is time to leave.  What was told  *)
(* is remembered in an append-only log that the next check reads when it   *)
(* begins.  Fires are processes of their own and may overlap or die.       *)
(***************************************************************************)
EXTENDS Integers, FiniteSets

CONSTANTS
  Leg,          \* the commutes in the calendars: a person and an event
  KeyOf,        \* [Leg -> key]: the person and the folded title of the event
  GroupOf,      \* [Leg -> group]: the title and the start of the event
  StartOf,      \* [Leg -> time]
  OriginEnd,    \* [Leg -> time]: when the event it is chained off ends, or Never
  Train,        \* the legs with a train in their title
  Never,
  Fire,         \* 1 .. n: bound on the fires of the job
  LastTick,     \* bound: the last value of the clock
  Quiet,        \* the times in quiet hours
  DriveTime,    \* what a drive may take
  Lookahead, Configured, Cadence, Margin

ASSUME LegAssumption == /\ StartOf \in [Leg -> Nat] /\ Never \notin Nat
                        /\ OriginEnd \in [Leg -> Nat \cup {Never}] /\ Train \subseteq Leg
ASSUME WindowAssumption == /\ LastTick \in Nat /\ Lookahead \in Nat /\ Configured \in Nat
                           /\ Cadence \in Nat /\ Margin \in Nat

VARIABLES
  clock,
  alertLog,  \* traffic_alerts.jsonl: a set of [key, ts]
  lastLive,  \* started_at of the newest live row, or Never
  phase,     \* where the process of a fire is
  dry, at,   \* of a fire: a dry run; its now
  recent,    \* the keys it holds as told already
  todo,      \* the legs it has not checked
  pending,   \* its leave-now candidates
  outbox,    \* what it has delivered and not yet recorded: [leg, kind]
  told       \* history: what the family was told, and which fires had read the
             \* log before it was recorded: [leg, kind, by, unaware]

trafficVars == <<clock, alertLog, lastLive, phase, dry, at, recent, todo, pending, outbox, told>>

Kinds == {"delay", "leave"}
AlertKey(l, kind) == <<KeyOf[l], kind>>
AlertKeys == {AlertKey(l, kind) : l \in Leg, kind \in Kinds}
Phases == {"none", "row", "begin", "legs", "send", "note", "over"}

TrafficTypeOK ==
  /\ clock \in 0 .. LastTick
  /\ alertLog \subseteq [key : AlertKeys, ts : 0 .. LastTick]
  /\ lastLive \in 0 .. LastTick \cup {Never}
  /\ phase \in [Fire -> Phases]
  /\ dry \in [Fire -> BOOLEAN] /\ at \in [Fire -> 0 .. LastTick]
  /\ recent \in [Fire -> SUBSET AlertKeys]
  /\ todo \in [Fire -> SUBSET Leg] /\ pending \in [Fire -> SUBSET Leg]
  /\ outbox \in [Fire -> SUBSET [leg : Leg, kind : Kinds]]
  /\ told \subseteq [leg : Leg, kind : Kinds, by : Fire, unaware : SUBSET Fire]

TrafficInit ==
  /\ clock = 0 /\ alertLog = {} /\ lastLive = Never
  /\ phase = [f \in Fire |-> "none"]
  /\ dry = [f \in Fire |-> FALSE] /\ at = [f \in Fire |-> 0]
  /\ recent = [f \in Fire |-> {}] /\ todo = [f \in Fire |-> {}]
  /\ pending = [f \in Fire |-> {}] /\ outbox = [f \in Fire |-> {}]
  /\ told = {}

-----------------------------------------------------------------------------
(* What a check computes. *)

\* Mutant: the window is the configured one.
WindowConfigured == Configured
\* effective_dedup_window_min
Window == IF Configured > Lookahead THEN Configured ELSE Lookahead

\* recent_keys
RecentKeys(t) == {r.key : r \in {x \in alertLog : x.ts >= t - Window}}

\* upcoming_commutes
UpcomingCommutes(t) == {l \in Leg : StartOf[l] >= t /\ StartOf[l] <= t + Lookahead}

\* The departure a leg is priced for, given whether its person has a live fix.
DepartureAnchor(l, live, t) ==
  IF live \/ (OriginEnd[l] # Never /\ OriginEnd[l] <= t) THEN Never  \* depart now
  ELSE IF OriginEnd[l] # Never THEN OriginEnd[l] ELSE StartOf[l]

\* No time in the past is sent to Routes.
Priceable(l, live, t) == LET a == DepartureAnchor(l, live, t) IN a # Never => a > t

Infeasible(l, live, drive) ==
  /\ ~live /\ OriginEnd[l] # Never /\ l \notin Train
  /\ drive > StartOf[l] - OriginEnd[l]

LeaveNow(l, live, drive, t) ==
  live /\ l \notin Train /\ StartOf[l] - t - drive - Margin <= 0

\* The legs in the order of the calendars, which is fixed.
NextLeg(f) == CHOOSE l \in todo[f] : TRUE
NextGroup(f) == LET l == CHOOSE m \in pending[f] : TRUE
                IN {m \in pending[f] : GroupOf[m] = GroupOf[l]}

\* The fires that have read the log (one that is over tells nothing any more).
Readers == {f \in Fire : phase[f] \notin {"none", "row", "begin"}}

-----------------------------------------------------------------------------
(* A fire. *)

\* The cadence self-skip reads the newest live row; the row of this fire is
\* opened later.
FireJob(f) ==
  /\ phase[f] = "none" /\ \A g \in Fire : g < f => phase[g] # "none"
  /\ \E d \in BOOLEAN : dry' = [dry EXCEPT ![f] = d]
  /\ at' = [at EXCEPT ![f] = clock]
  /\ phase' = [phase EXCEPT ![f] =
       IF ~dry'[f] /\ lastLive # Never /\ clock - lastLive < Cadence THEN "over" ELSE "row"]
  /\ UNCHANGED <<clock, alertLog, lastLive, recent, todo, pending, outbox, told>>

OpenRunRow(f) ==
  /\ phase[f] = "row"
  /\ lastLive' = IF dry[f] THEN lastLive ELSE clock
  /\ phase' = [phase EXCEPT ![f] = "begin"]
  /\ UNCHANGED <<clock, alertLog, dry, at, recent, todo, pending, outbox, told>>

\* Quiet hours, or the calendars cannot be read: nothing is checked.
CheckNothing(f) ==
  /\ phase[f] = "begin"
  /\ phase' = [phase EXCEPT ![f] = "over"]
  /\ UNCHANGED <<clock, alertLog, lastLive, dry, at, recent, todo, pending, outbox, told>>

BeginCheck(f) ==
  /\ phase[f] = "begin" /\ at[f] \notin Quiet
  /\ todo' = [todo EXCEPT ![f] = UpcomingCommutes(at[f])]
  /\ recent' = [recent EXCEPT ![f] = RecentKeys(at[f])]
  /\ phase' = [phase EXCEPT ![f] = "legs"]
  /\ UNCHANGED <<clock, alertLog, lastLive, dry, at, pending, outbox, told>>

\* A leg is not priced: its departure has passed, or Routes does not answer.
SkipLeg(f) ==
  /\ phase[f] = "legs" /\ todo[f] # {}
  /\ todo' = [todo EXCEPT ![f] = @ \ {NextLeg(f)}]
  /\ UNCHANGED <<clock, alertLog, lastLive, phase, dry, at, recent, pending, outbox, told>>

\* check_leg on a priced leg: it may have to be told now, or with its group
\* once every leg is checked.  An alert of a dry run goes nowhere.
PriceLeg(f) ==
  /\ phase[f] = "legs" /\ todo[f] # {}
  /\ \E live, jam \in BOOLEAN, drive \in DriveTime :
       LET l == NextLeg(f)
           alert == /\ jam \/ Infeasible(l, live, drive)
                    /\ AlertKey(l, "delay") \notin recent[f] /\ ~dry[f]
           leave == /\ LeaveNow(l, live, drive, at[f])
                    /\ AlertKey(l, "leave") \notin recent[f] /\ ~dry[f]
       IN /\ Priceable(l, live, at[f])
          /\ pending' = [pending EXCEPT ![f] = IF leave THEN @ \cup {l} ELSE @]
          /\ phase' = [phase EXCEPT ![f] = IF alert THEN "send" ELSE "legs"]
          /\ todo' = [todo EXCEPT ![f] = IF alert THEN @ ELSE @ \ {l}]
  /\ UNCHANGED <<clock, alertLog, lastLive, dry, at, recent, outbox, told>>

Tell(f, legs, kind) ==
  told' = told \cup [leg : legs, kind : {kind}, by : {f}, unaware : {Fire}]
Deliver(f, legs, kind) ==
  outbox' = [outbox EXCEPT ![f] = [leg : legs, kind : {kind}]]

\* Mutant: the key of an alert that was not sent is recorded too.
SettleAnyway(f, legs, kind, sent) == Deliver(f, legs, kind)
\* Only what was sent is to be recorded.
Settle(f, legs, kind, sent) ==
  IF sent THEN Deliver(f, legs, kind) ELSE UNCHANGED outbox

\* The send of an alert: it arrives or not, and its answer with it or not.
Send(f, legs, kind) ==
  \E sent, arrived \in BOOLEAN :
    /\ sent => arrived
    /\ IF arrived THEN Tell(f, legs, kind) ELSE UNCHANGED told
    /\ Settle(f, legs, kind, sent)

SendDelayAlert(f) ==
  /\ phase[f] = "send"
  /\ Send(f, {NextLeg(f)}, "delay")
  /\ todo' = [todo EXCEPT ![f] = @ \ {NextLeg(f)}]
  /\ phase' = [phase EXCEPT ![f] = IF outbox'[f] = {} THEN "legs" ELSE "note"]
  /\ UNCHANGED <<clock, alertLog, lastLive, dry, at, recent, pending>>

\* One merged message for the people of an event.
FlushLeaveNow(f) ==
  /\ phase[f] = "legs" /\ todo[f] = {} /\ pending[f] # {}
  /\ Send(f, NextGroup(f), "leave")
  /\ pending' = [pending EXCEPT ![f] = @ \ NextGroup(f)]
  /\ phase' = [phase EXCEPT ![f] = IF outbox'[f] = {} THEN "legs" ELSE "note"]
  /\ UNCHANGED <<clock, alertLog, lastLive, dry, at, recent, todo>>

\* record_alert, one line at a time.
RecordAlert(f) ==
  /\ phase[f] = "note"
  /\ \E d \in outbox[f] :
       LET k == AlertKey(d.leg, d.kind) IN
       /\ alertLog' = alertLog \cup {[key |-> k, ts |-> at[f]]}
       /\ recent' = [recent EXCEPT ![f] = @ \cup {k}]
       /\ outbox' = [outbox EXCEPT ![f] = @ \ {d}]
       /\ told' = {IF t.leg = d.leg /\ t.kind = d.kind /\ t.by = f /\ t.unaware = Fire
                   THEN [t EXCEPT !.unaware = Readers] ELSE t : t \in told}
       /\ phase' = [phase EXCEPT ![f] = IF outbox[f] = {d} THEN "legs" ELSE "note"]
  /\ UNCHANGED <<clock, lastLive, dry, at, todo, pending>>

\* What a process held is gone with it.
Forget(f) ==
  /\ recent' = [recent EXCEPT ![f] = {}] /\ todo' = [todo EXCEPT ![f] = {}]
  /\ pending' = [pending EXCEPT ![f] = {}] /\ outbox' = [outbox EXCEPT ![f] = {}]
  /\ dry' = [dry EXCEPT ![f] = FALSE] /\ at' = [at EXCEPT ![f] = 0]

FinishCheck(f) ==
  /\ phase[f] = "legs" /\ todo[f] = {} /\ pending[f] = {}
  /\ phase' = [phase EXCEPT ![f] = "over"]
  /\ Forget(f)
  /\ UNCHANGED <<clock, alertLog, lastLive, told>>

\* The Job's timeout, a reboot, or an error nobody expected.
KillCheck(f) ==
  /\ phase[f] \in {"row", "begin", "legs", "send", "note"}
  /\ phase' = [phase EXCEPT ![f] = "over"]
  /\ Forget(f)
  /\ UNCHANGED <<clock, alertLog, lastLive, told>>

TickClock ==
  /\ clock < LastTick /\ clock' = clock + 1
  /\ UNCHANGED <<alertLog, lastLive, phase, dry, at, recent, todo, pending, outbox, told>>

TrafficNext ==
  \/ \E f \in Fire : \/ FireJob(f) \/ OpenRunRow(f) \/ CheckNothing(f) \/ BeginCheck(f)
                     \/ SkipLeg(f) \/ PriceLeg(f) \/ SendDelayAlert(f)
                     \/ FlushLeaveNow(f) \/ RecordAlert(f)
                     \/ FinishCheck(f) \/ KillCheck(f)
  \/ TickClock

TrafficSpec == TrafficInit /\ [][TrafficNext]_trafficVars

-----------------------------------------------------------------------------
(* Properties. *)

\* One approach to one event earns one alert: the family is told the same of a
\* leg twice only if the second check read the log before the first alert was
\* in it -- the checks overlapped, the first died before it recorded, or the
\* answer to its message was lost.
AlertedOnce ==
  \A s, t \in told :
    (s.leg = t.leg /\ s.kind = t.kind /\ s.by # t.by) => t.by \in s.unaware

\* Nothing is held back for an alert nobody received: each line of the log is
\* that of a message that arrived.
LoggedWasTold ==
  \A r \in alertLog : \E t \in told : AlertKey(t.leg, t.kind) = r.key
=============================================================================
