---------------------------- MODULE ScanEffects ----------------------------
(***************************************************************************)
(* What a scan does outside the database besides its digest: the weekly    *)
(* nudge about chats nobody monitors, and the calendar reminder of a       *)
(* routine item.  Each is a read of what was done, a call to a service and *)
(* a note that it was made, in three steps; scans may overlap, die, and    *)
(* analyse a delta again.                                                  *)
(***************************************************************************)
EXTENDS Naturals

CONSTANTS
  Scan,      \* 1 .. n: bound on the scans; a scan's number is its run id
  Evidence,  \* the sets of message ids a verdict may cite
  NoEvidence,
  NudgeGap,  \* nudge_cadence_days
  LastDay,   \* bound: the last day
  Unset

ASSUME EffectAssumption == /\ NudgeGap \in Nat /\ LastDay \in Nat
                           /\ Unset \notin Nat /\ Unset \notin Evidence

VARIABLES
  day,
  stage,      \* where a process is
  hits,       \* the chats nobody monitors hold a message that trips
  held,       \* the delta it analyses is still in front of the cursor
  verdict,    \* the evidence of the item it persisted, or Unset
  eventId,    \* the item carries the id of a calendar event
  calendar,   \* the events: [evidence, by, unaware], unaware: the scans that
              \* had looked for one before its id was stored
  lastNudge,  \* tripwire_nudge_state
  nudgeNow,   \* the day a scan reads for its nudge
  nudges      \* history: the nudges that arrived: [day, by, unaware], unaware: the
              \* scans that read the state before it told of the nudge

reminderVars == <<held, verdict, eventId, calendar>>
nudgeVars    == <<hits, lastNudge, nudgeNow, nudges>>
effectVars   == <<day, stage, reminderVars, nudgeVars>>

Stages == {"none", "nudge", "mark", "analyse", "look", "insert", "store", "advance",
           "done", "raised", "dead"}

EffectTypeOK ==
  /\ day \in 0 .. LastDay
  /\ stage \in [Scan -> Stages]
  /\ hits \in BOOLEAN /\ held \in BOOLEAN
  /\ verdict \in [Scan -> Evidence \cup {Unset}]
  /\ eventId \in [Scan -> BOOLEAN]
  /\ calendar \subseteq [evidence : Evidence, by : Scan, unaware : SUBSET Scan]
  /\ lastNudge \in 0 .. LastDay \cup {Unset}
  /\ nudgeNow \in [Scan -> 0 .. LastDay]
  /\ nudges \subseteq [day : 0 .. LastDay, by : Scan, unaware : SUBSET Scan]
  /\ \A s \in Scan : stage[s] \in {"look", "insert"} => verdict[s] # Unset

EffectInit ==
  /\ day = 0 /\ stage = [p \in Scan |-> "none"]
  /\ hits \in BOOLEAN /\ held \in BOOLEAN /\ verdict = [s \in Scan |-> Unset]
  /\ eventId = [s \in Scan |-> FALSE] /\ calendar = {}
  /\ lastNudge = Unset /\ nudgeNow = [s \in Scan |-> 0] /\ nudges = {}

Goto(p, s) == stage' = [stage EXCEPT ![p] = s]

\* A call of the Bot API: what it says, and whether the message arrived.  An
\* answer that is cut off or late is an error urllib does not wrap.
Answer == {"ok", "failed", "raised"}
Call(says, arrived) == says \in Answer /\ arrived \in BOOLEAN /\ (says = "ok" => arrived)

-----------------------------------------------------------------------------
(* The nudge. *)

StartScan(s) ==
  /\ stage[s] = "none" /\ \A r \in Scan : r < s => stage[r] # "none"
  /\ Goto(s, "nudge")
  /\ UNCHANGED <<day, reminderVars, nudgeVars>>

Nudged == {s \in Scan : stage[s] \notin {"none", "nudge"}}

\* Mutant: when the last nudge was sent is not looked at.
NudgeDueAlways == TRUE
NudgeDue == lastNudge # Unset => day - lastNudge >= NudgeGap

\* _run_tripwire up to the send: no hits, not due, or a message.
RunTripwire(s) ==
  /\ stage[s] = "nudge"
  /\ nudgeNow' = [nudgeNow EXCEPT ![s] = day]
  /\ \/ /\ Goto(s, "analyse") /\ UNCHANGED nudges
     \/ /\ hits /\ NudgeDue
        /\ \E says \in Answer, arrived \in BOOLEAN :
             /\ Call(says, arrived)
             /\ nudges' = IF arrived THEN nudges \cup {[day |-> day, by |-> s, unaware |-> Scan]} ELSE nudges
             /\ Goto(s, CASE says = "ok" -> "mark" [] says = "failed" -> "analyse"
                          [] says = "raised" -> "raised")
  /\ UNCHANGED <<day, hits, lastNudge, reminderVars>>

\* mark_tripwire_nudge_sent.  A scan that read the day earlier than one that has
\* marked puts the state back.
MarkNudge(s) ==
  /\ stage[s] = "mark"
  /\ lastNudge' = nudgeNow[s]
  /\ nudges' = {IF n.by = s THEN [n EXCEPT !.unaware = Nudged]
                ELSE IF n.day > nudgeNow[s] THEN [n EXCEPT !.unaware = Scan] ELSE n : n \in nudges}
  /\ Goto(s, "analyse")
  /\ UNCHANGED <<day, hits, nudgeNow, reminderVars>>

-----------------------------------------------------------------------------
(* The reminder. *)

\* The delta is analysed and its item persisted; the model may cite another
\* evidence than it did before.  An item that is not routine gets no reminder.
Analyse(s) ==
  /\ stage[s] = "analyse"
  /\ IF held
     THEN /\ \E e \in Evidence : verdict' = [verdict EXCEPT ![s] = e]
          /\ stage' \in {[stage EXCEPT ![s] = "look"], [stage EXCEPT ![s] = "advance"]}
     ELSE Goto(s, "done") /\ UNCHANGED verdict
  /\ UNCHANGED <<day, held, eventId, calendar, nudgeVars>>

\* Mutant: prior events are looked for in the run itself.
PriorEventOfRun(s) == eventId[s]
\* find_calendar_event_for_evidence; nothing matches the empty evidence.
PriorEvent(s) ==
  verdict[s] # NoEvidence /\ \E r \in Scan : eventId[r] /\ verdict[r] = verdict[s]

LookForEvent(s) ==
  /\ stage[s] = "look"
  /\ eventId' = [eventId EXCEPT ![s] = PriorEvent(s)]
  /\ Goto(s, IF PriorEvent(s) THEN "advance" ELSE "insert")
  /\ UNCHANGED <<day, held, verdict, calendar, nudgeVars>>

\* insert_event: any failure leaves the item without an event, whether or not
\* Google made one.
InsertEvent(s) ==
  /\ stage[s] = "insert"
  /\ \E made, answered \in BOOLEAN :
       /\ answered => made
       /\ calendar' = IF made THEN calendar \cup {[evidence |-> verdict[s], by |-> s, unaware |-> Scan]}
                      ELSE calendar
       /\ Goto(s, IF answered THEN "store" ELSE "advance")
  /\ UNCHANGED <<day, held, verdict, eventId, nudgeVars>>

Looked == {s \in Scan : stage[s] \notin {"none", "nudge", "mark", "analyse", "look"}}

\* set_calendar_event_id
StoreEventId(s) ==
  /\ stage[s] = "store"
  /\ eventId' = [eventId EXCEPT ![s] = TRUE]
  /\ calendar' = {IF c.by = s THEN [c EXCEPT !.unaware = Looked] ELSE c : c \in calendar}
  /\ Goto(s, "advance")
  /\ UNCHANGED <<day, held, verdict, nudgeVars>>

AdvanceCursor(s) ==
  /\ stage[s] = "advance"
  /\ held' = FALSE
  /\ Goto(s, "done")
  /\ UNCHANGED <<day, verdict, eventId, calendar, nudgeVars>>

-----------------------------------------------------------------------------

Kill(s) ==
  /\ stage[s] \notin {"none", "done", "raised", "dead"}
  /\ Goto(s, "dead")
  /\ UNCHANGED <<day, reminderVars, nudgeVars>>

NextDay ==
  /\ day < LastDay /\ day' = day + 1
  /\ UNCHANGED <<stage, reminderVars, nudgeVars>>

EffectNext ==
  \/ \E s \in Scan : \/ StartScan(s) \/ RunTripwire(s) \/ MarkNudge(s) \/ Analyse(s)
                     \/ LookForEvent(s) \/ InsertEvent(s) \/ StoreEventId(s) \/ AdvanceCursor(s) \/ Kill(s)
  \/ NextDay

EffectSpec == EffectInit /\ [][EffectNext]_effectVars

-----------------------------------------------------------------------------
(* Properties. *)

\* The same evidence mints a second event only if the second scan looked before
\* the first event's id was on its item: the scans overlapped, the first died in
\* between, or Google's answer was lost.
OneEventPerEvidence ==
  \A c, d \in calendar :
    (c.evidence = d.evidence /\ c.evidence # NoEvidence /\ c.by # d.by) => d.by \in c.unaware

\* Two nudges within the cadence come only of scans that had both read the state
\* before it said so: the scans overlapped, the first died before it wrote it,
\* the answer to its message was lost, or an overlapping scan put it back.
NudgesSpaced ==
  \A m, n \in nudges : (m.by # n.by /\ m.day <= n.day /\ n.day - m.day < NudgeGap)
                         => n.by \in m.unaware /\ m.by \in n.unaware
=============================================================================
