---------------------------- MODULE EffectsProofs ----------------------------
(***************************************************************************)
(* Proofs about what a run tells the outside world: the nudge and the      *)
(* calendar reminder of a scan (ScanEffects) and the alerts of the traffic *)
(* check (TrafficCheck), for any number of runs.  Each is done again only  *)
(* by a run that looked before the other's note was written; the proofs    *)
(* relate who has looked to what is on record.                             *)
(***************************************************************************)
EXTENDS ScanEffects, TrafficCheck, TLAPS

Nudges == [day : 0 .. LastDay, by : Scan, unaware : SUBSET Scan]
Events == [evidence : Evidence, by : Scan, unaware : SUBSET Scan]

\* A nudge is of the day its scan read, and once some scan is aware of it the state is at
\* least as late as the nudge.
NudgeInv ==
  \A n \in nudges :
    /\ n.by \in Nudged /\ n.day = nudgeNow[n.by] /\ n.day <= day
    /\ n.unaware # Scan => lastNudge # Unset /\ lastNudge >= n.day

\* An event carries the evidence of its scan's item, and once some scan is aware of it its id
\* is on that item; a scan that is about to insert looked before that.
ReminderInv ==
  /\ \A c \in calendar : /\ c.by \in Looked /\ c.evidence = verdict[c.by]
                         /\ c.unaware # Scan => eventId[c.by]
  /\ \A s \in Scan : stage[s] = "insert" /\ verdict[s] # NoEvidence =>
       \A c \in calendar : c.evidence = verdict[s] /\ c.by # s => s \in c.unaware

EffectInv == EffectTypeOK /\ NudgeInv /\ NudgesSpaced /\ ReminderInv /\ OneEventPerEvidence

USE EffectAssumption

LEMMA EffectInitInv == EffectInit => EffectInv
<1> SUFFICES ASSUME EffectInit PROVE EffectInv
  OBVIOUS
<1>1. EffectTypeOK
  BY DEF EffectInit, EffectTypeOK, Stages, reminderVars
<1>2. NudgeInv /\ NudgesSpaced /\ ReminderInv /\ OneEventPerEvidence
  BY DEF EffectInit, NudgeInv, NudgesSpaced, ReminderInv, OneEventPerEvidence
<1> QED
  BY <1>1, <1>2 DEF EffectInv

-----------------------------------------------------------------------------
(* Types, and where a step leaves a scan. *)

ScanStep(s) == \/ StartScan(s) \/ RunTripwire(s) \/ MarkNudge(s) \/ Analyse(s)
               \/ LookForEvent(s) \/ InsertEvent(s) \/ StoreEventId(s) \/ AdvanceCursor(s) \/ Kill(s)

\* A step moves one scan, and a scan that has read the state or looked for events stays one
\* that has; none is at its insert that has not just looked.
LEMMA Progress ==
  ASSUME EffectTypeOK, NEW s \in Scan, ScanStep(s)
  PROVE  /\ stage' \in [Scan -> Stages]
         /\ \A r \in Scan : r # s => stage'[r] = stage[r]
         /\ Nudged \subseteq Nudged' /\ Looked \subseteq Looked'
         /\ stage'[s] = "insert" => LookForEvent(s)
<1> DEFINE Goal == /\ stage' \in [Scan -> Stages]
                   /\ \A r \in Scan : r # s => stage'[r] = stage[r]
                   /\ Nudged \subseteq Nudged' /\ Looked \subseteq Looked'
                   /\ stage'[s] = "insert" => LookForEvent(s)
<1> USE DEF EffectTypeOK, Goto, Nudged, Looked, Stages
<1>1. ASSUME StartScan(s) PROVE Goal
  BY <1>1 DEF StartScan
<1>2. ASSUME RunTripwire(s) PROVE Goal
  <2>1. /\ stage[s] = "nudge"
        /\ \/ stage' = [stage EXCEPT ![s] = "analyse"]
           \/ stage' = [stage EXCEPT ![s] = "mark"]
           \/ stage' = [stage EXCEPT ![s] = "raised"]
    BY <1>2 DEF RunTripwire, Answer
  <2>2. CASE stage' = [stage EXCEPT ![s] = "analyse"]
    BY <2>1, <2>2
  <2>3. CASE stage' = [stage EXCEPT ![s] = "mark"]
    BY <2>1, <2>3
  <2>4. CASE stage' = [stage EXCEPT ![s] = "raised"]
    BY <2>1, <2>4
  <2> QED
    BY <2>1, <2>2, <2>3, <2>4
<1>3. ASSUME MarkNudge(s) PROVE Goal
  BY <1>3 DEF MarkNudge
<1>4. ASSUME Analyse(s) PROVE Goal
  <2>1. /\ stage[s] = "analyse"
        /\ \/ stage' = [stage EXCEPT ![s] = "look"]
           \/ stage' = [stage EXCEPT ![s] = "advance"]
           \/ stage' = [stage EXCEPT ![s] = "done"]
    BY <1>4 DEF Analyse
  <2> QED
    BY <2>1
<1>5. ASSUME LookForEvent(s) PROVE Goal
  BY <1>5 DEF LookForEvent
<1>6. ASSUME InsertEvent(s) PROVE Goal
  <2>1. /\ stage[s] = "insert"
        /\ \/ stage' = [stage EXCEPT ![s] = "store"]
           \/ stage' = [stage EXCEPT ![s] = "advance"]
    BY <1>6 DEF InsertEvent
  <2> QED
    BY <2>1
<1>7. ASSUME StoreEventId(s) \/ AdvanceCursor(s) \/ Kill(s) PROVE Goal
  BY <1>7 DEF StoreEventId, AdvanceCursor, Kill
<1> QED
  BY <1>1, <1>2, <1>3, <1>4, <1>5, <1>6, <1>7 DEF ScanStep

\* A scan looks for the event of a verdict it has persisted.
LEMMA VerdictFirst ==
  ASSUME EffectTypeOK, NEW s \in Scan, ScanStep(s)
  PROVE  \A r \in Scan : stage'[r] \in {"look", "insert"} => verdict'[r] # Unset
<1> SUFFICES ASSUME NEW r \in Scan, stage'[r] \in {"look", "insert"} PROVE verdict'[r] # Unset
  OBVIOUS
<1>1. CASE Analyse(s)
  <2>1. CASE r = s /\ held
    <3>1. PICK e \in Evidence : verdict' = [verdict EXCEPT ![s] = e]
      BY <1>1, <2>1 DEF Analyse
    <3> QED
      BY <2>1, <3>1 DEF EffectTypeOK
  <2>2. CASE r = s /\ ~held
    BY <1>1, <2>2 DEF Analyse, Goto, EffectTypeOK
  <2>3. CASE r # s
    BY <1>1, <2>3, Progress DEF Analyse, EffectTypeOK
  <2> QED
    BY <2>1, <2>2, <2>3
<1>2. CASE ~Analyse(s)
  <2>1. verdict' = verdict
    BY <1>2 DEF ScanStep, StartScan, RunTripwire, MarkNudge, LookForEvent, InsertEvent,
         StoreEventId, AdvanceCursor, Kill, reminderVars
  <2>2. stage[r] \in {"look", "insert"}
    <3>1. CASE r # s
      BY <3>1, Progress
    <3>2. CASE r = s
      BY <1>2, <3>2 DEF ScanStep, StartScan, RunTripwire, MarkNudge, LookForEvent, InsertEvent,
         StoreEventId, AdvanceCursor, Kill, Goto, Answer, EffectTypeOK
    <3> QED
      BY <3>1, <3>2
  <2> QED
    BY <2>1, <2>2 DEF EffectTypeOK
<1> QED
  BY <1>1, <1>2

LEMMA NudgeType ==
  ASSUME EffectTypeOK, NEW s \in Scan, RunTripwire(s) \/ MarkNudge(s)
  PROVE  EffectTypeOK'
<1>1. stage' \in [Scan -> Stages]
      /\ \A r \in Scan : stage'[r] \in {"look", "insert"} => verdict'[r] # Unset
  BY Progress, VerdictFirst DEF ScanStep
<1>2. CASE RunTripwire(s)
  <2>1. nudges' = nudges \/ nudges' = nudges \cup {[day |-> day, by |-> s, unaware |-> Scan]}
    BY <1>2 DEF RunTripwire
  <2>2. nudges' \subseteq Nudges
    BY <2>1 DEF EffectTypeOK, Nudges
  <2> QED
    BY <1>1, <1>2, <2>2 DEF RunTripwire, EffectTypeOK, Nudges, reminderVars
<1>3. CASE MarkNudge(s)
  <2>1. \A n \in nudges, U \in SUBSET Scan : [n EXCEPT !.unaware = U] \in Nudges /\ n \in Nudges
    BY DEF EffectTypeOK, Nudges
  <2>2. Nudged \in SUBSET Scan
    BY DEF Nudged
  <2>3. nudges' \subseteq Nudges
    <3> SUFFICES ASSUME NEW x \in nudges' PROVE x \in Nudges
      OBVIOUS
    <3>1. PICK n \in nudges :
             x = IF n.by = s THEN [n EXCEPT !.unaware = Nudged]
                 ELSE IF n.day > nudgeNow[s] THEN [n EXCEPT !.unaware = Scan] ELSE n
      BY <1>3 DEF MarkNudge
    <3> QED
      BY <2>1, <2>2, <3>1
  <2> QED
    BY <1>1, <1>3, <2>3 DEF MarkNudge, EffectTypeOK, Nudges, reminderVars
<1> QED
  BY <1>2, <1>3

LEMMA ReminderType ==
  ASSUME EffectTypeOK, NEW s \in Scan,
         Analyse(s) \/ LookForEvent(s) \/ InsertEvent(s) \/ StoreEventId(s)
  PROVE  EffectTypeOK'
<1>1. stage' \in [Scan -> Stages]
      /\ \A r \in Scan : stage'[r] \in {"look", "insert"} => verdict'[r] # Unset
  BY Progress, VerdictFirst DEF ScanStep
<1>2. CASE Analyse(s)
  <2>1. verdict' = verdict \/ \E e \in Evidence : verdict' = [verdict EXCEPT ![s] = e]
    BY <1>2 DEF Analyse
  <2>2. verdict' \in [Scan -> Evidence \cup {Unset}]
    BY <2>1 DEF EffectTypeOK
  <2> QED
    BY <1>1, <1>2, <2>2 DEF Analyse, EffectTypeOK, nudgeVars
<1>3. CASE LookForEvent(s)
  <2>1. PriorEvent(s) \in BOOLEAN
    BY DEF PriorEvent
  <2>2. eventId' \in [Scan -> BOOLEAN]
    BY <1>3, <2>1 DEF LookForEvent, EffectTypeOK
  <2> QED
    BY <1>1, <1>3, <2>2 DEF LookForEvent, EffectTypeOK, nudgeVars
<1>4. CASE InsertEvent(s)
  <2>1. verdict[s] \in Evidence
    BY <1>4 DEF InsertEvent, EffectTypeOK
  <2>2. calendar' = calendar
        \/ calendar' = calendar \cup {[evidence |-> verdict[s], by |-> s, unaware |-> Scan]}
    BY <1>4 DEF InsertEvent
  <2>3. calendar' \subseteq Events
    BY <2>1, <2>2 DEF EffectTypeOK, Events
  <2> QED
    BY <1>1, <1>4, <2>3 DEF InsertEvent, EffectTypeOK, Events, nudgeVars
<1>5. CASE StoreEventId(s)
  <2>1. \A c \in calendar, U \in SUBSET Scan : [c EXCEPT !.unaware = U] \in Events /\ c \in Events
    BY DEF EffectTypeOK, Events
  <2>2. Looked \in SUBSET Scan
    BY DEF Looked
  <2>3. calendar' \subseteq Events
    BY <1>5, <2>1, <2>2 DEF StoreEventId
  <2> QED
    BY <1>1, <1>5, <2>3 DEF StoreEventId, EffectTypeOK, Events, nudgeVars
<1> QED
  BY <1>2, <1>3, <1>4, <1>5

LEMMA EffectTypeStep == EffectTypeOK /\ [EffectNext]_effectVars => EffectTypeOK'
<1> SUFFICES ASSUME EffectTypeOK, [EffectNext]_effectVars PROVE EffectTypeOK'
  OBVIOUS
<1>1. ASSUME NEW s \in Scan, StartScan(s) \/ AdvanceCursor(s) \/ Kill(s) PROVE EffectTypeOK'
  <2>1. stage' \in [Scan -> Stages]
        /\ \A r \in Scan : stage'[r] \in {"look", "insert"} => verdict'[r] # Unset
    BY <1>1, Progress, VerdictFirst DEF ScanStep
  <2>2. held' \in BOOLEAN
    BY <1>1 DEF StartScan, AdvanceCursor, Kill, EffectTypeOK, reminderVars
  <2> QED
    BY <1>1, <2>1, <2>2 DEF StartScan, AdvanceCursor, Kill, EffectTypeOK, reminderVars, nudgeVars
<1>2. CASE NextDay
  BY <1>2 DEF NextDay, EffectTypeOK, reminderVars, nudgeVars
<1>3. CASE UNCHANGED effectVars
  BY <1>3 DEF effectVars, EffectTypeOK, reminderVars, nudgeVars
<1> QED
  BY <1>1, <1>2, <1>3, NudgeType, ReminderType DEF EffectNext

-----------------------------------------------------------------------------
(* The nudge. *)

\* Days are numbers, and a nudge on record is one.
LEMMA NudgeDays ==
  ASSUME EffectTypeOK
  PROVE  /\ day \in Nat /\ \A s \in Scan : nudgeNow[s] \in Nat
         /\ lastNudge # Unset => lastNudge \in Nat
         /\ \A n \in nudges : n \in Nudges /\ n.day \in Nat /\ n.by \in Scan /\ n.unaware \subseteq Scan
BY DEF EffectTypeOK, Nudges

\* Whoever is aware of an earlier nudge does not nudge within the cadence.
LEMMA RunTripwireStep ==
  ASSUME EffectTypeOK, NudgeInv, NudgesSpaced, NEW s \in Scan, RunTripwire(s)
  PROVE  NudgeInv' /\ NudgesSpaced'
<1>1. /\ stage[s] = "nudge" /\ s \notin Nudged /\ nudgeNow' = [nudgeNow EXCEPT ![s] = day]
      /\ stage'[s] \notin {"none", "nudge"} /\ Nudged \subseteq Nudged'
      /\ day' = day /\ lastNudge' = lastNudge
  <2>1. stage'[s] \notin {"none", "nudge"}
    BY DEF RunTripwire, Goto, Answer, EffectTypeOK
  <2> QED
    BY <2>1, Progress DEF RunTripwire, ScanStep, Nudged
<1>2. \A n \in nudges : n.by # s /\ nudgeNow'[n.by] = nudgeNow[n.by]
  BY <1>1, NudgeDays DEF NudgeInv, EffectTypeOK
<1>3. CASE nudges' = nudges
  BY <1>1, <1>2, <1>3 DEF NudgeInv, NudgesSpaced
<1>4. CASE NudgeDue /\ nudges' = nudges \cup {[day |-> day, by |-> s, unaware |-> Scan]}
  <2> DEFINE new == [day |-> day, by |-> s, unaware |-> Scan]
  <2>1. ASSUME NEW n \in nudges, day - n.day < NudgeGap PROVE n.unaware = Scan
    <3>1. lastNudge # Unset => day - lastNudge >= NudgeGap
      BY <1>4 DEF NudgeDue
    <3>2. n.unaware # Scan => lastNudge # Unset /\ lastNudge >= n.day
      BY DEF NudgeInv
    <3>3. ~(lastNudge # Unset /\ lastNudge >= n.day)
      BY <2>1, <3>1, NudgeDays
    <3> QED
      BY <3>2, <3>3
  <2>2. NudgeInv'
    <3>1. \A n \in nudges : /\ n.by \in Nudged' /\ n.day = nudgeNow'[n.by] /\ n.day <= day'
                            /\ n.unaware # Scan => lastNudge' # Unset /\ lastNudge' >= n.day
      BY <1>1, <1>2 DEF NudgeInv
    <3>2. s \in Nudged' /\ nudgeNow'[s] = day /\ day <= day'
      BY <1>1, NudgeDays DEF Nudged, EffectTypeOK
    <3> QED
      BY <1>4, <3>1, <3>2 DEF NudgeInv
  <2>3. NudgesSpaced'
    <3> SUFFICES ASSUME NEW m \in nudges', NEW n \in nudges',
                        m.by # n.by, m.day <= n.day, n.day - m.day < NudgeGap
                 PROVE  n.by \in m.unaware /\ m.by \in n.unaware
      BY DEF NudgesSpaced
    <3>1. CASE m \in nudges /\ n \in nudges
      BY <3>1 DEF NudgesSpaced
    <3>2. CASE m \in nudges /\ n = new
      BY <2>1, <3>2, NudgeDays
    <3>3. CASE m = new /\ n \in nudges
      <4>1. n.day <= day
        BY <3>3 DEF NudgeInv
      <4>2. n.day = day /\ day - n.day < NudgeGap
        BY <3>3, <4>1, NudgeDays
      <4> QED
        BY <2>1, <3>3, <4>2, NudgeDays
    <3> QED
      BY <1>4, <3>1, <3>2, <3>3
  <2> QED
    BY <2>2, <2>3
<1> QED
  BY <1>3, <1>4 DEF RunTripwire

LEMMA MarkNudgeStep ==
  ASSUME EffectTypeOK, NudgeInv, NudgesSpaced, NEW s \in Scan, MarkNudge(s)
  PROVE  NudgeInv' /\ NudgesSpaced'
<1>1. /\ Nudged \subseteq Nudged' /\ Nudged \subseteq Scan
      /\ day' = day /\ nudgeNow' = nudgeNow /\ lastNudge' = nudgeNow[s]
      /\ lastNudge' # Unset /\ nudgeNow[s] \in Nat
  BY Progress, NudgeDays DEF MarkNudge, ScanStep, Nudged
<1>2. ASSUME NEW x \in nudges'
      PROVE  \E n \in nudges :
               /\ x.by = n.by /\ x.day = n.day
               /\ \/ x.unaware = Nudged /\ n.by = s
                  \/ x.unaware = Scan
                  \/ x = n /\ ~(n.day > nudgeNow[s])
  <2>1. PICK n \in nudges :
           x = IF n.by = s THEN [n EXCEPT !.unaware = Nudged]
               ELSE IF n.day > nudgeNow[s] THEN [n EXCEPT !.unaware = Scan] ELSE n
    BY DEF MarkNudge
  <2>2. n \in Nudges
    BY NudgeDays
  <2> QED
    BY <2>1, <2>2 DEF Nudges
<1>3. NudgeInv'
  <2> SUFFICES ASSUME NEW x \in nudges'
               PROVE  /\ x.by \in Nudged' /\ x.day = nudgeNow'[x.by] /\ x.day <= day'
                      /\ x.unaware # Scan => lastNudge' # Unset /\ lastNudge' >= x.day
    BY DEF NudgeInv
  <2>1. PICK n \in nudges :
               /\ x.by = n.by /\ x.day = n.day
               /\ \/ x.unaware = Nudged /\ n.by = s
                  \/ x.unaware = Scan
                  \/ x = n /\ ~(n.day > nudgeNow[s])
    BY <1>2
  <2>2. n.by \in Nudged /\ n.day = nudgeNow[n.by] /\ n.day <= day /\ n.day \in Nat
    BY NudgeDays DEF NudgeInv
  <2>3. x.unaware # Scan => nudgeNow[s] >= x.day
    BY <1>1, <2>1, <2>2
  <2> QED
    BY <1>1, <2>1, <2>2, <2>3
<1>4. NudgesSpaced'
  <2> SUFFICES ASSUME NEW x \in nudges', NEW y \in nudges',
                      x.by # y.by, x.day <= y.day, y.day - x.day < NudgeGap
               PROVE  y.by \in x.unaware /\ x.by \in y.unaware
    BY DEF NudgesSpaced
  <2>1. PICK m \in nudges : /\ x.by = m.by /\ x.day = m.day
                            /\ x.unaware = Nudged \/ x.unaware = Scan \/ x = m
    BY <1>2
  <2>2. PICK n \in nudges : /\ y.by = n.by /\ y.day = n.day
                            /\ y.unaware = Nudged \/ y.unaware = Scan \/ y = n
    BY <1>2
  <2>3. m.by \in Nudged /\ n.by \in Nudged /\ Nudged \subseteq Scan
    BY <1>1 DEF NudgeInv
  <2>4. n.by \in m.unaware /\ m.by \in n.unaware
    BY <2>1, <2>2 DEF NudgesSpaced
  <2> QED
    BY <2>1, <2>2, <2>3, <2>4
<1> QED
  BY <1>3, <1>4

LEMMA NudgeStep ==
  ASSUME EffectTypeOK, NudgeInv, NudgesSpaced, [EffectNext]_effectVars
  PROVE  NudgeInv' /\ NudgesSpaced'
<1>1. ASSUME NEW s \in Scan, ScanStep(s), ~RunTripwire(s), ~MarkNudge(s)
      PROVE  NudgeInv' /\ NudgesSpaced'
  <2>1. UNCHANGED <<day, lastNudge, nudgeNow, nudges>> /\ Nudged \subseteq Nudged'
    BY <1>1, Progress DEF ScanStep, StartScan, Analyse, LookForEvent, InsertEvent, StoreEventId,
       AdvanceCursor, Kill, nudgeVars
  <2> QED
    BY <2>1 DEF NudgeInv, NudgesSpaced
<1>2. CASE NextDay
  <2>1. UNCHANGED <<stage, lastNudge, nudgeNow, nudges>> /\ day' = day + 1
    BY <1>2 DEF NextDay, nudgeVars
  <2>2. \A n \in nudges : n.day <= day => n.day <= day'
    BY <2>1, NudgeDays
  <2> QED
    BY <2>1, <2>2 DEF NudgeInv, NudgesSpaced, Nudged
<1>3. CASE UNCHANGED effectVars
  BY <1>3 DEF effectVars, nudgeVars, NudgeInv, NudgesSpaced, Nudged
<1> QED
  BY <1>1, <1>2, <1>3, RunTripwireStep, MarkNudgeStep DEF EffectNext, ScanStep

-----------------------------------------------------------------------------
(* The reminder. *)

LEMMA EventTypes ==
  ASSUME EffectTypeOK, NEW c \in calendar
  PROVE  c \in Events /\ c.by \in Scan /\ c.unaware \subseteq Scan /\ c.evidence \in Evidence
BY DEF EffectTypeOK, Events

\* The steps that leave events, verdicts and ids of other items alone.
LEMMA LookStep ==
  ASSUME EffectTypeOK, ReminderInv, OneEventPerEvidence, NEW s \in Scan,
         Analyse(s) \/ LookForEvent(s)
  PROVE  ReminderInv' /\ OneEventPerEvidence'
<1>1. /\ Looked \subseteq Looked' /\ s \notin Looked /\ calendar' = calendar
      /\ \A r \in Scan : r # s => /\ stage'[r] = stage[r] /\ verdict'[r] = verdict[r]
                                  /\ eventId'[r] = eventId[r]
      /\ stage'[s] = "insert" => LookForEvent(s)
  <2>1. Looked \subseteq Looked' /\ s \notin Looked /\ calendar' = calendar
        /\ (stage'[s] = "insert" => LookForEvent(s)) /\ \A r \in Scan : r # s => stage'[r] = stage[r]
    BY Progress DEF ScanStep, Analyse, LookForEvent, Looked
  <2>2. \A r \in Scan : r # s => verdict'[r] = verdict[r]
    BY DEF Analyse, LookForEvent, EffectTypeOK
  <2>3. \A r \in Scan : r # s => eventId'[r] = eventId[r]
    BY DEF Analyse, LookForEvent, EffectTypeOK
  <2> QED
    BY <2>1, <2>2, <2>3
<1>2. \A c \in calendar : c.by # s /\ c.by \in Scan
  BY <1>1, EventTypes DEF ReminderInv
<1>3. \A c \in calendar' : /\ c.by \in Looked' /\ c.evidence = verdict'[c.by]
                           /\ c.unaware # Scan => eventId'[c.by]
  BY <1>1, <1>2 DEF ReminderInv
<1>4. ASSUME stage'[s] = "insert", verdict'[s] # NoEvidence, NEW c \in calendar,
             c.evidence = verdict'[s]
      PROVE  s \in c.unaware
  <2>1. verdict[s] # NoEvidence /\ c.evidence = verdict[s] /\ ~PriorEvent(s)
    BY <1>1, <1>4 DEF LookForEvent, Goto, EffectTypeOK
  <2>2. ~eventId[c.by]
    BY <1>2, <2>1 DEF PriorEvent, ReminderInv
  <2> QED
    BY <2>2 DEF ReminderInv
<1>5. \A r \in Scan : stage'[r] = "insert" /\ verdict'[r] # NoEvidence =>
        \A c \in calendar' : c.evidence = verdict'[r] /\ c.by # r => r \in c.unaware
  BY <1>1, <1>4 DEF ReminderInv
<1>6. OneEventPerEvidence'
  BY <1>1 DEF OneEventPerEvidence
<1> QED
  BY <1>3, <1>5, <1>6 DEF ReminderInv

LEMMA InsertStep ==
  ASSUME EffectTypeOK, ReminderInv, OneEventPerEvidence, NEW s \in Scan, InsertEvent(s)
  PROVE  ReminderInv' /\ OneEventPerEvidence'
<1> DEFINE new == [evidence |-> verdict[s], by |-> s, unaware |-> Scan]
<1>1. /\ Looked \subseteq Looked' /\ verdict' = verdict /\ eventId' = eventId
      /\ stage[s] = "insert" /\ stage'[s] # "insert" /\ \A r \in Scan : r # s => stage'[r] = stage[r]
      /\ calendar' = calendar \/ calendar' = calendar \cup {new}
  <2>1. stage'[s] # "insert"
    BY DEF InsertEvent, Goto, EffectTypeOK
  <2> QED
    BY <2>1, Progress DEF ScanStep, InsertEvent
<1>2. \A c \in calendar : c.evidence = verdict[s] /\ verdict[s] # NoEvidence /\ c.by # s => s \in c.unaware
  BY <1>1 DEF ReminderInv
<1>3. s \in Looked'
  BY <1>1 DEF Looked
<1>4. \A c \in calendar' : /\ c.by \in Looked' /\ c.evidence = verdict'[c.by]
                           /\ c.unaware # Scan => eventId'[c.by]
  <2> SUFFICES ASSUME NEW c \in calendar'
               PROVE  /\ c.by \in Looked' /\ c.evidence = verdict'[c.by]
                      /\ c.unaware # Scan => eventId'[c.by]
    OBVIOUS
  <2>1. CASE c \in calendar
    BY <1>1, <2>1 DEF ReminderInv
  <2>2. CASE c = new
    BY <1>1, <1>3, <2>2
  <2> QED
    BY <1>1, <2>1, <2>2
<1>5. \A r \in Scan : stage'[r] = "insert" /\ verdict'[r] # NoEvidence =>
        \A c \in calendar' : c.evidence = verdict'[r] /\ c.by # r => r \in c.unaware
  BY <1>1 DEF ReminderInv
<1>6. OneEventPerEvidence'
  <2> SUFFICES ASSUME NEW c \in calendar', NEW d \in calendar',
                      c.evidence = d.evidence, c.evidence # NoEvidence, c.by # d.by
               PROVE  d.by \in c.unaware
    BY DEF OneEventPerEvidence
  <2>1. CASE c \in calendar /\ d \in calendar
    BY <2>1 DEF OneEventPerEvidence
  <2>2. CASE c = new
    BY <1>1, <2>2, EventTypes
  <2>3. CASE c \in calendar /\ d = new
    BY <1>2, <2>3
  <2> QED
    BY <1>1, <2>1, <2>2, <2>3
<1> QED
  BY <1>4, <1>5, <1>6 DEF ReminderInv

LEMMA StoreStep ==
  ASSUME EffectTypeOK, ReminderInv, OneEventPerEvidence, NEW s \in Scan, StoreEventId(s)
  PROVE  ReminderInv' /\ OneEventPerEvidence'
<1>1. /\ Looked \subseteq Looked' /\ verdict' = verdict /\ eventId'[s]
      /\ \A r \in Scan : r # s => eventId'[r] = eventId[r]
      /\ \A r \in Scan : stage'[r] = "insert" => stage[r] = "insert"
  <2>1. \A r \in Scan : stage'[r] = "insert" => stage[r] = "insert"
    BY DEF StoreEventId, Goto, EffectTypeOK
  <2> QED
    BY <2>1, Progress DEF ScanStep, StoreEventId, EffectTypeOK
<1>2. ASSUME NEW x \in calendar'
      PROVE  \E c \in calendar : /\ x.by = c.by /\ x.evidence = c.evidence
                                 /\ (x.unaware = Looked /\ c.by = s) \/ x = c
  <2>1. PICK c \in calendar : x = IF c.by = s THEN [c EXCEPT !.unaware = Looked] ELSE c
    BY DEF StoreEventId
  <2>2. c \in Events
    BY EventTypes
  <2> QED
    BY <2>1, <2>2 DEF Events
<1>3. \A x \in calendar' : /\ x.by \in Looked' /\ x.evidence = verdict'[x.by]
                           /\ x.unaware # Scan => eventId'[x.by]
  <2> SUFFICES ASSUME NEW x \in calendar'
               PROVE  /\ x.by \in Looked' /\ x.evidence = verdict'[x.by]
                      /\ x.unaware # Scan => eventId'[x.by]
    OBVIOUS
  <2>1. PICK c \in calendar : /\ x.by = c.by /\ x.evidence = c.evidence
                              /\ (x.unaware = Looked /\ c.by = s) \/ x = c
    BY <1>2
  <2> QED
    BY <1>1, <2>1, EventTypes DEF ReminderInv
<1>4. ASSUME NEW r \in Scan, stage'[r] = "insert", verdict'[r] # NoEvidence, NEW x \in calendar',
             x.evidence = verdict'[r], x.by # r
      PROVE  r \in x.unaware
  <2>1. PICK c \in calendar : /\ x.by = c.by /\ x.evidence = c.evidence
                              /\ (x.unaware = Looked /\ c.by = s) \/ x = c
    BY <1>2
  <2>2. r \in Looked
    BY <1>1, <1>4 DEF Looked
  <2>3. r \in c.unaware
    BY <1>1, <1>4, <2>1 DEF ReminderInv
  <2> QED
    BY <2>1, <2>2, <2>3
<1>5. OneEventPerEvidence'
  <2> SUFFICES ASSUME NEW x \in calendar', NEW y \in calendar',
                      x.evidence = y.evidence, x.evidence # NoEvidence, x.by # y.by
               PROVE  y.by \in x.unaware
    BY DEF OneEventPerEvidence
  <2>1. PICK c \in calendar : /\ x.by = c.by /\ x.evidence = c.evidence
                              /\ (x.unaware = Looked /\ c.by = s) \/ x = c
    BY <1>2
  <2>2. PICK d \in calendar : y.by = d.by /\ y.evidence = d.evidence
    BY <1>2
  <2>3. d.by \in Looked /\ d.by \in c.unaware
    BY <2>1, <2>2 DEF ReminderInv, OneEventPerEvidence
  <2> QED
    BY <2>1, <2>2, <2>3
<1> QED
  BY <1>3, <1>4, <1>5 DEF ReminderInv

LEMMA ReminderStep ==
  ASSUME EffectTypeOK, ReminderInv, OneEventPerEvidence, [EffectNext]_effectVars
  PROVE  ReminderInv' /\ OneEventPerEvidence'
<1>1. ASSUME NEW s \in Scan,
             StartScan(s) \/ RunTripwire(s) \/ MarkNudge(s) \/ AdvanceCursor(s) \/ Kill(s)
      PROVE  ReminderInv' /\ OneEventPerEvidence'
  <2>1. UNCHANGED <<verdict, eventId, calendar>>
    BY <1>1 DEF StartScan, RunTripwire, MarkNudge, AdvanceCursor, Kill, reminderVars
  <2>2. Looked \subseteq Looked' /\ \A r \in Scan : stage'[r] = "insert" => stage[r] = "insert"
    <3>1. ~LookForEvent(s)
      BY <1>1 DEF LookForEvent, StartScan, RunTripwire, MarkNudge, AdvanceCursor, Kill, Goto, EffectTypeOK
    <3> QED
      BY <1>1, <3>1, Progress DEF ScanStep
  <2> QED
    BY <2>1, <2>2 DEF ReminderInv, OneEventPerEvidence
<1>2. CASE NextDay \/ UNCHANGED effectVars
  <2>1. UNCHANGED <<stage, verdict, eventId, calendar>>
    BY <1>2 DEF NextDay, effectVars, reminderVars
  <2> QED
    BY <2>1 DEF ReminderInv, OneEventPerEvidence, Looked
<1> QED
  BY <1>1, <1>2, LookStep, InsertStep, StoreStep DEF EffectNext

-----------------------------------------------------------------------------

LEMMA EffectInductive == EffectSpec => []EffectInv
<1>1. EffectInv /\ [EffectNext]_effectVars => EffectInv'
  BY EffectTypeStep, NudgeStep, ReminderStep DEF EffectInv
<1> QED
  BY <1>1, EffectInitInv, PTL DEF EffectSpec

\* Two nudges within the cadence come only of scans each of which read the state before it
\* told of the other's nudge (pipeline._run_tripwire, mark_tripwire_nudge_sent).
THEOREM NudgesAreSpaced == EffectSpec => []NudgesSpaced
<1>1. EffectInv => NudgesSpaced
  BY DEF EffectInv
<1> QED
  BY <1>1, EffectInductive, PTL

\* The same evidence mints a second event only by a scan that looked for one before the first
\* event's id was stored (_create_calendar_event, find_calendar_event_for_evidence).
THEOREM OneReminder == EffectSpec => []OneEventPerEvidence
<1>1. EffectInv => OneEventPerEvidence
  BY DEF EffectInv
<1> QED
  BY <1>1, EffectInductive, PTL

-----------------------------------------------------------------------------
(* The alerts of the traffic check. *)

Delivered == [leg : Leg, kind : Kinds]
Tellings == [leg : Leg, kind : Kinds, by : Fire, unaware : SUBSET Fire]
Lines == [key : AlertKeys, ts : 0 .. LastTick]
Checking == {"legs", "send", "note"}

\* A fire's legs are those of its own hours, and it holds none before it begins.
OwnLegs(f) ==
  /\ phase[f] \in {"none", "row", "begin"} =>
       todo[f] = {} /\ pending[f] = {} /\ outbox[f] = {}
  /\ \A l \in todo[f] \cup pending[f] : at[f] <= StartOf[l] /\ StartOf[l] <= at[f] + Lookahead
  /\ \A d \in outbox[f] : StartOf[d.leg] <= at[f] + Lookahead
  /\ phase[f] = "send" => todo[f] # {} /\ AlertKey(NextLeg(f), "delay") \notin recent[f]

\* A telling somebody is aware of is in the log, at a time that still covers its leg.
Logged ==
  \A t \in told :
    /\ t.by \in Readers
    /\ t.unaware # Fire =>
         \E r \in alertLog : r.key = AlertKey(t.leg, t.kind) /\ StartOf[t.leg] <= r.ts + Lookahead

\* A fire that is checking remembers what was told of the legs to come, unless it is one of
\* those that had read the log before; and it holds no leg to tell that it knows was told.
Remembers(f) ==
  /\ phase[f] \in Checking =>
       \A t \in told : at[f] <= StartOf[t.leg] => f \in t.unaware \/ AlertKey(t.leg, t.kind) \in recent[f]
  /\ \A l \in pending[f] : \A t \in told :
       t.leg = l /\ t.kind = "leave" /\ t.by # f => f \in t.unaware

\* What a fire is about to record was told.
ToldFirst == \A f \in Fire : \A d \in outbox[f] : \E t \in told : t.leg = d.leg /\ t.kind = d.kind

TrafficInv ==
  /\ TrafficTypeOK /\ Logged /\ ToldFirst /\ AlertedOnce /\ LoggedWasTold
  /\ \A f \in Fire : OwnLegs(f) /\ Remembers(f)

USE LegAssumption, WindowAssumption

LEMMA TrafficInitInv == TrafficInit => TrafficInv
<1> SUFFICES ASSUME TrafficInit PROVE TrafficInv
  OBVIOUS
<1>1. TrafficTypeOK
  BY DEF TrafficInit, TrafficTypeOK, Phases
<1>2. Logged /\ ToldFirst /\ AlertedOnce /\ LoggedWasTold
  BY DEF TrafficInit, Logged, ToldFirst, AlertedOnce, LoggedWasTold
<1>3. \A f \in Fire : OwnLegs(f) /\ Remembers(f)
  BY DEF TrafficInit, OwnLegs, Remembers, Checking
<1> QED
  BY <1>1, <1>2, <1>3 DEF TrafficInv

\* Numbers and records.
LEMMA TrafficTypes ==
  ASSUME TrafficTypeOK
  PROVE  /\ \A f \in Fire : at[f] \in Nat /\ at[f] \in 0 .. LastTick
         /\ \A l \in Leg : StartOf[l] \in Nat
         /\ \A r \in alertLog : r \in Lines /\ r.ts \in Nat
         /\ \A t \in told : t \in Tellings /\ t.leg \in Leg /\ t.kind \in Kinds /\ t.by \in Fire
                            /\ t.unaware \subseteq Fire
         /\ \A f \in Fire : todo[f] \subseteq Leg /\ pending[f] \subseteq Leg
         /\ \A f \in Fire : \A d \in outbox[f] : d \in Delivered /\ d.leg \in Leg /\ d.kind \in Kinds
         /\ Lookahead \in Nat
BY DEF TrafficTypeOK, Lines, Tellings, Delivered

LEMMA NextLegIsDue == ASSUME NEW f \in Fire, todo[f] # {} PROVE NextLeg(f) \in todo[f]
BY DEF NextLeg

LEMMA NextGroupIsPending == ASSUME NEW f \in Fire PROVE NextGroup(f) \subseteq pending[f]
BY DEF NextGroup

-----------------------------------------------------------------------------
(* Steps that tell nothing and record nothing. *)

\* One fire changes what it holds; its place in the reading of the log only advances.
LEMMA HoldingStep ==
  ASSUME TrafficInv, TrafficTypeOK', NEW f \in Fire, UNCHANGED <<alertLog, told>>,
         phase[f] \in {"none", "row", "begin"} \/ phase'[f] \notin {"none", "row", "begin"},
         \A g \in Fire : g # f => /\ phase'[g] = phase[g] /\ at'[g] = at[g] /\ recent'[g] = recent[g]
                                 /\ todo'[g] = todo[g] /\ pending'[g] = pending[g] /\ outbox'[g] = outbox[g],
         outbox'[f] \subseteq outbox[f], OwnLegs(f)', Remembers(f)'
  PROVE  TrafficInv'
<1>1. \A g \in Fire : OwnLegs(g)' /\ Remembers(g)'
  <2> SUFFICES ASSUME NEW g \in Fire, g # f PROVE OwnLegs(g)' /\ Remembers(g)'
    OBVIOUS
  <2>1. OwnLegs(g)'
    BY DEF TrafficInv, OwnLegs, NextLeg
  <2>2. Remembers(g)'
    BY DEF TrafficInv, Remembers
  <2> QED
    BY <2>1, <2>2
<1>2. Readers \subseteq Readers'
  BY DEF Readers
<1>3. Logged'
  BY <1>2 DEF TrafficInv, Logged
<1>4. ToldFirst'
  <2> SUFFICES ASSUME NEW g \in Fire, NEW d \in outbox'[g] PROVE \E t \in told : t.leg = d.leg /\ t.kind = d.kind
    BY DEF ToldFirst
  <2>1. d \in outbox[g]
    OBVIOUS
  <2> QED
    BY <2>1 DEF TrafficInv, ToldFirst
<1>5. AlertedOnce' /\ LoggedWasTold'
  BY DEF TrafficInv, AlertedOnce, LoggedWasTold
<1> QED
  BY <1>1, <1>3, <1>4, <1>5 DEF TrafficInv

LEMMA OpenStep ==
  ASSUME TrafficInv, NEW f \in Fire, FireJob(f) \/ OpenRunRow(f) \/ CheckNothing(f)
  PROVE  TrafficInv'
<1>0. TrafficTypeOK
  BY DEF TrafficInv
<1>1. /\ phase[f] \in {"none", "row", "begin"} /\ phase'[f] \in {"row", "begin", "over"}
      /\ phase' \in [Fire -> Phases] /\ \A g \in Fire : g # f => phase'[g] = phase[g]
  BY <1>0 DEF FireJob, OpenRunRow, CheckNothing, TrafficTypeOK, Phases
<1>2. at' \in [Fire -> 0 .. LastTick] /\ \A g \in Fire : g # f => at'[g] = at[g]
  BY <1>0 DEF FireJob, OpenRunRow, CheckNothing, TrafficTypeOK
<1>3. dry' \in [Fire -> BOOLEAN]
  <2>1. CASE FireJob(f)
    <3>1. PICK d \in BOOLEAN : dry' = [dry EXCEPT ![f] = d]
      BY <2>1 DEF FireJob
    <3> QED
      BY <1>0, <3>1 DEF TrafficTypeOK
  <2>2. CASE OpenRunRow(f) \/ CheckNothing(f)
    BY <1>0, <2>2 DEF OpenRunRow, CheckNothing, TrafficTypeOK
  <2> QED
    BY <2>1, <2>2
<1>4. lastLive' \in 0 .. LastTick \cup {Never}
  BY <1>0 DEF FireJob, OpenRunRow, CheckNothing, TrafficTypeOK
<1>5. UNCHANGED <<clock, alertLog, recent, todo, pending, outbox, told>>
  BY DEF FireJob, OpenRunRow, CheckNothing
<1>6. TrafficTypeOK'
  BY <1>0, <1>1, <1>2, <1>3, <1>4, <1>5 DEF TrafficTypeOK
<1>7. todo[f] = {} /\ pending[f] = {} /\ outbox[f] = {}
  BY <1>1 DEF TrafficInv, OwnLegs
<1>8. OwnLegs(f)' /\ Remembers(f)'
  BY <1>1, <1>5, <1>7 DEF OwnLegs, Remembers, Checking
<1>9. phase[f] \in {"none", "row", "begin"}
  BY <1>1
<1> QED
  BY <1>1, <1>2, <1>5, <1>6, <1>8, <1>9, HoldingStep

\* The log holds every telling of a leg to come that somebody is aware of, in the window.
LEMMA BeginStep ==
  ASSUME TrafficInv, NEW f \in Fire, BeginCheck(f)
  PROVE  TrafficInv'
<1>0. TrafficTypeOK
  BY DEF TrafficInv
<1> DEFINE due == UpcomingCommutes(at[f])
           keys == RecentKeys(at[f])
<1>1. due \in SUBSET Leg /\ \A l \in due : at[f] <= StartOf[l] /\ StartOf[l] <= at[f] + Lookahead
  BY <1>0, TrafficTypes DEF UpcomingCommutes
<1>2. keys \in SUBSET AlertKeys
  BY <1>0 DEF RecentKeys, TrafficTypeOK
<1>3. \A t \in told : at[f] <= StartOf[t.leg] => f \in t.unaware \/ AlertKey(t.leg, t.kind) \in keys
  <2> SUFFICES ASSUME NEW t \in told, at[f] <= StartOf[t.leg], f \notin t.unaware
               PROVE  AlertKey(t.leg, t.kind) \in keys
    OBVIOUS
  <2>1. t.unaware # Fire
    OBVIOUS
  <2>2. PICK r \in alertLog : r.key = AlertKey(t.leg, t.kind) /\ StartOf[t.leg] <= r.ts + Lookahead
    BY <2>1 DEF TrafficInv, Logged
  <2>3. Window >= Lookahead /\ Window \in Nat
    BY DEF Window
  <2>4. r.ts >= at[f] - Window
    BY <1>0, <2>2, <2>3, TrafficTypes
  <2> QED
    BY <2>2, <2>4 DEF RecentKeys
<1>4. /\ todo' = [todo EXCEPT ![f] = due] /\ recent' = [recent EXCEPT ![f] = keys]
      /\ phase' = [phase EXCEPT ![f] = "legs"] /\ phase[f] = "begin"
      /\ UNCHANGED <<clock, alertLog, lastLive, dry, at, pending, outbox, told>>
  BY DEF BeginCheck
<1> HIDE DEF due, keys
<1>5. TrafficTypeOK'
  BY <1>0, <1>1, <1>2, <1>4 DEF TrafficTypeOK, Phases
<1>6. pending[f] = {} /\ outbox[f] = {}
  BY <1>4 DEF TrafficInv, OwnLegs
<1>7. /\ phase'[f] = "legs" /\ todo'[f] = due /\ recent'[f] = keys
      /\ \A g \in Fire : g # f => /\ phase'[g] = phase[g] /\ at'[g] = at[g] /\ recent'[g] = recent[g]
                                 /\ todo'[g] = todo[g] /\ pending'[g] = pending[g] /\ outbox'[g] = outbox[g]
  BY <1>0, <1>4 DEF TrafficTypeOK
<1>8. OwnLegs(f)'
  BY <1>1, <1>4, <1>6, <1>7 DEF OwnLegs
<1>9. Remembers(f)'
  BY <1>3, <1>4, <1>6, <1>7 DEF Remembers
<1>10. phase'[f] \notin {"none", "row", "begin"}
  BY <1>7
<1> QED
  BY <1>4, <1>5, <1>7, <1>8, <1>9, <1>10, HoldingStep

\* The two steps of a fire on its next leg that tell nothing.
LEMMA LegStep ==
  ASSUME TrafficInv, NEW f \in Fire, SkipLeg(f) \/ PriceLeg(f)
  PROVE  TrafficInv'
<1>0. TrafficTypeOK
  BY DEF TrafficInv
<1> DEFINE l == NextLeg(f)
           less == todo[f] \ {l}
           more == pending[f] \cup {l}
<1>1. /\ phase[f] = "legs" /\ l \in todo[f] /\ UNCHANGED <<clock, alertLog, lastLive, dry, at, recent, outbox, told>>
      /\ l \in Leg /\ at[f] <= StartOf[l] /\ StartOf[l] <= at[f] + Lookahead
  <2>1. phase[f] = "legs" /\ todo[f] # {} /\ UNCHANGED <<clock, alertLog, lastLive, dry, at, recent, outbox, told>>
    BY DEF SkipLeg, PriceLeg
  <2>2. l \in todo[f]
    BY <2>1, NextLegIsDue
  <2> HIDE DEF l
  <2> QED
    BY <1>0, <2>1, <2>2, TrafficTypes DEF TrafficInv, OwnLegs
<1>2. /\ todo' = [todo EXCEPT ![f] = less] \/ todo' = todo
      /\ pending' = pending
         \/ (pending' = [pending EXCEPT ![f] = more] /\ AlertKey(l, "leave") \notin recent[f])
      /\ phase' = [phase EXCEPT ![f] = "legs"]
         \/ (phase' = [phase EXCEPT ![f] = "send"] /\ todo' = todo /\ AlertKey(l, "delay") \notin recent[f])
  <2>1. CASE SkipLeg(f)
    <3>1. phase' = [phase EXCEPT ![f] = "legs"]
      BY <1>0, <1>1, <2>1 DEF SkipLeg, TrafficTypeOK
    <3> QED
      BY <2>1, <3>1 DEF SkipLeg
  <2>2. CASE PriceLeg(f)
    <3>1. PICK alert \in BOOLEAN, leave \in BOOLEAN :
             /\ alert => AlertKey(l, "delay") \notin recent[f]
             /\ leave => AlertKey(l, "leave") \notin recent[f]
             /\ pending' = [pending EXCEPT ![f] = IF leave THEN @ \cup {l} ELSE @]
             /\ phase' = [phase EXCEPT ![f] = IF alert THEN "send" ELSE "legs"]
             /\ todo' = [todo EXCEPT ![f] = IF alert THEN @ ELSE @ \ {l}]
      BY <2>2 DEF PriceLeg
    <3>2. [todo EXCEPT ![f] = todo[f]] = todo /\ [pending EXCEPT ![f] = pending[f]] = pending
      BY <1>0 DEF TrafficTypeOK
    <3> HIDE DEF l
    <3> QED
      BY <3>1, <3>2
  <2> QED
    BY <2>1, <2>2
<1>3. less \in SUBSET Leg /\ more \in SUBSET Leg /\ less \subseteq todo[f]
  BY <1>0, <1>1, TrafficTypes
<1>4. NextLeg(f) = l
  OBVIOUS
<1>5. \A t \in told : t.leg = l /\ AlertKey(l, "leave") \notin recent[f] /\ t.kind = "leave" => f \in t.unaware
  BY <1>1 DEF TrafficInv, Remembers, Checking
<1> HIDE DEF l, less
<1>6. TrafficTypeOK'
  <2>1. phase' \in [Fire -> Phases]
    BY <1>0, <1>2 DEF TrafficTypeOK, Phases
  <2>2. todo' \in [Fire -> SUBSET Leg]
    BY <1>0, <1>2, <1>3 DEF TrafficTypeOK
  <2>3. pending' \in [Fire -> SUBSET Leg]
    BY <1>0, <1>2, <1>3 DEF TrafficTypeOK
  <2> QED
    BY <1>0, <1>1, <2>1, <2>2, <2>3 DEF TrafficTypeOK
<1>7. \A g \in Fire : g # f => /\ phase'[g] = phase[g] /\ at'[g] = at[g] /\ recent'[g] = recent[g]
                              /\ todo'[g] = todo[g] /\ pending'[g] = pending[g] /\ outbox'[g] = outbox[g]
  BY <1>0, <1>1, <1>2 DEF TrafficTypeOK
<1>8. /\ phase'[f] \in {"legs", "send"} /\ todo'[f] \subseteq todo[f] /\ pending'[f] \subseteq more
      /\ phase'[f] = "send" => todo'[f] = todo[f] /\ AlertKey(l, "delay") \notin recent[f]
      /\ pending'[f] = pending[f] \/ AlertKey(l, "leave") \notin recent[f]
  BY <1>0, <1>2, <1>3 DEF TrafficTypeOK
<1>9. OwnLegs(f)'
  <2>1. \A k \in todo'[f] \cup pending'[f] : at[f] <= StartOf[k] /\ StartOf[k] <= at[f] + Lookahead
    BY <1>1, <1>8 DEF TrafficInv, OwnLegs
  <2>2. phase'[f] = "send" => todo'[f] # {} /\ AlertKey(NextLeg(f)', "delay") \notin recent'[f]
    BY <1>1, <1>4, <1>8 DEF NextLeg
  <2>3. phase'[f] \notin {"none", "row", "begin"} /\ at' = at /\ outbox' = outbox
    BY <1>1, <1>8
  <2>4. \A d \in outbox[f] : StartOf[d.leg] <= at[f] + Lookahead
    BY DEF TrafficInv, OwnLegs
  <2> QED
    BY <2>1, <2>2, <2>3, <2>4 DEF OwnLegs
<1>10. Remembers(f)'
  <2>1. \A t \in told : at[f] <= StartOf[t.leg] => f \in t.unaware \/ AlertKey(t.leg, t.kind) \in recent[f]
    BY <1>1 DEF TrafficInv, Remembers, Checking
  <2>2. \A k \in pending'[f] : \A t \in told : t.leg = k /\ t.kind = "leave" /\ t.by # f => f \in t.unaware
    BY <1>5, <1>8 DEF TrafficInv, Remembers
  <2> QED
    BY <1>1, <2>1, <2>2 DEF Remembers
<1>11. phase'[f] \notin {"none", "row", "begin"} /\ outbox'[f] \subseteq outbox[f]
  BY <1>1, <1>8
<1> QED
  BY <1>1, <1>6, <1>7, <1>9, <1>10, <1>11, HoldingStep

LEMMA OverStep ==
  ASSUME TrafficInv, NEW f \in Fire, FinishCheck(f) \/ KillCheck(f)
  PROVE  TrafficInv'
<1>0. TrafficTypeOK
  BY DEF TrafficInv
<1>1. /\ phase' = [phase EXCEPT ![f] = "over"] /\ Forget(f)
      /\ UNCHANGED <<clock, alertLog, lastLive, told>>
  BY DEF FinishCheck, KillCheck
<1>2. TrafficTypeOK'
  BY <1>0, <1>1 DEF TrafficTypeOK, Forget, Phases
<1>3. /\ phase'[f] = "over" /\ todo'[f] = {} /\ pending'[f] = {} /\ outbox'[f] = {}
      /\ \A g \in Fire : g # f => /\ phase'[g] = phase[g] /\ at'[g] = at[g] /\ recent'[g] = recent[g]
                                 /\ todo'[g] = todo[g] /\ pending'[g] = pending[g] /\ outbox'[g] = outbox[g]
  BY <1>0, <1>1 DEF TrafficTypeOK, Forget
<1>4. OwnLegs(f)' /\ Remembers(f)'
  BY <1>3 DEF OwnLegs, Remembers, Checking
<1>5. phase'[f] \notin {"none", "row", "begin"} /\ outbox'[f] \subseteq outbox[f]
  BY <1>3
<1> QED
  BY <1>1, <1>2, <1>3, <1>4, <1>5, HoldingStep

-----------------------------------------------------------------------------
(* Steps that tell. *)

\* Legs are told that no fire but this one has told, as far as it can know.
LEMMA TellStep ==
  ASSUME TrafficInv, NEW f \in Fire, NEW legs \in SUBSET Leg, NEW kind \in Kinds,
         Send(f, legs, kind), phase[f] \in Checking, phase'[f] \in {"legs", "note"},
         \A l \in legs : StartOf[l] <= at[f] + Lookahead,
         \A l \in legs : \A t \in told : t.leg = l /\ t.kind = kind /\ t.by # f => f \in t.unaware,
         UNCHANGED <<clock, alertLog, lastLive, dry, at, recent>>,
         todo' \in [Fire -> SUBSET Leg], pending' \in [Fire -> SUBSET Leg], phase' \in [Fire -> Phases],
         todo'[f] \subseteq todo[f], pending'[f] \subseteq pending[f],
         \A g \in Fire : g # f => phase'[g] = phase[g] /\ todo'[g] = todo[g] /\ pending'[g] = pending[g]
  PROVE  TrafficInv'
<1> DEFINE news == [leg : legs, kind : {kind}, by : {f}, unaware : {Fire}]
           mail == [leg : legs, kind : {kind}]
<1>0. TrafficTypeOK
  BY DEF TrafficInv
<1>1. /\ told' = told \/ told' = told \cup news
      /\ outbox' = outbox \/ (outbox' = [outbox EXCEPT ![f] = mail] /\ told' = told \cup news)
  BY DEF Send, Tell, Settle, Deliver
<1>2. \A t \in news : t \in Tellings /\ t.leg \in legs /\ t.kind = kind /\ t.by = f /\ t.unaware = Fire
  BY DEF Tellings
<1>3. \A d \in mail : /\ d \in Delivered /\ d.leg \in legs
                      /\ \E t \in news : t.leg = d.leg /\ t.kind = d.kind
  <2> SUFFICES ASSUME NEW d \in mail
               PROVE  /\ d \in Delivered /\ d.leg \in legs
                      /\ \E t \in news : t.leg = d.leg /\ t.kind = d.kind
    OBVIOUS
  <2>1. [leg |-> d.leg, kind |-> kind, by |-> f, unaware |-> Fire] \in news
    OBVIOUS
  <2> QED
    BY <2>1 DEF Delivered
<1> HIDE DEF news, mail
<1>4. told \subseteq told' /\ \A t \in told' : t \in told \/ t \in news
  BY <1>1
<1>5. /\ outbox' \in [Fire -> SUBSET Delivered] /\ \A g \in Fire : g # f => outbox'[g] = outbox[g]
      /\ outbox'[f] = outbox[f] \/ (outbox'[f] = mail /\ news \subseteq told')
  BY <1>0, <1>1, <1>3 DEF TrafficTypeOK, Delivered
<1>6. TrafficTypeOK'
  <2>1. told' \subseteq Tellings
    BY <1>0, <1>2, <1>4 DEF TrafficTypeOK, Tellings
  <2> QED
    BY <1>0, <1>5, <2>1 DEF TrafficTypeOK, Tellings, Delivered
<1>7. Logged'
  <2>1. f \in Readers' /\ Readers \subseteq Readers'
    BY DEF Readers, Checking
  <2> QED
    BY <1>2, <1>4, <2>1 DEF TrafficInv, Logged
<1>8. ToldFirst'
  <2> SUFFICES ASSUME NEW g \in Fire, NEW d \in outbox'[g]
               PROVE  \E t \in told' : t.leg = d.leg /\ t.kind = d.kind
    BY DEF ToldFirst
  <2>1. CASE d \in outbox[g]
    BY <1>4, <2>1 DEF TrafficInv, ToldFirst
  <2>2. CASE g = f /\ d \in mail /\ news \subseteq told'
    BY <1>3, <2>2
  <2> QED
    BY <1>5, <2>1, <2>2
<1>9. AlertedOnce'
  <2> SUFFICES ASSUME NEW s \in told', NEW t \in told', s.leg = t.leg, s.kind = t.kind, s.by # t.by
               PROVE  t.by \in s.unaware
    BY DEF AlertedOnce
  <2>1. t.by \in Fire
    BY <1>0, <1>2, <1>4, TrafficTypes
  <2>2. CASE s \in told /\ t \in told
    BY <2>2 DEF TrafficInv, AlertedOnce
  <2>3. CASE s \in news
    BY <1>2, <2>1, <2>3
  <2>4. CASE s \in told /\ t \in news
    BY <1>2, <2>4
  <2> QED
    BY <1>4, <2>2, <2>3, <2>4
<1>10. LoggedWasTold'
  BY <1>4 DEF TrafficInv, LoggedWasTold
<1>11. ASSUME NEW g \in Fire PROVE OwnLegs(g)'
  <2>1. CASE g # f
    BY <1>5, <2>1 DEF TrafficInv, OwnLegs, NextLeg
  <2>2. CASE g = f
    <3>1. \A d \in outbox'[f] : StartOf[d.leg] <= at[f] + Lookahead
      BY <1>3, <1>5 DEF TrafficInv, OwnLegs
    <3> QED
      BY <2>2, <3>1 DEF TrafficInv, OwnLegs
  <2> QED
    BY <2>1, <2>2
<1>12. ASSUME NEW g \in Fire PROVE Remembers(g)'
  <2>1. \A t \in news : g \in t.unaware
    BY <1>2
  <2>2. phase'[g] \in Checking => phase[g] \in Checking
    BY DEF Checking
  <2>3. pending'[g] \subseteq pending[g]
    OBVIOUS
  <2> QED
    BY <1>4, <2>1, <2>2, <2>3 DEF TrafficInv, Remembers
<1> QED
  BY <1>6, <1>7, <1>8, <1>9, <1>10, <1>11, <1>12 DEF TrafficInv

LEMMA SendDelayStep ==
  ASSUME TrafficInv, NEW f \in Fire, SendDelayAlert(f)
  PROVE  TrafficInv'
<1> DEFINE l == NextLeg(f)
<1>0. TrafficTypeOK
  BY DEF TrafficInv
<1>1. phase[f] = "send" /\ todo[f] # {} /\ AlertKey(l, "delay") \notin recent[f]
  BY DEF SendDelayAlert, TrafficInv, OwnLegs
<1>2. l \in todo[f] /\ l \in Leg /\ at[f] <= StartOf[l] /\ StartOf[l] <= at[f] + Lookahead
  <2>1. l \in todo[f]
    BY <1>1, NextLegIsDue
  <2> HIDE DEF l
  <2> QED
    BY <1>0, <2>1, TrafficTypes DEF TrafficInv, OwnLegs
<1>3. /\ Send(f, {l}, "delay") /\ todo' = [todo EXCEPT ![f] = @ \ {l}]
      /\ phase' = [phase EXCEPT ![f] = IF outbox'[f] = {} THEN "legs" ELSE "note"]
      /\ UNCHANGED <<clock, alertLog, lastLive, dry, at, recent, pending>>
  BY DEF SendDelayAlert
<1> HIDE DEF l
<1>4. \A k \in {l} : \A t \in told : t.leg = k /\ t.kind = "delay" /\ t.by # f => f \in t.unaware
  BY <1>1, <1>2 DEF TrafficInv, Remembers, Checking
<1>5. /\ phase'[f] \in {"legs", "note"} /\ phase' \in [Fire -> Phases]
      /\ \A g \in Fire : g # f => phase'[g] = phase[g]
  BY <1>0, <1>3 DEF TrafficTypeOK, Phases
<1>6. /\ todo' \in [Fire -> SUBSET Leg] /\ todo'[f] \subseteq todo[f]
      /\ \A g \in Fire : g # f => todo'[g] = todo[g]
  BY <1>0, <1>3 DEF TrafficTypeOK
<1>7. pending' \in [Fire -> SUBSET Leg] /\ pending' = pending
  BY <1>0, <1>3 DEF TrafficTypeOK
<1>8. "delay" \in Kinds /\ {l} \in SUBSET Leg /\ phase[f] \in Checking
  BY <1>1, <1>2 DEF Kinds, Checking
<1>9. /\ \A k \in {l} : StartOf[k] <= at[f] + Lookahead
      /\ todo'[f] \subseteq todo[f] /\ pending'[f] \subseteq pending[f]
      /\ \A g \in Fire : g # f => phase'[g] = phase[g] /\ todo'[g] = todo[g] /\ pending'[g] = pending[g]
      /\ UNCHANGED <<clock, alertLog, lastLive, dry, at, recent>>
  BY <1>2, <1>3, <1>5, <1>6, <1>7
<1>10. Send(f, {l}, "delay")
  BY <1>3
<1> QED
  BY <1>4, <1>5, <1>6, <1>7, <1>8, <1>9, <1>10, TellStep

LEMMA FlushStep ==
  ASSUME TrafficInv, NEW f \in Fire, FlushLeaveNow(f)
  PROVE  TrafficInv'
<1> DEFINE group == NextGroup(f)
<1>0. TrafficTypeOK
  BY DEF TrafficInv
<1>1. group \subseteq pending[f] /\ group \in SUBSET Leg
  BY <1>0, NextGroupIsPending, TrafficTypes
<1>2. /\ Send(f, group, "leave") /\ pending' = [pending EXCEPT ![f] = @ \ group]
      /\ phase' = [phase EXCEPT ![f] = IF outbox'[f] = {} THEN "legs" ELSE "note"]
      /\ phase[f] = "legs" /\ UNCHANGED <<clock, alertLog, lastLive, dry, at, recent, todo>>
  BY DEF FlushLeaveNow
<1> HIDE DEF group
<1>3. /\ \A l \in group : StartOf[l] <= at[f] + Lookahead
      /\ \A l \in group : \A t \in told : t.leg = l /\ t.kind = "leave" /\ t.by # f => f \in t.unaware
  BY <1>1 DEF TrafficInv, OwnLegs, Remembers
<1>4. /\ phase'[f] \in {"legs", "note"} /\ phase' \in [Fire -> Phases]
      /\ \A g \in Fire : g # f => phase'[g] = phase[g]
  BY <1>0, <1>2 DEF TrafficTypeOK, Phases
<1>5. /\ pending' \in [Fire -> SUBSET Leg] /\ pending'[f] \subseteq pending[f]
      /\ \A g \in Fire : g # f => pending'[g] = pending[g]
  BY <1>0, <1>2 DEF TrafficTypeOK
<1>6. todo' \in [Fire -> SUBSET Leg] /\ todo' = todo
  BY <1>0, <1>2 DEF TrafficTypeOK
<1>7. "leave" \in Kinds /\ phase[f] \in Checking
  BY <1>2 DEF Kinds, Checking
<1>8. /\ todo'[f] \subseteq todo[f]
      /\ \A g \in Fire : g # f => phase'[g] = phase[g] /\ todo'[g] = todo[g] /\ pending'[g] = pending[g]
      /\ UNCHANGED <<clock, alertLog, lastLive, dry, at, recent>>
  BY <1>2, <1>4, <1>5, <1>6
<1>9. Send(f, group, "leave")
  BY <1>2
<1> QED
  BY <1>1, <1>3, <1>4, <1>5, <1>6, <1>7, <1>8, <1>9, TellStep

-----------------------------------------------------------------------------
(* The step that records. *)

LEMMA RecordAlertStep ==
  ASSUME TrafficInv, NEW f \in Fire, RecordAlert(f)
  PROVE  TrafficInv'
<1>0. TrafficTypeOK
  BY DEF TrafficInv
<1>1. PICK d \in outbox[f] :
        /\ alertLog' = alertLog \cup {[key |-> AlertKey(d.leg, d.kind), ts |-> at[f]]}
        /\ recent' = [recent EXCEPT ![f] = @ \cup {AlertKey(d.leg, d.kind)}]
        /\ outbox' = [outbox EXCEPT ![f] = @ \ {d}]
        /\ told' = {IF t.leg = d.leg /\ t.kind = d.kind /\ t.by = f /\ t.unaware = Fire
                    THEN [t EXCEPT !.unaware = Readers] ELSE t : t \in told}
        /\ phase' = [phase EXCEPT ![f] = IF outbox[f] = {d} THEN "legs" ELSE "note"]
  BY DEF RecordAlert
<1> DEFINE k == AlertKey(d.leg, d.kind)
           line == [key |-> k, ts |-> at[f]]
<1>2. phase[f] = "note" /\ UNCHANGED <<clock, lastLive, dry, at, todo, pending>>
  BY DEF RecordAlert
<1>3. d \in Delivered /\ d.leg \in Leg /\ d.kind \in Kinds /\ at[f] \in 0 .. LastTick /\ at[f] \in Nat
  BY <1>0, TrafficTypes
<1>4. k \in AlertKeys /\ line \in Lines
  BY <1>3 DEF AlertKeys, Lines
<1>5. ASSUME NEW x \in told'
      PROVE  \E t \in told : /\ x.leg = t.leg /\ x.kind = t.kind /\ x.by = t.by /\ x \in Tellings
                             /\ x = t \/ (x.unaware = Readers /\ t.leg = d.leg /\ t.kind = d.kind)
  <2>1. PICK t \in told : x = IF t.leg = d.leg /\ t.kind = d.kind /\ t.by = f /\ t.unaware = Fire
                              THEN [t EXCEPT !.unaware = Readers] ELSE t
    BY <1>1
  <2>2. t \in Tellings /\ Readers \in SUBSET Fire
    BY <1>0, TrafficTypes DEF Readers
  <2> QED
    BY <2>1, <2>2 DEF Tellings
<1>6. ASSUME NEW t \in told PROVE \E x \in told' : x.leg = t.leg /\ x.kind = t.kind
  <2>1. t \in Tellings
    BY <1>0, TrafficTypes
  <2>2. (IF t.leg = d.leg /\ t.kind = d.kind /\ t.by = f /\ t.unaware = Fire
         THEN [t EXCEPT !.unaware = Readers] ELSE t) \in told'
    BY <1>1
  <2> QED
    BY <2>1, <2>2 DEF Tellings
<1>7. /\ phase' \in [Fire -> Phases] /\ phase'[f] \in {"legs", "note"}
      /\ \A g \in Fire : g # f => phase'[g] = phase[g]
  BY <1>0, <1>1 DEF TrafficTypeOK, Phases
<1>8. /\ outbox' \in [Fire -> SUBSET Delivered] /\ \A g \in Fire : outbox'[g] \subseteq outbox[g]
      /\ \A g \in Fire : g # f => outbox'[g] = outbox[g]
  BY <1>0, <1>1 DEF TrafficTypeOK, Delivered
<1>9. /\ recent' \in [Fire -> SUBSET AlertKeys] /\ \A g \in Fire : recent[g] \subseteq recent'[g]
      /\ \A g \in Fire : g # f => recent'[g] = recent[g]
  BY <1>0, <1>1, <1>4 DEF TrafficTypeOK
<1>10. Readers' = Readers
  <2>1. \A g \in Fire : phase'[g] \in {"none", "row", "begin"} <=> phase[g] \in {"none", "row", "begin"}
    BY <1>2, <1>7
  <2> QED
    BY <2>1 DEF Readers
<1>11. alertLog' = alertLog \cup {line}
  BY <1>1
<1> HIDE DEF k, line
<1>12. TrafficTypeOK'
  <2>1. told' \subseteq Tellings
    BY <1>5
  <2>2. alertLog' \subseteq Lines
    BY <1>0, <1>4, <1>11 DEF TrafficTypeOK, Lines
  <2> QED
    BY <1>0, <1>2, <1>7, <1>8, <1>9, <2>1, <2>2 DEF TrafficTypeOK, Tellings, Lines, Delivered
<1>13. Logged'
  <2> SUFFICES ASSUME NEW x \in told'
               PROVE  /\ x.by \in Readers
                      /\ x.unaware # Fire =>
                           \E r \in alertLog' : r.key = AlertKey(x.leg, x.kind) /\ StartOf[x.leg] <= r.ts + Lookahead
    BY <1>10 DEF Logged
  <2>1. PICK t \in told : /\ x.leg = t.leg /\ x.kind = t.kind /\ x.by = t.by
                          /\ x = t \/ (x.unaware = Readers /\ t.leg = d.leg /\ t.kind = d.kind)
    BY <1>5
  <2>2. x.by \in Readers
    BY <2>1 DEF TrafficInv, Logged
  <2>3. CASE x = t
    BY <1>11, <2>2, <2>3 DEF TrafficInv, Logged
  <2>4. CASE t.leg = d.leg /\ t.kind = d.kind
    <3>1. StartOf[d.leg] <= at[f] + Lookahead
      BY DEF TrafficInv, OwnLegs
    <3>2. line \in alertLog' /\ line.key = AlertKey(x.leg, x.kind) /\ StartOf[x.leg] <= line.ts + Lookahead
      BY <1>11, <2>1, <2>4, <3>1 DEF line, k
    <3> QED
      BY <2>2, <3>2
  <2> QED
    BY <2>1, <2>3, <2>4
<1>14. ToldFirst'
  <2> SUFFICES ASSUME NEW g \in Fire, NEW e \in outbox'[g]
               PROVE  \E t \in told' : t.leg = e.leg /\ t.kind = e.kind
    BY DEF ToldFirst
  <2>1. PICK t \in told : t.leg = e.leg /\ t.kind = e.kind
    BY <1>8 DEF TrafficInv, ToldFirst
  <2> QED
    BY <1>6, <2>1
<1>15. AlertedOnce'
  <2> SUFFICES ASSUME NEW x \in told', NEW y \in told', x.leg = y.leg, x.kind = y.kind, x.by # y.by
               PROVE  y.by \in x.unaware
    BY DEF AlertedOnce
  <2>1. PICK s \in told : /\ x.leg = s.leg /\ x.kind = s.kind /\ x.by = s.by
                          /\ x = s \/ x.unaware = Readers
    BY <1>5
  <2>2. PICK t \in told : y.leg = t.leg /\ y.kind = t.kind /\ y.by = t.by
    BY <1>5
  <2>3. t.by \in Readers /\ t.by \in s.unaware
    BY <2>1, <2>2 DEF TrafficInv, Logged, AlertedOnce
  <2> QED
    BY <2>1, <2>2, <2>3
<1>16. LoggedWasTold'
  <2> SUFFICES ASSUME NEW r \in alertLog' PROVE \E x \in told' : AlertKey(x.leg, x.kind) = r.key
    BY DEF LoggedWasTold
  <2>1. PICK t \in told : AlertKey(t.leg, t.kind) = r.key
    <3>1. CASE r \in alertLog
      BY <3>1 DEF TrafficInv, LoggedWasTold
    <3>2. CASE r = line
      BY <3>2 DEF line, k, TrafficInv, ToldFirst
    <3> QED
      BY <1>11, <3>1, <3>2
  <2> QED
    BY <1>6, <2>1
<1>17. ASSUME NEW g \in Fire PROVE OwnLegs(g)'
  <2>1. phase'[g] \in {"none", "row", "begin"} => phase[g] \in {"none", "row", "begin"}
    BY <1>7
  <2>2. phase'[g] = "send" => g # f
    BY <1>7
  <2> QED
    BY <1>2, <1>7, <1>8, <1>9, <2>1, <2>2 DEF TrafficInv, OwnLegs, NextLeg
<1>18. ASSUME NEW g \in Fire PROVE Remembers(g)'
  <2>1. ASSUME NEW x \in told', phase'[g] \in Checking, at[g] <= StartOf[x.leg]
        PROVE  g \in x.unaware \/ AlertKey(x.leg, x.kind) \in recent'[g]
    <3>1. PICK t \in told : /\ x.leg = t.leg /\ x.kind = t.kind
                            /\ x = t \/ x.unaware = Readers
      BY <1>5
    <3>2. phase[g] \in Checking /\ g \in Readers
      BY <1>2, <1>7, <2>1 DEF Checking, Readers
    <3>3. g \in t.unaware \/ AlertKey(t.leg, t.kind) \in recent[g]
      BY <2>1, <3>1, <3>2 DEF TrafficInv, Remembers
    <3> QED
      BY <1>9, <3>1, <3>2, <3>3
  <2>2. ASSUME NEW l \in pending[g], NEW x \in told', x.leg = l, x.kind = "leave", x.by # g
        PROVE  g \in x.unaware
    <3>1. PICK t \in told : /\ x.leg = t.leg /\ x.kind = t.kind /\ x.by = t.by
                            /\ x = t \/ x.unaware = Readers
      BY <1>5
    <3>2. g \in Readers
      BY <2>2 DEF TrafficInv, OwnLegs, Readers
    <3>3. g \in t.unaware
      BY <2>2, <3>1 DEF TrafficInv, Remembers
    <3> QED
      BY <3>1, <3>2, <3>3
  <2> QED
    BY <1>2, <2>1, <2>2 DEF Remembers
<1> QED
  BY <1>12, <1>13, <1>14, <1>15, <1>16, <1>17, <1>18 DEF TrafficInv

LEMMA IdleStep ==
  ASSUME TrafficInv, TickClock \/ UNCHANGED trafficVars
  PROVE  TrafficInv'
<1>1. UNCHANGED <<alertLog, lastLive, phase, dry, at, recent, todo, pending, outbox, told>>
  BY DEF TickClock, trafficVars
<1>2. TrafficTypeOK'
  BY <1>1 DEF TrafficInv, TrafficTypeOK, TickClock, trafficVars
<1>3. Logged' /\ ToldFirst' /\ AlertedOnce' /\ LoggedWasTold'
  BY <1>1 DEF TrafficInv, Logged, ToldFirst, AlertedOnce, LoggedWasTold, Readers
<1>4. \A f \in Fire : OwnLegs(f)' /\ Remembers(f)'
  BY <1>1 DEF TrafficInv, OwnLegs, Remembers, NextLeg
<1> QED
  BY <1>2, <1>3, <1>4 DEF TrafficInv

LEMMA TrafficInductive == TrafficSpec => []TrafficInv
<1>1. TrafficInv /\ [TrafficNext]_trafficVars => TrafficInv'
  BY OpenStep, BeginStep, LegStep, OverStep, SendDelayStep, FlushStep, RecordAlertStep, IdleStep
     DEF TrafficNext
<1> QED
  BY <1>1, TrafficInitInv, PTL DEF TrafficSpec

\* The family is told the same of a leg twice only by a check that read the log before the
\* first alert was in it (run_traffic_check, AlertLog): for any fires, legs and windows.
THEOREM AlertsOnce == TrafficSpec => []AlertedOnce
<1>1. TrafficInv => AlertedOnce
  BY DEF TrafficInv
<1> QED
  BY <1>1, TrafficInductive, PTL

\* Every line of the log is that of a message that arrived.
THEOREM LogIsTold == TrafficSpec => []LoggedWasTold
<1>1. TrafficInv => LoggedWasTold
  BY DEF TrafficInv
<1> QED
  BY <1>1, TrafficInductive, PTL
=============================================================================
