---------------------------- MODULE TravelBlocks ----------------------------
(***************************************************************************)
(* The travel-block sweep: the drives the household's calendar events need *)
(* are planned, priced, compared with the blocks earlier sweeps wrote on   *)
(* the calendars, and the difference is deleted and inserted, call by      *)
(* call.  A drive takes as long as the traffic lets it, and each sweep     *)
(* asks anew.  Calls fail or take effect with their answer lost, the       *)
(* process dies, people edit their events, midnight passes, and two sweeps *)
(* (the Job and the button) may overlap.                                   *)
(***************************************************************************)
EXTENDS Integers, FiniteSets

CONSTANTS
  Event, Calendar,
  CalendarOf,   \* the calendar an event is on, which is its person's
  Place, Home,  \* where events take place; Home stands for no drive needed
  Sweep,        \* the processes that sweep
  Gone, None,
  Day,          \* slots of a day
  HorizonDays, Lookback, Dwell,
  Minutes, Usual,  \* the slots a drive may take, and what it takes before traffic changes
  Start, Length,  \* bound: the slots events start in and how long they last
  BlockId,        \* bound: ids the calendar gives to blocks that are in use
  MaxTime,        \* bound: the last slot of the clock
  MaxChange,      \* bound: how often people edit their calendars and travel times change
  MaxFault        \* bound: how many calls fail and processes die

ASSUME CalendarAssumption == CalendarOf \in [Event -> Calendar] /\ Home \notin Place
ASSUME SlotAssumption ==
  /\ Start \subseteq Nat /\ Length \subseteq Nat \ {0}
  /\ Day \in Nat \ {0} /\ HorizonDays \in Nat \ {0}
  /\ Lookback \in Nat /\ Dwell \in Nat
\* No drive takes longer than a day.
ASSUME DriveAssumption ==
  Minutes \subseteq Nat \ {0} /\ Usual \in Minutes /\ \A m \in Minutes : m =< Day
ASSUME BoundAssumption ==
  MaxTime \in Nat /\ MaxChange \in Nat /\ MaxFault \in Nat /\ BlockId \subseteq Nat
ASSUME SweepAssumption == IsFiniteSet(Sweep)
ASSUME PadAssumption == \A n \in Length : n =< Day   \* LISTING_PAD is a day

Leg == {"outbound", "return"}
Appointment == [start : Start, length : Length, place : Place \cup {Home}]
\* What a Routes call asks: from where, to where, at which slot.
Call == (Place \cup {Home}) \X (Place \cup {Home}) \X (Start \cup {a + n : a \in Start, n \in Length})

VARIABLES
  now,     \* the slot it is
  ev,      \* the events people have in their calendars
  traffic, \* how long each drive takes at the moment, which is what Routes answers
  blocks,  \* the blocks on the calendars
  pc,      \* where a sweep is
  seen,    \* the events it has read
  time,    \* its now
  price,   \* the travel times it was given
  since,   \* history: the changes and faults there had been by then
  dels, adds, blocked,  \* what it has still to do, and the legs whose old block stays
  canWrite,             \* the calendars it found writable
  changes, faults,
  calm     \* history: nothing but sweeps did anything, nor did midnight pass, since
           \* no sweep was under way

planVars == <<seen, time, price, since, dels, adds, blocked, canWrite>>
vars == <<now, ev, traffic, blocks, pc, planVars, changes, faults, calm>>

End(a) == a.start + a.length

-----------------------------------------------------------------------------
(* The plan: which drives the events E ask for, seen at slot t, at the travel *)
(* times T.                                                                  *)

HorizonStart(t) == (t \div Day) * Day
HorizonEnd(t)   == HorizonStart(t) + HorizonDays * Day

Present(E) == {e \in Event : E[e] # Gone}

\* requires_commute, without all-day events and train rides.
Commutes(E) == {e \in Present(E) : E[e].place # Home}

\* In-horizon events that warrant a drive (desired_legs).
Placed(E, t) == {e \in Commutes(E) : HorizonStart(t) =< E[e].start /\ E[e].start < HorizonEnd(t)}

\* _origin_source_event, resolve_origin: the latest commute of the person that
\* is on or ended within the lookback.  Events over before today are not read.
Sources(E, t, e) ==
  {o \in Commutes(E) \ {e} : /\ CalendarOf[o] = CalendarOf[e]
                             /\ E[o].start < E[e].start
                             /\ End(E[o]) > HorizonStart(t)
                             /\ End(E[o]) >= E[e].start - Lookback}
Origin(E, t, e) ==
  IF Sources(E, t, e) = {} THEN Home
  ELSE E[CHOOSE o \in Sources(E, t, e) : \A p \in Sources(E, t, e) : End(E[p]) =< End(E[o])].place

\* The next event that asks for a drive once this one is over.
Followers(E, t, e) ==
  {o \in Placed(E, t) \ {e} : CalendarOf[o] = CalendarOf[e] /\ E[o].start >= End(E[e])}
NextEvent(E, t, e) ==
  CHOOSE o \in Followers(E, t, e) : \A p \in Followers(E, t, e) : E[o].start =< E[p].start

\* A leg is what its block encodes, the minutes it takes included: the content
\* hash.  An outbound leg is priced at the slot it arrives.
OutboundRequests(E, t, T) ==
  {[event |-> e, leg |-> "outbound", from |-> Origin(E, t, e), to |-> E[e].place,
    start |-> E[e].start, end |-> End(E[e]),
    minutes |-> T[<<Origin(E, t, e), E[e].place, E[e].start>>]] :
     e \in {x \in Placed(E, t) : Origin(E, t, x) # E[x].place}}
ReturnRequests(E, t, T) ==
  {[event |-> e, leg |-> "return", from |-> E[e].place, to |-> Home,
    start |-> E[e].start, end |-> End(E[e]),
    minutes |-> T[<<E[e].place, Home, End(E[e])>>]] : e \in Placed(E, t)}
DesiredLegs(E, t, T) == OutboundRequests(E, t, T) \cup ReturnRequests(E, t, T)

Key(x)    == <<x.event, x.leg>>
Anchor(x) == IF x.leg = "outbound" THEN x.start ELSE x.end
BlockStart(x) == IF x.leg = "outbound" THEN x.start - x.minutes ELSE x.end
BlockEnd(x)   == BlockStart(x) + x.minutes

\* Legs of one road at one minute share one Routes call.
CallKey(r) == <<r.from, r.to, Anchor(r)>>

\* price_legs: no price for a moment that has passed, nor when its call fails.
Unpriced(E, t, T, failed) ==
  {r \in DesiredLegs(E, t, T) : Anchor(r) =< t \/ CallKey(r) \in failed}

\* chains_directly
ChainsDirectly(gap, back, out) == gap < back + out + Dwell

\* _is_chained
IsChained(E, t, T, r, unpriced) ==
  /\ Followers(E, t, r.event) # {}
  /\ LET n   == NextEvent(E, t, r.event)
         gap == E[n].start - r.end
         out == {o \in OutboundRequests(E, t, T) : o.event = n}
     IN \/ out = {} /\ ChainsDirectly(gap, r.minutes, 0)
        \/ \E o \in out \ unpriced : ChainsDirectly(gap, r.minutes, o.minutes)

\* build_planned_legs
PlannedLegs(E, t, T, unpriced) ==
  {r \in DesiredLegs(E, t, T) \ unpriced :
     ~(r.leg = "return" /\ IsChained(E, t, T, r, unpriced))}

\* travel_block_listing_end
ListingEnd(E, t) ==
  LET ends == {HorizonEnd(t)} \cup
              {End(E[e]) : e \in {x \in Present(E) : HorizonStart(t) =< E[x].start
                                                     /\ E[x].start < HorizonEnd(t)}}
  IN (CHOOSE m \in ends : \A n \in ends : n =< m) + Day

\* fetch_marked_events: timeMin bounds a block's end, timeMax its start.
Listed(E, t, B) == {b \in B : BlockEnd(b) > HorizonStart(t) /\ BlockStart(b) < ListingEnd(E, t)}

-----------------------------------------------------------------------------
(* reconcile *)

\* A block whose drive takes another time by now is as stale as one of a moved event.
Same(b, r) == /\ Key(b) = Key(r) /\ b.from = r.from /\ b.to = r.to
              /\ b.start = r.start /\ b.end = r.end /\ b.minutes = r.minutes

\* The calendar lists blocks in the order of their start, and their ids when
\* that is the same.
FirstMatch(B, r) == CHOOSE b \in B : Same(b, r) /\ \A c \in B : Same(c, r) => b.id =< c.id
Matched(B, r) == \E b \in B : Same(b, r)

\* Mutant: a leg without a price is a leg nobody wants.
ProtectedNone(B, unpriced) == {}
\* A leg that is not established: its blocks are left alone on both sides.
Protected(B, unpriced) == {b \in B : \E r \in unpriced : Key(b) = Key(r)}

Adds(planned, B) == {r \in planned : ~Matched(B, r)}
Replaced(planned, B) == {b \in B : \E r \in planned : Key(b) = Key(r) /\ ~Matched(B, r)}
Duplicates(planned, B) ==
  {b \in B : \E r \in planned : Key(b) = Key(r) /\ Matched(B, r) /\ b # FirstMatch(B, r)}
\* Mutant: only replaced blocks are deleted.
OrphansStay(planned, B, planEnd) == {}
\* Mutant: the blocks of a cancelled event are nobody's.
OrphansOfPlanned(planned, B, planEnd) ==
  {b \in B : (\A r \in planned : Key(b) # Key(r)) /\ (\E r \in planned : r.event = b.event)}
Orphans(planned, B, planEnd) ==
  {b \in B : (\A r \in planned : Key(b) # Key(r)) /\ BlockStart(b) < planEnd}
Deletes(planned, B, planEnd) ==
  Replaced(planned, B) \cup Duplicates(planned, B) \cup Orphans(planned, B, planEnd)

-----------------------------------------------------------------------------
(* The sweep. *)

UsualTraffic == [c \in Call |-> Usual]

\* No sweep of S is under way.
AllIdle(S) == \A s \in S : pc[s] = "idle"

Reset(s) ==
  /\ calm' = (calm \/ AllIdle(Sweep \ {s}))
  /\ pc' = [pc EXCEPT ![s] = "idle"]
  /\ seen' = [seen EXCEPT ![s] = None] /\ time' = [time EXCEPT ![s] = 0]
  /\ price' = [price EXCEPT ![s] = UsualTraffic] /\ since' = [since EXCEPT ![s] = 0]
  /\ dels' = [dels EXCEPT ![s] = {}] /\ adds' = [adds EXCEPT ![s] = {}]
  /\ blocked' = [blocked EXCEPT ![s] = {}]
  /\ canWrite' = [canWrite EXCEPT ![s] = {}]

Fault == faults < MaxFault /\ faults' = faults + 1

Init ==
  /\ now = 0
  /\ ev \in [Event -> Appointment]
  /\ traffic = UsualTraffic
  /\ blocks = {}
  /\ pc = [s \in Sweep |-> "idle"]
  /\ seen = [s \in Sweep |-> None] /\ time = [s \in Sweep |-> 0]
  /\ price = [s \in Sweep |-> UsualTraffic] /\ since = [s \in Sweep |-> 0]
  /\ dels = [s \in Sweep |-> {}] /\ adds = [s \in Sweep |-> {}]
  /\ blocked = [s \in Sweep |-> {}] /\ canWrite = [s \in Sweep |-> {}]
  /\ changes = 0 /\ faults = 0 /\ calm = TRUE

\* run_calendar_scan reads everybody's events; one read that fails ends it.
ReadEvents(s) ==
  /\ pc[s] = "idle"
  /\ pc' = [pc EXCEPT ![s] = "read"]
  /\ seen' = [seen EXCEPT ![s] = ev] /\ time' = [time EXCEPT ![s] = now]
  /\ since' = [since EXCEPT ![s] = changes + faults]
  /\ UNCHANGED <<now, ev, traffic, blocks, price, dels, adds, blocked, canWrite, changes, faults, calm>>

Legs(X, C) == {x \in X : CalendarOf[x.event] \in C}

\* run_travel_blocks up to the writes: the blocks of the calendars C are read,
\* W are found writable, the calls in failed are not answered and the others get
\* the traffic of the moment; a dry run and a write token that does not load stop here.
Plan(s, C, W, failed, write) ==
  \E unpriced \in {Unpriced(seen[s], time[s], traffic, failed)},
     listed \in {Legs(Listed(seen[s], time[s], blocks), C)} :
  \E planned \in {Legs(PlannedLegs(seen[s], time[s], traffic, unpriced), C)},
     open \in {listed \ Protected(listed, unpriced)} :
     /\ IF write
        THEN /\ dels' = [dels EXCEPT ![s] = Deletes(planned, open, HorizonEnd(time[s]))]
             /\ adds' = [adds EXCEPT ![s] = Adds(planned, open)]
             /\ canWrite' = [canWrite EXCEPT ![s] = W]
             /\ price' = [price EXCEPT ![s] = traffic]
             /\ pc' = [pc EXCEPT ![s] = "write"]
             /\ UNCHANGED <<seen, time, since, blocked, calm>>
        ELSE Reset(s)
     /\ UNCHANGED <<now, ev, traffic, blocks, changes>>

PlanSweep(s) ==
  /\ pc[s] = "read"
  /\ \/ Plan(s, Calendar, Calendar, {}, TRUE) /\ UNCHANGED faults
     \/ /\ Fault
        /\ \/ \E C \in SUBSET Calendar \ {Calendar} : Plan(s, C, Calendar, {}, TRUE)
           \/ \E W \in SUBSET Calendar \ {Calendar} : Plan(s, Calendar, W, {}, TRUE)
           \/ \E failed \in SUBSET {CallKey(r) : r \in DesiredLegs(seen[s], time[s], traffic)} \ {{}} :
                Plan(s, Calendar, Calendar, failed, TRUE)
           \/ Plan(s, Calendar, Calendar, {}, FALSE)

\* The plan's order: by start, then by id.
NextDelete(s) ==
  CHOOSE b \in dels[s] : \A c \in dels[s] :
    BlockStart(b) < BlockStart(c) \/ (BlockStart(b) = BlockStart(c) /\ b.id =< c.id)

Block(s, e) == blocked' = [blocked EXCEPT ![s] = @ \cup {Key(e)}]

\* _apply_deletes, one block: its calendar must be writable and its backup
\* written, the calendar may refuse or be unreachable, the block may be gone
\* already, and the answer may be lost after it went.
DeleteBlock(s) ==
  LET b == NextDelete(s) IN
  /\ pc[s] = "write" /\ dels[s] # {}
  /\ dels' = [dels EXCEPT ![s] = @ \ {b}]
  /\ \/ CalendarOf[b.event] \notin canWrite[s] /\ Block(s, b) /\ UNCHANGED <<blocks, faults>>
     \/ /\ CalendarOf[b.event] \in canWrite[s]
        /\ \/ b \in blocks /\ blocks' = blocks \ {b} /\ UNCHANGED <<blocked, faults>>
           \/ b \notin blocks /\ Block(s, b) /\ UNCHANGED <<blocks, faults>>
           \/ b \in blocks /\ Fault /\ Block(s, b) /\ blocks' \in {blocks, blocks \ {b}}
  /\ UNCHANGED <<now, ev, traffic, pc, seen, time, price, since, adds, canWrite, changes, calm>>

\* The calendar gives an id nobody remembers.
FreshId(n) == /\ \A b \in blocks : b.id # n
              /\ \A s \in Sweep : \A b \in dels[s] : b.id # n
NewBlock(r, n) == [id |-> n, event |-> r.event, leg |-> r.leg, from |-> r.from, to |-> r.to,
                   start |-> r.start, end |-> r.end, minutes |-> r.minutes]
InsertInto(r) == \E n \in BlockId : /\ FreshId(n) /\ \A m \in BlockId : FreshId(m) => n =< m
                                   /\ blocks' = blocks \cup {NewBlock(r, n)}

\* _apply_inserts, one leg: not while its old block is still there.  An insert
\* that took effect is never repeated, whether or not its answer came.
\* Mutant: an insert does not look at what its delete came to.
MayInsertAlways(s, r) == CalendarOf[r.event] \in canWrite[s]
MayInsert(s, r) == CalendarOf[r.event] \in canWrite[s] /\ Key(r) \notin blocked[s]
InsertBlock(s) ==
  /\ pc[s] = "write" /\ dels[s] = {} /\ adds[s] # {}
  /\ LET r == CHOOSE x \in adds[s] : \A y \in adds[s] : BlockStart(x) =< BlockStart(y) IN
     /\ adds' = [adds EXCEPT ![s] = @ \ {r}]
     /\ \/ ~MayInsert(s, r) /\ UNCHANGED <<blocks, faults>>
        \/ MayInsert(s, r) /\ InsertInto(r) /\ UNCHANGED faults
        \/ MayInsert(s, r) /\ Fault /\ UNCHANGED blocks
  /\ UNCHANGED <<now, ev, traffic, pc, seen, time, price, since, dels, blocked, canWrite, changes, calm>>

Finish(s) ==
  /\ pc[s] = "write" /\ dels[s] = {} /\ adds[s] = {}
  /\ Reset(s)
  /\ UNCHANGED <<now, ev, traffic, blocks, changes, faults>>

\* The run is killed or the machine restarts, or the calendars cannot be read.
Crash(s) ==
  /\ pc[s] # "idle"
  /\ Fault
  /\ Reset(s)
  /\ UNCHANGED <<now, ev, traffic, blocks, changes>>

-----------------------------------------------------------------------------
(* The household and the roads. *)

\* A change while a sweep is under way ends the calm; one while none is begins it.
Change == changes < MaxChange /\ changes' = changes + 1 /\ calm' = AllIdle(Sweep)

\* An event is moved, made longer or shorter, given another place, or cancelled.
EditEvent(e) ==
  /\ Change
  /\ \E a \in Appointment \cup {Gone} : a # ev[e] /\ ev' = [ev EXCEPT ![e] = a]
  /\ UNCHANGED <<now, traffic, blocks, pc, planVars, faults>>

\* Somebody deletes a block by hand.
RemoveBlock ==
  /\ Change
  /\ \E b \in blocks : blocks' = blocks \ {b}
  /\ UNCHANGED <<now, ev, traffic, pc, planVars, faults>>

\* A drive somebody's events ask for takes longer or shorter than it did.
TrafficChanges ==
  /\ Change
  /\ \E r \in DesiredLegs(ev, now, traffic), m \in Minutes :
       m # r.minutes /\ traffic' = [traffic EXCEPT ![CallKey(r)] = m]
  /\ UNCHANGED <<now, ev, blocks, pc, planVars, faults>>

Tick ==
  /\ now < MaxTime
  /\ now' = now + 1
  /\ calm' = (AllIdle(Sweep) \/ (calm /\ HorizonStart(now + 1) = HorizonStart(now)))
  /\ UNCHANGED <<ev, traffic, blocks, pc, planVars, changes, faults>>

SweepStep(s) == ReadEvents(s) \/ PlanSweep(s) \/ DeleteBlock(s) \/ InsertBlock(s) \/ Finish(s)

Next ==
  \/ \E s \in Sweep : SweepStep(s) \/ Crash(s)
  \/ \E e \in Event : EditEvent(e)
  \/ RemoveBlock
  \/ TrafficChanges
  \/ Tick

\* The Job sweeps again and again.
Spec == Init /\ [][Next]_vars /\ \A s \in Sweep : WF_vars(SweepStep(s))

-----------------------------------------------------------------------------
(* Properties. *)

BlockType == [id : BlockId, event : Event, leg : Leg, from : Place \cup {Home},
              to : Place \cup {Home}, start : Nat, end : Nat, minutes : Minutes]
LegType == [event : Event, leg : Leg, from : Place \cup {Home}, to : Place \cup {Home},
            start : Nat, end : Nat, minutes : Minutes]

TypeOK ==
  /\ now \in 0 .. MaxTime
  /\ ev \in [Event -> Appointment \cup {Gone}]
  /\ traffic \in [Call -> Minutes]
  /\ blocks \subseteq BlockType
  /\ pc \in [Sweep -> {"idle", "read", "write"}]
  /\ seen \in [Sweep -> [Event -> Appointment \cup {Gone}] \cup {None}]
  /\ time \in [Sweep -> 0 .. MaxTime]
  /\ price \in [Sweep -> [Call -> Minutes]] /\ since \in [Sweep -> Nat]
  /\ dels \in [Sweep -> SUBSET BlockType]
  /\ adds \in [Sweep -> SUBSET LegType]
  /\ blocked \in [Sweep -> SUBSET (Event \X Leg)]
  /\ canWrite \in [Sweep -> SUBSET Calendar]
  /\ changes \in 0 .. MaxChange /\ faults \in 0 .. MaxFault /\ calm \in BOOLEAN
  /\ \A s \in Sweep : pc[s] = "idle" => seen[s] = None /\ dels[s] = {} /\ adds[s] = {}

\* As long as sweeps do not overlap, a leg has one block, whatever calls fail,
\* whose answers are lost and wherever a sweep dies: what is not known is never
\* taken for absent, and nothing is inserted over a block that stayed
\* (reconcile, FAILURE_BLOCKS_UNREADABLE, SKIP_STALE_BLOCK_REMAINS).  Blocks of
\* days that are over are history.
OneBlockPerLeg ==
  Cardinality(Sweep) = 1 =>
    \A b, c \in blocks : Key(b) = Key(c) /\ BlockEnd(b) > HorizonStart(now)
                          /\ BlockEnd(c) > HorizonStart(now) => b = c

\* The block the events E ask for at t when every drive takes what T says.
Right(b, E, t, T) == \E r \in PlannedLegs(E, t, T, {}) : Same(b, r)

\* A sweep whose view of the events still holds never deletes a block they ask
\* for at the travel times it was given: not because a price is missing, a moment
\* has passed, a calendar cannot be read or listed too far, unless another block
\* of that leg stays (reconcile's protected keys and plan_end).  One sweep at a
\* time this always holds.  Sweeps that overlap must agree on what is right: it is
\* said of them while nobody edits a calendar, no travel time changes and no
\* midnight passes from the moment the first of them began.  A person may remove
\* the copy a sweep meant to keep, and so may a sweep that plans for the other side
\* of midnight or was given other minutes and takes that copy for stale.
Deletion(s) ==
  dels[s] # {} /\ dels'[s] = dels[s] \ {NextDelete(s)} /\ pc'[s] = "write" /\ NextDelete(s) \in blocks
  /\ ev = seen[s] /\ (calm \/ Cardinality(Sweep) = 1) => \A b \in blocks \ blocks' :
       Right(b, ev, time[s], price[s]) => \E c \in blocks' : Same(c, b)
RightBlockStays == [][\A s \in Sweep : Deletion(s)]_vars

\* What a household finds: each drive still ahead has its one block, as long as
\* the drive takes now, and no other block stands in the horizon for a drive
\* nobody needs.
Ahead == {r \in PlannedLegs(ev, now, traffic, {}) : Anchor(r) > now}
Settled ==
  /\ \A r \in Ahead : Cardinality({b \in blocks : Key(b) = Key(r)
                                                 /\ BlockEnd(b) > HorizonStart(now)}) = 1
                    /\ Matched(blocks, r)
  /\ \A b \in blocks : (BlockStart(b) >= now /\ BlockStart(b) < HorizonEnd(now)) =>
       \E r \in DesiredLegs(ev, now, traffic) : Key(b) = Key(r) /\ (Same(b, r) \/ Anchor(r) =< now)

\* One sweep at a time, begun on whatever earlier ones left, that nothing disturbs
\* (no edit, no fault, no change of the hour or of the traffic) leaves the calendars
\* as the events ask, and not only after a second one (apply_travel_blocks deletes
\* first, then inserts).
Undisturbed(s) == seen[s] = ev /\ time[s] = now /\ since[s] = changes + faults
Swept(s) == pc[s] = "write" /\ dels[s] = {} /\ adds[s] = {}
CalmSweepSettles ==
  Cardinality(Sweep) = 1 => \A s \in Sweep : Swept(s) /\ Undisturbed(s) => Settled

\* When people leave their calendars alone, calls are answered and the travel
\* times stop changing, the sweeps reach the blocks the events ask for, and then
\* write nothing more.  While travel times change, a sweep may go on replacing
\* blocks of events nobody touched (content_hash).
SettlesForGood == <>[](Settled)
=============================================================================
