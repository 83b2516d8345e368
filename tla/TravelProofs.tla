---------------------------- MODULE TravelProofs ----------------------------
(***************************************************************************)
(* Proofs about TravelBlocks for any events, calendars, places, lengths of *)
(* day and horizon, and any number of changes and faults.  That a leg has  *)
(* one block rests on the listing reaching as far as any earlier sweep     *)
(* wrote; that the right block stays, on a plan being a function of the    *)
(* events, the day and the travel times, and on every duplicate having an  *)
(* older one below;                                                        *)
(* that an undisturbed sweep leaves the plan, on each phase having done    *)
(* its share of the writes.                                                *)
(***************************************************************************)
EXTENDS TravelBlocks, WellFoundedInduction, FiniteSetTheorems, TLAPS

Views == [Event -> Appointment \cup {Gone}]
Prices == [Call -> Minutes]

-----------------------------------------------------------------------------
(* Least and greatest elements, days. *)

LEMMA Least ==
  ASSUME NEW S \in SUBSET Nat, S # {}
  PROVE  \E m \in S : \A n \in S : m <= n
<1>1. PICK m \in S : \A n \in S : <<n, m>> \notin OpToRel(<, Nat)
  BY NatLessThanWellFounded, WFMin
<1>2. \A n \in S : ~(n < m)
  BY <1>1 DEF OpToRel
<1> QED
  BY <1>2

LEMMA Greatest ==
  ASSUME NEW S \in SUBSET Nat, S # {}, NEW k \in Nat, \A n \in S : n <= k
  PROVE  \E m \in S : \A n \in S : n <= m
<1> DEFINE T == {k - n : n \in S}
<1>1. PICK d \in T : \A e \in T : d <= e
  <2>1. T \in SUBSET Nat
    <3>1. SUFFICES ASSUME NEW n \in S
                   PROVE  k - n \in Nat
      OBVIOUS
    <3> QED
      OBVIOUS
  <2>2. T # {}
    OBVIOUS
  <2> HIDE DEF T
  <2> QED
    BY <2>1, <2>2, Least
<1>2. PICK m \in S : d = k - m
  BY <1>1
<1>3. \A n \in S : k - m <= k - n
  BY <1>1, <1>2
<1> QED
  BY <1>3

LEMMA DayStart ==
  ASSUME NEW t \in Nat
  PROVE  HorizonStart(t) \in Nat /\ HorizonStart(t) <= t
BY SlotAssumption DEF HorizonStart

LEMMA DayStartGrows ==
  ASSUME NEW t \in Nat, NEW u \in Nat, t <= u
  PROVE  HorizonStart(t) <= HorizonStart(u)
BY SlotAssumption DEF HorizonStart

LEMMA FirstDay ==
  ASSUME NEW t \in Nat, t < Day
  PROVE  HorizonStart(t) = 0
BY SlotAssumption DEF HorizonStart

LEMMA HorizonIsNat ==
  ASSUME NEW t \in Nat
  PROVE  HorizonEnd(t) \in Nat
<1>1. HorizonDays * Day \in Nat
  BY SlotAssumption
<1> QED
  BY <1>1, DayStart DEF HorizonEnd

LEMMA HorizonGrows ==
  ASSUME NEW t \in Nat, NEW u \in Nat, t <= u
  PROVE  HorizonEnd(t) <= HorizonEnd(u)
<1>1. HorizonDays * Day \in Nat
  BY SlotAssumption
<1> QED
  BY <1>1, DayStart, DayStartGrows DEF HorizonEnd

-----------------------------------------------------------------------------
(* The plan. *)

LEMMA PlacedFacts ==
  ASSUME NEW E \in Views, NEW t \in Nat, NEW e \in Placed(E, t)
  PROVE  /\ e \in Event /\ E[e] \in Appointment
         /\ E[e].start \in Nat /\ End(E[e]) \in Nat /\ E[e].place \in Place \cup {Home}
         /\ HorizonStart(t) <= E[e].start /\ E[e].start < HorizonEnd(t)
         /\ E[e].start < End(E[e]) /\ End(E[e]) <= E[e].start + Day
<1>1. e \in Event /\ E[e] # Gone /\ HorizonStart(t) <= E[e].start /\ E[e].start < HorizonEnd(t)
  BY DEF Placed, Commutes, Present
<1>2. E[e] \in Appointment
  BY <1>1 DEF Views
<1>3. E[e].start \in Nat /\ E[e].length \in Nat \ {0} /\ E[e].length <= Day
  BY <1>2, SlotAssumption, PadAssumption DEF Appointment
<1>4. E[e].place \in Place \cup {Home}
  BY <1>2 DEF Appointment
<1> QED
  BY <1>1, <1>2, <1>3, <1>4, SlotAssumption DEF End

\* A drive starts somewhere: at home or at the place of the latest commute.
LEMMA OriginIsPlace ==
  ASSUME NEW E \in Views, NEW t \in Nat, NEW e \in Placed(E, t)
  PROVE  Origin(E, t, e) \in Place \cup {Home}
<1> DEFINE S == Sources(E, t, e)
           Ends == {End(E[o]) : o \in S}
<1>1. CASE S = {}
  BY <1>1 DEF Origin
<1>2. CASE S # {}
  <2>1. \A o \in S : /\ E[o] \in Appointment /\ End(E[o]) \in Nat
                     /\ End(E[o]) <= E[e].start + Day
    <3>1. SUFFICES ASSUME NEW o \in S
                   PROVE  /\ E[o] \in Appointment /\ End(E[o]) \in Nat
                          /\ End(E[o]) <= E[e].start + Day
      OBVIOUS
    <3>2. o \in Event /\ E[o] # Gone /\ E[o].start < E[e].start
      BY DEF Sources, Commutes, Present
    <3>3. E[o] \in Appointment
      BY <3>2 DEF Views
    <3>4. E[o].start \in Nat /\ E[o].length \in Nat /\ E[o].length <= Day
      BY <3>3, SlotAssumption, PadAssumption DEF Appointment
    <3> QED
      BY <3>2, <3>3, <3>4, PlacedFacts, SlotAssumption DEF End
  <2>2. PICK o \in S : \A p \in S : End(E[p]) <= End(E[o])
    <3>1. Ends \in SUBSET Nat /\ Ends # {} /\ \A n \in Ends : n <= E[e].start + Day
      BY <1>2, <2>1
    <3>2. E[e].start + Day \in Nat
      BY PlacedFacts, SlotAssumption
    <3>3. PICK m \in Ends : \A n \in Ends : n <= m
      <4> HIDE DEF Ends
      <4> QED
        BY <3>1, <3>2, Greatest
    <3> QED
      BY <3>3
  <2>3. PICK o2 \in S : Origin(E, t, e) = E[o2].place
    <3> DEFINE c == CHOOSE x \in S : \A p \in S : End(E[p]) <= End(E[x])
    <3>1. c \in S
      BY <2>2
    <3>2. Origin(E, t, e) = E[c].place
      BY <1>2 DEF Origin
    <3> HIDE DEF c
    <3> QED
      BY <3>1, <3>2
  <2> QED
    BY <2>1, <2>3 DEF Appointment
<1> QED
  BY <1>1, <1>2

LEMMA LegFacts ==
  ASSUME NEW E \in Views, NEW t \in Nat, NEW T \in Prices, NEW r \in DesiredLegs(E, t, T)
  PROVE  /\ r \in LegType /\ r.event \in Placed(E, t)
         /\ r.start = E[r.event].start /\ r.end = End(E[r.event])
         /\ BlockStart(r) < HorizonEnd(t) + Day
<1>1. PICK e \in Placed(E, t) :
        \/ r = [event |-> e, leg |-> "outbound", from |-> Origin(E, t, e), to |-> E[e].place,
                start |-> E[e].start, end |-> End(E[e]),
                minutes |-> T[<<Origin(E, t, e), E[e].place, E[e].start>>]]
        \/ r = [event |-> e, leg |-> "return", from |-> E[e].place, to |-> Home,
                start |-> E[e].start, end |-> End(E[e]),
                minutes |-> T[<<E[e].place, Home, End(E[e])>>]]
  BY DEF DesiredLegs, OutboundRequests, ReturnRequests
<1>2. /\ e \in Event /\ E[e].start \in Nat /\ End(E[e]) \in Nat
      /\ E[e].place \in Place \cup {Home} /\ Origin(E, t, e) \in Place \cup {Home}
      /\ E[e].start < HorizonEnd(t) /\ End(E[e]) <= E[e].start + Day
  BY PlacedFacts, OriginIsPlace
<1>3. r.minutes \in Minutes
  <2>1. \A c \in Call : T[c] \in Minutes
    BY DEF Prices
  <2>2. <<Origin(E, t, e), E[e].place, E[e].start>> \in Call /\ <<E[e].place, Home, End(E[e])>> \in Call
    <3>1. E[e].start \in Start /\ E[e].length \in Length
      BY PlacedFacts DEF Appointment
    <3>2. End(E[e]) \in {a + n : a \in Start, n \in Length}
      BY <3>1 DEF End
    <3> QED
      BY <1>2, <3>1, <3>2 DEF Call
  <2> QED
    BY <1>1, <2>1, <2>2
<1>4. r \in LegType
  BY <1>1, <1>2, <1>3 DEF LegType, Leg
<1>5. r.event = e /\ r.start = E[e].start /\ r.end = End(E[e])
  BY <1>1
<1>6. BlockStart(r) < HorizonEnd(t) + Day
  <2>1. r.minutes \in Nat
    BY <1>3, DriveAssumption
  <2>2. r.start \in Nat /\ r.end \in Nat /\ r.start < HorizonEnd(t) /\ r.end <= r.start + Day
    BY <1>2, <1>5
  <2>3. r.end < HorizonEnd(t) + Day /\ r.start - r.minutes < HorizonEnd(t) + Day
    BY <2>1, <2>2, HorizonIsNat, SlotAssumption
  <2> QED
    BY <2>3 DEF BlockStart
<1> QED
  BY <1>4, <1>5, <1>6

\* An event asks for at most one drive there and one back.
LEMMA OneLegPerKey ==
  ASSUME NEW E, NEW t, NEW T, NEW r \in DesiredLegs(E, t, T), NEW q \in DesiredLegs(E, t, T),
         Key(r) = Key(q)
  PROVE  r = q
<1>1. r.event = q.event /\ r.leg = q.leg
  BY DEF Key
<1>2. ASSUME NEW x \in DesiredLegs(E, t, T)
      PROVE  x = IF x.leg = "outbound"
                 THEN [event |-> x.event, leg |-> "outbound", from |-> Origin(E, t, x.event),
                       to |-> E[x.event].place, start |-> E[x.event].start,
                       end |-> End(E[x.event]),
                       minutes |-> T[<<Origin(E, t, x.event), E[x.event].place, E[x.event].start>>]]
                 ELSE [event |-> x.event, leg |-> "return", from |-> E[x.event].place,
                       to |-> Home, start |-> E[x.event].start, end |-> End(E[x.event]),
                       minutes |-> T[<<E[x.event].place, Home, End(E[x.event])>>]]
  <2>1. CASE x \in OutboundRequests(E, t, T)
    <3>1. PICK e : x = [event |-> e, leg |-> "outbound", from |-> Origin(E, t, e),
                        to |-> E[e].place, start |-> E[e].start, end |-> End(E[e]),
                        minutes |-> T[<<Origin(E, t, e), E[e].place, E[e].start>>]]
      BY <2>1 DEF OutboundRequests
    <3>2. x.event = e /\ x.leg = "outbound"
      BY <3>1
    <3> QED
      BY <3>1, <3>2
  <2>2. CASE x \in ReturnRequests(E, t, T)
    <3>1. PICK e : x = [event |-> e, leg |-> "return", from |-> E[e].place, to |-> Home,
                        start |-> E[e].start, end |-> End(E[e]),
                        minutes |-> T[<<E[e].place, Home, End(E[e])>>]]
      BY <2>2 DEF ReturnRequests
    <3>2. x.event = e /\ x.leg = "return"
      BY <3>1
    <3> QED
      BY <3>1, <3>2
  <2> QED
    BY <2>1, <2>2 DEF DesiredLegs
<1> HIDE DEF DesiredLegs
<1> QED
  BY <1>1, <1>2

\* A missing price never makes a drive back superfluous.
LEMMA ChainedWhenPriced ==
  ASSUME NEW E, NEW t, NEW T, NEW r, NEW unpriced, IsChained(E, t, T, r, unpriced)
  PROVE  IsChained(E, t, T, r, {})
BY DEF IsChained

\* On one day the plan does not depend on the hour.
LEMMA SameDayPlan ==
  ASSUME NEW E, NEW t, NEW u, NEW T, HorizonStart(t) = HorizonStart(u)
  PROVE  /\ DesiredLegs(E, t, T) = DesiredLegs(E, u, T)
         /\ PlannedLegs(E, t, T, {}) = PlannedLegs(E, u, T, {})
<1>1. Placed(E, t) = Placed(E, u)
  BY DEF Placed, HorizonEnd
<1>2. OutboundRequests(E, t, T) = OutboundRequests(E, u, T) /\ ReturnRequests(E, t, T) = ReturnRequests(E, u, T)
  <2>1. \A e : Sources(E, t, e) = Sources(E, u, e)
    BY DEF Sources
  <2>2. ASSUME NEW e
        PROVE  Origin(E, t, e) = Origin(E, u, e)
    <3>1. Sources(E, t, e) = Sources(E, u, e)
      BY <2>1
    <3> QED
      BY <3>1 DEF Origin
  <2> QED
    BY <1>1, <2>2 DEF OutboundRequests, ReturnRequests
<1>3. \A e : Followers(E, t, e) = Followers(E, u, e)
  BY <1>1 DEF Followers
<1>4. \A e : NextEvent(E, t, e) = NextEvent(E, u, e)
  BY <1>3 DEF NextEvent
<1>5. \A r : IsChained(E, t, T, r, {}) = IsChained(E, u, T, r, {})
  BY <1>2, <1>3, <1>4 DEF IsChained
<1> QED
  BY <1>2, <1>5 DEF DesiredLegs, PlannedLegs

\* The listing reaches a day past the horizon.
LEMMA ListingReaches ==
  ASSUME NEW E \in Views, NEW t \in Nat
  PROVE  ListingEnd(E, t) >= HorizonEnd(t) + Day /\ ListingEnd(E, t) \in Nat
<1> DEFINE ends == {HorizonEnd(t)} \cup
              {End(E[e]) : e \in {x \in Present(E) : HorizonStart(t) <= E[x].start
                                                     /\ E[x].start < HorizonEnd(t)}}
<1>1. ASSUME NEW n \in ends
      PROVE  n \in Nat /\ n <= HorizonEnd(t) + Day
  <2>1. CASE n = HorizonEnd(t)
    BY <2>1, HorizonIsNat, SlotAssumption
  <2>2. CASE n # HorizonEnd(t)
    <3>1. PICK e \in Present(E) : n = End(E[e]) /\ E[e].start < HorizonEnd(t)
      BY <1>1, <2>2
    <3>2. E[e] \in Appointment
      BY <3>1 DEF Present, Views
    <3>3. E[e].start \in Nat /\ E[e].length \in Nat /\ E[e].length <= Day
      BY <3>2, SlotAssumption, PadAssumption DEF Appointment
    <3> QED
      BY <3>1, <3>3, HorizonIsNat, SlotAssumption DEF End
  <2> QED
    BY <2>1, <2>2
<1>2. ends \in SUBSET Nat /\ ends # {} /\ HorizonEnd(t) \in ends
  BY <1>1
<1>3. HorizonEnd(t) + Day \in Nat
  BY HorizonIsNat, SlotAssumption
<1>4. ListingEnd(E, t) = (CHOOSE m \in ends : \A n \in ends : n <= m) + Day
  BY DEF ListingEnd
<1> HIDE DEF ends
<1>5. \E m \in ends : \A n \in ends : n <= m
  BY <1>1, <1>2, <1>3, Greatest
<1>6. PICK m \in ends : m = (CHOOSE x \in ends : \A n \in ends : n <= x) /\ \A n \in ends : n <= m
  BY <1>5
<1>7. ListingEnd(E, t) = m + Day /\ m \in Nat /\ HorizonEnd(t) <= m
  BY <1>2, <1>4, <1>6
<1> QED
  BY <1>7, HorizonIsNat, SlotAssumption

-----------------------------------------------------------------------------
(* The steps of a sweep. *)

\* Where a sweep is, what it has read and when; before its plan it has nothing to do.
Clock ==
  \A s \in Sweep :
    /\ time[s] <= now
    /\ pc[s] # "idle" => seen[s] \in Views
    /\ pc[s] = "read" => dels[s] = {} /\ adds[s] = {}

BaseInv == TypeOK /\ Clock

\* What a plan compares: the drives it wants and the blocks it may delete.
Wanted(s, C, unpriced) == Legs(PlannedLegs(seen[s], time[s], traffic, unpriced), C)
Open(s, C, unpriced) ==
  LET listed == Legs(Listed(seen[s], time[s], blocks), C)
  IN  listed \ Protected(listed, unpriced)

LEMMA WantedFacts ==
  ASSUME NEW s, NEW C, NEW unpriced
  PROVE  /\ Wanted(s, C, unpriced) \subseteq DesiredLegs(seen[s], time[s], traffic) \ unpriced
         /\ Open(s, C, unpriced) \subseteq blocks
BY DEF Wanted, Open, Legs, PlannedLegs, Listed

LEMMA FirstDelete ==
  ASSUME TypeOK, NEW s \in Sweep, dels[s] # {}
  PROVE  NextDelete(s) \in dels[s]
<1>1. ASSUME NEW b \in dels[s]
      PROVE  b.id \in Nat /\ BlockStart(b) \in Int /\ BlockStart(b) + Day \in Nat
  <2>1. b \in BlockType
    BY DEF TypeOK
  <2>2. b.id \in Nat /\ b.start \in Nat /\ b.end \in Nat /\ b.minutes \in Nat /\ b.minutes <= Day
    BY <2>1, BoundAssumption, DriveAssumption DEF BlockType
  <2> QED
    BY <2>2, SlotAssumption DEF BlockStart
<1> DEFINE Starts == {BlockStart(b) + Day : b \in dels[s]}
<1>2. PICK a \in dels[s] : \A c \in dels[s] : BlockStart(a) <= BlockStart(c)
  <2>1. Starts \in SUBSET Nat
    BY <1>1
  <2>2. Starts # {}
    OBVIOUS
  <2>3. PICK m \in Starts : \A n \in Starts : m <= n
    <3> HIDE DEF Starts
    <3> QED
      BY <2>1, <2>2, Least
  <2>4. PICK a \in dels[s] : m = BlockStart(a) + Day
    BY <2>3
  <2>5. ASSUME NEW c \in dels[s]
        PROVE  BlockStart(a) <= BlockStart(c)
    <3>1. BlockStart(a) + Day <= BlockStart(c) + Day
      BY <2>3, <2>4
    <3> QED
      BY <1>1, <3>1, SlotAssumption
  <2> QED
    BY <2>5
<1> DEFINE Level == {b \in dels[s] : BlockStart(b) = BlockStart(a)}
           Ids == {b.id : b \in Level}
<1>3. PICK b \in Level : \A c \in Level : b.id <= c.id
  <2>1. Ids \in SUBSET Nat
    BY <1>1
  <2>2. Ids # {}
    BY <1>2
  <2>3. PICK m \in Ids : \A n \in Ids : m <= n
    <3> HIDE DEF Ids
    <3> QED
      BY <2>1, <2>2, Least
  <2> QED
    BY <2>3
<1>4. \A c \in dels[s] : BlockStart(b) < BlockStart(c)
                         \/ (BlockStart(b) = BlockStart(c) /\ b.id <= c.id)
  BY <1>1, <1>2, <1>3
<1> QED
  BY <1>3, <1>4 DEF NextDelete

LEMMA FirstAdd ==
  ASSUME TypeOK, NEW s \in Sweep, adds[s] # {}
  PROVE  (CHOOSE x \in adds[s] : \A y \in adds[s] : BlockStart(x) <= BlockStart(y)) \in adds[s]
<1>1. \A b \in adds[s] : BlockStart(b) \in Int /\ BlockStart(b) + Day \in Nat
  <2>1. ASSUME NEW b \in adds[s]
        PROVE  b.start \in Nat /\ b.end \in Nat /\ b.minutes \in Nat /\ b.minutes <= Day
    <3>1. b \in LegType
      BY DEF TypeOK
    <3>2. b.start \in Nat /\ b.end \in Nat /\ b.minutes \in Minutes
      BY <3>1 DEF LegType
    <3> QED
      BY <3>2, DriveAssumption
  <2> QED
    BY <2>1, SlotAssumption DEF BlockStart
<1> DEFINE Starts == {BlockStart(b) + Day : b \in adds[s]}
<1>2. Starts \in SUBSET Nat
  BY <1>1
<1>3. Starts # {}
  OBVIOUS
<1>4. PICK m \in Starts : \A n \in Starts : m <= n
  <2> HIDE DEF Starts
  <2> QED
    BY <1>2, <1>3, Least
<1>5. PICK a \in adds[s] : m = BlockStart(a) + Day
  BY <1>4
<1>6. ASSUME NEW c \in adds[s]
      PROVE  BlockStart(a) <= BlockStart(c)
  <2>1. BlockStart(a) + Day <= BlockStart(c) + Day
    BY <1>4, <1>5
  <2> QED
    BY <1>1, <2>1, SlotAssumption
<1> QED
  BY <1>6

\* A plan leaves the calendars alone: what it will delete and write is what it compares,
\* or the sweep ends.
LEMMA PlanStep ==
  ASSUME BaseInv, NEW s \in Sweep, PlanSweep(s)
  PROVE  /\ pc[s] = "read" /\ UNCHANGED <<now, ev, traffic, blocks, changes>>
         /\ faults' \in 0 .. MaxFault
         /\ \/ Reset(s)
            \/ /\ UNCHANGED <<seen, time, since, blocked, calm>> /\ pc' = [pc EXCEPT ![s] = "write"]
               /\ price' = [price EXCEPT ![s] = traffic]
               /\ \E W \in SUBSET Calendar : canWrite' = [canWrite EXCEPT ![s] = W]
               /\ \E C \in SUBSET Calendar, unpriced \in SUBSET DesiredLegs(seen[s], time[s], traffic) :
                    /\ adds' = [adds EXCEPT ![s] =
                                  Adds(Wanted(s, C, unpriced), Open(s, C, unpriced))]
                    /\ dels' = [dels EXCEPT ![s] =
                                  Deletes(Wanted(s, C, unpriced), Open(s, C, unpriced),
                                          HorizonEnd(time[s]))]
<1>1. /\ pc[s] = "read"
      /\ \/ \E C \in SUBSET Calendar, W \in SUBSET Calendar : \E failed : Plan(s, C, W, failed, TRUE)
         \/ Plan(s, Calendar, Calendar, {}, FALSE)
  BY Zenon DEF PlanSweep
<1>2. faults' \in 0 .. MaxFault
  <2>1. faults \in 0 .. MaxFault
    BY DEF BaseInv, TypeOK
  <2>2. faults' = faults \/ (faults < MaxFault /\ faults' = faults + 1)
    BY DEF PlanSweep, Fault
  <2> QED
    BY <2>1, <2>2, BoundAssumption
<1>3. CASE Plan(s, Calendar, Calendar, {}, FALSE)
  BY <1>1, <1>2, <1>3 DEF Plan
<1>4. ASSUME NEW C \in SUBSET Calendar, NEW W \in SUBSET Calendar, NEW failed,
             Plan(s, C, W, failed, TRUE)
      PROVE  /\ UNCHANGED <<now, ev, traffic, blocks, changes, seen, time, since, blocked, calm>>
             /\ pc' = [pc EXCEPT ![s] = "write"] /\ canWrite' = [canWrite EXCEPT ![s] = W]
             /\ price' = [price EXCEPT ![s] = traffic]
             /\ \E unpriced \in SUBSET DesiredLegs(seen[s], time[s], traffic) :
                  /\ adds' = [adds EXCEPT ![s] =
                                Adds(Wanted(s, C, unpriced), Open(s, C, unpriced))]
                  /\ dels' = [dels EXCEPT ![s] =
                                Deletes(Wanted(s, C, unpriced), Open(s, C, unpriced),
                                        HorizonEnd(time[s]))]
  <2>1. PICK unpriced : /\ unpriced = Unpriced(seen[s], time[s], traffic, failed)
                        /\ unpriced \in SUBSET DesiredLegs(seen[s], time[s], traffic)
    BY DEF Unpriced
  <2>2. /\ UNCHANGED <<now, ev, traffic, blocks, changes, seen, time, since, blocked, calm>>
        /\ pc' = [pc EXCEPT ![s] = "write"] /\ canWrite' = [canWrite EXCEPT ![s] = W]
        /\ price' = [price EXCEPT ![s] = traffic]
        /\ adds' = [adds EXCEPT ![s] = Adds(Wanted(s, C, unpriced), Open(s, C, unpriced))]
        /\ dels' = [dels EXCEPT ![s] =
             Deletes(Wanted(s, C, unpriced), Open(s, C, unpriced), HorizonEnd(time[s]))]
    BY <1>4, <2>1 DEF Plan, Wanted, Open
  <2> QED
    BY <2>1, <2>2
<1> QED
  BY <1>1, <1>2, <1>3, <1>4

LEMMA DeleteStep ==
  ASSUME BaseInv, NEW s \in Sweep, DeleteBlock(s)
  PROVE  /\ pc[s] = "write" /\ NextDelete(s) \in dels[s]
         /\ dels' = [dels EXCEPT ![s] = dels[s] \ {NextDelete(s)}]
         /\ \/ blocks' = blocks \ {NextDelete(s)} /\ blocked' = blocked
            \/ /\ blocks' \in {blocks, blocks \ {NextDelete(s)}}
               /\ blocked' = [blocked EXCEPT ![s] = blocked[s] \cup {Key(NextDelete(s))}]
         /\ UNCHANGED <<now, ev, traffic, pc, seen, time, price, since, adds, canWrite, changes, calm>>
         /\ faults' \in 0 .. MaxFault
<1>1. NextDelete(s) \in dels[s]
  BY FirstDelete DEF DeleteBlock, BaseInv
<1>2. faults' \in 0 .. MaxFault
  BY BoundAssumption DEF DeleteBlock, Fault, BaseInv, TypeOK
<1> QED
  BY <1>1, <1>2 DEF DeleteBlock, Block

LEMMA InsertStep ==
  ASSUME BaseInv, NEW s \in Sweep, InsertBlock(s)
  PROVE  /\ pc[s] = "write" /\ dels[s] = {}
         /\ UNCHANGED <<now, ev, traffic, pc, seen, time, price, since, dels, blocked, canWrite, changes, calm>>
         /\ faults' \in 0 .. MaxFault
         /\ \E r \in adds[s] :
              /\ adds' = [adds EXCEPT ![s] = adds[s] \ {r}]
              /\ \/ blocks' = blocks
                 \/ /\ Key(r) \notin blocked[s]
                    /\ \E n \in BlockId : FreshId(n) /\ blocks' = blocks \cup {NewBlock(r, n)}
<1>1. PICK r \in adds[s] : r = CHOOSE x \in adds[s] : \A y \in adds[s] : BlockStart(x) <= BlockStart(y)
  BY FirstAdd DEF InsertBlock, BaseInv
<1>2. faults' \in 0 .. MaxFault
  BY BoundAssumption DEF InsertBlock, Fault, BaseInv, TypeOK
<1>3. /\ adds' = [adds EXCEPT ![s] = adds[s] \ {r}]
      /\ \/ blocks' = blocks
         \/ /\ Key(r) \notin blocked[s]
            /\ \E n \in BlockId : FreshId(n) /\ blocks' = blocks \cup {NewBlock(r, n)}
  BY <1>1 DEF InsertBlock, MayInsert, InsertInto
<1> QED
  BY <1>1, <1>2, <1>3 DEF InsertBlock

-----------------------------------------------------------------------------
(* Types. *)

LEMMA BaseInit ==
  ASSUME Init
  PROVE  BaseInv
<1>1. UsualTraffic \in [Call -> Minutes]
  BY DriveAssumption DEF UsualTraffic
<1>2. TypeOK
  BY <1>1, SlotAssumption, BoundAssumption DEF Init, TypeOK
<1>3. Clock
  BY <1>2, BoundAssumption DEF Init, TypeOK, Clock
<1> QED
  BY <1>2, <1>3 DEF BaseInv

LEMMA ResetBase ==
  ASSUME BaseInv, NEW s \in Sweep, Reset(s), UNCHANGED <<now, ev, traffic, blocks, changes>>,
         faults' \in 0 .. MaxFault
  PROVE  BaseInv'
<1> USE DEF BaseInv
<1>1. TypeOK'
  <2>1. UsualTraffic \in Prices
    BY DriveAssumption DEF UsualTraffic, Prices
  <2>2. /\ now \in 0 .. MaxTime /\ 0 \in 0 .. MaxTime /\ calm' \in BOOLEAN
        /\ price' \in [Sweep -> Prices]
    BY <2>1, BoundAssumption DEF Reset, TypeOK, Prices
  <2> QED
    BY <2>2, BoundAssumption DEF Reset, TypeOK, Prices
<1>2. Clock'
  <2>1. SUFFICES ASSUME NEW q \in Sweep
                 PROVE  /\ time'[q] <= now
                        /\ pc'[q] # "idle" => seen'[q] \in Views
                        /\ pc'[q] = "read" => dels'[q] = {} /\ adds'[q] = {}
    BY DEF Clock
  <2>2. CASE q = s
    BY <2>2 DEF Reset, TypeOK
  <2>3. CASE q # s
    BY <2>3 DEF Reset, TypeOK, Clock
  <2> QED
    BY <2>2, <2>3
<1> QED
  BY <1>1, <1>2

LEMMA BaseSweep ==
  ASSUME BaseInv, NEW s \in Sweep, SweepStep(s) \/ Crash(s)
  PROVE  BaseInv'
<1> USE DEF BaseInv
<1>1. ASSUME ReadEvents(s)
      PROVE  BaseInv'
  <2>1. /\ pc' = [pc EXCEPT ![s] = "read"] /\ seen' = [seen EXCEPT ![s] = ev]
        /\ time' = [time EXCEPT ![s] = now] /\ pc[s] = "idle"
        /\ since' = [since EXCEPT ![s] = changes + faults]
        /\ UNCHANGED <<now, ev, traffic, blocks, price, dels, adds, blocked, canWrite, changes, faults, calm>>
    BY <1>1 DEF ReadEvents
  <2>2. TypeOK'
    <3>1. changes + faults \in Nat
      BY BoundAssumption DEF TypeOK
    <3> QED
      BY <2>1, <3>1 DEF TypeOK, Views
  <2>3. ev \in Views /\ now <= now
    BY BoundAssumption DEF TypeOK, Views
  <2>4. Clock'
    BY <2>1, <2>3 DEF TypeOK, Clock
  <2> QED
    BY <2>2, <2>4
<1>2. ASSUME PlanSweep(s)
      PROVE  BaseInv'
  <2>1. CASE Reset(s)
    BY <1>2, <2>1, PlanStep, ResetBase
  <2>2. CASE ~Reset(s)
    <3>1. /\ pc[s] = "read" /\ UNCHANGED <<now, ev, traffic, blocks, changes, seen, time, since, blocked, calm>>
          /\ faults' \in 0 .. MaxFault /\ pc' = [pc EXCEPT ![s] = "write"]
          /\ price' = [price EXCEPT ![s] = traffic]
      BY <1>2, <2>2, PlanStep
    <3>2. PICK W \in SUBSET Calendar : canWrite' = [canWrite EXCEPT ![s] = W]
      BY <1>2, <2>2, PlanStep
    <3>3. PICK C \in SUBSET Calendar, unpriced \in SUBSET DesiredLegs(seen[s], time[s], traffic) :
            /\ adds' = [adds EXCEPT ![s] =
                          Adds(Wanted(s, C, unpriced), Open(s, C, unpriced))]
            /\ dels' = [dels EXCEPT ![s] =
                          Deletes(Wanted(s, C, unpriced), Open(s, C, unpriced),
                                  HorizonEnd(time[s]))]
      BY <1>2, <2>2, PlanStep
    <3>4. /\ Adds(Wanted(s, C, unpriced), Open(s, C, unpriced)) \subseteq LegType
          /\ Deletes(Wanted(s, C, unpriced), Open(s, C, unpriced), HorizonEnd(time[s]))
               \subseteq BlockType
      <4>1. seen[s] \in Views /\ time[s] \in Nat /\ traffic \in Prices
        BY <3>1, BoundAssumption DEF Clock, TypeOK, Prices
      <4>2. DesiredLegs(seen[s], time[s], traffic) \subseteq LegType
        BY <4>1, LegFacts
      <4>3. /\ Wanted(s, C, unpriced) \subseteq DesiredLegs(seen[s], time[s], traffic)
            /\ Open(s, C, unpriced) \subseteq BlockType
        BY WantedFacts DEF TypeOK
      <4> QED
        BY <4>2, <4>3 DEF Adds, Deletes, Replaced, Duplicates, Orphans
    <3>5. TypeOK'
      BY <3>1, <3>2, <3>3, <3>4 DEF TypeOK
    <3>6. Clock'
      BY <3>1, <3>3 DEF TypeOK, Clock
    <3> QED
      BY <3>5, <3>6
  <2> QED
    BY <2>1, <2>2
<1>3. ASSUME DeleteBlock(s)
      PROVE  BaseInv'
  <2>1. PICK b \in dels[s] :
          /\ dels' = [dels EXCEPT ![s] = dels[s] \ {b}]
          /\ blocks' \subseteq blocks
          /\ blocked' \in {blocked, [blocked EXCEPT ![s] = blocked[s] \cup {Key(b)}]}
          /\ UNCHANGED <<now, ev, traffic, pc, seen, time, price, since, adds, canWrite, changes, calm>>
          /\ faults' \in 0 .. MaxFault /\ pc[s] = "write"
    BY <1>3, DeleteStep
  <2>2. Key(b) \in Event \X Leg
    BY DEF TypeOK, BlockType, Key
  <2>3. TypeOK'
    BY <2>1, <2>2 DEF TypeOK
  <2>4. Clock'
    BY <2>1 DEF TypeOK, Clock
  <2> QED
    BY <2>3, <2>4
<1>4. ASSUME InsertBlock(s)
      PROVE  BaseInv'
  <2>1. PICK r \in adds[s] :
          /\ adds' = [adds EXCEPT ![s] = adds[s] \ {r}]
          /\ \/ blocks' = blocks
             \/ \E n \in BlockId : blocks' = blocks \cup {NewBlock(r, n)}
    BY <1>4, InsertStep
  <2>2. /\ UNCHANGED <<now, ev, traffic, pc, seen, time, price, since, dels, blocked, canWrite, changes, calm>>
        /\ faults' \in 0 .. MaxFault /\ pc[s] = "write"
    BY <1>4, InsertStep
  <2>3. \A n \in BlockId : NewBlock(r, n) \in BlockType
    BY DEF TypeOK, LegType, BlockType, NewBlock
  <2>4. TypeOK'
    BY <2>1, <2>2, <2>3 DEF TypeOK
  <2>5. Clock'
    BY <2>1, <2>2 DEF TypeOK, Clock
  <2> QED
    BY <2>4, <2>5
<1>5. ASSUME Finish(s) \/ Crash(s)
      PROVE  BaseInv'
  <2>1. faults' \in 0 .. MaxFault
    BY <1>5, BoundAssumption DEF Finish, Crash, Fault, TypeOK
  <2> QED
    BY <1>5, <2>1, ResetBase DEF Finish, Crash
<1> QED
  BY <1>1, <1>2, <1>3, <1>4, <1>5 DEF SweepStep

\* A change is counted.
LEMMA ChangeStep ==
  ASSUME TypeOK, Change
  PROVE  changes' \in 0 .. MaxChange /\ calm' \in BOOLEAN
<1>1. changes' \in 0 .. MaxChange
  BY BoundAssumption DEF Change, TypeOK
<1>2. AllIdle(Sweep) \in BOOLEAN
  BY DEF AllIdle
<1>3. calm' = AllIdle(Sweep)
  BY DEF Change
<1> HIDE DEF AllIdle
<1> QED
  BY <1>1, <1>2, <1>3

LEMMA BaseStep ==
  ASSUME BaseInv, [Next]_vars
  PROVE  BaseInv'
<1> USE DEF BaseInv
<1>1. ASSUME NEW e \in Event, EditEvent(e)
      PROVE  BaseInv'
  <2>1. /\ ev' \in [Event -> Appointment \cup {Gone}] /\ changes' \in 0 .. MaxChange /\ calm' \in BOOLEAN
        /\ UNCHANGED <<now, traffic, blocks, pc, planVars, faults>>
    BY <1>1, ChangeStep DEF EditEvent, TypeOK
  <2> QED
    BY <2>1 DEF TypeOK, Clock, planVars
<1>2. ASSUME RemoveBlock
      PROVE  BaseInv'
  <2>1. /\ blocks' \subseteq blocks /\ changes' \in 0 .. MaxChange /\ calm' \in BOOLEAN
        /\ UNCHANGED <<now, ev, traffic, pc, planVars, faults>>
    BY <1>2, ChangeStep DEF RemoveBlock
  <2> QED
    BY <2>1 DEF TypeOK, Clock, planVars
<1>3. ASSUME Tick
      PROVE  BaseInv'
  <2>1. /\ now' = now + 1 /\ now' \in 0 .. MaxTime /\ calm' \in BOOLEAN
        /\ UNCHANGED <<ev, traffic, blocks, pc, planVars, changes, faults>>
    BY <1>3, BoundAssumption DEF Tick, TypeOK
  <2>2. \A s \in Sweep : time[s] <= now + 1
    BY BoundAssumption DEF TypeOK, Clock
  <2> QED
    BY <2>1, <2>2 DEF TypeOK, Clock, planVars
<1>4. ASSUME TrafficChanges
      PROVE  BaseInv'
  <2>1. /\ changes' \in 0 .. MaxChange /\ calm' \in BOOLEAN
        /\ UNCHANGED <<now, ev, blocks, pc, planVars, faults>>
    BY <1>4, ChangeStep DEF TrafficChanges
  <2>2. PICK r \in DesiredLegs(ev, now, traffic), m \in Minutes :
          traffic' = [traffic EXCEPT ![CallKey(r)] = m]
    BY <1>4 DEF TrafficChanges
  <2>3. traffic' \in [Call -> Minutes]
    BY <2>2 DEF TypeOK
  <2> QED
    BY <2>1, <2>3 DEF TypeOK, Clock, planVars
<1>5. CASE UNCHANGED vars
  BY <1>5 DEF TypeOK, Clock, vars, planVars
<1> QED
  BY <1>1, <1>2, <1>3, <1>4, <1>5, BaseSweep DEF Next

\* The state is always well-formed: a plan only deletes blocks it has read and
\* only writes the drives of events it has seen (TypeOK).
THEOREM TypeCorrect == Spec => []TypeOK
<1>1. BaseInv => TypeOK
  BY DEF BaseInv
<1> QED
  BY <1>1, BaseInit, BaseStep, PTL DEF Spec

-----------------------------------------------------------------------------
(* One block for a leg, as long as one sweep runs at a time. *)

\* The day a sweep works with, which is today's while it does nothing.
View(s) == IF pc[s] = "idle" THEN now ELSE time[s]

\* No leg has two blocks that end after the day of t began.
Alone(B, t) ==
  \A b, c \in B : Key(b) = Key(c) /\ BlockEnd(b) > HorizonStart(t)
                  /\ BlockEnd(c) > HorizonStart(t) => b = c

\* No block lies further ahead than the listing of t reaches.
Within(B, t) == \A b \in B : BlockStart(b) < HorizonEnd(t) + Day

\* What a sweep will write has no block but those it deletes first, or failed to delete.
Cleared(s) ==
  \A r \in adds[s], b \in blocks :
    Key(b) = Key(r) /\ BlockEnd(b) > HorizonStart(time[s]) => b \in dels[s] \/ Key(b) \in blocked[s]

OnePerKey(s) == \A r, q \in adds[s] : Key(r) = Key(q) => r = q

LoneInv ==
  \A s \in Sweep : /\ Alone(blocks, View(s)) /\ Within(blocks, View(s))
                   /\ Within(adds[s], time[s]) /\ Cleared(s) /\ OnePerKey(s)

LEMMA SlotsOfBlocks ==
  ASSUME TypeOK
  PROVE  /\ \A b \in blocks : BlockStart(b) \in Int /\ BlockEnd(b) \in Int
         /\ \A s \in Sweep : \A r \in adds[s] : BlockStart(r) \in Int /\ BlockEnd(r) \in Int
<1>1. ASSUME NEW b, b.start \in Nat, b.end \in Nat, b.minutes \in Nat
      PROVE  BlockStart(b) \in Int /\ BlockEnd(b) \in Int
  BY <1>1 DEF BlockStart, BlockEnd
<1>2. \A b \in blocks : b.start \in Nat /\ b.end \in Nat /\ b.minutes \in Nat
  BY DriveAssumption DEF TypeOK, BlockType
<1>3. ASSUME NEW s \in Sweep, NEW r \in adds[s]
      PROVE  r.start \in Nat /\ r.end \in Nat /\ r.minutes \in Nat
  <2>1. r \in LegType
    BY DEF TypeOK
  <2>2. r.start \in Nat /\ r.end \in Nat /\ r.minutes \in Minutes
    BY <2>1 DEF LegType
  <2> QED
    BY <2>2, DriveAssumption
<1> QED
  BY <1>1, <1>2, <1>3

\* A later day asks for less.
LEMMA AloneLater ==
  ASSUME NEW B, NEW t \in Nat, NEW u \in Nat, t <= u, Alone(B, t),
         \A b \in B : BlockEnd(b) \in Int
  PROVE  Alone(B, u)
<1>1. HorizonStart(t) <= HorizonStart(u) /\ HorizonStart(t) \in Nat /\ HorizonStart(u) \in Nat
  BY DayStartGrows, DayStart
<1>2. \A b \in B : BlockEnd(b) > HorizonStart(u) => BlockEnd(b) > HorizonStart(t)
  BY <1>1
<1> QED
  BY <1>2 DEF Alone

LEMMA WithinLater ==
  ASSUME NEW B, NEW t \in Nat, NEW u \in Nat, t <= u, Within(B, t),
         \A b \in B : BlockStart(b) \in Int
  PROVE  Within(B, u)
<1>1. HorizonEnd(t) <= HorizonEnd(u) /\ HorizonEnd(t) \in Nat /\ HorizonEnd(u) \in Nat
  BY HorizonGrows, HorizonIsNat
<1>2. \A b \in B : BlockStart(b) < HorizonEnd(t) + Day => BlockStart(b) < HorizonEnd(u) + Day
  BY <1>1, SlotAssumption
<1> QED
  BY <1>2 DEF Within

\* A plan replaces every live block of a leg it is going to write: the listing shows
\* it, and a leg with a price protects nothing.
LEMMA PlanClears ==
  ASSUME NEW E \in Views, NEW t \in Nat, NEW T \in Prices, NEW B, NEW C,
         NEW unpriced \in SUBSET DesiredLegs(E, t, T),
         Within(B, t), \A b \in B : BlockStart(b) \in Int,
         NEW planned, planned = Legs(PlannedLegs(E, t, T, unpriced), C),
         NEW open, open = Legs(Listed(E, t, B), C) \ Protected(Legs(Listed(E, t, B), C), unpriced),
         NEW r \in Adds(planned, open), NEW b \in B,
         Key(b) = Key(r), BlockEnd(b) > HorizonStart(t)
  PROVE  b \in Deletes(planned, open, HorizonEnd(t))
<1>1. r \in planned /\ ~Matched(open, r)
  BY DEF Adds
<1>2. r \in DesiredLegs(E, t, T) /\ r \notin unpriced /\ CalendarOf[r.event] \in C
  BY <1>1 DEF Legs, PlannedLegs
<1>3. BlockStart(b) < ListingEnd(E, t)
  BY ListingReaches, HorizonIsNat, SlotAssumption DEF Within
<1>4. b.event = r.event
  BY DEF Key
<1>5. b \in Legs(Listed(E, t, B), C)
  BY <1>2, <1>3, <1>4 DEF Legs, Listed
<1>6. b \notin Protected(Legs(Listed(E, t, B), C), unpriced)
  <2>1. SUFFICES ASSUME NEW q \in unpriced, Key(b) = Key(q)
                 PROVE  FALSE
    BY DEF Protected
  <2>2. q = r
    BY <1>2, <2>1, OneLegPerKey
  <2> QED
    BY <1>2, <2>2
<1> QED
  BY <1>1, <1>5, <1>6 DEF Deletes, Replaced

\* What a plan writes is planned, each leg once, and inside the listing.
LEMMA PlanAdds ==
  ASSUME NEW E \in Views, NEW t \in Nat, NEW T \in Prices, NEW C, NEW unpriced, NEW open,
         NEW planned, planned = Legs(PlannedLegs(E, t, T, unpriced), C)
  PROVE  /\ Within(Adds(planned, open), t)
         /\ \A r, q \in Adds(planned, open) : Key(r) = Key(q) => r = q
<1>1. Adds(planned, open) \subseteq DesiredLegs(E, t, T)
  BY DEF Adds, Legs, PlannedLegs
<1> QED
  BY <1>1, LegFacts, OneLegPerKey DEF Within

\* Whatever clears the calendars of blocks keeps what holds of those that are left.
LEMMA LoneShrinks ==
  ASSUME LoneInv, blocks' \subseteq blocks,
         UNCHANGED <<now, pc, time, dels, adds, blocked>>
  PROVE  LoneInv'
<1>1. SUFFICES ASSUME NEW s \in Sweep
               PROVE  /\ Alone(blocks', View(s)') /\ Within(blocks', View(s)')
                      /\ Within(adds'[s], time'[s]) /\ Cleared(s)' /\ OnePerKey(s)'
  BY DEF LoneInv
<1>2. View(s)' = View(s)
  BY DEF View
<1>3. /\ Alone(blocks, View(s)) /\ Within(blocks, View(s))
      /\ Within(adds[s], time[s]) /\ Cleared(s) /\ OnePerKey(s)
  BY DEF LoneInv
<1>4. Alone(blocks', View(s)') /\ Within(blocks', View(s)')
  BY <1>2, <1>3 DEF Alone, Within
<1>5. Cleared(s)' /\ OnePerKey(s)'
  BY <1>3 DEF Cleared, OnePerKey
<1> QED
  BY <1>3, <1>4, <1>5

\* A day that passes, or a sweep that ends, leaves the sweep with a later day's view.
LEMMA LoneRests ==
  ASSUME BaseInv, BaseInv', LoneInv, NEW o, Sweep = {o},
         blocks' = blocks, View(o) <= View(o)', View(o) \in Nat, View(o)' \in Nat,
         \/ adds'[o] = {}
         \/ UNCHANGED <<time, dels, adds, blocked>>
  PROVE  LoneInv'
<1>1. /\ Alone(blocks, View(o)) /\ Within(blocks, View(o))
      /\ Within(adds[o], time[o]) /\ Cleared(o) /\ OnePerKey(o)
  BY DEF LoneInv
<1>2. \A b \in blocks : BlockStart(b) \in Int /\ BlockEnd(b) \in Int
  BY SlotsOfBlocks DEF BaseInv
<1> DEFINE v == View(o)'
<1>3. v \in Nat /\ View(o) <= v
  OBVIOUS
<1>4. Alone(blocks, v) /\ Within(blocks, v)
  <2> HIDE DEF v
  <2> QED
    BY <1>1, <1>2, <1>3, AloneLater, WithinLater
<1>5. Within(adds'[o], time'[o]) /\ Cleared(o)' /\ OnePerKey(o)'
  BY <1>1 DEF Within, Cleared, OnePerKey
<1> QED
  BY <1>4, <1>5 DEF LoneInv

LEMMA LoneInit ==
  ASSUME Init
  PROVE  LoneInv
BY DEF Init, LoneInv, Alone, Within, Cleared, OnePerKey

LEMMA LoneReset ==
  ASSUME BaseInv, BaseInv', LoneInv, NEW o, Sweep = {o}, Reset(o),
         UNCHANGED <<now, blocks>>
  PROVE  LoneInv'
<1>1. View(o)' = now /\ adds'[o] = {}
  BY DEF View, Reset, BaseInv, TypeOK
<1>2. View(o) \in Nat /\ now \in Nat /\ View(o) <= now
  BY BoundAssumption DEF View, BaseInv, TypeOK, Clock
<1> QED
  BY <1>1, <1>2, LoneRests

LEMMA LoneSweep ==
  ASSUME BaseInv, BaseInv', LoneInv, NEW o, Sweep = {o}, SweepStep(o) \/ Crash(o)
  PROVE  LoneInv'
<1>1. /\ Alone(blocks, View(o)) /\ Within(blocks, View(o))
      /\ Within(adds[o], time[o]) /\ Cleared(o) /\ OnePerKey(o)
  BY DEF LoneInv
<1>2. /\ \A b \in blocks : BlockStart(b) \in Int /\ BlockEnd(b) \in Int
      /\ \A r \in adds[o] : BlockStart(r) \in Int /\ BlockEnd(r) \in Int
  BY SlotsOfBlocks DEF BaseInv
<1>3. now \in Nat /\ time[o] \in Nat
  BY BoundAssumption DEF BaseInv, TypeOK
<1>4. ASSUME ReadEvents(o)
      PROVE  LoneInv'
  <2>1. /\ pc[o] = "idle" /\ pc'[o] = "read" /\ time'[o] = now
        /\ UNCHANGED <<now, blocks, dels, adds, blocked>>
    BY <1>4 DEF ReadEvents, BaseInv, TypeOK
  <2>2. View(o)' = now /\ View(o) = now
    BY <2>1 DEF View
  <2>3. adds'[o] = {}
    BY <2>1 DEF BaseInv, TypeOK
  <2> QED
    BY <1>3, <2>1, <2>2, <2>3, LoneRests
<1>5. ASSUME PlanSweep(o)
      PROVE  LoneInv'
  <2>1. CASE Reset(o)
    BY <1>5, <2>1, PlanStep, LoneReset
  <2>2. CASE ~Reset(o)
    <3>1. /\ pc[o] = "read" /\ pc' = [pc EXCEPT ![o] = "write"]
          /\ UNCHANGED <<now, blocks, seen, time, since, blocked>>
      BY <1>5, <2>2, PlanStep
    <3>2. PICK C \in SUBSET Calendar, unpriced \in SUBSET DesiredLegs(seen[o], time[o], traffic) :
            /\ adds' = [adds EXCEPT ![o] =
                          Adds(Wanted(o, C, unpriced), Open(o, C, unpriced))]
            /\ dels' = [dels EXCEPT ![o] =
                          Deletes(Wanted(o, C, unpriced), Open(o, C, unpriced),
                                  HorizonEnd(time[o]))]
      BY <1>5, <2>2, PlanStep
    <3>3. PICK planned : planned = Wanted(o, C, unpriced)
      OBVIOUS
    <3>4. PICK open : open = Open(o, C, unpriced)
      OBVIOUS
    <3>5. /\ adds'[o] = Adds(planned, open)
          /\ dels'[o] = Deletes(planned, open, HorizonEnd(time[o]))
      BY <3>2, <3>3, <3>4 DEF BaseInv, TypeOK
    <3>6. /\ planned = Legs(PlannedLegs(seen[o], time[o], traffic, unpriced), C)
          /\ open = Legs(Listed(seen[o], time[o], blocks), C)
                    \ Protected(Legs(Listed(seen[o], time[o], blocks), C), unpriced)
      BY <3>3, <3>4 DEF Wanted, Open
    <3>7. seen[o] \in Views /\ traffic \in Prices /\ View(o) = time[o] /\ View(o)' = time[o]
      BY <3>1 DEF BaseInv, TypeOK, Clock, View, Prices
    <3>8. Within(adds'[o], time[o]) /\ OnePerKey(o)'
      <4>1. /\ Within(Adds(planned, open), time[o])
            /\ \A r, q \in Adds(planned, open) : Key(r) = Key(q) => r = q
        <5>1. /\ seen[o] \in Views /\ time[o] \in Nat /\ traffic \in Prices
              /\ planned = Legs(PlannedLegs(seen[o], time[o], traffic, unpriced), C)
          BY <1>3, <3>6, <3>7
        <5> HIDE DEF Views, Prices
        <5> QED
          BY <5>1, PlanAdds
      <4> QED
        BY <3>5, <4>1 DEF OnePerKey
    <3>9. Cleared(o)'
      <4>1. SUFFICES ASSUME NEW r \in adds'[o], NEW b \in blocks, Key(b) = Key(r),
                            BlockEnd(b) > HorizonStart(time[o])
                     PROVE  b \in dels'[o]
        BY <3>1 DEF Cleared
      <4>2. Within(blocks, time[o])
        BY <1>1, <3>7
      <4> QED
        BY <1>2, <1>3, <3>5, <3>6, <3>7, <4>1, <4>2, PlanClears
    <3> QED
      BY <1>1, <3>1, <3>7, <3>8, <3>9 DEF LoneInv
  <2> QED
    BY <2>1, <2>2
<1>6. ASSUME DeleteBlock(o)
      PROVE  LoneInv'
  <2>1. PICK d \in dels[o] :
          /\ dels' = [dels EXCEPT ![o] = dels[o] \ {d}]
          /\ \/ blocks' = blocks \ {d} /\ blocked' = blocked
             \/ /\ blocks' \in {blocks, blocks \ {d}}
                /\ blocked' = [blocked EXCEPT ![o] = blocked[o] \cup {Key(d)}]
          /\ UNCHANGED <<now, pc, time, adds>>
    BY <1>6, DeleteStep
  <2>2. /\ dels'[o] = dels[o] \ {d} /\ blocks' \subseteq blocks
        /\ \/ d \notin blocks' /\ blocked'[o] = blocked[o]
           \/ blocked'[o] = blocked[o] \cup {Key(d)}
    BY <2>1 DEF BaseInv, TypeOK
  <2>3. View(o)' = View(o)
    BY <2>1 DEF View
  <2>4. Alone(blocks', View(o)') /\ Within(blocks', View(o)')
    BY <1>1, <2>2, <2>3 DEF Alone, Within
  <2>5. Cleared(o)'
    BY <1>1, <2>1, <2>2 DEF Cleared
  <2>6. Within(adds'[o], time'[o]) /\ OnePerKey(o)'
    BY <1>1, <2>1 DEF OnePerKey
  <2> QED
    BY <2>4, <2>5, <2>6 DEF LoneInv
<1>7. ASSUME InsertBlock(o)
      PROVE  LoneInv'
  <2>1. /\ pc[o] = "write" /\ dels[o] = {}
        /\ UNCHANGED <<now, pc, time, dels, blocked>>
    BY <1>7, InsertStep
  <2>2. PICK r \in adds[o] :
          /\ adds' = [adds EXCEPT ![o] = adds[o] \ {r}]
          /\ \/ blocks' = blocks
             \/ Key(r) \notin blocked[o] /\ \E n \in BlockId : blocks' = blocks \cup {NewBlock(r, n)}
    BY <1>7, InsertStep
  <2>3. View(o)' = View(o) /\ View(o) = time[o] /\ adds'[o] = adds[o] \ {r}
    BY <2>1, <2>2 DEF View, BaseInv, TypeOK
  <2>4. Within(adds'[o], time'[o]) /\ OnePerKey(o)'
    BY <1>1, <2>1, <2>3 DEF Within, OnePerKey
  <2>5. CASE blocks' = blocks
    <3>1. Cleared(o)'
      BY <1>1, <2>1, <2>3, <2>5 DEF Cleared
    <3> QED
      BY <1>1, <2>3, <2>4, <2>5, <3>1 DEF LoneInv
  <2>6. CASE blocks' # blocks
    <3>1. PICK n \in BlockId : blocks' = blocks \cup {NewBlock(r, n)} /\ Key(r) \notin blocked[o]
      BY <2>2, <2>6
    <3>2. PICK x : x = NewBlock(r, n)
      OBVIOUS
    <3>3. Key(x) = Key(r) /\ BlockStart(x) = BlockStart(r) /\ BlockEnd(x) = BlockEnd(r)
      BY <3>2 DEF NewBlock, Key, BlockStart, BlockEnd
    <3>4. \A b \in blocks : Key(b) = Key(r) => ~(BlockEnd(b) > HorizonStart(time[o]))
      BY <1>1, <2>1, <3>1 DEF Cleared
    <3>5. Alone(blocks', View(o)')
      BY <1>1, <2>3, <3>1, <3>2, <3>3, <3>4 DEF Alone
    <3>6. Within(blocks', View(o)')
      BY <1>1, <2>2, <2>3, <3>1, <3>2, <3>3 DEF Within
    <3>7. Cleared(o)'
      <4>1. SUFFICES ASSUME NEW q \in adds[o] \ {r}, NEW b \in blocks', Key(b) = Key(q),
                            BlockEnd(b) > HorizonStart(time[o])
                     PROVE  b \in dels[o] \/ Key(b) \in blocked[o]
        BY <2>1, <2>3 DEF Cleared
      <4>2. CASE b \in blocks
        BY <1>1, <4>1, <4>2 DEF Cleared
      <4>3. CASE b = x
        BY <1>1, <2>2, <3>3, <4>1, <4>3 DEF OnePerKey
      <4> QED
        BY <3>1, <3>2, <4>2, <4>3
    <3> QED
      BY <2>4, <3>5, <3>6, <3>7 DEF LoneInv
  <2> QED
    BY <2>5, <2>6
<1>8. ASSUME Finish(o) \/ Crash(o)
      PROVE  LoneInv'
  BY <1>8, LoneReset DEF Finish, Crash
<1> QED
  BY <1>4, <1>5, <1>6, <1>7, <1>8 DEF SweepStep

LEMMA LoneStep ==
  ASSUME BaseInv, BaseInv', LoneInv, NEW o, Sweep = {o}, [Next]_vars
  PROVE  LoneInv'
<1>1. ASSUME NEW e \in Event, EditEvent(e)
      PROVE  LoneInv'
  BY <1>1, LoneShrinks DEF EditEvent, planVars
<1>2. ASSUME RemoveBlock
      PROVE  LoneInv'
  <2>1. blocks' \subseteq blocks /\ UNCHANGED <<now, pc, time, dels, adds, blocked>>
    BY <1>2 DEF RemoveBlock, planVars
  <2> QED
    BY <2>1, LoneShrinks
<1>3. ASSUME Tick
      PROVE  LoneInv'
  <2>1. now' = now + 1 /\ UNCHANGED <<blocks, pc, time, dels, adds, blocked>>
    BY <1>3 DEF Tick, planVars
  <2>2. now \in Nat /\ time[o] \in Nat
    BY BoundAssumption DEF BaseInv, TypeOK
  <2>3. View(o) \in Nat /\ View(o)' \in Nat /\ View(o) <= View(o)'
    BY <2>1, <2>2 DEF View
  <2> QED
    BY <2>1, <2>3, LoneRests
<1>4. CASE TrafficChanges \/ UNCHANGED vars
  BY <1>4, LoneShrinks DEF TrafficChanges, vars, planVars
<1> QED
  BY <1>1, <1>2, <1>3, <1>4, LoneSweep DEF Next

\* As long as sweeps do not overlap a leg has one block whose day is not over, for any
\* events, days, edits and faults (OneBlockPerLeg): a leg is written only when every
\* live block it had was listed, and deleted first.
THEOREM OneBlock == Spec => []OneBlockPerLeg
<1>1. CASE Cardinality(Sweep) = 1
  <2>1. PICK o : Sweep = {o}
    BY <1>1, SweepAssumption, FS_Singleton
  <2> DEFINE LInv == BaseInv /\ LoneInv
  <2>2. Init => LInv
    BY BaseInit, LoneInit
  <2>3. LInv /\ [Next]_vars => LInv'
    BY <2>1, BaseStep, LoneStep
  <2>4. LInv => OneBlockPerLeg
    <3>1. SUFFICES ASSUME LInv
                   PROVE  Alone(blocks, now)
      BY DEF OneBlockPerLeg, Alone
    <3>2. Alone(blocks, View(o))
      BY <2>1, <3>1 DEF LoneInv
    <3>3. View(o) \in Nat /\ now \in Nat /\ View(o) <= now
      BY <2>1, <3>1, BoundAssumption DEF View, BaseInv, TypeOK, Clock
    <3>4. \A b \in blocks : BlockEnd(b) \in Int
      BY <3>1, SlotsOfBlocks DEF BaseInv
    <3> HIDE DEF LInv
    <3> QED
      BY <3>2, <3>3, <3>4, AloneLater
  <2> HIDE DEF LInv
  <2> QED
    BY <2>2, <2>3, <2>4, PTL DEF Spec
<1>2. CASE Cardinality(Sweep) # 1
  <2>1. OneBlockPerLeg
    BY <1>2 DEF OneBlockPerLeg
  <2> QED
    BY <2>1, PTL
<1> QED
  BY <1>1, <1>2

-----------------------------------------------------------------------------
(* Matching blocks. *)

LEMMA SameKey ==
  ASSUME NEW b, NEW r, Same(b, r)
  PROVE  Key(b) = Key(r) /\ b.event = r.event
BY DEF Same, Key

LEMMA SameJoins ==
  ASSUME NEW b, NEW c, NEW r, Same(b, r)
  PROVE  /\ Same(c, r) => Same(c, b)
         /\ Same(c, b) => Same(c, r)
BY DEF Same

LEMMA FirstMatchFacts ==
  ASSUME NEW B, \A b \in B : b.id \in Nat, NEW r, Matched(B, r)
  PROVE  /\ FirstMatch(B, r) \in B /\ Same(FirstMatch(B, r), r)
         /\ \A c \in B : Same(c, r) => FirstMatch(B, r).id <= c.id
<1> DEFINE Ids == {b.id : b \in {c \in B : Same(c, r)}}
<1>1. Ids \in SUBSET Nat /\ Ids # {}
  BY DEF Matched
<1>2. PICK m \in Ids : \A n \in Ids : m <= n
  <2> HIDE DEF Ids
  <2> QED
    BY <1>1, Least
<1>3. PICK b \in B : Same(b, r) /\ b.id = m
  BY <1>2
<1>4. \A c \in B : Same(c, r) => b.id <= c.id
  BY <1>2, <1>3
<1> QED
  BY <1>3, <1>4 DEF FirstMatch

-----------------------------------------------------------------------------
(* A calm sweep leaves the calendars as the events ask. *)

\* The drives of a plan of which no call failed.
Called(E, t, T) == PlannedLegs(E, t, T, Unpriced(E, t, T, {}))

\* The blocks B, with the drives A still to be written, are what the events E ask for:
\* each drive has its block or gets it, and no other stands in the horizon for nothing.
Serves(B, A, E, t, T) ==
  /\ \A r \in Called(E, t, T) : r \in A \/ Matched(B, r)
  /\ \A b \in B : BlockStart(b) >= t /\ BlockStart(b) < HorizonEnd(t) =>
       \E r \in DesiredLegs(E, t, T) : Key(b) = Key(r) /\ (Same(b, r) \/ Anchor(r) <= t)

\* While nothing disturbs a sweep it may do all its work, and what it leaves and writes serves.
CalmInv(s) ==
  /\ pc[s] # "idle" => since[s] <= changes + faults
  /\ pc[s] # "write" => blocked[s] = {}
  /\ pc[s] = "write" /\ Undisturbed(s) =>
       /\ canWrite[s] = Calendar /\ blocked[s] = {}
       /\ dels[s] \subseteq blocks /\ adds[s] \subseteq DesiredLegs(ev, now, traffic)
       /\ Serves(blocks \ dels[s], adds[s], ev, now, traffic)

\* A plan of which no call failed serves, whatever blocks earlier sweeps left.
LEMMA PlanServes ==
  ASSUME NEW E \in Views, NEW t \in Nat, NEW T \in Prices, NEW B \in SUBSET BlockType,
         NEW unpriced, unpriced = Unpriced(E, t, T, {}),
         NEW planned, planned = Legs(PlannedLegs(E, t, T, unpriced), Calendar),
         NEW listed, listed = Legs(Listed(E, t, B), Calendar),
         NEW open, open = listed \ Protected(listed, unpriced)
  PROVE  Serves(B \ Deletes(planned, open, HorizonEnd(t)), Adds(planned, open), E, t, T)
<1>1. planned \subseteq DesiredLegs(E, t, T) /\ open \subseteq B
  BY DEF Legs, PlannedLegs, Listed
<1>2. \A b \in B : /\ b.id \in Nat /\ b.event \in Event /\ CalendarOf[b.event] \in Calendar
                   /\ BlockStart(b) \in Int /\ b.minutes \in Nat \ {0}
  <2>1. ASSUME NEW b \in B
        PROVE  /\ b.id \in Nat /\ b.event \in Event
               /\ b.start \in Nat /\ b.end \in Nat /\ b.minutes \in Nat \ {0}
    BY BoundAssumption, DriveAssumption DEF BlockType
  <2>2. ASSUME NEW b \in B
        PROVE  BlockStart(b) \in Int
    BY <2>1, SlotAssumption DEF BlockStart
  <2> QED
    BY <2>1, <2>2, CalendarAssumption
<1>3. ASSUME NEW r \in Called(E, t, T), r \notin Adds(planned, open)
      PROVE  Matched(B \ Deletes(planned, open, HorizonEnd(t)), r)
  <2>1. r \in DesiredLegs(E, t, T)
    BY <1>3 DEF Called, PlannedLegs
  <2>2. r.event \in Event
    BY <2>1, LegFacts DEF LegType
  <2>3. r \in planned
    BY <1>3, <2>2, CalendarAssumption DEF Called, Legs
  <2>4. Matched(open, r)
    BY <1>3, <2>3 DEF Adds
  <2> DEFINE f == FirstMatch(open, r)
  <2>5. f \in open /\ Same(f, r) /\ Key(f) = Key(r)
    BY <1>1, <1>2, <2>4, FirstMatchFacts, SameKey
  <2>6. ASSUME NEW q \in planned, Key(f) = Key(q)
        PROVE  q = r
    BY <1>1, <2>1, <2>5, <2>6, OneLegPerKey
  <2>7. f \notin Deletes(planned, open, HorizonEnd(t))
    <3>1. f \notin Replaced(planned, open) /\ f \notin Duplicates(planned, open)
      BY <2>4, <2>6 DEF Replaced, Duplicates
    <3>2. f \notin Orphans(planned, open, HorizonEnd(t))
      BY <2>3, <2>5 DEF Orphans
    <3> QED
      BY <3>1, <3>2 DEF Deletes
  <2> HIDE DEF f
  <2> QED
    BY <1>1, <2>5, <2>7 DEF Matched
<1>4. ASSUME NEW b \in B \ Deletes(planned, open, HorizonEnd(t)),
             BlockStart(b) >= t, BlockStart(b) < HorizonEnd(t)
      PROVE  \E r \in DesiredLegs(E, t, T) : Key(b) = Key(r) /\ (Same(b, r) \/ Anchor(r) <= t)
  <2>1. BlockEnd(b) > HorizonStart(t) /\ BlockStart(b) < ListingEnd(E, t)
    <3>1. HorizonStart(t) <= t /\ HorizonStart(t) \in Nat /\ HorizonEnd(t) \in Nat
      BY DayStart, HorizonIsNat
    <3>2. ListingEnd(E, t) >= HorizonEnd(t) + Day /\ ListingEnd(E, t) \in Nat
      BY ListingReaches
    <3> QED
      BY <1>2, <1>4, <3>1, <3>2, SlotAssumption DEF BlockEnd
  <2>2. b \in listed
    BY <1>2, <2>1 DEF Legs, Listed
  <2>3. CASE b \in Protected(listed, unpriced)
    BY <2>3 DEF Protected, Unpriced
  <2>4. CASE b \in open
    <3>1. PICK r \in planned : Key(b) = Key(r)
      BY <1>4, <2>4 DEF Deletes, Orphans
    <3>2. Matched(open, r)
      BY <1>4, <2>4, <3>1 DEF Deletes, Replaced
    <3>3. b = FirstMatch(open, r)
      BY <1>4, <2>4, <3>1, <3>2 DEF Deletes, Duplicates
    <3>4. Same(b, r)
      BY <1>1, <1>2, <3>2, <3>3, FirstMatchFacts
    <3> QED
      BY <1>1, <3>1, <3>4
  <2> QED
    BY <2>2, <2>3, <2>4
<1> QED
  BY <1>3, <1>4 DEF Serves

\* Once everything is written, what serves is settled.
LEMMA ServedIsSettled ==
  ASSUME TypeOK, Alone(blocks, now), Serves(blocks, {}, ev, now, traffic)
  PROVE  Settled
<1>1. now \in Nat /\ HorizonStart(now) <= now /\ HorizonStart(now) \in Nat
  BY DayStart, BoundAssumption DEF TypeOK
<1>2. ASSUME NEW r \in Ahead
      PROVE  /\ Cardinality({b \in blocks : Key(b) = Key(r) /\ BlockEnd(b) > HorizonStart(now)}) = 1
             /\ Matched(blocks, r)
  <2>1. r \in PlannedLegs(ev, now, traffic, {}) /\ Anchor(r) > now /\ r \in DesiredLegs(ev, now, traffic)
    BY <1>2 DEF Ahead, PlannedLegs
  <2>2. r \in LegType
    BY <1>1, <2>1, LegFacts DEF Views, Prices, TypeOK
  <2>3. Anchor(r) \in Nat
    BY <2>2 DEF LegType, Anchor
  <2>4. r \notin Unpriced(ev, now, traffic, {})
    BY <1>1, <2>1, <2>3 DEF Unpriced
  <2>5. ~(r.leg = "return" /\ IsChained(ev, now, traffic, r, Unpriced(ev, now, traffic, {})))
    BY <2>1, ChainedWhenPriced DEF PlannedLegs
  <2>6. r \in Called(ev, now, traffic)
    BY <2>1, <2>4, <2>5 DEF Called, PlannedLegs
  <2>7. PICK b \in blocks : Same(b, r)
    BY <2>6 DEF Serves, Matched
  <2>8. Key(b) = Key(r) /\ b.leg = r.leg /\ b.start = r.start /\ b.end = r.end /\ b.minutes = r.minutes
    BY <2>7 DEF Same, Key
  <2>9. BlockEnd(b) > HorizonStart(now)
    <3>1. BlockEnd(b) = IF b.leg = "outbound" THEN Anchor(r) - r.minutes + r.minutes
                        ELSE Anchor(r) + r.minutes
      BY <2>8 DEF BlockEnd, BlockStart, Anchor
    <3>2. BlockEnd(b) \in Int /\ BlockEnd(b) >= Anchor(r)
      <4>1. r.minutes \in Nat
        BY <2>2, DriveAssumption DEF LegType
      <4> QED
        BY <2>3, <3>1, <4>1
    <3> QED
      BY <1>1, <2>1, <2>3, <3>2
  <2>10. {c \in blocks : Key(c) = Key(r) /\ BlockEnd(c) > HorizonStart(now)} = {b}
    BY <2>8, <2>9 DEF Alone
  <2> QED
    BY <2>7, <2>10, FS_Singleton DEF Matched
<1>3. \A b \in blocks : (BlockStart(b) >= now /\ BlockStart(b) < HorizonEnd(now)) =>
        \E r \in DesiredLegs(ev, now, traffic) : Key(b) = Key(r) /\ (Same(b, r) \/ Anchor(r) <= now)
  BY DEF Serves
<1> QED
  BY <1>2, <1>3 DEF Settled

LEMMA CalmPlan ==
  ASSUME BaseInv, NEW s \in Sweep, PlanSweep(s), CalmInv(s)
  PROVE  CalmInv(s)'
<1> USE DEF BaseInv
<1>1. /\ pc[s] = "read" /\ UNCHANGED <<now, ev, traffic, blocks, changes>>
      /\ \/ Plan(s, Calendar, Calendar, {}, TRUE) /\ UNCHANGED faults
         \/ /\ Fault
            /\ \/ pc'[s] = "idle" /\ blocked'[s] = {}
               \/ pc'[s] = "write" /\ since' = since
  BY DEF PlanSweep, Plan, Reset, TypeOK
<1>2. since[s] \in Nat /\ changes \in Nat /\ faults \in Nat /\ since[s] <= changes + faults
  BY <1>1, BoundAssumption DEF CalmInv, TypeOK
<1>3. CASE Fault
  <2>1. faults' = faults + 1 /\ changes' = changes
    BY <1>1, <1>3 DEF Fault
  <2>2. CASE pc'[s] = "idle" /\ blocked'[s] = {}
    BY <2>2 DEF CalmInv
  <2>3. CASE pc'[s] = "write" /\ since' = since
    <3>1. since'[s] <= changes' + faults' /\ since'[s] # changes' + faults'
      BY <1>2, <2>1, <2>3
    <3> QED
      BY <2>3, <3>1 DEF CalmInv, Undisturbed
  <2>4. CASE Plan(s, Calendar, Calendar, {}, TRUE) /\ UNCHANGED faults
    BY <1>2, <2>1, <2>4
  <2> QED
    BY <1>1, <2>2, <2>3, <2>4
<1>4. CASE Plan(s, Calendar, Calendar, {}, TRUE) /\ UNCHANGED faults
  <2> DEFINE unpriced == Unpriced(seen[s], time[s], traffic, {})
             listed == Legs(Listed(seen[s], time[s], blocks), Calendar)
             planned == Legs(PlannedLegs(seen[s], time[s], traffic, unpriced), Calendar)
             open == listed \ Protected(listed, unpriced)
             drop == Deletes(planned, open, HorizonEnd(time[s]))
  <2>1. /\ dels' = [dels EXCEPT ![s] = drop]
        /\ adds' = [adds EXCEPT ![s] = Adds(planned, open)]
        /\ canWrite' = [canWrite EXCEPT ![s] = Calendar]
        /\ UNCHANGED <<seen, time, since, blocked>>
    BY <1>4 DEF Plan
  <2>2. seen[s] \in Views /\ time[s] \in Nat /\ traffic \in Prices /\ blocks \in SUBSET BlockType
    BY <1>1, BoundAssumption DEF Clock, TypeOK, Prices
  <2>3. Serves(blocks \ drop, Adds(planned, open), seen[s], time[s], traffic)
    BY <2>2, PlanServes
  <2>4. Adds(planned, open) \subseteq DesiredLegs(seen[s], time[s], traffic)
    BY DEF Adds, Legs, PlannedLegs
  <2>5. drop \subseteq blocks
    BY DEF Deletes, Replaced, Duplicates, Orphans, Legs, Listed
  <2> HIDE DEF drop, open, planned, listed, unpriced
  <2> DEFINE more == Adds(planned, open)
  <2> HIDE DEF more
  <2>6. dels'[s] = drop /\ adds'[s] = more /\ canWrite'[s] = Calendar /\ blocked'[s] = {}
    <3>1. blocked[s] = {}
      BY <1>1, <1>4 DEF CalmInv
    <3> QED
      BY <2>1, <3>1 DEF TypeOK, more
  <2>7. Undisturbed(s)' => seen[s] = ev /\ time[s] = now
    BY <1>1, <2>1 DEF Undisturbed
  <2>8. since'[s] <= changes' + faults'
    BY <1>1, <1>2, <1>4, <2>1
  <2>9. Undisturbed(s)' =>
          /\ dels'[s] \subseteq blocks' /\ adds'[s] \subseteq DesiredLegs(ev', now', traffic')
          /\ Serves(blocks' \ dels'[s], adds'[s], ev', now', traffic')
    BY <1>1, <2>3, <2>4, <2>5, <2>6, <2>7 DEF more
  <2> QED
    BY <2>6, <2>8, <2>9 DEF CalmInv, Serves, Called
<1> QED
  BY <1>1, <1>3, <1>4

LEMMA CalmDelete ==
  ASSUME BaseInv, NEW s \in Sweep, DeleteBlock(s), CalmInv(s)
  PROVE  CalmInv(s)'
<1> USE DEF BaseInv
<1> DEFINE b == NextDelete(s)
<1>1. /\ pc[s] = "write" /\ b \in dels[s]
      /\ dels' = [dels EXCEPT ![s] = dels[s] \ {b}]
      /\ UNCHANGED <<now, ev, traffic, pc, seen, time, price, since, adds, canWrite, changes, calm>>
  BY DeleteStep DEF DeleteBlock
<1>2. since[s] \in Nat /\ changes \in Nat /\ faults \in Nat /\ since[s] <= changes + faults
  BY <1>1, BoundAssumption DEF CalmInv, TypeOK
<1>3. CASE Fault
  <2>1. since'[s] <= changes' + faults' /\ since'[s] # changes' + faults'
    BY <1>1, <1>2, <1>3 DEF Fault
  <2> QED
    BY <1>1, <2>1 DEF CalmInv, Undisturbed
<1>4. ASSUME faults' = faults, Undisturbed(s)
      PROVE  blocks' = blocks \ {b} /\ blocked' = blocked
  <2>1. b \in blocks /\ canWrite[s] = Calendar
    BY <1>1, <1>4 DEF CalmInv
  <2>2. CalendarOf[b.event] \in Calendar
    BY <2>1, CalendarAssumption DEF TypeOK, BlockType
  <2>3. ~Fault
    BY <1>2, <1>4 DEF Fault
  <2> QED
    BY <2>1, <2>2, <2>3 DEF DeleteBlock
<1>5. CASE faults' = faults
  <2>1. since'[s] <= changes' + faults'
    BY <1>1, <1>2, <1>5
  <2>2. SUFFICES ASSUME Undisturbed(s)'
                 PROVE  /\ canWrite'[s] = Calendar /\ blocked'[s] = {}
                        /\ dels'[s] \subseteq blocks' /\ adds'[s] \subseteq DesiredLegs(ev', now', traffic')
                        /\ Serves(blocks' \ dels'[s], adds'[s], ev', now', traffic')
    BY <1>1, <2>1 DEF CalmInv, Serves, Called
  <2>3. Undisturbed(s)
    BY <1>1, <1>5, <2>2 DEF Undisturbed
  <2>4. /\ canWrite[s] = Calendar /\ blocked[s] = {}
        /\ dels[s] \subseteq blocks /\ adds[s] \subseteq DesiredLegs(ev, now, traffic)
        /\ Serves(blocks \ dels[s], adds[s], ev, now, traffic)
    BY <1>1, <2>3 DEF CalmInv
  <2>5. blocks' = blocks \ {b} /\ blocked' = blocked /\ dels'[s] = dels[s] \ {b}
    BY <1>1, <1>4, <1>5, <2>3 DEF TypeOK
  <2>6. blocks' \ dels'[s] = blocks \ dels[s]
    BY <1>1, <2>5
  <2>7. ev' = ev /\ now' = now /\ traffic' = traffic /\ adds' = adds /\ canWrite' = canWrite
    BY <1>1
  <2> HIDE DEF b
  <2> QED
    BY <2>4, <2>5, <2>6, <2>7
<1>6. Fault \/ faults' = faults
  BY DEF DeleteBlock
<1> QED
  BY <1>3, <1>5, <1>6

LEMMA CalmInsert ==
  ASSUME BaseInv, NEW s \in Sweep, InsertBlock(s), CalmInv(s)
  PROVE  CalmInv(s)'
<1> USE DEF BaseInv
<1> DEFINE r == CHOOSE x \in adds[s] : \A y \in adds[s] : BlockStart(x) <= BlockStart(y)
<1>1. /\ pc[s] = "write" /\ dels[s] = {} /\ r \in adds[s]
      /\ adds' = [adds EXCEPT ![s] = adds[s] \ {r}]
      /\ UNCHANGED <<now, ev, traffic, pc, seen, time, price, since, dels, blocked, canWrite, changes, calm>>
      /\ \/ ~MayInsert(s, r) /\ UNCHANGED <<blocks, faults>>
         \/ MayInsert(s, r) /\ InsertInto(r) /\ UNCHANGED faults
         \/ MayInsert(s, r) /\ Fault /\ UNCHANGED blocks
  BY FirstAdd DEF InsertBlock
<1> HIDE DEF r
<1>2. since[s] \in Nat /\ changes \in Nat /\ faults \in Nat /\ since[s] <= changes + faults
  BY <1>1, BoundAssumption DEF CalmInv, TypeOK
<1>3. CASE Fault
  <2>1. since'[s] <= changes' + faults' /\ since'[s] # changes' + faults'
    BY <1>1, <1>2, <1>3 DEF Fault
  <2> QED
    BY <1>1, <2>1 DEF CalmInv, Undisturbed
<1>4. CASE ~Fault
  <2>1. since'[s] <= changes' + faults' /\ faults' = faults
    BY <1>1, <1>2, <1>4
  <2>2. SUFFICES ASSUME Undisturbed(s)'
                 PROVE  /\ canWrite'[s] = Calendar /\ blocked'[s] = {}
                        /\ dels'[s] \subseteq blocks' /\ adds'[s] \subseteq DesiredLegs(ev', now', traffic')
                        /\ Serves(blocks' \ dels'[s], adds'[s], ev', now', traffic')
    BY <1>1, <2>1 DEF CalmInv, Serves, Called
  <2>3. Undisturbed(s)
    BY <1>1, <2>1, <2>2 DEF Undisturbed
  <2>4. /\ canWrite[s] = Calendar /\ blocked[s] = {}
        /\ adds[s] \subseteq DesiredLegs(ev, now, traffic) /\ Serves(blocks, adds[s], ev, now, traffic)
    <3>1. blocks \ dels[s] = blocks
      BY <1>1
    <3> QED
      BY <1>1, <2>3, <3>1 DEF CalmInv
  <2>5. r \in DesiredLegs(ev, now, traffic) /\ r.event \in Event
    BY <1>1, <2>4 DEF TypeOK, LegType
  <2>6. MayInsert(s, r)
    BY <2>4, <2>5, CalendarAssumption DEF MayInsert
  <2>7. PICK n \in BlockId : blocks' = blocks \cup {NewBlock(r, n)}
    BY <1>1, <1>4, <2>6 DEF InsertInto
  <2>8. Same(NewBlock(r, n), r) /\ Key(NewBlock(r, n)) = Key(r)
    BY DEF NewBlock, Same, Key
  <2>9. adds'[s] = adds[s] \ {r} /\ dels'[s] = {} /\ ev' = ev /\ now' = now
        /\ traffic' = traffic /\ canWrite' = canWrite /\ blocked' = blocked
    BY <1>1 DEF TypeOK
  <2>10. Serves(blocks', adds[s] \ {r}, ev, now, traffic)
    <3>1. ASSUME NEW q \in Called(ev, now, traffic)
          PROVE  q \in adds[s] \ {r} \/ Matched(blocks', q)
      BY <2>4, <2>7, <2>8 DEF Serves, Matched
    <3>2. ASSUME NEW b \in blocks', BlockStart(b) >= now, BlockStart(b) < HorizonEnd(now)
          PROVE  \E q \in DesiredLegs(ev, now, traffic) :
                   Key(b) = Key(q) /\ (Same(b, q) \/ Anchor(q) <= now)
      BY <2>4, <2>5, <2>7, <2>8, <3>2 DEF Serves
    <3> QED
      BY <3>1, <3>2 DEF Serves
  <2>11. blocks' \ dels'[s] = blocks'
    BY <2>9
  <2> QED
    BY <2>4, <2>9, <2>10, <2>11
<1> QED
  BY <1>3, <1>4

LEMMA CalmSweep ==
  ASSUME BaseInv, NEW s \in Sweep, SweepStep(s) \/ Crash(s), CalmInv(s)
  PROVE  CalmInv(s)'
<1>1. CASE ReadEvents(s)
  <2>1. /\ pc[s] = "idle" /\ pc'[s] = "read" /\ since'[s] = changes + faults
        /\ UNCHANGED <<blocked, changes, faults>>
    BY <1>1 DEF ReadEvents, BaseInv, TypeOK
  <2>2. changes + faults <= changes + faults
    BY BoundAssumption DEF BaseInv, TypeOK
  <2> QED
    BY <2>1, <2>2 DEF CalmInv
<1>2. CASE Finish(s) \/ Crash(s)
  <2>1. pc'[s] = "idle" /\ blocked'[s] = {}
    BY <1>2 DEF Finish, Crash, Reset, BaseInv, TypeOK
  <2> QED
    BY <2>1 DEF CalmInv
<1> QED
  BY <1>1, <1>2, CalmPlan, CalmDelete, CalmInsert DEF SweepStep

\* People, traffic and midnight disturb a sweep.
LEMMA CalmOthers ==
  ASSUME BaseInv, NEW s \in Sweep, CalmInv(s),
         (\E e \in Event : EditEvent(e)) \/ RemoveBlock \/ TrafficChanges \/ Tick \/ UNCHANGED vars
  PROVE  CalmInv(s)'
<1> USE DEF BaseInv
<1>1. CASE (\E e \in Event : EditEvent(e)) \/ RemoveBlock \/ TrafficChanges
  <2>1. UNCHANGED <<pc, planVars, faults>> /\ changes' = changes + 1
    BY <1>1 DEF EditEvent, RemoveBlock, TrafficChanges, Change
  <2>2. since[s] \in Nat /\ changes \in Nat /\ faults \in Nat
    BY BoundAssumption DEF TypeOK
  <2>3. pc'[s] # "idle" => since'[s] <= changes' + faults' /\ since'[s] # changes' + faults'
    BY <2>1, <2>2 DEF CalmInv, planVars
  <2> QED
    BY <2>1, <2>3 DEF CalmInv, Undisturbed, planVars
<1>2. CASE Tick
  <2>1. UNCHANGED <<pc, planVars, changes, faults>> /\ now' = now + 1
    BY <1>2 DEF Tick
  <2>2. time'[s] # now'
    BY <2>1, BoundAssumption DEF TypeOK, Clock, planVars
  <2> QED
    BY <2>1, <2>2 DEF CalmInv, Undisturbed, planVars
<1>3. CASE UNCHANGED vars
  <2>1. CalmInv(s)' <=> CalmInv(s)
    BY <1>3 DEF CalmInv, Undisturbed, Serves, Called, vars, planVars
  <2> QED
    BY <2>1
<1> QED
  BY <1>1, <1>2, <1>3

\* A sweep that runs alone and is not disturbed leaves every drive still ahead with its
\* one block, and no block for a drive nobody needs, for any events and whatever earlier
\* sweeps, faults and people left on the calendars (CalmSweepSettles).
THEOREM CalmSweepsSettle == Spec => []CalmSweepSettles
<1>1. CASE Cardinality(Sweep) = 1
  <2>1. PICK o : Sweep = {o}
    BY <1>1, SweepAssumption, FS_Singleton
  <2> DEFINE CInv == BaseInv /\ LoneInv /\ CalmInv(o)
  <2>2. Init => CInv
    BY <2>1, BaseInit, LoneInit DEF Init, CalmInv
  <2>3. CInv /\ [Next]_vars => CInv'
    <3>1. SUFFICES ASSUME CInv, [Next]_vars
                   PROVE  CInv'
      OBVIOUS
    <3>2. BaseInv' /\ LoneInv'
      BY <2>1, <3>1, BaseStep, LoneStep
    <3>3. CalmInv(o)'
      BY <2>1, <3>1, CalmSweep, CalmOthers DEF Next
    <3> QED
      BY <3>2, <3>3
  <2>4. CInv => CalmSweepSettles
    <3>1. SUFFICES ASSUME CInv, Swept(o), Undisturbed(o)
                   PROVE  Settled
      BY <2>1 DEF CalmSweepSettles
    <3>2. Serves(blocks, {}, ev, now, traffic)
      <4>1. blocks \ dels[o] = blocks /\ adds[o] = {} /\ pc[o] = "write"
        BY <3>1 DEF Swept
      <4>2. Serves(blocks \ dels[o], adds[o], ev, now, traffic)
        BY <3>1, <4>1 DEF CalmInv
      <4> QED
        BY <4>1, <4>2
    <3>3. Alone(blocks, now)
      BY <2>1, <3>1 DEF LoneInv, View, Swept, Undisturbed
    <3> QED
      BY <3>1, <3>2, <3>3, ServedIsSettled DEF BaseInv
  <2> HIDE DEF CInv
  <2> QED
    BY <2>2, <2>3, <2>4, PTL DEF Spec
<1>2. CASE Cardinality(Sweep) # 1
  <2>1. CalmSweepSettles
    BY <1>2 DEF CalmSweepSettles
  <2> QED
    BY <2>1, PTL
<1> QED
  BY <1>1, <1>2

-----------------------------------------------------------------------------
(* A right block stays. *)

\* A plan never replaces nor drops a right block: its leg has its price, or the block is
\* protected, and a drive that is needed when all prices are known is needed when some
\* are not.  It deletes one only as the duplicate of another it found.
LEMMA PlanLeavesOne ==
  ASSUME NEW E, NEW t, NEW T, NEW B, \A b \in B : b.id \in Nat, NEW C,
         NEW unpriced \in SUBSET DesiredLegs(E, t, T),
         NEW planned, planned = Legs(PlannedLegs(E, t, T, unpriced), C),
         NEW open, open = Legs(Listed(E, t, B), C) \ Protected(Legs(Listed(E, t, B), C), unpriced),
         NEW d \in Deletes(planned, open, HorizonEnd(t)), Right(d, E, t, T)
  PROVE  /\ d \in B /\ BlockEnd(d) > HorizonStart(t)
         /\ \E f \in B : /\ Same(f, d) /\ f # d /\ f.id <= d.id
                         /\ BlockEnd(f) > HorizonStart(t)
<1>1. PICK r \in PlannedLegs(E, t, T, {}) : Same(d, r)
  BY DEF Right
<1>2. r \in DesiredLegs(E, t, T) /\ ~(r.leg = "return" /\ IsChained(E, t, T, r, {}))
  BY DEF PlannedLegs
<1>3. d \in open
  BY DEF Deletes, Replaced, Duplicates, Orphans
<1>4. d \in Listed(E, t, B) /\ CalendarOf[d.event] \in C
      /\ d \notin Protected(Legs(Listed(E, t, B), C), unpriced)
      /\ d \in Legs(Listed(E, t, B), C)
  BY <1>3 DEF Legs
<1>5. r \notin unpriced
  BY <1>1, <1>4, SameKey DEF Protected
<1>6. r \in planned
  <2>1. r \in PlannedLegs(E, t, T, unpriced)
    BY <1>2, <1>5, ChainedWhenPriced DEF PlannedLegs
  <2> QED
    BY <1>1, <1>4, <2>1, SameKey DEF Legs
<1>7. \A q \in planned : Key(d) = Key(q) => q = r
  <2>1. planned \subseteq DesiredLegs(E, t, T)
    BY DEF Legs, PlannedLegs
  <2> QED
    BY <1>1, <1>2, <2>1, SameKey, OneLegPerKey
<1>8. Matched(open, r)
  BY <1>1, <1>3 DEF Matched
<1>9. d # FirstMatch(open, r)
  <2>1. d \notin Replaced(planned, open)
    BY <1>7, <1>8 DEF Replaced
  <2>2. d \notin Orphans(planned, open, HorizonEnd(t))
    BY <1>1, <1>6, SameKey DEF Orphans
  <2>3. d \in Duplicates(planned, open)
    BY <2>1, <2>2 DEF Deletes
  <2> QED
    BY <1>7, <2>3 DEF Duplicates
<1>10. open \subseteq Listed(E, t, B)
  BY DEF Legs
<1>11. \A b \in Listed(E, t, B) : b \in B /\ BlockEnd(b) > HorizonStart(t)
  BY DEF Listed
<1>12. /\ FirstMatch(open, r) \in open /\ Same(FirstMatch(open, r), r)
       /\ FirstMatch(open, r).id <= d.id
  BY <1>1, <1>3, <1>8, <1>10, <1>11, FirstMatchFacts
<1> QED
  BY <1>1, <1>4, <1>9, <1>10, <1>11, <1>12, SameJoins

\* Blocks have ids of their own, and what is to be deleted keeps its id to itself.
Distinct ==
  /\ \A b, c \in blocks : b.id = c.id => b = c
  /\ \A s \in Sweep : \A d \in dels[s], b \in blocks : d.id = b.id => d = b

\* While nothing but sweeps does anything they agree on the events, the day and the travel
\* times, and below each right block they are to delete stands an older one of its leg.
Backed(s) ==
  calm => /\ pc[s] # "idle" => seen[s] = ev /\ HorizonStart(time[s]) = HorizonStart(now)
          /\ pc[s] = "write" => price[s] = traffic
          /\ \A d \in dels[s] \cap blocks : Right(d, ev, now, traffic) =>
               \E f \in blocks : Same(f, d) /\ f.id < d.id

DayInv == Distinct /\ \A s \in Sweep : Backed(s)

LEMMA IdsAreNat ==
  ASSUME TypeOK
  PROVE  /\ \A b \in blocks : b.id \in Nat
         /\ \A s \in Sweep : \A d \in dels[s] : d.id \in Nat
<1>1. \A b \in BlockType : b.id \in Nat
  BY BoundAssumption DEF BlockType
<1>2. blocks \subseteq BlockType /\ \A s \in Sweep : dels[s] \subseteq BlockType
  BY DEF TypeOK
<1> QED
  BY <1>1, <1>2

LEMMA RightAllDay ==
  ASSUME NEW E, NEW t, NEW u, NEW T, HorizonStart(t) = HorizonStart(u),
         NEW d, NEW x, Same(x, d), Right(d, E, t, T)
  PROVE  Right(x, E, u, T)
<1>1. PlannedLegs(E, t, T, {}) = PlannedLegs(E, u, T, {})
  BY SameDayPlan
<1> QED
  BY <1>1, SameJoins DEF Right

LEMMA DayInit ==
  ASSUME Init
  PROVE  DayInv
BY DEF Init, DayInv, Distinct, Backed

\* Where no sweep is under way there is nothing to disagree about.
LEMMA DayRests ==
  ASSUME BaseInv', Distinct', \A s \in Sweep : pc'[s] = "idle"
  PROVE  DayInv'
<1>1. \A s \in Sweep : dels'[s] = {}
  BY DEF BaseInv, TypeOK
<1> QED
  BY <1>1 DEF DayInv, Backed

\* Steps that leave the blocks alone and plan nothing.
LEMMA DayKeeps ==
  ASSUME BaseInv, DayInv, blocks' = blocks,
         calm' => /\ calm /\ UNCHANGED <<ev, traffic>>
                  /\ HorizonStart(now') = HorizonStart(now),
         \A s \in Sweep : \/ dels'[s] = {} /\ pc'[s] = "idle"
                          \/ dels'[s] = {} /\ pc'[s] = "read" /\ seen'[s] = ev /\ time'[s] = now
                          \/ /\ dels'[s] = dels[s] /\ pc'[s] = pc[s] /\ price'[s] = price[s]
                             /\ seen'[s] = seen[s] /\ time'[s] = time[s]
  PROVE  DayInv'
<1>1. Distinct'
  BY DEF DayInv, Distinct
<1>2. SUFFICES ASSUME NEW s \in Sweep, calm'
               PROVE  /\ pc'[s] # "idle" => /\ seen'[s] = ev'
                                            /\ HorizonStart(time'[s]) = HorizonStart(now')
                      /\ pc'[s] = "write" => price'[s] = traffic'
                      /\ \A d \in dels'[s] \cap blocks' : Right(d, ev', now', traffic') =>
                           \E f \in blocks' : Same(f, d) /\ f.id < d.id
  BY <1>1 DEF DayInv, Backed
<1>3. calm /\ ev' = ev /\ traffic' = traffic /\ HorizonStart(now') = HorizonStart(now)
  BY <1>2
<1>4. /\ pc[s] # "idle" => seen[s] = ev /\ HorizonStart(time[s]) = HorizonStart(now)
      /\ pc[s] = "write" => price[s] = traffic
      /\ \A d \in dels[s] \cap blocks : Right(d, ev, now, traffic) =>
           \E f \in blocks : Same(f, d) /\ f.id < d.id
  BY <1>3 DEF DayInv, Backed
<1>5. ASSUME NEW d, Right(d, ev, now', traffic)
      PROVE  Right(d, ev, now, traffic)
  BY <1>3, <1>5, SameDayPlan DEF Right
<1> QED
  BY <1>3, <1>4, <1>5

\* Deleting a block leaves every other right one with an older one: when that is the one
\* that goes, it had an older one itself.
LEMMA DayDelete ==
  ASSUME BaseInv, DayInv, NEW s \in Sweep, DeleteBlock(s)
  PROVE  DayInv'
<1>1. PICK x \in dels[s] :
        /\ dels' = [dels EXCEPT ![s] = dels[s] \ {x}]
        /\ blocks' \in {blocks, blocks \ {x}}
        /\ UNCHANGED <<now, ev, traffic, pc, seen, time, price, calm>>
  BY DeleteStep
<1>2. \A q \in Sweep : dels'[q] \subseteq dels[q]
  BY <1>1 DEF BaseInv, TypeOK
<1>3. Distinct'
  BY <1>1, <1>2 DEF DayInv, Distinct
<1>4. ASSUME NEW q \in Sweep, calm
      PROVE  /\ pc[q] # "idle" => seen[q] = ev /\ HorizonStart(time[q]) = HorizonStart(now)
             /\ pc[q] = "write" => price[q] = traffic
             /\ \A d \in dels'[q] \cap blocks' : Right(d, ev, now, traffic) =>
                  \E f \in blocks' : Same(f, d) /\ f.id < d.id
  <2>1. /\ pc[q] # "idle" => seen[q] = ev /\ HorizonStart(time[q]) = HorizonStart(now)
        /\ pc[q] = "write" => price[q] = traffic
        /\ \A d \in dels[q] \cap blocks : Right(d, ev, now, traffic) =>
             \E f \in blocks : Same(f, d) /\ f.id < d.id
    BY <1>4 DEF DayInv, Backed
  <2>2. SUFFICES ASSUME NEW d \in dels'[q] \cap blocks', Right(d, ev, now, traffic)
                 PROVE  \E f \in blocks' : Same(f, d) /\ f.id < d.id
    BY <2>1
  <2>3. PICK f \in blocks : Same(f, d) /\ f.id < d.id
    BY <1>1, <1>2, <2>1, <2>2
  <2>4. CASE f \in blocks'
    BY <2>3, <2>4
  <2>5. CASE f \notin blocks'
    <3>1. f = x /\ blocks' = blocks \ {x}
      BY <1>1, <2>3, <2>5
    <3>2. Right(x, ev, now, traffic)
      BY <2>2, <2>3, <3>1, RightAllDay
    <3>3. PICK g \in blocks : Same(g, x) /\ g.id < x.id
      BY <1>4, <2>3, <3>1, <3>2 DEF DayInv, Backed
    <3>4. g.id \in Nat /\ x.id \in Nat /\ d.id \in Nat
      BY <1>1, <1>2, <2>2, IdsAreNat DEF BaseInv
    <3>5. g \in blocks' /\ g.id < d.id
      BY <2>3, <3>1, <3>3, <3>4
    <3>6. Same(g, d)
      BY <2>3, <3>1, <3>3, SameJoins
    <3> QED
      BY <3>5, <3>6
  <2> QED
    BY <2>4, <2>5
<1>5. ASSUME NEW q \in Sweep
      PROVE  Backed(q)'
  BY <1>1, <1>4, <1>5 DEF Backed
<1> QED
  BY <1>3, <1>5 DEF DayInv

LEMMA DayInsert ==
  ASSUME BaseInv, DayInv, NEW s \in Sweep, InsertBlock(s)
  PROVE  DayInv'
<1>1. UNCHANGED <<now, ev, traffic, pc, seen, time, price, dels, calm>>
  BY InsertStep
<1>2. CASE blocks' = blocks
  BY <1>1, <1>2, DayKeeps
<1>3. CASE blocks' # blocks
  <2>1. PICK r \in adds[s], n \in BlockId : FreshId(n) /\ blocks' = blocks \cup {NewBlock(r, n)}
    BY <1>3, InsertStep
  <2>2. PICK x : x = NewBlock(r, n)
    OBVIOUS
  <2>3. x.id = n /\ blocks' = blocks \cup {x}
    BY <2>1, <2>2 DEF NewBlock
  <2>4. (\A b \in blocks : b.id # x.id) /\ \A q \in Sweep : \A d \in dels[q] : d.id # x.id
    BY <2>1, <2>3 DEF FreshId
  <2>5. Distinct'
    BY <1>1, <2>3, <2>4 DEF DayInv, Distinct
  <2>6. ASSUME NEW q \in Sweep
        PROVE  Backed(q)'
    <3>1. \A d \in dels[q] : d \in blocks' => d \in blocks
      BY <2>3, <2>4
    <3>2. Backed(q)
      BY DEF DayInv
    <3> QED
      BY <1>1, <2>3, <3>1, <3>2 DEF Backed
  <2> QED
    BY <2>5, <2>6 DEF DayInv
<1> QED
  BY <1>2, <1>3

LEMMA DayPlan ==
  ASSUME BaseInv, DayInv, NEW s \in Sweep, PlanSweep(s), ~Reset(s)
  PROVE  DayInv'
<1>1. /\ pc[s] = "read" /\ pc' = [pc EXCEPT ![s] = "write"]
      /\ price' = [price EXCEPT ![s] = traffic]
      /\ UNCHANGED <<now, ev, traffic, blocks, seen, time, calm>>
  BY PlanStep
<1>2. PICK C \in SUBSET Calendar, unpriced \in SUBSET DesiredLegs(seen[s], time[s], traffic) :
        /\ adds' = [adds EXCEPT ![s] =
                      Adds(Wanted(s, C, unpriced), Open(s, C, unpriced))]
        /\ dels' = [dels EXCEPT ![s] =
                      Deletes(Wanted(s, C, unpriced), Open(s, C, unpriced),
                              HorizonEnd(time[s]))]
  BY PlanStep
<1>3. PICK planned : planned = Wanted(s, C, unpriced)
  OBVIOUS
<1>4. PICK open : open = Open(s, C, unpriced)
  OBVIOUS
<1>5. /\ planned = Legs(PlannedLegs(seen[s], time[s], traffic, unpriced), C)
      /\ open = Legs(Listed(seen[s], time[s], blocks), C)
                \ Protected(Legs(Listed(seen[s], time[s], blocks), C), unpriced)
  BY <1>3, <1>4 DEF Wanted, Open
<1>6. /\ dels'[s] = Deletes(planned, open, HorizonEnd(time[s]))
      /\ \A q \in Sweep \ {s} : dels'[q] = dels[q]
  BY <1>2, <1>3, <1>4 DEF BaseInv, TypeOK
<1>7. dels'[s] \subseteq blocks
  BY <1>4, <1>6, WantedFacts DEF Deletes, Replaced, Duplicates, Orphans
<1>8. Distinct'
  BY <1>1, <1>6, <1>7 DEF DayInv, Distinct
<1>9. ASSUME NEW q \in Sweep, calm
      PROVE  /\ pc'[q] # "idle" => seen[q] = ev /\ HorizonStart(time[q]) = HorizonStart(now)
             /\ pc'[q] = "write" => price'[q] = traffic
             /\ \A d \in dels'[q] \cap blocks : Right(d, ev, now, traffic) =>
                  \E f \in blocks : Same(f, d) /\ f.id < d.id
  <2>1. /\ pc[q] # "idle" => seen[q] = ev /\ HorizonStart(time[q]) = HorizonStart(now)
        /\ pc[q] = "write" => price[q] = traffic
        /\ \A d \in dels[q] \cap blocks : Right(d, ev, now, traffic) =>
             \E f \in blocks : Same(f, d) /\ f.id < d.id
    BY <1>9 DEF DayInv, Backed
  <2>2. CASE q # s
    <3>1. dels'[q] = dels[q] /\ pc'[q] = pc[q] /\ price'[q] = price[q]
      BY <1>1, <1>6, <2>2 DEF BaseInv, TypeOK
    <3> QED
      BY <2>1, <3>1
  <2>3. CASE q = s
    <3>1. seen[s] = ev /\ HorizonStart(time[s]) = HorizonStart(now)
      BY <1>1, <2>1, <2>3
    <3>2. price'[s] = traffic
      BY <1>1 DEF BaseInv, TypeOK
    <3>3. ASSUME NEW d \in dels'[s], Right(d, ev, now, traffic)
          PROVE  \E f \in blocks : Same(f, d) /\ f.id < d.id
      <4>1. \A b \in blocks : b.id \in Nat
        BY IdsAreNat DEF BaseInv
      <4>2. Right(d, seen[s], time[s], traffic)
        BY <3>1, <3>3, SameDayPlan DEF Right
      <4>3. d \in blocks /\ \E f \in blocks : Same(f, d) /\ f # d /\ f.id <= d.id
        BY <1>5, <1>6, <3>3, <4>1, <4>2, PlanLeavesOne
      <4> QED
        BY <4>1, <4>3 DEF DayInv, Distinct
    <3> QED
      BY <2>3, <3>1, <3>2, <3>3
  <2> QED
    BY <2>2, <2>3
<1>10. ASSUME NEW q \in Sweep
       PROVE  Backed(q)'
  BY <1>1, <1>9, <1>10 DEF Backed
<1> QED
  BY <1>8, <1>10 DEF DayInv

LEMMA DaySweep ==
  ASSUME BaseInv, BaseInv', DayInv, NEW s \in Sweep, SweepStep(s) \/ Crash(s)
  PROVE  DayInv'
<1>1. ASSUME Reset(s), UNCHANGED <<now, ev, traffic, blocks>>
      PROVE  DayInv'
  <2>1. \A q \in Sweep :
          \/ dels'[q] = {} /\ pc'[q] = "idle"
          \/ /\ dels'[q] = dels[q] /\ pc'[q] = pc[q] /\ price'[q] = price[q]
             /\ seen'[q] = seen[q] /\ time'[q] = time[q]
    BY <1>1 DEF Reset, BaseInv, TypeOK
  <2>2. CASE AllIdle(Sweep \ {s})
    <3>1. \A q \in Sweep : pc'[q] = "idle"
      BY <1>1, <2>2 DEF Reset, AllIdle, BaseInv, TypeOK
    <3>2. Distinct'
      BY <1>1, <2>1 DEF DayInv, Distinct
    <3> QED
      BY <3>1, <3>2, DayRests
  <2>3. CASE ~AllIdle(Sweep \ {s})
    <3>1. calm' = calm
      BY <1>1, <2>3 DEF Reset, BaseInv, TypeOK
    <3> QED
      BY <1>1, <2>1, <3>1, DayKeeps
  <2> QED
    BY <2>2, <2>3
<1>2. ASSUME ReadEvents(s)
      PROVE  DayInv'
  <2>1. \A q \in Sweep :
          \/ dels'[q] = {} /\ pc'[q] = "read" /\ seen'[q] = ev /\ time'[q] = now
          \/ /\ dels'[q] = dels[q] /\ pc'[q] = pc[q] /\ price'[q] = price[q]
             /\ seen'[q] = seen[q] /\ time'[q] = time[q]
    BY <1>2 DEF ReadEvents, BaseInv, TypeOK
  <2>2. UNCHANGED <<now, ev, traffic, blocks, calm>>
    BY <1>2 DEF ReadEvents
  <2> QED
    BY <2>1, <2>2, DayKeeps
<1>3. CASE PlanSweep(s)
  BY <1>1, <1>3, PlanStep, DayPlan
<1>4. CASE Finish(s) \/ Crash(s)
  BY <1>1, <1>4 DEF Finish, Crash
<1> QED
  BY <1>2, <1>3, <1>4, DayDelete, DayInsert DEF SweepStep

LEMMA DayStep ==
  ASSUME BaseInv, BaseInv', DayInv, [Next]_vars
  PROVE  DayInv'
<1>1. ASSUME Change, UNCHANGED planVars, pc' = pc, blocks' \subseteq blocks
      PROVE  DayInv'
  <2>1. Distinct'
    BY <1>1 DEF DayInv, Distinct, planVars
  <2>2. CASE AllIdle(Sweep)
    BY <1>1, <2>1, <2>2, DayRests DEF AllIdle
  <2>3. CASE ~AllIdle(Sweep)
    <3>1. calm' = FALSE
      BY <1>1, <2>3 DEF Change
    <3> QED
      BY <2>1, <3>1 DEF DayInv, Backed
  <2> QED
    BY <2>2, <2>3
<1>2. ASSUME NEW e \in Event, EditEvent(e)
      PROVE  DayInv'
  BY <1>1, <1>2 DEF EditEvent
<1>3. ASSUME RemoveBlock
      PROVE  DayInv'
  <2>1. blocks' \subseteq blocks
    BY <1>3 DEF RemoveBlock
  <2> QED
    BY <1>1, <1>3, <2>1 DEF RemoveBlock
<1>4. ASSUME TrafficChanges
      PROVE  DayInv'
  BY <1>1, <1>4 DEF TrafficChanges
<1>5. ASSUME Tick
      PROVE  DayInv'
  <2>1. UNCHANGED <<ev, traffic, blocks, pc, seen, time, price, dels>> /\ now' = now + 1
    BY <1>5 DEF Tick, planVars
  <2>2. CASE AllIdle(Sweep)
    <3>1. Distinct'
      BY <2>1 DEF DayInv, Distinct
    <3> QED
      BY <2>1, <2>2, <3>1, DayRests DEF AllIdle
  <2>3. CASE ~AllIdle(Sweep)
    <3>1. calm' => calm /\ HorizonStart(now') = HorizonStart(now)
      BY <1>5, <2>1, <2>3 DEF Tick
    <3> QED
      BY <2>1, <3>1, DayKeeps
  <2> QED
    BY <2>2, <2>3
<1>6. ASSUME UNCHANGED vars
      PROVE  DayInv'
  <2>1. UNCHANGED <<now, ev, traffic, blocks, pc, seen, time, price, dels, calm>>
    BY <1>6 DEF vars, planVars
  <2> QED
    BY <2>1, DayKeeps
<1> QED
  BY <1>2, <1>3, <1>4, <1>5, <1>6, DaySweep DEF Next

\* Where sweeps do not overlap, no right block is ever up for deletion: it would be a
\* duplicate, and a leg has one block.
NoneRight == \A s \in Sweep : \A d \in dels[s] : ~Right(d, seen[s], time[s], price[s])

LEMMA NoneRightStep ==
  ASSUME BaseInv, LoneInv, NoneRight, NEW o, Sweep = {o}, [Next]_vars
  PROVE  NoneRight'
<1>1. ASSUME \/ dels'[o] = {}
             \/ /\ dels'[o] \subseteq dels[o] /\ seen'[o] = seen[o]
                /\ time'[o] = time[o] /\ price'[o] = price[o]
      PROVE  NoneRight'
  BY <1>1 DEF NoneRight
<1>2. ASSUME Reset(o)
      PROVE  NoneRight'
  <2>1. dels'[o] = {}
    BY <1>2 DEF Reset, BaseInv, TypeOK
  <2> QED
    BY <1>1, <2>1
<1>3. ASSUME PlanSweep(o), ~Reset(o)
      PROVE  NoneRight'
  <2>1. /\ pc[o] = "read" /\ UNCHANGED <<now, blocks, seen, time, since>>
        /\ price'[o] = traffic
    BY <1>3, PlanStep DEF BaseInv, TypeOK
  <2>2. PICK C \in SUBSET Calendar, unpriced \in SUBSET DesiredLegs(seen[o], time[o], traffic) :
          /\ adds' = [adds EXCEPT ![o] =
                        Adds(Wanted(o, C, unpriced), Open(o, C, unpriced))]
          /\ dels' = [dels EXCEPT ![o] =
                        Deletes(Wanted(o, C, unpriced), Open(o, C, unpriced),
                                HorizonEnd(time[o]))]
    BY <1>3, PlanStep
  <2>3. PICK planned : planned = Wanted(o, C, unpriced)
    OBVIOUS
  <2>4. PICK open : open = Open(o, C, unpriced)
    OBVIOUS
  <2>5. /\ planned = Legs(PlannedLegs(seen[o], time[o], traffic, unpriced), C)
        /\ open = Legs(Listed(seen[o], time[o], blocks), C)
                  \ Protected(Legs(Listed(seen[o], time[o], blocks), C), unpriced)
    BY <2>3, <2>4 DEF Wanted, Open
  <2>6. dels'[o] = Deletes(planned, open, HorizonEnd(time[o]))
    BY <2>2, <2>3, <2>4 DEF BaseInv, TypeOK
  <2>7. \A b \in blocks : b.id \in Nat
    BY IdsAreNat DEF BaseInv
  <2>8. Alone(blocks, time[o])
    BY <2>1 DEF LoneInv, View
  <2>9. ASSUME NEW d \in dels'[o], Right(d, seen[o], time[o], traffic)
        PROVE  FALSE
    <3>1. /\ d \in blocks /\ BlockEnd(d) > HorizonStart(time[o])
          /\ \E f \in blocks : /\ Same(f, d) /\ f # d /\ f.id <= d.id
                               /\ BlockEnd(f) > HorizonStart(time[o])
      BY <2>5, <2>6, <2>7, <2>9, PlanLeavesOne
    <3> QED
      BY <2>8, <3>1, SameKey DEF Alone
  <2> QED
    BY <2>1, <2>9 DEF NoneRight
<1>4. ASSUME SweepStep(o) \/ Crash(o)
      PROVE  NoneRight'
  <2>1. CASE Reset(o)
    BY <1>2, <2>1
  <2>2. CASE PlanSweep(o) /\ ~Reset(o)
    BY <1>3, <2>2
  <2>3. CASE ReadEvents(o)
    <3>1. dels'[o] = {}
      BY <2>3 DEF ReadEvents, BaseInv, TypeOK
    <3> QED
      BY <1>1, <3>1
  <2>4. CASE DeleteBlock(o)
    <3>1. /\ dels' = [dels EXCEPT ![o] = dels[o] \ {NextDelete(o)}]
          /\ UNCHANGED <<seen, time, price, since>>
      BY <2>4, DeleteStep
    <3>2. dels'[o] \subseteq dels[o]
      BY <3>1 DEF BaseInv, TypeOK
    <3> QED
      BY <1>1, <3>1, <3>2
  <2>5. CASE InsertBlock(o)
    BY <1>1, <2>5, InsertStep
  <2> QED
    BY <1>4, <2>1, <2>2, <2>3, <2>4, <2>5 DEF SweepStep, Finish, Crash
<1>5. ASSUME UNCHANGED planVars
      PROVE  NoneRight'
  BY <1>1, <1>5 DEF planVars
<1> QED
  BY <1>4, <1>5 DEF Next, EditEvent, RemoveBlock, TrafficChanges, Tick, vars

\* A step that deletes for a sweep is that sweep's.
LEMMA DeletionStep ==
  ASSUME BaseInv, [Next]_vars, NEW s \in Sweep, dels[s] # {},
         dels'[s] = dels[s] \ {NextDelete(s)}, pc'[s] = "write"
  PROVE  DeleteBlock(s)
<1>1. NextDelete(s) \in dels[s]
  BY FirstDelete DEF BaseInv
<1>2. dels'[s] # dels[s]
  BY <1>1
<1>3. pc[s] # "read"
  BY DEF BaseInv, Clock
<1>4. ASSUME NEW q \in Sweep, SweepStep(q) \/ Crash(q)
      PROVE  DeleteBlock(s)
  <2>1. CASE q # s
    <3>1. dels'[s] = dels[s]
      <4>1. CASE Reset(q)
        BY <2>1, <4>1 DEF Reset, BaseInv, TypeOK
      <4>2. CASE PlanSweep(q) /\ ~Reset(q)
        BY <2>1, <4>2, PlanStep DEF BaseInv, TypeOK
      <4>3. CASE DeleteBlock(q)
        BY <2>1, <4>3, DeleteStep DEF BaseInv, TypeOK
      <4>4. CASE ReadEvents(q) \/ InsertBlock(q)
        BY <4>4 DEF ReadEvents, InsertBlock
      <4> QED
        BY <1>4, <4>1, <4>2, <4>3, <4>4 DEF SweepStep, Finish, Crash
    <3> QED
      BY <1>2, <3>1
  <2>2. CASE q = s
    <3>1. ~Reset(s)
      BY DEF Reset, BaseInv, TypeOK
    <3> QED
      BY <1>2, <1>3, <1>4, <2>2, <3>1, PlanStep
         DEF SweepStep, ReadEvents, InsertBlock, Finish, Crash
  <2> QED
    BY <2>1, <2>2
<1> QED
  BY <1>2, <1>4 DEF Next, EditEvent, RemoveBlock, TrafficChanges, Tick, vars, planVars

LEMMA DeletionKeeps ==
  ASSUME BaseInv, DayInv, Cardinality(Sweep) = 1 => NoneRight, [Next]_vars, NEW s \in Sweep
  PROVE  Deletion(s)
<1>1. SUFFICES ASSUME dels[s] # {}, dels'[s] = dels[s] \ {NextDelete(s)}, pc'[s] = "write",
                      NextDelete(s) \in blocks, ev = seen[s],
                      calm \/ Cardinality(Sweep) = 1,
                      NEW b \in blocks \ blocks', Right(b, ev, time[s], price[s])
               PROVE  \E c \in blocks' : Same(c, b)
  BY DEF Deletion
<1>2. DeleteBlock(s)
  BY <1>1, DeletionStep
<1>3. b = NextDelete(s) /\ b \in dels[s] /\ blocks \ {b} \subseteq blocks'
  BY <1>1, <1>2, DeleteStep
<1>4. CASE calm
  <2>1. PICK f \in blocks : Same(f, b) /\ f.id < b.id
    <3>1. pc[s] = "write"
      BY <1>2 DEF DeleteBlock
    <3>2. HorizonStart(time[s]) = HorizonStart(now) /\ price[s] = traffic
      BY <1>4, <3>1 DEF DayInv, Backed
    <3>3. Right(b, ev, now, traffic)
      BY <1>1, <3>2, SameDayPlan DEF Right
    <3> QED
      BY <1>3, <1>4, <3>3 DEF DayInv, Backed
  <2>2. f.id \in Nat
    BY IdsAreNat DEF BaseInv
  <2> QED
    BY <1>3, <2>1, <2>2
<1>5. CASE Cardinality(Sweep) = 1
  BY <1>1, <1>3, <1>5 DEF NoneRight
<1> QED
  BY <1>1, <1>4, <1>5

\* A sweep never deletes the block the events it read ask for at the travel times it was
\* given, unless another of that leg stays: for one sweep at a time always, for any number
\* of them while nobody edits, no travel time changes and no midnight passes from the
\* moment the first of them began (RightBlockStays).  Such sweeps agree on what is right,
\* and of two duplicates each keeps the older, so they cannot delete both.
THEOREM RightBlocksStay == Spec => RightBlockStays
<1>1. CASE Cardinality(Sweep) = 1
  <2>1. PICK o : Sweep = {o}
    BY <1>1, SweepAssumption, FS_Singleton
  <2> DEFINE SInv == BaseInv /\ LoneInv /\ DayInv /\ NoneRight
  <2>2. Init => SInv
    <3>1. Init => NoneRight
      BY DEF Init, NoneRight
    <3> QED
      BY <3>1, BaseInit, LoneInit, DayInit
  <2>3. SInv /\ [Next]_vars => SInv'
    <3>1. SUFFICES ASSUME SInv, [Next]_vars
                   PROVE  SInv'
      OBVIOUS
    <3>2. BaseInv'
      BY <3>1, BaseStep
    <3> QED
      BY <2>1, <3>1, <3>2, LoneStep, DayStep, NoneRightStep
  <2>4. SInv /\ [Next]_vars => [\A s \in Sweep : Deletion(s)]_vars
    BY DeletionKeeps
  <2> HIDE DEF SInv
  <2> QED
    BY <2>2, <2>3, <2>4, PTL DEF Spec, RightBlockStays
<1>2. CASE Cardinality(Sweep) # 1
  <2> DEFINE MInv == BaseInv /\ DayInv
  <2>1. Init => MInv
    BY BaseInit, DayInit
  <2>2. MInv /\ [Next]_vars => MInv'
    BY BaseStep, DayStep
  <2>3. MInv /\ [Next]_vars => [\A s \in Sweep : Deletion(s)]_vars
    BY <1>2, DeletionKeeps
  <2> HIDE DEF MInv
  <2> QED
    BY <2>1, <2>2, <2>3, PTL DEF Spec, RightBlockStays
<1> QED
  BY <1>1, <1>2
=============================================================================
