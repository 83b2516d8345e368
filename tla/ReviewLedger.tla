---------------------------- MODULE ReviewLedger ----------------------------
(***************************************************************************)
(* What the review promises about a set of messages, without chats,        *)
(* cursors or scans: a message that is put aside as dealt with has a       *)
(* recorded reason to be, and a reason once recorded is kept.  Messages    *)
(* may be deleted, and may be taken up again after they were put aside.    *)
(***************************************************************************)
CONSTANT Message

VARIABLES
  present,      \* the messages in the store
  accounted,    \* the messages with a recorded verdict or baseline
  passed        \* the stored messages no later review will read

vars == <<present, accounted, passed>>

Init == present = {} /\ accounted = {} /\ passed = {}

\* A message arrives in front of the review, never behind it.
Arrive(m) ==
  /\ m \notin present
  /\ present' = present \cup {m}
  /\ UNCHANGED <<accounted, passed>>

Account(S) ==
  /\ accounted' = accounted \cup S
  /\ UNCHANGED <<present, passed>>

Pass ==
  /\ passed' \in SUBSET (present \cap accounted)
  /\ UNCHANGED <<present, accounted>>

\* A baseline records its reason and passes the messages in one step.
Baseline(S) ==
  /\ S \subseteq present
  /\ accounted' = accounted \cup S
  /\ passed' = passed \cup S
  /\ UNCHANGED present

Delete(S) ==
  /\ present' = present \ S
  /\ passed' \in SUBSET (passed \ S)
  /\ UNCHANGED accounted

Next ==
  \/ \E m \in Message : Arrive(m)
  \/ \E S \in SUBSET Message : Account(S) \/ Baseline(S) \/ Delete(S)
  \/ Pass

Spec == Init /\ [][Next]_vars

=============================================================================
