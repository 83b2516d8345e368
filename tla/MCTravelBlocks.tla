--------------------------- MODULE MCTravelBlocks ---------------------------
(* Instances of TravelBlocks: the events of one person.                     *)
EXTENDS TravelBlocks

CONSTANTS e1, e2, p, q

OneCalendar == [e \in Event |-> CHOOSE c \in Calendar : TRUE]

\* Two events, up to the exchange of their names and those of the places.
OrderedInit ==
  /\ Init
  /\ ev[e1].start =< ev[e2].start
  /\ ev[e1].place = p
OrderedSpec == OrderedInit /\ [][Next]_vars /\ \A s \in Sweep : WF_vars(SweepStep(s))
=============================================================================
