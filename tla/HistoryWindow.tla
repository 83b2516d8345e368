--------------------------- MODULE HistoryWindow ---------------------------
(***************************************************************************)
(* What the run list of the Activity tab promises, without fetches, pages  *)
(* or answers: a window on the history of one scope, that only ever moves  *)
(* to newer runs or grows towards older ones, has no gap, and offers more  *)
(* exactly while there is more.                                            *)
(***************************************************************************)
EXTENDS Naturals, Sequences

CONSTANTS
  ScopeOf,      \* the scope of each run
  FirstScope

VARIABLES
  stored,   \* the runs there are: 1 .. stored
  scope,
  window,   \* the runs shown, newest first
  older     \* whether older ones are offered

historyVars == <<stored, scope, window, older>>

OfHistory == {r \in 1 .. stored : ScopeOf[r] = scope}

Oldest(list) == list[Len(list)]

\* The list has every run of the scope between its ends, once and newest first.
Gapless(list) ==
  /\ {list[i] : i \in DOMAIN list} = {r \in OfHistory : r <= Head(list) /\ r >= Oldest(list)}
  /\ \A i \in DOMAIN list, j \in DOMAIN list : i < j => list[i] > list[j]

\* A list as it may be shown, and what is offered with it.
Offered(list) == list # <<>> /\ \E r \in OfHistory : r < Oldest(list)
Window(list) == list # <<>> => Gapless(list)

HistoryInit == stored = 0 /\ scope = FirstScope /\ window = <<>> /\ older = FALSE

\* A run begins: what is shown stays as it is.
Grow == stored' = stored + 1 /\ UNCHANGED <<scope, window, older>>

Open(sc) ==
  /\ sc # scope /\ scope' = sc
  /\ window' = <<>> /\ older' = FALSE /\ UNCHANGED stored

\* The list is read anew: it never goes back before what it showed.
Renew ==
  /\ Window(window') /\ older' = Offered(window')
  /\ window # <<>> => window' # <<>> /\ Head(window') >= Head(window)
  /\ UNCHANGED <<stored, scope>>

\* The list is continued by at least one older run; what it shows stays.
Extend ==
  /\ older /\ Len(window') > Len(window) /\ SubSeq(window', 1, Len(window)) = window
  /\ Window(window') /\ older' = Offered(window')
  /\ UNCHANGED <<stored, scope>>

HistoryNext ==
  \/ Grow
  \/ \E sc \in {FirstScope} \cup {ScopeOf[r] : r \in DOMAIN ScopeOf} : Open(sc)
  \/ Renew \/ Extend

HistorySpec == HistoryInit /\ [][HistoryNext]_historyVars
=============================================================================
