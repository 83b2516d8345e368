---------------------------- MODULE ActivityFeed ----------------------------
(***************************************************************************)
(* The run list of the Activity tab: pages of the runs of one scope, newest *)
(* first, fetched anew when the tab or the scope is opened and extended by  *)
(* More, while scans go on adding runs.  Answers arrive in any order.       *)
(***************************************************************************)
EXTENDS Naturals, Sequences, FiniteSets, SequencesExt

CONSTANTS
  LastRun,   \* bound: run ids are 1 .. LastRun
  ScopeOf,   \* [1 .. LastRun -> scope]: by the kind of the run
  FirstScope,
  Page,      \* PAGE[scope]
  MaxFetch   \* bound: fetches of a page load

ASSUME FeedAssumption == /\ LastRun \in Nat /\ DOMAIN ScopeOf = 1 .. LastRun
                         /\ Page \in Nat \ {0} /\ MaxFetch \in Nat

VARIABLES
  stored,   \* the runs of the database are 1 .. stored
  scope,
  runs,     \* a.runs: the ids listed
  hasMore,
  loaded,
  failed,   \* "Runs are unavailable" stands in the list
  request,  \* a.request
  flight    \* the fetches under way: [request, scope, before, append, answer]

feedVars == <<stored, scope, runs, hasMore, loaded, failed, request, flight>>

Scopes == {ScopeOf[r] : r \in DOMAIN ScopeOf} \cup {FirstScope}
Pending == [page |-> <<>>, more |-> FALSE, state |-> "pending"]

FeedTypeOK ==
  /\ stored \in 0 .. LastRun /\ scope \in Scopes
  /\ runs \in Seq(1 .. LastRun)
  /\ hasMore \in BOOLEAN /\ loaded \in BOOLEAN /\ failed \in BOOLEAN
  /\ request \in 0 .. MaxFetch
  /\ \A f \in flight :
       f.request \in 1 .. request /\ f.scope \in Scopes /\ f.before \in 0 .. LastRun
       /\ f.append \in BOOLEAN /\ f.answer.page \in Seq(1 .. LastRun)
       /\ f.answer.more \in BOOLEAN /\ f.answer.state \in {"pending", "ok", "error"}

FeedInit ==
  /\ stored = 0 /\ scope = FirstScope /\ runs = <<>> /\ hasMore = FALSE
  /\ loaded = FALSE /\ failed = FALSE /\ request = 0 /\ flight = {}

-----------------------------------------------------------------------------

\* fetchRuns up to its await; no `before` means from the newest.
FetchRuns(append, sc, shown) ==
  /\ request < MaxFetch /\ request' = request + 1
  /\ flight' = flight \cup {[request |-> request', scope |-> sc, append |-> append,
                             before |-> IF append /\ shown # <<>> THEN Last(shown) ELSE 0,
                             answer |-> Pending]}

\* fetchActivity: the tab is opened, or the live run the sheet follows ended.
FetchActivity ==
  /\ FetchRuns(FALSE, scope, runs)
  /\ UNCHANGED <<stored, scope, runs, hasMore, loaded, failed>>

\* More is hidden without more.
FetchMore ==
  /\ hasMore /\ FetchRuns(TRUE, scope, runs)
  /\ UNCHANGED <<stored, scope, runs, hasMore, loaded, failed>>

\* setScope and openRunInActivity: presetScope, then a fetch.
SetScope(sc) ==
  /\ sc # scope /\ scope' = sc
  /\ runs' = <<>> /\ hasMore' = FALSE /\ loaded' = FALSE /\ failed' = FALSE
  /\ FetchRuns(FALSE, sc, <<>>)
  /\ UNCHANGED stored

OfScope(sc, before) ==
  {r \in 1 .. stored : ScopeOf[r] = sc /\ (before # 0 => r < before)}

\* GET /api/audit/runs: the newest of the scope before the cursor.
Descending(S) ==
  [i \in 1 .. Cardinality(S) |-> CHOOSE r \in S : Cardinality({x \in S : x > r}) = i - 1]
AnswerOf(f) ==
  LET all == Descending(OfScope(f.scope, f.before))
  IN [page |-> SubSeq(all, 1, IF Len(all) < Page THEN Len(all) ELSE Page),
      more |-> Len(all) > Page, state |-> "ok"]

ReadRuns ==
  /\ \E f \in flight :
       /\ f.answer = Pending
       /\ \E a \in {AnswerOf(f), [Pending EXCEPT !.state = "error"]} :
            flight' = (flight \ {f}) \cup {[f EXCEPT !.answer = a]}
  /\ UNCHANGED <<stored, scope, runs, hasMore, loaded, failed, request>>

\* Mutant: answers are taken in the order they arrive in.
CurrentAny(f) == TRUE
\* An answer that is not the newest fetch's is discarded.
Current(f) == f.request = request

TakeRuns ==
  /\ \E f \in flight :
       /\ f.answer # Pending /\ flight' = flight \ {f}
       /\ IF Current(f) /\ f.answer.state = "ok"
          THEN /\ runs' = IF f.append THEN runs \o f.answer.page ELSE f.answer.page
               /\ hasMore' = f.answer.more /\ loaded' = TRUE /\ failed' = FALSE
          ELSE /\ failed' = (failed \/ (Current(f) /\ ~loaded))
               /\ UNCHANGED <<runs, hasMore, loaded>>
  /\ UNCHANGED <<stored, scope, request>>

\* A scan or a check of any kind opens its row.
AddRun == stored < LastRun /\ stored' = stored + 1
          /\ UNCHANGED <<scope, runs, hasMore, loaded, failed, request, flight>>

FeedNext ==
  \/ FetchActivity \/ FetchMore \/ \E sc \in Scopes : SetScope(sc)
  \/ ReadRuns \/ TakeRuns \/ AddRun

FeedSpec == FeedInit /\ [][FeedNext]_feedVars

-----------------------------------------------------------------------------

\* The list is one piece of the history of its scope: no run of another scope,
\* none twice, and none missing between the first and the last it shows; and
\* without more there is none older.
FeedIsWhole ==
  runs # <<>> =>
    /\ runs = Descending({r \in OfScope(scope, 0) : r <= Head(runs) /\ r >= Last(runs)})
    /\ ~hasMore => OfScope(scope, Last(runs)) = {}

\* The list is a window on the history of its scope. Whatever order the answers
\* of GET /api/audit/runs come in, an answer either continues what is shown with
\* older runs, or replaces it with something no older; and More is offered
\* exactly while there are older runs (activity.js fetchRuns).
History == INSTANCE HistoryWindow WITH window <- runs, older <- hasMore
ImplementsHistory == History!HistorySpec
=============================================================================
