------------------------------ MODULE RunSheet ------------------------------
(***************************************************************************)
(* The run sheet of the Activity tab.  It shows two records of one run: its *)
(* trace, by its row in the database, and its execution record, by the id  *)
(* of the record or of the row.  What identifies the run may be known in   *)
(* part when it is opened and is completed from what is read; a run in     *)
(* flight is read again at each poll.  Reads overlap and may fail.         *)
(***************************************************************************)
EXTENDS Naturals, FiniteSets

CONSTANTS
  Run,       \* the runs
  Captured,  \* those that leave an execution record of their own
  MaxOpen,   \* bound: openings of the sheet
  MaxLoads,  \* bound: loadSheet calls under way
  MaxErrors, \* bound: failed reads
  Nothing

ASSUME SheetAssumption ==
  /\ Captured \subseteq Run /\ MaxOpen \in Nat /\ MaxLoads \in Nat \ {0} /\ MaxErrors \in Nat

VARIABLES
  progress,  \* of a run: "running"; "recorded": its row says so; "final": its record does too
  open,      \* a.open: [id, run, known], known: what of {kind, db, record} it holds; or Nothing
  opened,    \* the openings so far
  trace,     \* a.trace: [run, ended] or Nothing
  exec,      \* a.exec: [run, ended, db] or Nothing
  loads,     \* the loadSheet calls under way: [open, path, jobs, answers]
  errors

sheetVars == <<progress, open, opened, trace, exec, loads, errors>>

Known == {"kind", "db", "record"}
Jobs == {"trace", "exec"}
Opening == [id : 1 .. MaxOpen, run : Run, known : SUBSET Known]
Trace == [run : Run, ended : BOOLEAN]
Exec == [run : Run, ended : BOOLEAN, db : BOOLEAN]
Loading == [open : Opening, path : {"record", "db", "none"}, jobs : SUBSET Jobs,
            answers : [Jobs -> Trace \cup Exec \cup {Nothing}]]

ASSUME NothingAssumption == Nothing \notin Opening

SheetTypeOK ==
  /\ progress \in [Run -> {"running", "recorded", "final"}]
  /\ open \in Opening \cup {Nothing} /\ opened \in 0 .. MaxOpen
  /\ trace \in Trace \cup {Nothing} /\ exec \in Exec \cup {Nothing}
  /\ loads \subseteq Loading /\ Cardinality(loads) <= MaxLoads
  /\ errors \in 0 .. MaxErrors

SheetInit ==
  /\ progress \in [Run -> {"running", "recorded", "final"}]
  /\ \A r \in Run \ Captured : progress[r] # "final"
  /\ open = Nothing /\ opened = 0 /\ trace = Nothing /\ exec = Nothing
  /\ loads = {} /\ errors = 0

-----------------------------------------------------------------------------

\* loadSheet up to its await.  An opening is the object it began with.
Load(o, tr, refresh) ==
  /\ Cardinality(loads) < MaxLoads
  /\ LET path == CASE "record" \in o.known -> "record"
                   [] "record" \notin o.known /\ "kind" \in o.known -> "db"
                   [] OTHER -> "none"
         jobs == {j \in Jobs : IF j = "trace" THEN "db" \in o.known /\ (refresh \/ tr = Nothing)
                               ELSE path # "none"}
     IN loads' = loads \cup {[open |-> o, path |-> path, jobs |-> jobs,
                          answers |-> [j \in Jobs |-> Nothing]]}

\* openRun: from the list or Home, from the filtered decisions, from Run now.
OpenRun(r) ==
  /\ opened < MaxOpen /\ opened' = opened + 1
  /\ \E known \in {{"kind", "db"}, {"db"}, {"kind", "record"}} :
       /\ "record" \in known => r \in Captured
       /\ open' = [id |-> opened', run |-> r, known |-> known]
  /\ trace' = Nothing /\ exec' = Nothing
  /\ Load(open', Nothing, FALSE)
  /\ UNCHANGED <<progress, errors>>

CloseRun ==
  /\ open # Nothing /\ open' = Nothing /\ trace' = Nothing /\ exec' = Nothing
  /\ UNCHANGED <<progress, opened, loads, errors>>

\* What the server says of a run: its record is final after its row is.
TraceOf(r) == [run |-> r, ended |-> progress[r] # "running"]
ExecOf(r, path) ==
  IF path = "record" THEN [run |-> r, ended |-> progress[r] = "final", db |-> progress[r] = "final"]
  ELSE [run |-> r, ended |-> progress[r] # "running", db |-> TRUE]

ReadJob(j) ==
  /\ \E l \in loads :
       /\ j \in l.jobs /\ l.answers[j] = Nothing
       /\ LET a == IF j = "trace" THEN TraceOf(l.open.run) ELSE ExecOf(l.open.run, l.path)
          IN loads' = (loads \ {l}) \cup {[l EXCEPT !.answers[j] = a]}
  /\ UNCHANGED <<progress, open, opened, trace, exec, errors>>

FailJob ==
  /\ errors < MaxErrors /\ errors' = errors + 1
  /\ \E l \in loads : \E j \in {k \in l.jobs : l.answers[k] = Nothing} :
       loads' = (loads \ {l}) \cup {[l EXCEPT !.jobs = @ \ {j}]}
  /\ UNCHANGED <<progress, open, opened, trace, exec>>

\* Mutant: an answer is shown in whatever sheet is open.
StillOpenAny(o) == open # Nothing
\* The sheet still shows the opening that asked.
StillOpen(o) == open # Nothing /\ open.id = o.id

TakeJob(j) ==
  /\ \E l \in loads :
       /\ j \in l.jobs /\ l.answers[j] # Nothing
       /\ loads' = (loads \ {l}) \cup {[l EXCEPT !.jobs = @ \ {j}]}
       /\ trace' = IF j = "trace" /\ StillOpen(l.open) THEN l.answers[j] ELSE trace
       /\ exec' = IF j = "exec" /\ StillOpen(l.open) THEN l.answers[j] ELSE exec
  /\ UNCHANGED <<progress, open, opened, errors>>

\* Both records are in: what they say of the run completes the opening, and
\* the rest is read; or the sheet is rendered.
Learns(o) ==
  CASE "kind" \notin o.known /\ trace # Nothing -> {"kind"}
    [] "kind" \in o.known /\ "db" \notin o.known /\ exec # Nothing /\ exec.db -> {"db"}
    [] OTHER -> {}

Settle ==
  \E l \in loads :
    /\ l.jobs = {}
    /\ IF StillOpen(l.open) /\ Learns(open) # {}
       THEN /\ open' = [open EXCEPT !.known = @ \cup Learns(open)]
            /\ LET o == open'
                   path == IF "record" \in o.known THEN "record" ELSE "db"
                   jobs == {"exec"} \cup (IF trace = Nothing THEN {"trace"} ELSE {})
               IN loads' = (loads \ {l}) \cup {[open |-> o, path |-> path, jobs |-> jobs,
                                            answers |-> [j \in Jobs |-> Nothing]]}
       ELSE loads' = loads \ {l} /\ UNCHANGED open
    /\ UNCHANGED <<progress, opened, trace, exec, errors>>

\* Mutant: only the active run is followed.
FollowedActive == ~exec.ended /\ progress[exec.run] = "running"
\* The record last read says the run is in flight.
Followed == ~exec.ended

\* onExecution: the poll of the runs was answered.
OnExecution ==
  /\ open # Nothing /\ exec # Nothing /\ Followed
  /\ Load(open, trace, TRUE)
  /\ UNCHANGED <<progress, open, opened, trace, exec, errors>>

RecordRow(r) == progress[r] = "running" /\ progress' = [progress EXCEPT ![r] = "recorded"]
                /\ UNCHANGED <<open, opened, trace, exec, loads, errors>>
Finalize(r)  == r \in Captured /\ progress[r] = "recorded" /\ progress' = [progress EXCEPT ![r] = "final"]
                /\ UNCHANGED <<open, opened, trace, exec, loads, errors>>

SheetNext ==
  \/ \E r \in Run : OpenRun(r) \/ RecordRow(r) \/ Finalize(r)
  \/ \E j \in Jobs : ReadJob(j) \/ TakeJob(j)
  \/ CloseRun \/ FailJob \/ Settle \/ OnExecution

\* Reads are answered and the poll goes on while Activity is open.
SheetFairness ==
  /\ \A j \in Jobs : WF_sheetVars(ReadJob(j)) /\ WF_sheetVars(TakeJob(j))
  /\ WF_sheetVars(Settle)
  /\ SF_sheetVars(OnExecution)

SheetSpec == SheetInit /\ [][SheetNext]_sheetVars /\ SheetFairness

-----------------------------------------------------------------------------

\* Both records shown are those of the run the sheet is open on.
SheetIsOfItsRun ==
  \A shown \in {trace, exec} \ {Nothing} : open # Nothing /\ shown.run = open.run

\* A sheet that shows a run in flight comes to show its end, whatever order the
\* answers of the polls arrive in.
Over(r) == progress[r] = IF r \in Captured THEN "final" ELSE "recorded"
SheetFollowsRun ==
  \A r \in Run : (exec # Nothing /\ exec.run = r /\ Over(r))
                   ~> (exec = Nothing \/ exec.run # r \/ exec.ended)
=============================================================================
