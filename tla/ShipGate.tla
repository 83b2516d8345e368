------------------------------ MODULE ShipGate ------------------------------
(* The ratchets of scripts/ as scripts/verify-before-ship.ps1 runs them: a  *)
(* tree that is edited, a committed baseline per ratchet, and the gate that *)
(* lets a change ship only while no count is above that baseline. One       *)
(* ratchet at a time moves; the skeleton around the counts is the same in   *)
(* the ten scripts, what each counts is in the modules extended here.       *)
EXTENDS TextRatchets, CodeRatchets, TreeRatchets

CONSTANTS
  Repos,           \* what may be checked out, by name: records of a ratchet and of
                   \* versions, the names of the texts each path may hold
  Says,            \* the text of a name
  Debt(_, _, _),   \* what a reader finds wrong in a tree of a ratchet, per key
  Missing, Corrupt \* a baseline that is not there, or not a baseline

VARIABLES
  repo,      \* the name of the one checked out
  worktree,      \* the working tree: path -> text, "absent" or "gone"
  switch,    \* the ratchet's table in .fleet.toml: "on", "off" or "broken"
  baseline,  \* the recorded counts
  ruling,   \* of the gate on what is there now: "pass", "rise", "stop" or "none"
  reviewed   \* history: the debt that --init or --allow-additions let in

shipVars == <<repo, worktree, switch, baseline, ruling, reviewed>>

ratchet == Repos[repo].ratchet
versions == Repos[repo].versions

-----------------------------------------------------------------------------
\* What each script's run() takes of the tree: whether the scan ends confirmed,
\* whether it ends in a configuration error, the counts, whether something no
\* baseline excuses is wrong, and the counts that make a rise an unknown.

Measure(sure, counts) == [sure |-> sure, bad |-> FALSE, counts |-> counts, problem |-> FALSE, unknown |-> {}]

CommentRun(t)     == Measure(CommentSure(t), CommentCounts(t))
DocsRun(t)        == Measure(DocSure(t), DocCounts(t))
DocRefsRun(t)     == Measure(DocSure(t), RefCounts(t))
InstructionRun(t) == [Measure(InstructionSure(t), InstructionCounts(t)) EXCEPT !.bad = ExtrasMissing(t)]
ConventionsRun(t) == Measure(ConventionSure(t), ConventionCounts(t))
DeadCodeRun(t)    == Measure(DeadSure(t), DeadCounts(t))
StaticRun(t)      == Measure(TRUE, StaticCounts(t))
StructureRun(t)   == [Measure(StructureSure(t), StructureCounts(t)) EXCEPT !.problem = LayoutProblems(t) # {}]
UsageTrackRun(t)  == [Measure(UsageSure(t), UsageCounts(t)) EXCEPT !.bad = BuilderMissing(t), !.problem = Unwired(t)]
RuntimeWriteRun(t) ==
  LET counts == WriteCounts(t)
  IN [Measure(WriteSure(t), counts) EXCEPT !.unknown = {k \in DOMAIN counts : k[2] = "unresolved"}]

Taken(name, t) ==
  CASE name = "comment"     -> CommentRun(t)
    [] name = "docs"        -> DocsRun(t)
    [] name = "doc_refs"    -> DocRefsRun(t)
    [] name = "instruction" -> InstructionRun(t)
    [] name = "conventions" -> ConventionsRun(t)
    [] name = "dead_code"   -> DeadCodeRun(t)
    [] name = "static"      -> StaticRun(t)
    [] name = "structure"   -> StructureRun(t)
    [] name = "usage_track" -> UsageTrackRun(t)
    [] name = "runtime_write" -> RuntimeWriteRun(t)

Trees(texts) ==
  {t \in [DOMAIN texts -> UNION {texts[p] : p \in DOMAIN texts}] : \A p \in DOMAIN t : t[p] \in texts[p]}
Contents(t) == [p \in DOMAIN t |-> Says[t[p]]]
Checkouts == UNION {{r} \X Trees(Repos[r].versions) : r \in DOMAIN Repos}
\* f itself, as a constant that TLC evaluates once.
Tabled(f) == CHOOSE g \in {f} : g = f
Takes == Tabled([c \in Checkouts |-> Taken(Repos[c[1]].ratchet, Contents(c[2]))])
Measured == Takes[<<repo, worktree>>]

Recorded == baseline \notin {Missing, Corrupt}
\* Structure completes a baseline older than a field it now records.
Record(counts) == IF ratchet = "structure" THEN Adopted(baseline, counts) ELSE baseline
Risen(counts) == Rose(counts, Record(counts))

-----------------------------------------------------------------------------
\* The exit code of a mode, "check", "init", "update" or "raise" (an update
\* with --allow-additions): 0 done, 1 a rise, 2 unusable, 3 not confirmed. The
\* tree is measured last; down says that git or a detector failed.

Unusable(mode) ==
  \/ switch = "broken"
  \/ switch = "off" /\ mode # "check"
  \/ switch = "on" /\ mode = "init" /\ baseline # Missing
  \/ switch = "on" /\ mode # "init" /\ baseline = Corrupt

Compared(mode, m) ==
  LET risen == IF mode \in {"check", "update"} THEN Risen(m.counts) ELSE {}
  IN CASE risen = {} /\ ~(mode = "check" /\ m.problem) -> 0
       [] mode = "check" /\ risen # {} /\ risen \subseteq m.unknown -> 3
       [] OTHER -> 1

ExitCode(mode, down, m) ==
  CASE Unusable(mode) -> 2
    [] ~Unusable(mode) /\ switch = "off" -> 0
    [] ~Unusable(mode) /\ switch = "on" /\ mode # "init" /\ baseline = Missing -> 1
    [] OTHER -> IF down THEN 3 ELSE IF m.bad THEN 2 ELSE IF ~m.sure THEN 3 ELSE Compared(mode, m)

\* The gate takes nothing but 0 for a pass; a script that does not end is a 3.
Passes(code) == code = 0
Verdict(code) == IF Passes(code) THEN "pass" ELSE IF code = 1 THEN "rise" ELSE "stop"

-----------------------------------------------------------------------------
\* What an update leaves of the reviewed debt, and what it lets in unreviewed:
\* the kinds a structure baseline from before a field existed never recorded.
Owed == Tabled([c \in Checkouts |-> Debt(Repos[c[1]].ratchet, c[2], Contents(c[2]))])
Debts == Owed[<<repo, worktree>>]
Waived(k) == ratchet = "structure" /\ Recorded /\ k[1] \in Unrecorded(baseline)
Lowered(debts) ==
  [k \in DOMAIN debts |-> IF Waived(k) THEN debts[k] ELSE Min({debts[k], Count(reviewed, k)})]

NoCounts == [k \in {} |-> 0]

ShipInit ==
  /\ repo \in DOMAIN Repos
  /\ worktree \in Trees(versions)
  /\ switch = "on" /\ baseline = Missing /\ ruling = "none" /\ reviewed = NoCounts

Edit(p, text) ==
  /\ worktree[p] # text /\ worktree' = [worktree EXCEPT ![p] = text]
  /\ ruling' = "none" /\ UNCHANGED <<repo, switch, baseline, reviewed>>

Reconfigure(to) ==
  /\ switch # to /\ switch' = to
  /\ ruling' = "none" /\ UNCHANGED <<repo, worktree, baseline, reviewed>>

\* Somebody deletes the baseline, or leaves a merge conflict in it; a lost one
\* has to be initialised again, under review.
SpoilBaseline(to) ==
  /\ Recorded /\ baseline' = to
  /\ ruling' = "none" /\ UNCHANGED <<repo, worktree, switch, reviewed>>
RestoreBaseline ==
  /\ baseline = Corrupt /\ baseline' = Missing
  /\ ruling' = "none" /\ UNCHANGED <<repo, worktree, switch, reviewed>>

\* A baseline an older version of the structure ratchet wrote has no band and
\* no layout record.
RevendorStructure ==
  /\ ratchet = "structure" /\ Recorded
  /\ baseline' = Restrict(baseline, {k \in DOMAIN baseline : k[1] \notin LayoutKinds \cup {"band", "recorded"}})
  /\ baseline' # baseline
  /\ ruling' = "none" /\ UNCHANGED <<repo, worktree, switch, reviewed>>

\* --init, --update-baseline and --update-baseline --allow-additions.
Write(mode, down) ==
  \E m \in {Measured}, debts \in {Debts} :
    /\ Passes(ExitCode(mode, down, m))
    /\ baseline' = m.counts
    /\ reviewed' = IF mode = "update" THEN Lowered(debts) ELSE debts
    /\ ruling' = "none" /\ UNCHANGED <<repo, worktree, switch>>

Gate(down) ==
  /\ ruling' = Verdict(ExitCode("check", down, Measured))
  /\ UNCHANGED <<repo, worktree, switch, baseline, reviewed>>

ShipNext ==
  \/ \E p \in DOMAIN worktree : \E text \in versions[p] : Edit(p, text)
  \/ \E to \in {"on", "off", "broken"} : Reconfigure(to)
  \/ \E to \in {Missing, Corrupt} : SpoilBaseline(to)
  \/ RestoreBaseline
  \/ RevendorStructure
  \/ \E mode \in {"init", "update", "raise"}, down \in BOOLEAN : Write(mode, down)
  \/ \E down \in BOOLEAN : Gate(down)

ShipSpec == ShipInit /\ [][ShipNext]_shipVars

-----------------------------------------------------------------------------
ShipTypeOK ==
  /\ repo \in DOMAIN Repos /\ worktree \in Trees(versions)
  /\ switch \in {"on", "off", "broken"} /\ ruling \in {"pass", "rise", "stop", "none"}
  /\ Recorded => \A k \in DOMAIN baseline : baseline[k] \in Nat

Above(debts) == {k \in DOMAIN debts : ~Waived(k) /\ debts[k] > Count(reviewed, k)}
Grown == Above(Debts)

\* What ships is reviewed: whatever was edited, switched, lost, rewritten or
\* unreadable since, a tree the gate passes has no debt, by a reader's count and
\* per file and kind, above what --init or --allow-additions last let in and the
\* updates since left of it (scripts/static_ratchet_gate.py run_ratchet).
DebtIsReviewed == ruling = "pass" /\ switch = "on" => Grown = {}

\* No alarm without debt: the gate reports a rise only when a reader finds more of
\* something than was reviewed.  What stands in the near-limit band is debt as well,
\* so a split or a shortening that lands in it is such a rise (structure_band.py:6),
\* and one that lands below it is none, although the ranks of the other findings
\* shift. The static ratchet is left out: it keys a duplicate by its pair.
RisesAreDebt ==
  ruling = "rise" /\ Recorded /\ ~Measured.problem /\ ratchet # "static" => Grown # {}
=============================================================================
