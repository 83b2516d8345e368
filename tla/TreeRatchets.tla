---------------------------- MODULE TreeRatchets ----------------------------
(* The ratchets that hold the tree's shape: sizes, layers and layout        *)
(* (structure), usage ids and their wiring (usage_track), and where the     *)
(* code writes at run time (runtime_write).                                 *)
EXTENDS Ratchet, FunctionScan, UsageScan, WriteResolve

CONSTANTS
  MaxFileLines, MaxFunctionLines, MaxDirModules,
  NearLimit,      \* lines from which a file or function is near its limit
  RequiredRoots, AllowedRoots,
  UsageRules,     \* the usage_track rules the configuration enables
  Builders,       \* usage_track: the builders the configuration names, as <<file, name>>
  CodeFolders     \* runtime_write: the folders of code

-----------------------------------------------------------------------------
\* Structure.

MeasuredFiles(tree) ==
  {p \in OnDisk(tree) : About[p].type \in {"py", "js"} /\ Counted(p) /\ ~Text(tree, p).generated}

StructureSure(tree) ==
  \A p \in OnDisk(tree) :
    About[p].type \in {"py", "js"} /\ Counted(p) =>
      /\ Text(tree, p).readable
      /\ About[p].type = "py" => Text(tree, p).generated \/ Text(tree, p).parses

Spans(tree, p) == IF About[p].type = "py" THEN Text(tree, p).spans ELSE JsSpans(Text(tree, p).tokens)

SizeCounts(tree) ==
  [k \in {"size"} \X {p \in MeasuredFiles(tree) : Text(tree, p).size > MaxFileLines} |-> Text(tree, k[2]).size]

\* Mutant: the functions of one name rank in the order of the file.
LengthsInOrder(spans, name) ==
  LET over == SelectSeq(spans, LAMBDA s : s.name = name /\ s.lines > MaxFunctionLines)
  IN [i \in DOMAIN over |-> over[i].lines]
\* Functions of one name rank by length, so that a shorter one of that name
\* never renames a recorded one.
Lengths(spans, name) ==
  LET over == SelectSeq(spans, LAMBDA s : s.name = name /\ s.lines > MaxFunctionLines)
  IN SortSeq([i \in DOMAIN over |-> over[i].lines], >)
NamesIn(spans) == {spans[i].name : i \in DOMAIN spans}
FunctionCounts(spans) ==
  LET keys(p) == UNION {{<<"fn", p, name, rank>> : rank \in DOMAIN Lengths(spans[p], name)} : name \in NamesIn(spans[p])}
  IN [k \in UNION {keys(p) : p \in DOMAIN spans} |-> Lengths(spans[k[2]], k[3])[k[4]]]

UnmeasuredCounts(spans) ==
  Positive([k \in {"unmeasured"} \X DOMAIN spans |-> Len(SelectSeq(spans[k[2]], LAMBDA s : s.lines = 0))])

\* A file under the lower layer imports none of the upper one.
LayerCounts(tree) ==
  LET lower == {p \in MeasuredFiles(tree) : About[p].type = "py" /\ About[p].lower}
      upper == UNION {ToSet(Text(tree, p).imports) : p \in lower}
  IN Positive([k \in {"layer"} \X lower \X upper |-> Tokens(Text(tree, k[2]).imports, {k[3]})])

\* Modules straight in a folder, package markers aside.
ModulesIn(tree, folder) == {p \in MeasuredFiles(tree) : About[p].folder = folder /\ ~About[p].marker}
FolderCounts(tree) ==
  LET full == {f \in {About[p].folder : p \in MeasuredFiles(tree)} : Cardinality(ModulesIn(tree, f)) > MaxDirModules}
  IN [k \in {"dir"} \X full |-> Cardinality(ModulesIn(tree, k[2]))]

\* The near-limit band: how many files and functions are in it, even none.
BandCounts(tree, spans) ==
  LET near(n) == NearLimit <= n /\ n <= MaxFunctionLines
      files == {p \in MeasuredFiles(tree) : NearLimit <= Text(tree, p).size /\ Text(tree, p).size <= MaxFileLines}
      functions(p) == Len(SelectSeq(spans[p], LAMBDA s : near(s.lines)))
  IN [k \in {"band"} \X {"files", "functions"} |->
       IF k[2] = "files" THEN Cardinality(files)
       ELSE FoldSet(LAMBDA p, n : n + functions(p), 0, DOMAIN spans)]

\* Layout read from names alone, deleted files included: files loose at the
\* root, of a type their folder does not take, or in no home. A folder with an
\* entry file of its own is a surface, and a home.
HasSurface(tree, folder) == \E p \in Listed(tree) : About[p].surface /\ About[p].folder = folder
LayoutCounts(tree) ==
  LET folders == {About[p].folder : p \in Listed(tree)}
      odd(k) == IF k[1] = "type" THEN {p \in Listed(tree) : About[p].folder = k[2] /\ About[p].mistyped /\ Counted(p)}
                ELSE {p \in Listed(tree) : About[p].folder = k[2] /\ About[p].homeless /\ ~HasSurface(tree, k[2])}
  IN Positive([k \in {"rootfile"} \X {p \in Listed(tree) : About[p].loose} |-> 1])
       ++ Positive([k \in {"type", "place"} \X folders |-> Cardinality(odd(k))])

\* Missing or undeclared root folders fail a check whatever was recorded.
LayoutProblems(tree) ==
  LET roots == {About[p].root : p \in Listed(tree)} \ {"none"}
  IN (RequiredRoots \ roots) \cup (roots \ AllowedRoots)

\* Extra roots and redundant exceptions (the kinds root and redundant) are left out.
StructureOf(tree, spans) ==
  SizeCounts(tree) ++ FunctionCounts(spans) ++ UnmeasuredCounts(spans) ++ LayerCounts(tree) ++ FolderCounts(tree)
    ++ BandCounts(tree, spans) ++ LayoutCounts(tree) ++ [k \in {<<"recorded", "layout">>} |-> 0]

StructureCounts(tree) == StructureOf(tree, [p \in MeasuredFiles(tree) |-> Spans(tree, p)])

\* A baseline from before a field existed takes today's counts as its record.
LayoutKinds == {"rootfile", "type", "place"}
Unrecorded(baseline) ==
  (IF <<"band", "files">> \in DOMAIN baseline THEN {} ELSE {"band"})
    \cup (IF <<"recorded", "layout">> \in DOMAIN baseline THEN {} ELSE LayoutKinds)
Adopted(baseline, current) ==
  baseline ++ Restrict(current, {k \in DOMAIN current : k[1] \in Unrecorded(baseline)})

-----------------------------------------------------------------------------
\* Usage ids: per file and rule, the controls that record no use.

UsageFiles(tree) == {p \in OnDisk(tree) : About[p].type \in {"html", "js"} /\ Counted(p) /\ ~About[p].test}
\* Python files are read in order until one mounts the usage routes.
RouterFiles(tree) == {p \in OnDisk(tree) : About[p].type = "py" /\ ~About[p].test /\ About[p].standing # "vendored"}
RouterRead(tree) ==
  {p \in RouterFiles(tree) : \A q \in RouterFiles(tree) : About[q].order < About[p].order => ~Text(tree, q).router}

OwnBuilders(p) == {b[2] : b \in {c \in Builders : c[1] = p}}
\* A builder git does not list or its file does not define is a config error.
BuilderMissing(tree) ==
  \E b \in Builders :
    \/ b[1] \notin Listed(tree)
    \/ b[1] \in UsageFiles(tree) /\ Balanced(Text(tree, b[1]).items) /\ ~Defines(Text(tree, b[1]).items, b[2])

UsageSure(tree) ==
  /\ \A p \in UsageFiles(tree) : Text(tree, p).readable /\ Balanced(Text(tree, p).items)
  /\ "app-wired" \in UsageRules => \A p \in RouterRead(tree) : Text(tree, p).readable

UsageCounts(tree) ==
  Positive([k \in UsageFiles(tree) \X (UsageRules \ {"app-wired"}) |->
             UsageHits(Text(tree, k[1]).items, k[2], OwnBuilders(k[1]))])

\* The app reaches its usage log: some page starts it and some module mounts it.
Unwired(tree) ==
  /\ "app-wired" \in UsageRules
  /\ \/ ~\E p \in UsageFiles(tree) : Starts(Text(tree, p).items)
     \/ ~\E p \in RouterFiles(tree) : Text(tree, p).router

-----------------------------------------------------------------------------
\* Run-time writes: per module and kind, the writes into a code folder and
\* those whose target could not be resolved.

WriterFiles(tree) == {p \in OnDisk(tree) : About[p].type = "py" /\ ~About[p].test /\ Counted(p)}
WriteSure(tree) == \A p \in WriterFiles(tree) : Text(tree, p).readable /\ Text(tree, p).parses
\* An exempt marker counts only with its reason.
Targets(tree, p, sort) ==
  SelectSeq(Text(tree, p).writes, LAMBDA w :
    w.exempt # "reason" /\ Classified(Resolved(Text(tree, p), About[p].parts, w.target, w.chain), CodeFolders) = sort)
WriteCounts(tree) ==
  Positive([k \in WriterFiles(tree) \X {"code-folder", "unresolved"} |-> Len(Targets(tree, k[1], k[2]))])
=============================================================================
