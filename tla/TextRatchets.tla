---------------------------- MODULE TextRatchets ----------------------------
(* The ratchets that read prose: issue references in comments (comment),    *)
(* history markers in docs (docs), dangling references (doc_refs) and lint  *)
(* of instruction files (instruction). Each has its Sure, which is FALSE    *)
(* when the scan ends NOT CONFIRMED, and its Counts, what it would record.  *)
EXTENDS Ratchet, CommentScan, MarkdownScan

CONSTANTS
  RefOf,        \* doc_refs: a reference token -> what it names
  Port,         \* the port .fleet.toml declares, 0 for none
  VendorOf,     \* instruction: a rule's token -> the vendor it is a rule of
  LinkOf,       \* instruction: a link token -> the page it names
  ReadmeBudget, \* docs: the bytes README.md may have
  SizeCap       \* instruction: the size an instruction file may have

-----------------------------------------------------------------------------
\* Comments: references a comment makes, per file. A generated file is skipped
\* after it was read, and a text that no scanner can finish confirms nothing.

CommentFiles(tree) == {p \in OnDisk(tree) : Counted(p) /\ About[p].language # "none"}
ScanOf(tree, p) == ScanText(Text(tree, p).tokens, About[p].language)

\* Mutant: a text no scanner can finish has the references found so far.
CommentSureAnyway(tree) == \A p \in CommentFiles(tree) : Text(tree, p).readable
CommentSure(tree) ==
  \A p \in CommentFiles(tree) :
    /\ Text(tree, p).readable
    /\ ~Text(tree, p).generated => Finished(ScanOf(tree, p), About[p].language)

CommentCounts(tree) ==
  Positive([p \in CommentFiles(tree) |-> IF Text(tree, p).generated THEN 0 ELSE ScanOf(tree, p).n])

-----------------------------------------------------------------------------
\* Docs: history markers per page, and README.md's size once over its budget.

DocFiles(tree) == {p \in OnDisk(tree) : Counted(p) /\ About[p].language = "markdown"}
Unread(tree, p) == Text(tree, p).generated

DocSure(tree) ==
  \A p \in DocFiles(tree) : Text(tree, p).readable /\ (Unread(tree, p) \/ Closed(Text(tree, p).lines, TRUE))

\* A heading that starts with a changelog title or holds a date is one marker;
\* a reference is one unless it is part of a URL or one the config allows.
HeadingMarks(line) ==
  IF line # <<>> /\ line[1] \in {"h2", "h3"} /\ (Tokens(line, {"date"}) > 0 \/ Tokens(line, {"changelog"}) > 0)
  THEN 1 ELSE 0
PageMarks(lines) ==
  LET shown == Shown(lines, TRUE)
  IN Total([i \in DOMAIN shown |-> HeadingMarks(shown[i]) + Tokens(shown[i], {"ref"})])

DocCounts(tree) ==
  LET read == {p \in DocFiles(tree) : ~Unread(tree, p)}
      over == {p \in read : About[p].readme /\ Text(tree, p).size > ReadmeBudget}
  IN Positive([k \in (read \X {"markers"}) \cup (over \X {"bytes"}) |->
                IF k[2] = "bytes" THEN Text(tree, k[1]).size ELSE PageMarks(Text(tree, k[1]).lines)])

-----------------------------------------------------------------------------
\* Doc references: what a page names and the listed files do not have. A path
\* counts as a reference only while its first folder is a listed one.

TopNames(tree) == {About[p].top : p \in Listed(tree)}

\* The span's owner is the word before it, on the line above when it opens one.
Owned(shown, n, i) ==
  LET opening == Max({j \in Ticks(shown[n]) : j < i})
      before == IF opening > 1 THEN <<shown[n][opening - 1]>> ELSE IF n > 1 THEN shown[n - 1] ELSE <<>>
  IN before # <<>> /\ Last(before) = "theirs"

\* A path or a module is a reference in a code span, a link outside of one, a
\* port in either and only when the repository declares one.
IsReference(tree, shown, n, i) ==
  LET ref == RefOf[shown[n][i]]
  IN CASE ref.kind \in {"path", "module"} ->
            InSpan(shown[n], i) /\ ~Owned(shown, n, i) /\ ref.top \in TopNames(tree)
       [] ref.kind = "link" -> ~InSpan(shown[n], i)
       [] OTHER -> Port > 0

\* Targets are the files any of which answers the reference, shorthands and
\* symbols resolved; a folder answers for a path or a link.
Resolves(tree, ref) ==
  CASE ref.kind = "port" -> ref.port = Port
    [] OTHER -> \/ ref.targets \cap Listed(tree) # {}
                \/ \E p \in Listed(tree) : ref.folder \in About[p].folders

\* A path or link git ignores is a local file, and an allowed one is deliberate.
Excused(ref) == ref.allowed \/ (ref.kind \in {"path", "link"} /\ ref.ignored)

Mentions(tree, p, token) ==
  LET shown == Shown(Text(tree, p).lines, TRUE)
  IN Total([n \in DOMAIN shown |-> Cardinality({i \in DOMAIN shown[n] :
              shown[n][i] = token /\ IsReference(tree, shown, n, i)})])

RefCounts(tree) ==
  LET read == {p \in DocFiles(tree) : ~Unread(tree, p)}
      dangling == {t \in DOMAIN RefOf : ~Resolves(tree, RefOf[t]) /\ ~Excused(RefOf[t])}
  IN Positive([k \in read \X dangling |-> Mentions(tree, k[1], k[2])])

-----------------------------------------------------------------------------
\* Instruction files: hits per rule that are violations for the file's reader.

\* The pages a text links to outside its fences, on disk and of no kind of its
\* own; ticked also takes the paths it names in code spans.
Links(tree, p, ticked) ==
  LET shown == Shown(Text(tree, p).lines, FALSE)
  IN {q \in OnDisk(tree) :
       /\ About[q].kind = "page" /\ q # p
       /\ \E n \in DOMAIN shown : \E i \in DOMAIN shown[n] :
            /\ shown[n][i] \in DOMAIN LinkOf /\ LinkOf[shown[n][i]] = q
            /\ ticked \/ ~InSpan(shown[n], i)}

Wanted(tree) == {p \in OnDisk(tree) : About[p].kind \in {"claude-md", "agents-md", "rules", "skill"}}
SkillPages(tree) == UNION {Links(tree, s, TRUE) : s \in {p \in Wanted(tree) : About[p].kind = "skill"}}
Inventory(tree) == Wanted(tree) \cup SkillPages(tree)

\* A file the configuration names and the tree lacks is a configuration error.
ExtrasMissing(tree) == \E p \in DOMAIN tree : About[p].extra /\ p \notin OnDisk(tree)

InstructionSure(tree) ==
  \A p \in Inventory(tree) :
    /\ Text(tree, p).readable
    /\ Closed(Text(tree, p).lines, FALSE)
    /\ About[p].kind = "skill" => Text(tree, p).described

\* CLAUDE.md is Claude's alone unless AGENTS.md points at it.
Audience(tree, p) ==
  CASE About[p].kind = "rules" -> "claude"
    [] About[p].kind = "claude-md" /\ \A a \in OnDisk(tree) : About[a].kind = "agents-md" => ~Text(tree, a).pointing -> "claude"
    [] OTHER -> "neutral"

\* A heading may hand its section, deeper headings included, to one reader.
Level(line) == IF line = <<>> THEN 0 ELSE IF line[1] = "h2" THEN 2 ELSE IF line[1] = "h3" THEN 3 ELSE 0
SectionOf(line) ==
  IF Level(line) = 0 THEN "none"
  ELSE IF Tokens(line, {"claude-only"}) > 0 THEN "claude"
  ELSE IF Tokens(line, {"codex-only"}) > 0 THEN "openai" ELSE "none"
AudienceAt(shown, n, audience) ==
  LET inner == {k \in 1 .. n : /\ SectionOf(shown[k]) \notin {"none", audience}
                               /\ \A j \in k + 1 .. n : Level(shown[j]) = 0 \/ Level(shown[j]) > Level(shown[k])}
  IN IF inner = {} THEN audience ELSE SectionOf(shown[Max(inner)])

\* A vendor's own rule binds its reader only; in a neutral file it is advice.
Violates(rule, audience) ==
  \/ VendorOf[rule] = "shared"
  \/ VendorOf[rule] = "anthropic" /\ audience = "claude"
  \/ VendorOf[rule] = "openai" /\ audience = "openai"

Spoken(shown, n, i) == ~InSpan(shown[n], i)

\* Hits of one rule at one line of a file, whatever its reader.
PhraseHits(shown, n, rule) == Cardinality({i \in DOMAIN shown[n] : shown[n][i] = rule /\ Spoken(shown, n, i)})

\* A skill's page may link on, but only to what the skill links to itself: the
\* hit is at the line of the skill that mentions the page first.
NestedHits(tree, p, shown, n) ==
  LET direct == Links(tree, p, TRUE)
      first(q) == Min({k \in DOMAIN shown : \E i \in DOMAIN shown[k] :
                        shown[k][i] \in DOMAIN LinkOf /\ LinkOf[shown[k][i]] = q})
  IN Cardinality({link \in direct \X OnDisk(tree) : first(link[1]) = n /\ link[2] \in Links(tree, link[1], FALSE) \ direct})

\* One product named alone in text for every reader; a line is a paragraph here.
NeutralityHits(line, whose) ==
  IF /\ whose = "neutral" /\ SectionOf(line) = "none"
     /\ (Tokens(line, {"Claude"}) > 0) # (Tokens(line, {"Codex"}) > 0)
  THEN 1 ELSE 0

\* Always and never of the same phrase contradict each other, once per file.
Contradicts(shown) ==
  LET says(word) == \E n \in DOMAIN shown : PhraseHits(shown, n, word) > 0
  IN says("always") /\ says("never")

\* A page only its skill links to answers to none of these rules.
InstructionHits(tree, p, rule) ==
  LET shown == Shown(Text(tree, p).lines, FALSE)
      whose(n) == AudienceAt(shown, n, Audience(tree, p))
      lineHits(n) ==
        CASE rule = "R-17" -> NeutralityHits(shown[n], whose(n))
          [] ~Violates(rule, whose(n)) -> 0
          [] rule = "R-34" -> IF About[p].kind = "skill" THEN NestedHits(tree, p, shown, n) ELSE 0
          [] OTHER -> PhraseHits(shown, n, rule)
  IN CASE rule = "size" -> IF Text(tree, p).size > SizeCap THEN Text(tree, p).size ELSE 0
       [] rule = "R-16" -> IF Contradicts(shown) THEN 1 ELSE 0
       [] OTHER -> Total([n \in DOMAIN shown |-> lineHits(n)])

InstructionCounts(tree) ==
  Positive([k \in Wanted(tree) \X (DOMAIN VendorOf \cup {"size", "R-16"}) |-> InstructionHits(tree, k[1], k[2])])
=============================================================================
