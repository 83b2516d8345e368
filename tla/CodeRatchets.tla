---------------------------- MODULE CodeRatchets ----------------------------
(* The ratchets that read code for what it does: fleet conventions          *)
(* (conventions), definitions nothing reads (dead_code) and the findings of *)
(* two outside detectors, duplicate blocks and lint (static).               *)
EXTENDS Ratchet

CONSTANTS
  Rules,        \* conventions: the rules the configuration enables
  MinConfidence \* dead_code: findings below it are not reported

-----------------------------------------------------------------------------
\* Conventions. A text is its uses, in order: each a record of the call, of the
\* flags it passes, whether it can run on Windows and its exempt marker.

WebRules == {"password-input-vendored"}
TextRules == {"no-pwsh-stub"}
TestRules == {"no-window"}

\* A baseline of any ratchet is data about hits and is never scanned.
ConventionFiles(tree) ==
  {p \in OnDisk(tree) :
    /\ Counted(p) /\ ~About[p].baseline
    /\ About[p].type \in {"py", "web"} \/ (About[p].type = "text" /\ TextRules \cap Rules # {})}

RulesFor(p) ==
  {r \in Rules :
    /\ CASE About[p].type = "web" -> r \in WebRules /\ ~About[p].signin
         [] About[p].type = "py" -> r \notin WebRules
         [] OTHER -> r \in TextRules
    /\ About[p].test => r \in TestRules
    /\ r = "logging-not-print" => About[p].library
    /\ r \notin About[p].helper}

\* Only a Python file has to parse; every other one is read as it comes.
ConventionSure(tree) ==
  \A p \in ConventionFiles(tree) : Text(tree, p).readable /\ (About[p].type = "py" => Text(tree, p).parses)

\* What one use breaks. An exempt marker counts only with a reason behind it; a
\* spawn that cannot run on Windows may show its window; a module that prints by
\* design, with its own print or as a command line, may print.
Breaks(rule, use, text) ==
  /\ use.exempt # "reason"
  /\ CASE rule = "no-window" -> use.call \in {"run", "popen"} /\ ~use.flagged /\ ~use.posix
       [] rule = "subprocess-timeout" -> use.call = "run" /\ ~use.timed
       [] rule = "logging-not-print" -> use.call = "print" /\ ~text.cli
       [] rule = "no-drive-path" -> use.call = "drive"
       [] rule = "login-lockout" -> use.call = "login" /\ (~text.lockout \/ ~use.timed)
       [] rule = "password-input-vendored" -> use.call = "password"
       [] rule = "must-use" -> use.call = "connect"
       [] OTHER -> use.call = "pwsh"

RuleHits(tree, p, rule) ==
  IF rule \in RulesFor(p)
  THEN Cardinality({i \in DOMAIN Text(tree, p).uses : Breaks(rule, Text(tree, p).uses[i], Text(tree, p))})
  ELSE 0

ConventionCounts(tree) ==
  Positive([k \in ConventionFiles(tree) \X Rules |-> RuleHits(tree, k[1], k[2])])

-----------------------------------------------------------------------------
\* Dead code. Every Python file is read for names, in scope or not, and every
\* other file for words; only files in scope are reported on.

PyFiles(tree) == {p \in OnDisk(tree) : About[p].type = "py" /\ About[p].standing # "excluded"}
\* The ratchet's own baseline names the dead and is not read for words.
MentionFiles(tree) == {p \in OnDisk(tree) : About[p].type = "text" /\ About[p].standing # "excluded" /\ ~About[p].baseline}

DeadSure(tree) == \A p \in PyFiles(tree) : Text(tree, p).readable /\ Text(tree, p).parses

NamesRead(tree) == UNION {Text(tree, p).names : p \in PyFiles(tree)}
\* An unreadable word file mentions nothing: that can only add findings.
Mentioned(tree) ==
  UNION ({Text(tree, p).words : p \in {q \in MentionFiles(tree) : Text(tree, q).readable}} \cup {Text(tree, p).words : p \in PyFiles(tree)})

\* Something outside the Python calls runs it: an exported or published name, a
\* test, a framework's decorator, or what the configuration allows.
EntryPoint(p, d) == d.entry \/ (About[p].component /\ d.top)

Confidence(tree, p, d) ==
  IF d.name \in Mentioned(tree) \/ Text(tree, p).dynamic \/ d.inherits THEN 60 ELSE 100

Dead(tree, p, d) ==
  /\ d.name \notin NamesRead(tree) /\ ~EntryPoint(p, d)
  /\ Confidence(tree, p, d) >= MinConfidence

DeadCounts(tree) ==
  LET reported == {p \in PyFiles(tree) : Counted(p)}
      dead == UNION {{<<p, d.name>> : d \in {e \in Text(tree, p).defs : Dead(tree, p, e)}} : p \in reported}
  IN [k \in dead |-> 1]

-----------------------------------------------------------------------------
\* Static. The detectors are other programs: jscpd pairs each further copy of a
\* block with the first it read, ruff lists lint hits per file. Either may fail
\* to run, which the gate machine decides; vendored copies are excluded.

Copies(tree, block) == {p \in OnDisk(tree) : About[p].standing = "counted" /\ block \in Text(tree, p).blocks}
Before(p, q) == About[p].order < About[q].order
DuplicateKeys(tree) ==
  UNION {{<<"dup", b, p, q>> : p \in {r \in Copies(tree, b) : \A s \in Copies(tree, b) : s = r \/ Before(r, s)},
                               q \in Copies(tree, b)}
         : b \in UNION {Text(tree, p).blocks : p \in OnDisk(tree)}}

\* A key is recorded or not; the same lint hit on one file gets an ordinal, so
\* that n of them are n keys.
LintKeys(tree) ==
  LET code == {"F401", "S102"}
      hit(k) == k[4] <= Tokens(Text(tree, k[2]).lint, {k[3]}) /\ (k[3] = "S102" => ~About[k[2]].test)
  IN {k \in {"lint"} \X {p \in OnDisk(tree) : Counted(p)} \X code \X (1 .. 3) : hit(k)}

StaticCounts(tree) == [k \in {d \in DuplicateKeys(tree) : d[3] # d[4]} \cup LintKeys(tree) |-> 1]
=============================================================================
