----------------------------- MODULE SampleTrees -----------------------------
(* Small repositories for the ten ratchets. A text's debt is what a reader  *)
(* finds in it, by kind, written down here and not computed by any scanner. *)
EXTENDS Integers, Sequences, FiniteSets, TLC, UsageScan

PlainFile ==
  [standing |-> "counted", language |-> "none", type |-> "none", kind |-> "none", readme |-> FALSE, extra |-> FALSE,
   top |-> "docs", folders |-> {}, test |-> FALSE, library |-> FALSE, helper |-> {}, signin |-> FALSE, baseline |-> FALSE,
   component |-> FALSE, order |-> 1, lower |-> FALSE, folder |-> "src", marker |-> FALSE, loose |-> FALSE,
   mistyped |-> FALSE, homeless |-> FALSE, surface |-> FALSE, root |-> "none", parts |-> <<>>]
Script(language) == [PlainFile EXCEPT !.language = language]
Page == [PlainFile EXCEPT !.language = "markdown"]
Instruction(sort) == [PlainFile EXCEPT !.kind = sort]
Module(folder, nth) ==
  [PlainFile EXCEPT !.type = "py", !.folder = folder, !.order = nth, !.top = folder, !.parts = <<folder, "m">>]

MCAbout == [
  cjs |-> Script("js"), cpy |-> Script("py"), ccss |-> Script("css"), cps |-> Script("ps"), cyaml |-> Script("yaml"),
  readme |-> [Page EXCEPT !.readme = TRUE], doc |-> Page, copied |-> [Page EXCEPT !.standing = "vendored"],
  here |-> Module("src", 1), there |-> Module("src", 2),
  claude |-> Instruction("claude-md"), agents |-> Instruction("agents-md"), skill |-> [Instruction("skill") EXCEPT !.extra = TRUE],
  guide |-> Instruction("page"), leaf |-> Instruction("page"),
  lib |-> [Module("src", 1) EXCEPT !.library = TRUE], helper |-> [Module("src", 2) EXCEPT !.helper = {"must-use"}],
  ctest |-> [Module("tests", 3) EXCEPT !.test = TRUE], login |-> [PlainFile EXCEPT !.type = "web"],
  defs |-> Module("src", 1), calls |-> Module("src", 2), notes |-> [PlainFile EXCEPT !.type = "text"],
  one |-> Module("src", 1), two |-> Module("src", 2),
  low |-> [Module("src", 1) EXCEPT !.lower = TRUE], view |-> [PlainFile EXCEPT !.type = "js", !.folder = "app", !.root = "app"],
  stray |-> [PlainFile EXCEPT !.loose = TRUE, !.folder = "root"],
  html |-> [PlainFile EXCEPT !.type = "html"], mount |-> Module("app", 1), build |-> [PlainFile EXCEPT !.type = "js"],
  writer |-> Module("src", 1)]

PlainText ==
  [disk |-> "held", readable |-> TRUE, generated |-> FALSE, parses |-> TRUE, tokens |-> <<>>, lines |-> <<>>, size |-> 1,
   described |-> TRUE, pointing |-> FALSE, uses |-> <<>>, cli |-> FALSE, lockout |-> FALSE, names |-> {}, words |-> {},
   defs |-> {}, dynamic |-> FALSE, blocks |-> {}, lint |-> <<>>, spans |-> <<>>, imports |-> <<>>, items |-> <<>>,
   router |-> FALSE, writes |-> <<>>, bound |-> [x \in {} |-> <<>>], targets |-> {}, debt |-> [k \in {} |-> 0]]
Line(text) == [run |-> 0, info |-> FALSE, text |-> text]
Fence(run, info) == [run |-> run, info |-> info, text |-> <<>>]

-----------------------------------------------------------------------------
Commented(tokens, n) == [PlainText EXCEPT !.tokens = tokens, !.debt = [refs |-> n]]
CommentTexts == [
  js0 |-> Commented(<<"w", "'", "//", "ref", "'", "nl", "tick", "//", "ref", "${", "{", "w", "}", "}", "tick", "nl">>, 0),
  js1 |-> Commented(<<"(", "/", "'", "/", ")", "//", "ref", "url", "nl">>, 1),
  js2 |-> Commented(<<"w", "/", "w", "/*", "ref", "nl", "ref", "*/", "tick", "${", "w", "}", "ref", "tick">>, 2),
  jsBad |-> Commented(<<"'", "nl", "//", "ref", "ref", "nl">>, 2),
  py0 |-> Commented(<<"w", "'", "#", "ref", "'", "nl">>, 0),
  py1 |-> Commented(<<"w", "#", "ref", "url", "nl">>, 1),
  pyMade |-> [Commented(<<"#", "ref", "nl">>, 0) EXCEPT !.generated = TRUE],
  css0 |-> Commented(<<"url(", "/*", "ref", ")", "w">>, 0),
  css1 |-> Commented(<<"'", "/*", "'", "/*", "ref", "*/">>, 1),
  ps0 |-> Commented(<<"dq", "$(", "(", "w", ")", ")", "#", "ref", "dq", "nl">>, 0),
  ps1 |-> Commented(<<"@'", "dq", "'@", "#", "ref", "nl", "dq", "$(", "w", ")", "dq">>, 1),
  psBad |-> Commented(<<"dq", "#", "ref", "nl">>, 1),
  yaml0 |-> Commented(<<"w", ":", "'", "#", "ref", "'", "nl">>, 0),
  yaml1 |-> Commented(<<"-", "w", "'", "w", "#", "ref", "nl", "w", ":", "'", "w", "'">>, 1)]

Paged(lines, n) == [PlainText EXCEPT !.lines = lines, !.debt = [markers |-> n]]
DocTexts == [
  short |-> Paged(<<Line(<<"w">>)>>, 0),
  long |-> [Paged(<<Line(<<"ref">>)>>, 1) EXCEPT !.size = 3, !.debt = [markers |-> 1, bytes |-> 3]],
  longer |-> [Paged(<<Line(<<"w">>)>>, 0) EXCEPT !.size = 4, !.debt = [bytes |-> 4]],
  doc0 |-> Paged(<<Fence(3, TRUE), Line(<<"h2", "date">>), Fence(2, FALSE), Line(<<"ref">>), Fence(3, FALSE), Line(<<"url">>)>>, 0),
  doc2 |-> Paged(<<Line(<<"<!--", "ref">>), Line(<<"-->", "ref">>), Line(<<"h3", "changelog">>)>>, 2),
  docOpen |-> Paged(<<Line(<<"ref">>), Fence(3, FALSE), Line(<<"ref">>)>>, 2)]

\* What a reader sees named: by a path, by a link, and a port that is not ours.
Naming(lines, path, link, port) ==
  [PlainText EXCEPT !.lines = lines, !.debt = [path |-> path, link |-> link, port |-> port]]
RefTexts == [
  names0 |-> Naming(<<Line(<<"theirs", "tick", "r-here", "tick">>), Fence(3, FALSE), Line(<<"l-here">>), Fence(3, FALSE)>>, 0, 0, 0),
  names1 |-> Naming(<<Line(<<"w", "tick", "r-here", "tick">>), Line(<<"tick", "l-here", "tick", "r-here">>)>>, 1, 0, 0),
  names2 |-> Naming(<<Line(<<"l-here", "tick", "r-port", "tick">>), Line(<<"<!--", "r-port", "-->", "l-here">>)>>, 0, 2, 1),
  code |-> PlainText]
MCRefOf == [
  r \in {"r-here", "l-here", "r-port"} |->
    [kind |-> CASE r = "r-here" -> "path" [] r = "l-here" -> "link" [] OTHER -> "port",
     top |-> "src", targets |-> {"here"}, folder |-> "none", port |-> 2, allowed |-> FALSE, ignored |-> FALSE]]

Instructing(lines, debt) == [PlainText EXCEPT !.lines = lines, !.debt = debt]
InstructionTexts == [
  rule0 |-> Instructing(<<Fence(3, FALSE), Line(<<"shout">>), Fence(3, FALSE), Line(<<"tick", "shout", "tick">>)>>, [shout |-> 0]),
  rule1 |-> Instructing(<<Line(<<"think">>), Line(<<"h2", "codex-only">>), Line(<<"think">>), Line(<<"h2">>), Line(<<"Claude">>)>>,
                        [think |-> 1, alone |-> 1]),
  rule2 |-> [Instructing(<<Line(<<"h2", "claude-only">>), Line(<<"h3">>), Line(<<"think", "shout">>), Line(<<"always">>), Line(<<"never">>)>>,
                         [think |-> 1, shout |-> 1, both |-> 1, size |-> 2]) EXCEPT !.size = 2],
  points |-> [Instructing(<<Line(<<"w">>)>>, [shout |-> 0]) EXCEPT !.pointing = TRUE],
  stands |-> Instructing(<<Line(<<"Claude", "Codex">>)>>, [shout |-> 0]),
  skill1 |-> Instructing(<<Line(<<"h2", "claude-only">>), Line(<<"l-guide">>)>>, [nested |-> 1]),
  skill0 |-> Instructing(<<Line(<<"h2", "claude-only">>), Line(<<"l-guide">>), Line(<<"tick", "l-leaf", "tick">>)>>, [nested |-> 0]),
  skillBad |-> [Instructing(<<Line(<<"shout">>)>>, [shout |-> 1]) EXCEPT !.described = FALSE],
  onward |-> Instructing(<<Line(<<"l-leaf">>)>>, [shout |-> 0]),
  end |-> Instructing(<<Line(<<"w">>)>>, [shout |-> 0])]
MCVendorOf == [r \in {"shout", "think", "R-17", "R-34"} |-> IF r \in {"think", "R-34"} THEN "anthropic" ELSE "shared"]
MCLinkOf == [l \in {"l-guide", "l-leaf"} |-> IF l = "l-guide" THEN "guide" ELSE "leaf"]

-----------------------------------------------------------------------------
Use(call) == [call |-> call, flagged |-> FALSE, timed |-> FALSE, posix |-> FALSE, exempt |-> "none"]
Using(uses, kinds) == [PlainText EXCEPT !.uses = uses, !.debt = [k \in kinds |-> 1]]
ConventionTexts == [
  calls0 |-> Using(<<[Use("popen") EXCEPT !.flagged = TRUE], [Use("run") EXCEPT !.timed = TRUE, !.posix = TRUE],
                     [Use("drive") EXCEPT !.exempt = "reason"]>>, {}),
  calls2 |-> Using(<<[Use("run") EXCEPT !.flagged = TRUE], Use("print")>>, {"timeout", "print"}),
  calls4 |-> Using(<<Use("run"), [Use("print") EXCEPT !.exempt = "bare"], Use("drive"), [Use("login") EXCEPT !.exempt = "reason"]>>,
                   {"window", "timeout", "print", "drive"}),
  callsNot |-> [Using(<<Use("drive")>>, {"drive"}) EXCEPT !.parses = FALSE],
  prints |-> [Using(<<Use("print")>>, {}) EXCEPT !.cli = TRUE],
  connects |-> Using(<<Use("login"), Use("popen"), Use("connect")>>, {"login", "window"}),
  test1 |-> Using(<<Use("popen"), Use("drive"), Use("print")>>, {"window"}),
  form0 |-> Using(<<>>, {}), form1 |-> Using(<<Use("password")>>, {"password"})]
MCBuilders == {<<"build", "card">>}
MCRules == {"no-window", "subprocess-timeout", "logging-not-print", "no-drive-path", "login-lockout", "password-input-vendored", "must-use"}

Def(name) == [name |-> name, entry |-> FALSE, inherits |-> FALSE, top |-> TRUE]
DeadTexts == [
  defs2 |-> [PlainText EXCEPT !.defs = {Def("f"), Def("g")}, !.names = {"run"}],
  defs1 |-> [PlainText EXCEPT !.defs = {Def("f"), [Def("g") EXCEPT !.entry = TRUE]}],
  callsF |-> [PlainText EXCEPT !.names = {"f"}, !.words = {"f"}],
  callsG |-> [PlainText EXCEPT !.names = {"g"}, !.words = {"g"}],
  callsNone |-> [PlainText EXCEPT !.parses = FALSE],
  notesF |-> [PlainText EXCEPT !.words = {"f"}],
  notes0 |-> [PlainText EXCEPT !.words = {}]]

Linted(blocks, lint, debt) == [PlainText EXCEPT !.blocks = blocks, !.lint = lint, !.debt = debt]
StaticTexts == [
  block0 |-> Linted({}, <<"S102">>, [S102 |-> 1]), block1 |-> Linted({"b"}, <<"F401">>, [F401 |-> 1]),
  block2 |-> Linted({"b", "c"}, <<"F401", "F401">>, [F401 |-> 2])]

\* Two functions of one name, a nested one and a brace in a template.
Fn(name, rest) == <<"function", name, "(", ")", "{">> \o rest \o <<"}">>
ShapeTexts == [
  shape0 |-> [PlainText EXCEPT !.tokens = <<"note", "nl">> \o Fn("f", <<"nl">>)],
  shape1 |-> [PlainText EXCEPT !.tokens = Fn("f", <<"nl", "nl", "nl">>) \o Fn("g", <<"nl", "nl">>), !.debt = [f |-> 4, band |-> 1]],
  shape2 |-> [PlainText EXCEPT !.tokens = <<"f", "=", "(", ")", "=>", "{", "nl", "nl", "nl", "}", "nl">>
                                            \o Fn("f", <<"nl", "tick", "nl", "${", "w", "}", "tick", "nl", "nl">>),
                               !.debt = [f |-> 5, f2 |-> 4]],
  shape3 |-> [PlainText EXCEPT !.tokens = Fn("f", <<"nl", "nl", "nl", "nl">>), !.debt = [f |-> 5]],
  low0 |-> [PlainText EXCEPT !.spans = <<[name |-> <<"f">>, lines |-> 2]>>],
  low2 |-> [PlainText EXCEPT !.spans = <<[name |-> <<"f">>, lines |-> 3], [name |-> <<"C", "g">>, lines |-> 4]>>, !.imports = <<"app">>,
                            !.debt = [g |-> 4, band |-> 1, app |-> 1]],
  lowBig |-> [PlainText EXCEPT !.size = 5, !.debt = [size |-> 5]],
  lowNo |-> [PlainText EXCEPT !.parses = FALSE, !.debt = [size |-> 9]],
  any |-> [PlainText EXCEPT !.debt = [rootfile |-> 1]]]

-----------------------------------------------------------------------------
Items(items, debt) == [PlainText EXCEPT !.items = items, !.debt = debt]
Open(tag) == [Plain EXCEPT !.tag = tag]
Button == [Plain EXCEPT !.tag = "button", !.control = TRUE]
Close(tag) == [Open(tag) EXCEPT !.is = "close"]
Make(name) == [Button EXCEPT !.is = "make", !.name = name]
Given(name) == [Plain EXCEPT !.is = "set", !.name = name, !.track = "constant"]
Brace(is, name) == [Plain EXCEPT !.is = is, !.name = name]
Builder(track) == [Plain EXCEPT !.is = "call", !.name = "card", !.track = track]
UsageTexts == [
  html0 |-> Items(<<[Open("div") EXCEPT !.group = TRUE, !.track = "constant"], Button, Close("button"), Close("div"),
                    Open("nav"), [Button EXCEPT !.tab = TRUE], [Plain EXCEPT !.is = "init"]>>, [ids |-> 0]),
  html2 |-> Items(<<[Open("div") EXCEPT !.track = "constant"], Button, Close("div"), Open("dialog"), [Plain EXCEPT !.is = "init"],
                    [Button EXCEPT !.exempt = "reason"]>>, [controls |-> 1, sheets |-> 1]),
  html3 |-> Items(<<[Button EXCEPT !.track = "computed"], Close("button"), [Button EXCEPT !.exempt = "bare", !.void = TRUE], Button, Close("button")>>,
                 [ids |-> 1, controls |-> 2]),
  build0 |-> Items(<<Brace("{", "card"), Make("b"), Brace("{", "none"), [Given("b") EXCEPT !.track = "computed"], Brace("}", "none"), Brace("}", "none"),
                     Builder("constant"), [Plain EXCEPT !.is = "init"]>>, [ids |-> 0]),
  build2 |-> Items(<<Brace("{", "card"), Builder("none"), Brace("}", "none"), Builder("none"), Brace("{", "none"), Make("b"), Brace("}", "none"), Given("b"),
                     [Plain EXCEPT !.is = "init"]>>, [controls |-> 2]),
  buildBad |-> Items(<<Brace("{", "card"), Builder("none"), Builder("none"), Builder("none")>>, [controls |-> 3]),
  routes |-> [PlainText EXCEPT !.router = TRUE], noRoutes |-> [PlainText EXCEPT !.debt = [controls |-> 0]]]

To(base, steps) == [base |-> base, name |-> "d", parts |-> <<"src", "..", "data">>, steps |-> steps]
Up == [do |-> "parent", parts |-> <<>>]
Into(piece) == [do |-> "join", parts |-> <<piece>>]
Writes(target) == [target |-> target, chain |-> <<"module", "main">>, exempt |-> "none"]
Writing(targets, folder, unresolved) ==
  [PlainText EXCEPT !.writes = [i \in DOMAIN targets |-> Writes(targets[i])],
                    !.debt = [folder |-> folder, unresolved |-> unresolved]]
WriteTexts == [
  write0 |-> Writing(<<To("here", <<Up, Up, Into("data")>>), To("literal", <<>>), To("safe", <<Into("src")>>)>>, 0, 0),
  write1 |-> Writing(<<To("here", <<Up, Into("data")>>), To("cwd", <<[Into("x") EXCEPT !.do = "join-unknown"]>>)>>, 1, 1),
  write2 |-> [Writing(<<To("name", <<Into("x")>>), To("literal", <<Up, Into("src"), [Into("x") EXCEPT !.do = "join-unknown"]>>)>>, 2, 0) EXCEPT
                !.bound = [k \in {<<"module", "d">>} |-> <<To("here", <<Up>>)>>], !.targets = {To("here", <<Up>>)}],
  write3 |-> [Writing(<<To("name", <<Into("x")>>), To("cwd", <<Up, Into("src")>>)>>, 0, 1) EXCEPT
                !.bound = [k \in {<<"module", "d">>, <<"main", "d">>} |-> <<To(IF k[1] = "main" THEN "other" ELSE "here", <<Up>>)>>],
                !.targets = {To("here", <<Up>>)}]]

NoTexts == [absent |-> [PlainText EXCEPT !.disk = "absent"], gone |-> [PlainText EXCEPT !.disk = "gone"]]
Shelves == <<NoTexts, CommentTexts, DocTexts, RefTexts, InstructionTexts, ConventionTexts, DeadTexts, StaticTexts, ShapeTexts,
             UsageTexts, WriteTexts>>
MCSays == [name \in UNION {DOMAIN Shelves[i] : i \in DOMAIN Shelves} |->
            Shelves[CHOOSE i \in DOMAIN Shelves : name \in DOMAIN Shelves[i]][name]]

Checkout(name, texts) == [ratchet |-> name, versions |-> texts]
MCRepos == <<
  Checkout("comment", [cjs |-> {"js0", "js1", "js2", "jsBad", "gone"}, cpy |-> {"py0", "py1", "pyMade"}]),
  Checkout("comment", [ccss |-> {"css0", "css1"}, cps |-> {"ps0", "ps1", "psBad"}, cyaml |-> {"yaml0", "yaml1"}]),
  Checkout("docs", [readme |-> {"short", "long", "longer"}, doc |-> {"doc0", "doc2", "docOpen", "absent"}, copied |-> {"short", "doc2"}]),
  Checkout("doc_refs", [doc |-> {"names0", "names1", "names2", "docOpen"}, here |-> {"code", "gone", "absent"}, there |-> {"code"}]),
  Checkout("instruction", [claude |-> {"rule0", "rule1", "rule2"}, agents |-> {"points", "stands", "absent"}]),
  Checkout("instruction", [skill |-> {"skill0", "skill1", "skillBad", "gone"}, guide |-> {"onward", "end"}, leaf |-> {"end", "gone"}]),
  Checkout("conventions", [lib |-> {"calls0", "calls2", "calls4", "callsNot", "prints"}, login |-> {"form0", "form1"}]),
  Checkout("conventions", [helper |-> {"connects", "prints"}, ctest |-> {"test1", "calls0"}]),
  Checkout("dead_code", [defs |-> {"defs1", "defs2"}, calls |-> {"callsF", "callsG", "callsNone", "gone"}, notes |-> {"notesF", "notes0"}]),
  Checkout("static", [one |-> {"block0", "block1", "block2"}, two |-> {"block0", "block1", "block2", "gone"}]),
  Checkout("structure", [low |-> {"low0", "low2", "lowBig", "lowNo"}, view |-> {"shape0", "shape1", "absent"}, stray |-> {"any", "absent"}]),
  Checkout("structure", [view |-> {"shape0", "shape2", "shape3", "gone"}]),
  Checkout("usage_track", [html |-> {"html0", "html2", "html3"}, build |-> {"build0", "build2", "buildBad"}, mount |-> {"routes", "noRoutes"}]),
  Checkout("runtime_write", [writer |-> {"write0", "write1", "write2", "write3", "callsNone"}])>>

\* Whether the other files of the tree make the debt real.
Real(s, t, sort) ==
  CASE sort \in {"path", "link"} -> t["here"] = "absent"
    [] sort = "think"  -> t["claude"] = "rule2" \/ t["agents"] # "points"
    [] sort = "alone"  -> t["agents"] = "points"
    [] sort = "nested" -> t["guide"] = "onward" /\ t["leaf"] = "end"
    [] OTHER           -> TRUE

MCDebt(s, t, texts) ==
  LET there == {p \in DOMAIN t : t[p] \notin {"absent", "gone"} /\ p # "copied"}
      found == UNION {{<<sort, p>> : sort \in DOMAIN texts[p].debt} : p \in there}
      owed(k) == texts[k[2]].debt[k[1]]
      near == {k \in found : k[1] = "band"}
      f == t["calls"] # "callsF" /\ t["notes"] = "notes0"
      g == t["defs"] = "defs2" /\ t["calls"] # "callsG"
      both == IF t["two"] = "gone" THEN {} ELSE texts["one"].blocks \cap texts["two"].blocks
  IN CASE s = "dead_code" -> [k \in {<<"f", "defs">>, <<"g", "defs">>} |-> IF (k[1] = "f" /\ f) \/ (k[1] = "g" /\ g) THEN 1 ELSE 0]
       [] s = "static" -> [k \in found \cup (both \X {"both"}) |-> IF k[2] = "both" THEN 1 ELSE owed(k)]
       [] s = "structure" -> [k \in (found \ near) \cup {<<"band", "all">>} |-> IF k[2] = "all" THEN Cardinality(near) ELSE owed(k)]
       [] OTHER -> [k \in {h \in found : Real(s, t, h[1])} |-> owed(k)]
=============================================================================
