---------------------------- MODULE MarkdownScan ----------------------------
(* How the Markdown readers of scripts/ (docs, doc_refs and instruction     *)
(* ratchets) decide what of a page is visible. A page is a sequence of      *)
(* lines; a line has run, the length of the fence run it starts with (0 for *)
(* none), info, whether text follows that run, and text, its lexical        *)
(* tokens: "tick" for a backtick, "<!--" and "-->", "h2" or "h3" for a      *)
(* heading, and whatever the page says. Fences of two kinds are one here.   *)
EXTENDS Integers, Sequences, FiniteSets, SequencesExt

\* One line's HTML comments: an opener inside a code span is text, and a code
\* span ends with its line.
BlankToken(v, t) ==
  CASE v.comment -> [v EXCEPT !.comment = t # "-->"]
    [] t = "<!--" /\ ~v.code /\ ~v.comment -> [v EXCEPT !.comment = TRUE]
    [] t = "tick" /\ ~v.comment -> [v EXCEPT !.code = ~@, !.kept = Append(@, t)]
    [] OTHER -> [v EXCEPT !.kept = Append(@, t)]

BlankComments(text, comment) ==
  FoldLeft(BlankToken, [comment |-> comment, code |-> FALSE, kept |-> <<>>], text)

\* One line of a page: inside a fence only a bare run at least as long ends
\* it; outside a comment any run opens one; every other line is shown.
\* comments says whether this reader drops HTML comments at all.
ReadLine(s, line, comments) ==
  IF s.fence > 0
  THEN IF line.run >= s.fence /\ ~line.info THEN [s EXCEPT !.fence = 0] ELSE s
  ELSE IF line.run > 0 /\ ~s.comment
  THEN [s EXCEPT !.fence = line.run]
  ELSE IF ~comments
  THEN [s EXCEPT !.shown = Append(@, line.text)]
  ELSE LET blank == BlankComments(line.text, s.comment)
       IN [s EXCEPT !.comment = blank.comment, !.shown = Append(@, blank.kept)]

ReadPage(lines, comments) ==
  FoldLeft(LAMBDA s, line : ReadLine(s, line, comments),
           [fence |-> 0, comment |-> FALSE, shown |-> <<>>], lines)

\* A page whose last fence or comment never closes is not confirmed.
Closed(lines, comments) ==
  LET page == ReadPage(lines, comments) IN page.fence = 0 /\ ~page.comment

Shown(lines, comments) == ReadPage(lines, comments).shown

\* Token i sits in a code span: its opening tick is the last before it, and a
\* tick later in the line closes it.
Ticks(line) == {j \in DOMAIN line : line[j] = "tick"}
InSpan(line, i) ==
  /\ Cardinality({j \in Ticks(line) : j < i}) % 2 = 1
  /\ \E j \in Ticks(line) : j > i
=============================================================================
