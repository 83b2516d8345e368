---------------------------- MODULE CommentScan ----------------------------
(* How scripts/comment_ratchet.py finds the comments of a file. A text is a *)
(* sequence of lexical tokens: a marker that opens or closes something,     *)
(* "nl", "ref" for one #NNN reference, "url" for a reference inside a URL,  *)
(* "w" for a word. A scanner reads them left to right and counts the "ref"  *)
(* tokens it takes for comment text; it may also give up (ok is FALSE).     *)
EXTENDS Integers, Sequences, SequencesExt

\* in is what the scanner is inside of; prev tells JavaScript's two uses of /
\* apart; opened is the stack of braces (js) or of frames (ps).
Scanner == [in |-> "code", prev |-> "none", opened |-> <<>>, ok |-> TRUE, n |-> 0]

Go(s, in, prev) == [s EXCEPT !.in = in, !.prev = prev]
Push(s, frame, in) == [s EXCEPT !.opened = Append(@, frame), !.in = in, !.prev = "punct"]
Pop(s, in, prev) == [s EXCEPT !.opened = IF @ = <<>> THEN @ ELSE Front(@), !.in = in, !.prev = prev]
GiveUp(s) == [s EXCEPT !.ok = FALSE]
Top(s) == IF s.opened = <<>> THEN "none" ELSE Last(s.opened)

\* In comment text a reference counts, a URL never, and token t may close it.
CommentStep(s, t, close) ==
  CASE t = close -> Go(s, "code", s.prev)
    [] t = "ref" -> [s EXCEPT !.n = @ + 1]
    [] OTHER -> s

\* Inside a literal: closed by one token, broken by another.
LiteralStep(s, t, close, break) ==
  CASE t = close -> Go(s, "code", "value")
    [] t = break -> GiveUp(s)
    [] OTHER -> s

PyStep(s, t) ==
  CASE s.in = "line" -> CommentStep(s, t, "nl")
    [] s.in = "quote" -> LiteralStep(s, t, "'", "nl")
    [] s.in = "code" /\ t = "#" -> Go(s, "line", "none")
    [] s.in = "code" /\ t = "'" -> Go(s, "quote", "none")
    [] OTHER -> s

\* A slash divides after a value and opens a regular expression elsewhere; }
\* goes back into a template literal when it closes the ${ of one.
JsCode(s, t) ==
  CASE t = "//" -> Go(s, "line", s.prev)
    [] t = "/*" -> Go(s, "block", s.prev)
    [] t = "'" -> Go(s, "quote", "value")
    [] t = "tick" -> Go(s, "template", "value")
    [] t = "/" -> IF s.prev = "value" THEN s ELSE Go(s, "regex", "value")
    [] t = "{" -> Push(s, "{", "code")
    [] t = "}" -> IF Top(s) = "$" THEN Pop(s, "template", "value") ELSE Pop(s, "code", "punct")
    [] t = "(" -> Go(s, "code", "punct")
    [] t \in {"w", "ref", "url"} -> Go(s, "code", "value")
    [] OTHER -> s

JsStep(s, t) ==
  CASE s.in = "code" -> JsCode(s, t)
    [] s.in = "line" -> CommentStep(s, t, "nl")
    [] s.in = "block" -> CommentStep(s, t, "*/")
    [] s.in = "quote" -> LiteralStep(s, t, "'", "nl")
    [] s.in = "regex" -> LiteralStep(s, t, "/", "nl")
    [] s.in = "template" -> IF t = "${" THEN Push(s, "$", "code") ELSE LiteralStep(s, t, "tick", "none")

CssStep(s, t) ==
  CASE s.in = "block" -> CommentStep(s, t, "*/")
    [] s.in = "quote" -> LiteralStep(s, t, "'", "nl")
    [] s.in = "url" -> LiteralStep(s, t, ")", "none")
    [] s.in = "code" /\ t = "/*" -> Go(s, "block", "none")
    [] s.in = "code" /\ t = "'" -> Go(s, "quote", "none")
    [] s.in = "code" /\ t = "url(" -> Go(s, "url", "none")
    [] OTHER -> s

\* PowerShell: a double-quoted string may hold $( code ), whose own ( ) nest.
PsCode(s, t) ==
  CASE t = "#" -> Go(s, "line", "none")
    [] t = "<#" -> Go(s, "block", "none")
    [] t = "'" -> Go(s, "quote", "none")
    [] t = "@'" -> Go(s, "here", "none")
    [] t = "dq" -> Push(s, "dq", "string")
    [] t = "(" -> Push(s, "(", "code")
    [] t = ")" -> Pop(s, IF Top(s) = "$(" THEN "string" ELSE "code", "none")
    [] OTHER -> s

PsStep(s, t) ==
  CASE s.in = "code" -> PsCode(s, t)
    [] s.in = "line" -> CommentStep(s, t, "nl")
    [] s.in = "block" -> CommentStep(s, t, "#>")
    [] s.in = "quote" -> LiteralStep(s, t, "'", "none")
    [] s.in = "here" -> LiteralStep(s, t, "'@", "none")
    [] s.in = "string" /\ t = "dq" -> Pop(s, "code", "none")
    [] s.in = "string" /\ t = "$(" -> Push(s, "$(", "code")
    [] OTHER -> s

\* YAML: a quote opens a scalar only where a value can start; the scanner
\* keeps that in prev ("none" at the start of a line, "punct" after a colon
\* or a leading dash). Flow collections, anchors and tags are left out.
YamlStep(s, t) ==
  CASE s.in = "line" -> IF t = "nl" THEN Go(s, "code", "none") ELSE CommentStep(s, t, "nl")
    [] s.in = "quote" -> LiteralStep(s, t, "'", "none")
    [] s.in = "code" /\ t = "#" -> Go(s, "line", "none")
    [] s.in = "code" /\ t = "'" /\ s.prev # "value" -> Go(s, "quote", "value")
    [] s.in = "code" /\ t = "nl" -> Go(s, "code", "none")
    [] s.in = "code" /\ (t = ":" \/ (t = "-" /\ s.prev # "value")) -> Go(s, "code", "punct")
    [] s.in = "code" /\ t \in {"w", "'"} -> Go(s, "code", "value")
    [] OTHER -> s

ScanText(text, language) ==
  FoldLeft(LAMBDA s, t : CASE ~s.ok -> s
                           [] language = "py" -> PyStep(s, t)
                           [] language = "js" -> JsStep(s, t)
                           [] language = "css" -> CssStep(s, t)
                           [] language = "ps" -> PsStep(s, t)
                           [] language = "yaml" -> YamlStep(s, t),
           Scanner, text)

\* Confirmed: the end of the text leaves nothing open but a line comment or,
\* in JavaScript, a brace; PowerShell also insists on every frame it pushed.
Finished(s, language) ==
  /\ s.ok
  /\ s.in \in {"code", "line"}
  /\ language = "ps" => ~\E i \in DOMAIN s.opened : s.opened[i] \in {"dq", "$("}
=============================================================================
