---------------------------- MODULE FunctionScan ----------------------------
(* How scripts/structure_ratchet.py finds where a JavaScript function ends. *)
(* A text is a sequence of tokens: a name, a punctuator, "nl", "tick" for a *)
(* backtick, "${", "text" inside a template, "value" for a string, a number *)
(* or a regular expression, "note" for a whole comment and "/*" for one     *)
(* that never ends. Labels and computed member names are left out.          *)
EXTENDS Integers, Sequences, SequencesExt

CONSTANT FunctionNames   \* the name tokens that are not words of the language

Tracker == [toks |-> <<>>, opener |-> <<>>, openers |-> <<>>, frames |-> <<>>,
            spans |-> <<>>, class |-> 0, line |-> 1, in |-> "code"]

At(s, i) == IF i \in DOMAIN s.toks THEN s.toks[i].text ELSE "none"
LineOf(s, i) == s.toks[i].line
PushToken(s, t) == [s EXCEPT !.toks = Append(@, [text |-> t, line |-> s.line]), !.opener = Append(@, 0)]

\* A function expression is named by what it is bound to.
AssignedName(s, start) ==
  IF At(s, start - 1) \in {"=", ":"} /\ At(s, start - 2) \in FunctionNames THEN At(s, start - 2)
  ELSE IF At(s, start - 1) = "default" THEN "default" ELSE "anonymous"

SkipAsync(s, i) == IF At(s, i - 1) = "async" THEN i - 1 ELSE i
Header(name, first) == [kind |-> "fn", name |-> name, first |-> first]
Block == [kind |-> "block", name |-> "none", first |-> 0]

\* name(...) { is a method only where a member of a class or an object starts.
MethodAt(s, head, start) ==
  IF start = 1 \/ At(s, start - 1) \in {"{", "}", ";", ","} THEN Header(At(s, head), start) ELSE Block
MethodHeader(s, head) ==
  MethodAt(s, head, IF At(s, head - 1) \in {"static", "async", "get", "set", "*"} THEN head - 1 ELSE head)

FunctionAt(s, start) == Header(AssignedName(s, start), start)
ArrowHeader(s, last) ==
  IF At(s, last) = ")" /\ s.opener[last] > 0 THEN FunctionAt(s, SkipAsync(s, s.opener[last]))
  ELSE IF At(s, last) \in FunctionNames THEN FunctionAt(s, SkipAsync(s, last)) ELSE Block

\* The { behind a parameter list, whose name or keyword is at head.
CallableHeader(s, head, keyword) ==
  IF head < 1 THEN Block
  ELSE IF At(s, head) = "function" THEN FunctionAt(s, SkipAsync(s, head))
  ELSE IF At(s, head) \notin FunctionNames THEN Block
  ELSE IF At(s, keyword) = "function" THEN Header(At(s, head), SkipAsync(s, keyword))
  ELSE MethodHeader(s, head)
\* A generator's star stands before its name, or behind its keyword.
StarSkipped(s, i) == IF At(s, i) = "*" THEN i - 1 ELSE i
NamedHeader(s, head) == CallableHeader(s, head, StarSkipped(s, head - 1))
Unstarred(s, before) == IF At(s, before - 1) = "function" THEN StarSkipped(s, before) ELSE before

\* What the next { opens: a class body, a function's or just a block.
OpenedFrame(s) ==
  LET prev == Len(s.toks)
  IN IF s.class > 0
     THEN [kind |-> "class", name |-> IF At(s, s.class + 1) \in FunctionNames THEN At(s, s.class + 1) ELSE AssignedName(s, s.class),
           first |-> s.class]
     ELSE IF At(s, prev) = "=>" THEN ArrowHeader(s, prev - 1)
     ELSE IF At(s, prev) = ")" THEN NamedHeader(s, Unstarred(s, s.opener[prev] - 1))
     ELSE Block

\* A function's name carries the functions and classes it is inside of.
Qualified(s, name) ==
  LET outer == SelectSeq(s.frames, LAMBDA f : f.kind \in {"fn", "class"})
  IN IF outer = <<>> THEN <<name>> ELSE Append(Last(outer).qualname, name)

PushFrame(s, f) ==
  [s EXCEPT !.frames = Append(@, [kind |-> f.kind, qualname |-> Qualified(s, f.name),
                                  line |-> IF f.first > 0 THEN LineOf(s, f.first) ELSE s.line]),
            !.class = 0]
OpenBrace(s) == PushFrame(s, OpenedFrame(s))

CloseBrace(s) ==
  LET f == Last(s.frames)
  IN IF s.frames = <<>> THEN s
     ELSE [s EXCEPT !.frames = Front(@),
                    !.spans = IF f.kind = "fn" THEN Append(@, [name |-> f.qualname, lines |-> s.line - f.line + 1]) ELSE @]

Bracket(s, t) ==
  LET index == Len(s.toks) + 1
  IN CASE t = "(" -> PushToken([s EXCEPT !.openers = Append(@, index)], t)
       [] t = ")" /\ s.openers # <<>> ->
            [PushToken([s EXCEPT !.openers = Front(@)], t) EXCEPT !.opener[index] = Last(s.openers)]
       [] OTHER -> PushToken(s, t)

TemplateFrame(s) == s.frames # <<>> /\ Last(s.frames).kind = "template"

CodeToken(s, t) ==
  CASE t = "tick" -> [s EXCEPT !.in = "template"]
    [] t = "}" /\ TemplateFrame(s) -> [s EXCEPT !.frames = Front(@), !.in = "template"]
    [] t = "/*" -> [s EXCEPT !.in = "lost"]
    [] t = "nl" -> [s EXCEPT !.line = @ + 1]
    [] t = "note" -> s
    [] t = "{" -> PushToken(OpenBrace(s), t)
    [] t = "}" /\ ~TemplateFrame(s) -> PushToken(CloseBrace(s), t)
    [] t \in {"(", ")"} -> Bracket(s, t)
    [] t = "class" -> PushToken([s EXCEPT !.class = IF At(s, Len(s.toks)) = "." THEN @ ELSE Len(s.toks) + 1], t)
    [] t = ";" -> PushToken([s EXCEPT !.class = 0], t)
    [] OTHER -> PushToken(s, t)

\* Template text moves nothing until its backtick or the code of a ${.
TemplateToken(s, t) ==
  CASE t = "tick" -> PushToken([s EXCEPT !.in = "code"], "value")
    [] t = "${" -> PushToken([s EXCEPT !.in = "code",
                                      !.frames = Append(@, [kind |-> "template", qualname |-> <<>>, line |-> s.line])], t)
    [] t = "nl" -> [s EXCEPT !.line = @ + 1]
    [] OTHER -> s

TrackToken(s, t) ==
  CASE s.in = "code" -> CodeToken(s, t)
    [] s.in = "template" -> TemplateToken(s, t)
    [] OTHER -> s

\* A function still open at the end has no length (0): it is unmeasured.
JsSpans(tokens) ==
  LET s == FoldLeft(TrackToken, Tracker, tokens)
      open == SelectSeq(s.frames, LAMBDA f : f.kind = "fn")
  IN s.spans \o [i \in DOMAIN open |-> [name |-> open[i].qualname, lines |-> 0]]
=============================================================================
