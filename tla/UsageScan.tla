----------------------------- MODULE UsageScan -----------------------------
(* What scripts/usage_track_scan.py reads of a page or a script: a sequence *)
(* of items. A page's item opens or closes an element; a script's opens or  *)
(* closes a block, creates an element, sets one of its attributes, calls a  *)
(* builder of controls or starts the usage log ("init"); "broken" is a      *)
(* literal or a comment that never closes. A literal of markup in a script  *)
(* and a script in a page are items at their place; link targets are left   *)
(* out, and so is a builder that a `;` cuts off from its body.              *)
EXTENDS Integers, Sequences, FiniteSets, SequencesExt

\* What no item says otherwise. track and view are an id's kind, "none",
\* "constant" or "computed"; control and group say what the element is.
Plain == [is |-> "open", tag |-> "div", name |-> "none", control |-> FALSE, group |-> FALSE, void |-> FALSE,
          tab |-> FALSE, track |-> "none", view |-> "none", exempt |-> "none"]

\* The open elements around item i: a closing tag also closes what it holds,
\* and one that closes nothing is ignored.
ElementStep(stack, item) ==
  LET same == {k \in DOMAIN stack : stack[k].tag = item.tag}
  IN CASE item.is = "open" /\ ~item.void ->
            Append(stack, [tag |-> item.tag, tracked |-> item.track # "none", counts |-> item.control \/ item.group])
       [] item.is = "close" /\ same # {} -> SubSeq(stack, 1, Max(same) - 1)
       [] OTHER -> stack
Around(file, i) == FoldLeft(ElementStep, <<>>, SubSeq(file, 1, i - 1))

\* A control counts when it has an id, is a tab of a nav, or its nearest
\* tracked parent counts the clicks inside of it.
TrackedHere(file, i) ==
  LET stack == Around(file, i)
      tracked == {k \in DOMAIN stack : stack[k].tracked}
  IN \/ file[i].track # "none"
     \/ file[i].tab /\ \E k \in DOMAIN stack : stack[k].tag = "nav"
     \/ tracked # {} /\ stack[Max(tracked)].counts

\* Item j is in the block that item i opens, or in the one i itself is in.
Tally(file, i, j, is) == Cardinality({k \in i .. j : file[k].is = is})
Inside(file, i, j) == i < j /\ \A k \in i + 1 .. j : Tally(file, i + 1, k, "}") <= Tally(file, i + 1, k, "{")
Balanced(file) ==
  /\ \A k \in DOMAIN file : file[k].is # "broken" /\ Tally(file, 1, k, "}") <= Tally(file, 1, k, "{")
  /\ Tally(file, 1, Len(file), "}") = Tally(file, 1, Len(file), "{")

\* A builder's body is the block its name opens; its callers pass the id.
Defines(file, builder) == \E k \in DOMAIN file : file[k].is = "{" /\ file[k].name = builder
InBuilder(file, i, own) == \E k \in 1 .. i - 1 : file[k].is = "{" /\ file[k].name \in own /\ Inside(file, k, i)

\* A created element has the attributes set on its name, later in its block.
GivenLater(file, i, what) ==
  \E j \in i + 1 .. Len(file) :
    file[j].is = "set" /\ file[j].name = file[i].name /\ file[j][what] # "none" /\ Inside(file, i, j)

\* The rule item i breaks. An id set in a builder's body may be computed.
BreaksUsage(file, i, rule, own) ==
  LET item == file[i]
  IN CASE rule = "dynamic-id" ->
            /\ "computed" \in {item.track, item.view}
            /\ item.is = "open" \/ (item.is \in {"set", "call"} /\ ~InBuilder(file, i, own))
       [] rule = "untracked-sheet" ->
            /\ item.tag = "dialog" /\ item.view = "none"
            /\ item.is = "open" \/ (item.is = "make" /\ ~GivenLater(file, i, "view"))
       [] rule = "untracked-control" ->
            \/ item.is = "open" /\ item.control /\ ~TrackedHere(file, i)
            \/ item.is = "make" /\ item.control /\ ~GivenLater(file, i, "track") /\ ~InBuilder(file, i, own)
            \/ item.is = "call" /\ item.track = "none" /\ ~InBuilder(file, i, own)

\* An exempt marker counts only with its reason behind it.
UsageHits(file, rule, own) ==
  Cardinality({i \in DOMAIN file : file[i].exempt # "reason" /\ BreaksUsage(file, i, rule, own)})
Starts(file) == \E i \in DOMAIN file : file[i].is = "init"
=============================================================================
