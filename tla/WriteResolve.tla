---------------------------- MODULE WriteResolve ----------------------------
(* How scripts/runtime_write_resolve.py tells where a write goes. A target  *)
(* is a sequence of steps: a base ("here" for __file__, "cwd", "safe" for   *)
(* a temporary or runtime folder, "unknown" for a parameter, an attribute   *)
(* or an environment variable, a name, or a literal's parts) and then what  *)
(* is done to it: "parent", or a joined part, a literal, "?" or "absolute". *)
(* f-strings are joins; mode strings and import aliases are left out.       *)
EXTENDS Integers, Sequences, SequencesExt

CONSTANT MaxNames   \* how many names deep a target is followed

Outside == <<"outside">>
Unknown == <<"unknown">>
Known(parts) == <<"at", parts>>

\* ".." leaves the checkout from its root and takes a part off elsewhere.
Literal(parts) ==
  FoldLeft(LAMBDA v, piece : IF v = Outside THEN v
                            ELSE IF piece # ".." THEN Known(Append(v[2], piece))
                            ELSE IF v[2] = <<>> THEN Outside ELSE Known(Front(v[2])),
           Known(<<>>), parts)

Parent(v) ==
  IF v[1] # "at" THEN v
  ELSE IF v[2] = <<>> THEN Outside
  ELSE IF Last(v[2]) = "?" THEN Unknown ELSE Known(Front(v[2]))

\* A part the source does not spell stays under its parent as "?".
Join(v, right) ==
  CASE v[1] # "at" -> v
    [] v[1] = "at" /\ right = Outside -> Outside
    [] v[1] = "at" /\ right = Unknown -> Known(Append(v[2], "?"))
    [] v[1] = "at" /\ right[1] = "at" -> Known(v[2] \o right[2])

ApplyStep(v, s) ==
  CASE s.do = "parent" -> Parent(v)
    [] s.do = "join" -> Join(v, Literal(s.parts))
    [] s.do = "join-unknown" -> Join(v, Unknown)
    [] s.do = "join-absolute" -> Join(v, Outside)

\* A name is what the innermost scope of the chain that has it binds it to, and
\* only when that scope binds it once, by a plain assignment; bound gives the
\* assignments of <<scope, name>>, "other" for a parameter, a loop or a rebinding.
Bound(text, chain, name) ==
  LET has == {k \in DOMAIN chain : <<chain[k], name>> \in DOMAIN text.bound}
  IN IF has = {} THEN <<>> ELSE text.bound[<<chain[Max(has)], name>>]

Resolved(text, parts, target, chain) ==
  LET found[depth \in 0 .. MaxNames + 1, t \in {target} \cup text.targets] ==
        LET base == t.base
            bound == Bound(text, chain, t.name)
            start == CASE base = "here" -> Known(parts)
                       [] base = "cwd" -> Known(<<>>)
                       [] base = "safe" -> Outside
                       [] base = "literal" -> Literal(t.parts)
                       [] base = "name" /\ Len(bound) = 1 /\ bound[1].base # "other" -> found[depth + 1, bound[1]]
                       [] OTHER -> Unknown
        IN IF depth > MaxNames THEN Unknown ELSE FoldLeft(ApplyStep, start, t.steps)
  IN found[0, target]

\* "clean" for a target off the code folders, the checkout's own root included.
Classified(v, folders) ==
  CASE v = Unknown \/ (v[1] = "at" /\ v[2] # <<>> /\ v[2][1] = "?") -> "unresolved"
    [] v[1] = "at" /\ v[2] # <<>> /\ v[2][1] \in folders -> "code-folder"
    [] OTHER -> "clean"
=============================================================================
