------------------------------ MODULE Ratchet ------------------------------
(* What the ten ratchets of scripts/ share: the files git lists, the counts *)
(* a scan takes of them and the comparison with a committed baseline. A     *)
(* path is a name; About says what its name and the configuration make of   *)
(* it. A tree gives each path the text it holds, and what is on the disk.   *)
EXTENDS Integers, Sequences, FiniteSets, Functions, FiniteSetsExt, SequencesExt

CONSTANT About

\* git lists a file that is tracked though deleted from the disk ("gone").
Listed(tree) == {p \in DOMAIN tree : tree[p].disk # "absent"}
OnDisk(tree) == {p \in Listed(tree) : tree[p].disk # "gone"}
Text(tree, p) == tree[p]

\* In scope: of the ratchet's kind, in its include list, neither vendored nor
\* excluded; standing is what the configuration makes of the path.
Counted(p) == About[p].standing = "counted"

\* A count per key; what is zero has no entry, and none is zero.
Count(counts, key) == IF key \in DOMAIN counts THEN counts[key] ELSE 0
Positive(counts) == RestrictValues(counts, LAMBDA n : n > 0)
\* What f counts, and what else g does.
f ++ g == [key \in DOMAIN f \cup DOMAIN g |-> IF key \in DOMAIN f THEN f[key] ELSE g[key]]
Rose(current, baseline) == {key \in DOMAIN current : current[key] > Count(baseline, key)}

Tokens(text, wanted) == Cardinality({i \in DOMAIN text : text[i] \in wanted})
Total(numbers) == FoldLeft(LAMBDA a, b : a + b, 0, numbers)
=============================================================================
