----------------------------- MODULE MCReprocess -----------------------------
(* Instances of Reprocess: an old WhatsApp key the reader now folds into another, *)
(* a third WhatsApp chat and a Gmail sender.                                      *)
EXTENDS Reprocess, TLC

CONSTANTS lid, phone, group, mail

Chats3  == {lid, phone, mail}
Chats4  == {lid, phone, group, mail}
Folded  == [k \in Key |-> IF k = lid THEN phone ELSE k]
Sources == [k \in Key |-> IF k = mail THEN "gmail" ELSE "whatsapp"]
Listed  == {Folded[k] : k \in Key}

\* Four chats in any two families, the two that become one with any statuses and no aliases.
FoldedInit ==
  /\ Init
  /\ \A k \in Key : ~alias[k]
  /\ {lid, group} \subseteq chats
  /\ \A k \in chats \ {lid, phone} : status[k] = "monitored"
\* At most one decision is left in the WAL, and nobody edits then: the property about it is
\* one of rebuilds during which nobody edits.
FewHeld == unfolded # {} => Cardinality(unfolded) = 1 /\ edits = 0

FoldedSpec == FoldedInit /\ [][Next]_vars
=============================================================================
