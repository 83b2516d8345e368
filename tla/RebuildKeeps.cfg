SPECIFICATION FoldedSpec
CONSTANTS
  lid = lid
  phone = phone
  group = group
  mail = mail
  NoKey = NoKey
  Older = Older
  Key <- Chats4
  Source = {"whatsapp", "gmail"}
  SourceOf <- Sources
  Canon <- Folded
  Buffer <- Listed
  MaxEdit = 1
CONSTRAINT FewHeld
CHECK_DEADLOCK FALSE
INVARIANTS NothingLostForGood DecisionsSurvive FamiliesFlat
