SPECIFICATION Spec
CONSTANTS
  Note = {n1, n2}
  NoNote = NoNote
  Transcriber = {t1}
  Request = {q1}
  Transcript = {x1, x2}
  Long = {x1, x2}
  Window = 0
  FailedWindow = 1
  Retention = {0, 1}
  Locked = {}
  MaxDay = 2
  MaxSent = 0
  MaxCrash = 1
  MaxPost = 1
CHECK_DEADLOCK FALSE
INVARIANTS SummaryOfText
PROPERTIES ImplementsNoteLife
