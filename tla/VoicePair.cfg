SPECIFICATION FairSpec
CONSTANTS
  Note = {n1}
  NoNote = NoNote
  Transcriber = {t1, t2}
  Request = {}
  Transcript = {x1}
  Long = {}
  Window = 0
  FailedWindow = 1
  Retention = {2}
  Locked = {}
  MaxDay = 4
  MaxSent = 1
  MaxCrash = 2
  MaxPost = 2
CHECK_DEADLOCK FALSE
INVARIANTS AudioHasOwner
PROPERTIES AudioForgotten BarrierLifts
