SPECIFICATION Spec
CONSTANTS
  Chat = {1, 2}
  GmailChat = {2}
  Scanner = {p1}
  Mode = {"live"}
  Transcribing = TRUE
  Settable = {"monitored"}
  Link <- SecondUnderFirst
  Kind = {"text", "pending", "nomedia"}
  Verdict = {FALSE}
  Outcome = {"sent"}
  MaxMessage = 2
  MaxTime = 1
  MaxRun = 2
CHECK_DEADLOCK FALSE
INVARIANTS TypeOK
PROPERTIES CursorsHeld TranscriptReachesReview
