SPECIFICATION UndisturbedSpec
CONSTANTS
  Chat = {1, 2}
  GmailChat = {}
  Scanner = {p1}
  Mode = {"live", "process", "process_withheld"}
  Transcribing = FALSE
  Settable = {"monitored"}
  Link <- NoLink
  Kind = {"text"}
  Verdict = {TRUE, FALSE}
  Outcome = {"sent", "failed"}
  MaxMessage = 2
  MaxTime = 2
  MaxRun = 2
CHECK_DEADLOCK FALSE
INVARIANTS AlertsDispatched ReviewedOnce
