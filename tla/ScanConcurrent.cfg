SPECIFICATION Spec
CONSTANTS
  Chat = {1, 2}
  GmailChat = {2}
  Scanner = {p1, p2}
  Mode = {"process", "dry_run"}
  Transcribing = FALSE
  Settable = {"monitored"}
  Link <- SecondUnderFirst
  Kind = {"text"}
  Verdict = {FALSE}
  Outcome = {"sent"}
  MaxMessage = 2
  MaxTime = 1
  MaxRun = 2
SYMMETRY ScannerSymmetry
CHECK_DEADLOCK FALSE
INVARIANTS NothingSkipped
PROPERTIES ImplementsLedger
