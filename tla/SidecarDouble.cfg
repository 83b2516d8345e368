SPECIFICATION Spec
CONSTANTS
  Pid = {p1, p2}
  NoPid = NoPid
  NoFile = NoFile
  Tray = {tray}
  Web = {}
  Scan = {scan}
  FreshTicks = 0
  WaitPolls = 1
  SettlePolls = 2
  Settle = 2
  MaxDeath = 0
  MaxFail = 0
INVARIANTS SingleSidecar
