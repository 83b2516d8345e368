SPECIFICATION FairSpec
CONSTANTS
  Pid = {p1, p2}
  NoPid = NoPid
  NoFile = NoFile
  Tray = {tray}
  Web = {web}
  Scan = {scan}
  FreshTicks = 0
  WaitPolls = 1
  SettlePolls = 2
  Settle = 2
  MaxDeath = 1
  MaxFail = 0
INVARIANTS CleanLaunchesKeepOne
PROPERTIES SettledIsQuiet SidecarRecovers
