SPECIFICATION ServicesSpec
CONSTANTS
  Kind = {scan, traffic, resync}
  RowKind = {scan, traffic}
  FamilyKind = {traffic}
  NoKind = NoKind
  NoRun = NoRun
  MaxRun = 2
  MaxTime = 2
  MaxRestart = 1
  Cap = 1
  StaleRecord = 2
  StaleRow = 1
  l2 = l2
  Leg = {l1, l2}
  KeyOf <- MCKeyOf
  GroupOf <- MCGroupOf
  StartOf <- MCStartOf
  OriginEnd <- MCOriginEnd
  Train = {}
  Never = Never
  NoAlert = NoAlert
  Fire = {1, 2}
  LastTick = 1
  Quiet = {}
  DriveTime = {1, 2}
  Lookahead = 1
  Configured = 0
  Cadence = 1
  Margin = 0
  Scan = {1, 2, 3}
  Evidence = {m1}
  NoEvidence = none
  NudgeGap = 1
  LastDay = 1
  Unset = Unset
  Reader = {1, 2}
  LastEdit = 2
  LastTime = 3
  Refresh = 1
  Demand = 1
  Stale = 1
  NoValue = NoValue
  Client = {c1, c2, c3}
  Loopback = {c1}
  FreeAttempts = 1
  BaseDelay = 1
  MaxDelay = 2
  ForgetAfter = 2
  MaxClients = 2
  AlertAfter = 2
  AlertCooldown = 2
  LastMoment = 3
  MaxFailures = 3
  MaxHeld = 1
  MaxAdmitted = 1
  Tray = {"tray", "script"}
  tunnel = tunnel
  Thread = {boot, menu, tunnel}
  TrayOf <- MCTrayOf
  Server = {s1, s2, s3}
  None = None
  Missing = Missing
  Corrupt = Corrupt
  About <- MCAbout
  Says <- MCSays
  Repos <- MCRepos
  Debt <- MCDebt
  RefOf <- MCRefOf
  VendorOf <- MCVendorOf
  LinkOf <- MCLinkOf
  Rules <- MCRules
  Port = 1
  ReadmeBudget = 2
  SizeCap = 1
  MinConfidence = 80
  FunctionNames = {"f", "g"}
  MaxFileLines = 4
  MaxFunctionLines = 3
  MaxDirModules = 1
  NearLimit = 3
  RequiredRoots = {"app"}
  AllowedRoots = {"app"}
  UsageRules = {"untracked-control", "untracked-sheet", "dynamic-id", "app-wired"}
  Builders <- MCBuilders
  CodeFolders = {"src"}
  MaxNames = 2
INVARIANTS SingleFlight OutcomeStands LiveRecordKept AlertedOnce LoggedWasTold OneEventPerEvidence NudgesSpaced NeverOlder SingleWebapp DebtIsReviewed RisesAreDebt
PROPERTIES StreaksStand
CHECK_DEADLOCK FALSE
