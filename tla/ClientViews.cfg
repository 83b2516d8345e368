SPECIFICATION ClientSpec
CONSTANTS
  Chain = {1, 2}
  Selection <- MCSelection
  MaxPolls = 2
  MaxOthers = 1
  MaxFaults = 1
  LastRun = 5
  ScopeOf <- MCScopeOf
  FirstScope = messages
  calendar = calendar
  messages = messages
  Page = 2
  MaxFetch = 3
  Run = {r1, r2}
  Captured = {r1}
  MaxOpen = 2
  MaxLoads = 2
  MaxErrors = 1
  Nothing = Nothing
  MissingTicks = 2
  MaxSweeps = 2
  MaxLost = 1
  NoAnswer = NoAnswer
INVARIANTS ChainInOrder SheetIsOfItsRun
PROPERTIES ImplementsHistory QueueDrains SheetFollowsRun SweepEnds
CHECK_DEADLOCK FALSE
