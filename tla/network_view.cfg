SPECIFICATION FairSpec
CONSTANTS
  ana = ana
  ben = ben
  r1 = r1
  r2 = r2
  p1 = p1
  p2 = p2
  NoRouter = NoRouter
  Routers = {r1}
  Customers = {ana}
  Rows <- MCRows
  Workers = {p1}
  Threads = {p2}
  MaxFaults = 1
  PageTtl = 1
  UplinkFresh = 1
  BridgeFresh = 1
  BeatTtl = 1
  TaskTtl = 2
  BridgeStale = 2
  LastOkTtl = 3
  BlockBase = 1
  BlockSteps = 2
  BlockCap = 2
  PollLimit = 1
INVARIANTS
  ConnectedWasSeen
  GateNeedsEyes
PROPERTIES
  RecoveredIsSeen
