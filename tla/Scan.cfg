CONSTANTS
  Workers = {w1, w2}
  Source = src
  Targets = {"p", "q", "qf"}
  Keys = {"p", "q"}
  Hosts = {"h"}
  NoHost = NoHost
  KeyOf <- MCKeyOf
  HostOf <- MCHostOf
  InScope = {"p", "q", "qf"}
  NumTiers = 3
  HostBudget = 2
  Closable = FALSE
  None = None
  Crawled = {"p", "q"}
  Checks = {"find", "store"}
  CheckTier <- MCCheckTier
  TwoPhase = {"store"}
  OOBChecks = {"store"}
  Consumers <- MCConsumers
  OriginOf <- MCOriginOf
  Emits <- MCEmits
  Fetched = {"p", "q", "qf"}
  CheckConcurrency = 0
SPECIFICATION FairScanSpec
INVARIANTS EveryTargetWalked NothingLeftOver
PROPERTIES BarrierCoversAccepted ScanReturnsAtLast ObeysWorklist
CHECK_DEADLOCK FALSE
