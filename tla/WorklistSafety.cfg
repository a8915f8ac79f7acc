CONSTANTS
  Workers = {w1, w2, w3}
  Source = src
  Targets = {"a", "b", "c"}
  Keys = {"a", "b", "c"}
  Hosts = {"h"}
  NoHost = NoHost
  KeyOf <- MCKeyOf
  HostOf <- MCHostOf
  InScope = {"a", "b", "c"}
  NumTiers = 2
  HostBudget = 1
  Closable = TRUE
  None = None
SPECIFICATION Spec
SYMMETRY WorkerSymmetry
INVARIANTS PendingIsOutstanding HostBudgetHolds WorkConserving NothingLeftBehind
PROPERTIES CrossTargetBarrier
CHECK_DEADLOCK FALSE
