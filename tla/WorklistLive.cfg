CONSTANTS
  Workers = {w1, w2}
  Source = src
  Targets = {"a", "c"}
  Keys = {"a", "c"}
  Hosts = {"h"}
  NoHost = NoHost
  KeyOf <- MCKeyOf
  HostOf <- MCHostOf
  InScope = {"a", "c"}
  NumTiers = 2
  HostBudget = 1
  Closable = FALSE
  None = None
SPECIFICATION FairSpec
PROPERTIES EveryPushDispatched WorkersExit ImplementsTierQueue
CHECK_DEADLOCK FALSE
