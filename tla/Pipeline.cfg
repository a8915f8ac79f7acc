CONSTANTS
  Findings <- MCFindings
  Cap = 1
  MaxEmit = 2
  Rounds = 2
  Gate = TRUE
  FailOn = 1
SPECIFICATION FairSpec
INVARIANTS ReportIsExact KnownDebtIsNotNew GateIsExact
PROPERTY RunEnds
CHECK_DEADLOCK FALSE
