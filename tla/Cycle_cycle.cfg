SPECIFICATION Spec
CONSTANTS
  Warn = 50
  High = 70
  Critical = 85
  BacklogEvents = 2
  BacklogTokens = 3
  Configured = 0
  DefaultWindow = 4
  LongWindow = 20
  Process = {"p", "q"}
  Given <- Given2
  Weight <- Weights
  EventCount = 1
  TokenCount = 2
  Totals = {1, 4}
  Medium = 2
  Long = 3
  VeryLong = 4
  MaxCalls = 1
  MaxTokens = 2
  SessionCap = 2
  Estimate = 1
  MaxSpend = 1
  MaxRuns = 2
  LadderRuns = 2
  LocalTasks = {"learn"}
  Usages <- FewUsages
  Settings <- FewSettings
  MaxWaiting = 1
  NoTask = NoTask
INVARIANTS AtRestWhenCalm NobodyAsksUnasked SpendingIsBounded
PROPERTIES EveryCommandEnds
CHECK_DEADLOCK FALSE
