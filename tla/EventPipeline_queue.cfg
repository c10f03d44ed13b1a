SPECIFICATION FairSpec
CONSTANTS
  Records = 2
  Process = {"p", "q"}
  Worker = {"w"}
  Action <- MCAction
  Verdicts <- MCVerdicts
  Low = {2}
  Telling = {1}
  MaxQueue = 1
  MaxBatch = 1
  MaxStarts = 3
  None = None
INVARIANTS NothingLost FoldedByOne
PROPERTIES KeepsTheQueue WorkersEarnCoverage EveryEventIsResolved
CHECK_DEADLOCK FALSE
