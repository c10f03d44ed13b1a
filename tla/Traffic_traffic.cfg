SPECIFICATION TrafficSpec
CONSTANTS
  Shell = {"run", "probe", "make"}
  Look = {"look"}
  File = {"f"}
  Excluded = {}
  Scratch = {"probe"}
  Milestone = {"make"}
  Text = {"", "one", "two", "boom", "refused", "again"}
  Hash = {"", "h"}
  Absent = Absent
  Polling = {}
  Mutating = {"make"}
  LOOP_MIN_REPEATS = 3
  LOOP_WINDOW = 2
  Settings <- Sessions
INVARIANTS LoopsAreReal LoopsAreSeen ScratchIsNoIssue
CHECK_DEADLOCK FALSE
