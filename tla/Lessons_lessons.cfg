SPECIFICATION Spec
CONSTANTS
  f = f
  g = g
  l = l
  m = m
  Command <- Commands
  Path <- Paths
  Edits = {}
  Related <- Corrects
  Repairs = {}
  AfterCd <- Moved
  Probes = {}
  RECOVERY_WINDOW = 2
  EPISODE_WINDOW = 2
  Folder = {f, g}
  Learner = {l, m}
  Milestone = {"test"}
  HistoryLimit = 4
  WindowSize = 4
  OverlapFactor = 1
  MaxWindows = 2
  MaxEpisodes = 1
  MaxBatch = 2
  MaxRules = 2
  Settings <- Sessions
  Remembered <- Memories
INVARIANTS CauseBeforeEffect NothingAskedTwiceAlone NothingIsPassedOver
PROPERTIES AFoldSettlesItsPath OnceAmbiguousStaysSo
SYMMETRY Processes
CHECK_DEADLOCK FALSE
