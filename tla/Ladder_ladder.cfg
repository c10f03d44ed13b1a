SPECIFICATION Spec
CONSTANTS
  Warn = 50
  High = 70
  Critical = 85
  BacklogEvents = 1
  BacklogTokens = 1
  Configured = 0
  DefaultWindow = 4
  LongWindow = 20
  h1 = h1
  h2 = h2
  Process = {h1, h2}
  Trigger = {"auto"}
  Turn <- FewTurns
  Modes <- AnyMode
  MaxTurns = 2
  MaxCompactions = 2
  MaxDeaths = 1
INVARIANTS OccupancyFitsWindow TellsTheTruthAlone
SYMMETRY Hooks
CHECK_DEADLOCK FALSE
