SPECIFICATION Spec
CONSTANTS
  None = None
  Project = {"here", "other"}
  Here = "here"
  Build = {"b1", "b2"}
  Event = {"stop"}
  File = {"AGENTS"}
  Declared = {"AGENTS"}
  RuleFile = {}
  Memory = {"m1", "m2"}
  Passage = {"t"}
  Writer = {"v"}
  Scene <- OnlyMirror
  Rechains = FALSE
  CutsMarkers = TRUE
  Machine <- Machines
  Named = {"b1"}
PROPERTIES OutsideIsKept
CHECK_DEADLOCK FALSE
