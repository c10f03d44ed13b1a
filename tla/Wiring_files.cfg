SPECIFICATION Spec
CONSTANTS
  None = None
  Project = {"here", "other"}
  Here = "here"
  Build = {"b1", "b2"}
  Event = {"stop"}
  File = {"AGENTS", "rules"}
  Declared = {"AGENTS"}
  RuleFile = {"rules"}
  Memory = {"m1", "m2"}
  Passage = {"t"}
  Writer = {"v", "w"}
  Scene <- EachPart
  Rechains = FALSE
  CutsMarkers = TRUE
  Machine <- Machines
  Named = {"b1"}
INVARIANTS DoctorSeesTheWiring UninstallLeavesNothing InitFollowsTheBuild
PROPERTIES TheirsIsKept OthersStayListed
CHECK_DEADLOCK FALSE
