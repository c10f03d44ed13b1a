SPECIFICATION Spec
CONSTANTS
  Id = {1, 2}
  e1 = e1
  e2 = e2
  t1 = t1
  t2 = t2
  T1 = T1
  T2 = T2
  Text = {t1, t2}
  EventId = {e1}
  Task = {T1, T2}
  MaxInferred = 1
  Certain = 2
  MaxEntries = 2
  None = None
  Worker = {"w"}
  WorkerTasks = {"events", "conflicts"}
  UserPatches <- ReplayUser
  FoldPatches <- ReplayFold
  ImportPatches <- ReplayImport
  WorkerPatches <- ReplayWorker
  MaxClock = 1
  MaxVersion = 3
INVARIANTS ReplayMatches LogIsLinear ReferencesResolve
PROPERTIES HandSetTaskSurvives NoEcho
CHECK_DEADLOCK FALSE
