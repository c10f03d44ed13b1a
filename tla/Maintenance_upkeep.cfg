SPECIFICATION Spec
CONSTANTS
  a = a
  r = r
  f = f
  Item = {a, r}
  Path = {f}
  Needs <- OneNeeds
  Denies <- OneDenies
  Rule = {r}
  Said = {a}
  Process = {"p"}
  None = None
PROPERTIES ProtectedKeptByUpkeep RetiredStaysRetiredAlone VerdictIsKeptAlone
CHECK_DEADLOCK FALSE
