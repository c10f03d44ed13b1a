SPECIFICATION FairSpec
CONSTANTS
  a = a
  r = r
  f = f
  Item = {a}
  Path = {f}
  Needs <- OneNeeds
  Denies <- OneDenies
  Rule = {a}
  Said = {}
  Process = {"p", "q"}
  None = None
PROPERTIES MissingIsMarked BroughtBack
CHECK_DEADLOCK FALSE
