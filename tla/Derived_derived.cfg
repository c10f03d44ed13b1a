SPECIFICATION Spec
CONSTANTS
  Id = {1, 2, 3, 4, 5, 6}
  Text <- Texts
  None = None
  Fixed <- Kinds
  Query <- Queries
  Relevance <- Relevances
  Likeness <- Alike
  Signal <- Signals
  Edge <- Edges
  Lineage <- Replaced
  Section <- Always
  Size <- Sizes
  ClipTo = 4
  TaskTokens = 3
  TITLE = 2
  MARKER_RESERVE = 2
  ReserveForRetrieval = 14
  MAX_BOOTSTRAP_RECOVERY_RULES = 1
  ListLimit = 2
  SearchLimit = 2
  RowsPerHit = 2
  HopWeight = 50
  SemanticWeight = 40
  MinSimilarity = 2
  Searcher = {"s"}
  Embedder = {"e", "f"}
  Judge = {"w", "v"}
  BatchSize = 2
  ListedPairs = 2
  JudgedPairs = 1
  Budgets <- AnyBudget
  MaxEdits = 2
  Settings <- Modes
INVARIANTS QuietMeansJudged FindsWhatWasLive NothingHiddenInSilence
PROPERTIES IndexCatchesUp
CHECK_DEADLOCK FALSE
