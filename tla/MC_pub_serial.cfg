SPECIFICATION Spec
CONSTANTS
  Blocks = 2
  Unreadable = {1}
  Absent = Absent
  QueueLen = 2
  MaxRuns = 2
  MaxLists = 1
  MaxLosses = 1
  Punctual = TRUE
  Faults = {"link", "network", "restart", "flash", "codec", "upload", "memory", "early"}
INVARIANTS TypeOK GetWhole OneAnswer DeletedIsGone
PROPERTIES WaitsForPublished EveryRequestAnswered LossEndsPub
CHECK_DEADLOCK FALSE
