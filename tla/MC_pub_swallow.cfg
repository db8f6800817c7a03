SPECIFICATION Spec
CONSTANTS
  Blocks = 2
  Unreadable = {}
  Absent = Absent
  QueueLen = 10
  MaxRuns = 1
  MaxLists = 0
  MaxLosses = 0
  Punctual = FALSE
  Faults = {}
PROPERTY WaitTakesNoRequest
CHECK_DEADLOCK FALSE
