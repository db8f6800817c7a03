SPECIFICATION Spec
CONSTANTS
  Clients = {c1}
  None = None
  Names <- BothNames
  Sizes = {1}
  Absent = Absent
  Part = Part
  MaxName = 4
  MaxSize = 2
  MaxRetry = 1
  MaxRequests = 3
  Faults = {}
INVARIANT KeptIsServed
CHECK_DEADLOCK FALSE
