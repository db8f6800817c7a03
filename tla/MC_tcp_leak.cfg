SPECIFICATION Spec
CONSTANTS
  Blocks = {a}
  HeaderLike = {}
  TailerLike = {}
  DigestIn <- MCDigestIn
  Undecodable = {}
  Upload = {a}
  Download = {a}
  Files <- MCFiles
  Compressed <- MCCompressed
  Absent = Absent
  MaxFiles = 4
  MaxRuns = 6
  Faults = {"drop"}
INVARIANT SmoothRun
CHECK_DEADLOCK FALSE
