SPECIFICATION Spec
CONSTANTS
  Blocks = {a, h, t, u}
  HeaderLike = {h}
  TailerLike = {t}
  DigestIn <- MCDigestIn
  Undecodable = {u}
  Upload = {a, h, t}
  Download = {a, u}
  Files <- MCFiles
  Compressed <- MCCompressed
  Absent = Absent
  MaxFiles = 4
  MaxRuns = 1
  Faults = {}
INVARIANT SmoothRun
CHECK_DEADLOCK FALSE
