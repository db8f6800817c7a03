SPECIFICATION Spec
CONSTANTS
  Blocks = {a, h, t, u}
  HeaderLike = {h}
  TailerLike = {t}
  DigestIn <- MCDigestIn
  Undecodable = {u}
  Upload = {a, h, t}
  Download = {a, u}
  Files <- MCFiles
  Compressed <- MCCompressed
  Absent = Absent
  MaxFiles = 4
  MaxRuns = 2
  Faults = {"drop", "restart", "vanish", "interrupt", "flash", "close", "codec",
            "memory", "early"}
INVARIANTS TypeOK UploadSound DownloadSound DoneLeavesNothing
PROPERTIES ServerReturns RunEnds
CHECK_DEADLOCK FALSE
