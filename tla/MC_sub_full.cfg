SPECIFICATION Spec
CONSTANTS
  Names = {n1, n2}
  Chunks = {c1}
  Blocks128 = {}
  HeaderLike = {}
  TailerLike = {}
  NameIn <- NameInBlock
  DigestIn <- DigestInBlock
  Garbled = Garbled
  NoFile = NoFile
  MaxFiles = 2
  QueueLen = 1
  MaxBlocks = 1
  MaxEvents = 5
  Paced = TRUE
INVARIANT AckDurable
CHECK_DEADLOCK FALSE
