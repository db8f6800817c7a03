SPECIFICATION Spec
CONSTANTS
  Names = {n1, n2}
  Chunks = {c1, h1, t1}
  Blocks128 = {h1, t1}
  HeaderLike = {h1}
  TailerLike = {t1}
  NameIn <- NameInBlock
  DigestIn <- DigestInBlock
  Garbled = Garbled
  NoFile = NoFile
  MaxFiles = 2
  QueueLen = 1
  MaxBlocks = 2
  MaxEvents = 6
  Paced = TRUE
INVARIANTS TypeOK AckSound OrderlyAnswer RequestFaithful NoHandleLeak
CHECK_DEADLOCK FALSE
