SPECIFICATION Spec
CONSTANTS
  Clients = {c1, c2}
  None = None
  Names <- PlainName
  Sizes = {2, 3}
  Absent = Absent
  Part = Part
  MaxName = 2
  MaxSize = 2
  MaxRetry = 1
  MaxRequests = 3
  Faults <- AnyFault
INVARIANTS TypeOK CompressedMatches NoUnfinishedFile DownloadSound
PROPERTIES ActsAsStore NeverReplaced EveryRequestAnswered ServerComesUp GivesUpAfterRetries
CHECK_DEADLOCK FALSE
