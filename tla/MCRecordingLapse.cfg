SPECIFICATION FairSpec
CONSTANTS
  MaxId = 1
  Contents = {c1}
  Requests = {r1}
  Uploads = {u1}
  Cleaners = {w1, w2}
  Processes <- OneProcess
  Home <- OneHome
  FinderHome <- Here
  Here = here
  TheId = id
  Names <- OneName
  CleanerName <- OneCleanerName
  MaxAttempts = 2
  MaxRetries = 0
  PageLimit = 1
  MaxFaults = 2
  Prompt = FALSE
  Nobody = nobody

INVARIANTS
  KeyHasOneOwner
PROPERTIES
  OwnedIsKept
  SuccessMeansGone
  StraysGo
  CleanupEnds
CHECK_DEADLOCK FALSE
