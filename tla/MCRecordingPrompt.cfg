SPECIFICATION Spec
CONSTANTS
  MaxId = 2
  Contents = {c1}
  Requests = {r1, r2}
  Uploads = {u1, u2}
  Cleaners = {w1}
  Processes <- OneProcess
  Home <- OneHome
  FinderHome <- Here
  Here = here
  TheId = id
  Names <- OneName
  CleanerName <- OneCleanerName
  MaxAttempts = 2
  MaxRetries = 1
  PageLimit = 1
  MaxFaults = 1
  Prompt = TRUE
  Nobody = nobody
SYMMETRY Interchangeable
INVARIANTS
  TypeOK
  MeetingHasRecording
CHECK_DEADLOCK FALSE
