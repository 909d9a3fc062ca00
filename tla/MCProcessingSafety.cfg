SPECIFICATION Spec
CONSTANTS
  Meetings = {m1}
  Workers = {w1, w2}
  TheId = host_pid
  WorkerIds <- MCWorkerIds
  WorkerId <- MCWorkerId
  Keys = {k1, k2}
  MaxAttempts <- RetryTranscriptionOnly
  RepairLimit = 1
  StoreFaults = TRUE
  NoMeeting = NoMeeting
  NoOwner = NoOwner
SYMMETRY Interchangeable
CHECK_DEADLOCK FALSE
INVARIANTS
  TypeOK
  ClaimExclusive
  SuccessIsTheAttemptThatStored
  ArtifactsMatchStatus
  LedgerFollowsJob
  OneCommandPerVersion
PROPERTIES
  CancelledIsFinal
  PermanentNeedsOperator
