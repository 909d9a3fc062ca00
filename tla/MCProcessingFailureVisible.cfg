SPECIFICATION Spec
CONSTANTS
  Meetings = {m1}
  Workers = {w1}
  TheId = host_pid
  WorkerIds <- MCWorkerIds
  WorkerId <- MCWorkerId
  Keys = {k1}
  MaxAttempts <- RetryTranscriptionOnly
  RepairLimit = 1
  StoreFaults = TRUE
  NoMeeting = NoMeeting
  NoOwner = NoOwner
CHECK_DEADLOCK FALSE
INVARIANTS
  FailureIsVisible
