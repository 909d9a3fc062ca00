SPECIFICATION FairSpec
CONSTANTS
  Meetings = {m1}
  Workers = {w1, w2}
  TheId = host_pid
  WorkerIds <- MCWorkerIds
  WorkerId <- MCWorkerId
  Keys = {k1}
  MaxAttempts <- RetryTranscriptionOnly
  RepairLimit = 1
  StoreFaults = FALSE
  NoMeeting = NoMeeting
  NoOwner = NoOwner
CHECK_DEADLOCK FALSE
PROPERTIES
  JobsSettle
  StagesEnd
