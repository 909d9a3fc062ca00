SPECIFICATION FairSpec
CONSTANTS
  Meetings = {m1, m2}
  MaxAsset = 2
  Workers = {w1, w2}
  Names <- OwnName
  WorkerId <- OwnWorkerId
  KeyIds = {id1, id2}
  Secrets = {s1, s2}
  id1 = id1
  id2 = id2
  s1 = s1
  s2 = s2
  Keyrings <- Rotation
  MaxRemediations = 1
  MaxRequests = 3
  MaxFaults = 1
  Nobody = nobody
INVARIANTS
  TypeOK
  ErasedStaysErased
  CompletedMeansGone
  WaitersAreServed
PROPERTIES
  SavesAreAccepted
  LoneErasureEnds
CHECK_DEADLOCK FALSE
