SPECIFICATION FairSpec
CONSTANTS
  Meetings = {m1, m2}
  MaxAsset = 2
  Workers = {w1}
  Names <- OwnName
  WorkerId <- OwnWorkerId
  KeyIds = {id1, id2}
  Secrets = {s1, s2}
  id1 = id1
  id2 = id2
  s1 = s1
  s2 = s2
  Keyrings <- OneKeyring
  MaxRemediations = 1
  MaxRequests = 3
  MaxFaults = 1
  Nobody = nobody
PROPERTIES
  ErasureEnds
CHECK_DEADLOCK FALSE
