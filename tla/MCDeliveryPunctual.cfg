SPECIFICATION FairSpec
CONSTANTS
  Intents = {i1}
  Workers = {w1, w2}
  Operators = {o1}
  Keys = {k1}
  TheId = host_pid
  Names <- OwnName
  WorkerId <- OwnWorkerId
  Kinds <- BothKinds
  MaxAttempts = 2
  MaxFaults = 2
  Punctual = TRUE
  HonorsKey = FALSE
  LookupFails = TRUE
  Nobody = Nobody
  NoIntent = NoIntent
  NoKey = NoKey

PROPERTIES
  KeepsPromise
  InFlightEnds
  FilingSettles
