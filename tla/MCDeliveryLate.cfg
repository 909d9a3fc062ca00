SPECIFICATION Spec
CONSTANTS
  Intents = {i1}
  Workers = {w1, w2}
  Operators = {o1}
  Keys = {k1}
  TheId = host_pid
  Names <- OneName
  WorkerId <- OneWorkerId
  Kinds <- BothKinds
  MaxAttempts = 2
  MaxFaults = 1
  Punctual = FALSE
  HonorsKey = TRUE
  LookupFails = TRUE
  Nobody = Nobody
  NoIntent = NoIntent
  NoKey = NoKey
SYMMETRY Interchangeable
INVARIANTS
  TypeOK
  ReceiptsAgree
  FilingFollowsIntents
PROPERTIES
  LeaseHolds
  CompletedIsFinal
