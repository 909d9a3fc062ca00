SPECIFICATION Spec
CONSTANTS
  a1 = a1
  i1 = i1
  t1 = t1
  t2 = t2
  k1 = k1
  k2 = k2
  Actions = {a1}
  Issues = {i1}
  Blocking = {i1}
  Texts = {t1, t2}
  Targets = {"task", "calendar"}
  Drafts <- TwoDrafts
  Clients = {c1, c2}
  Commands <- SomeCommands
  Keys = {k1, k2}
  TakenKeys = {k2}
  Limits = {4}
  MaxVersion = 8
  MaxRevision = 3
  MaxLost = 1
  Keep = keep
  Nothing = nothing
SYMMETRY Interchangeable

INVARIANTS
  TypeOK
  ApprovedAsSeen
  ReaderKnowsMeeting
CHECK_DEADLOCK FALSE
