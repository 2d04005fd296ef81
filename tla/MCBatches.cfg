SPECIFICATION FairSpec
CONSTANTS
  a = a
  b = b
  d = d
  c1 = c1
  c2 = c2
  entity = entity
  NoSub = NoSub
  NoLease = NoLease
  NoId = NoId
  MaxTime = 2
  StartTime = 1
  AppEvent = {a, b, d}
  Request = {}
  InitialTables <- OneRecord
  Call = {c1, c2}
  Tolerance = 0
  DataId <- SameEntity
  MaxFaults = 1
  RetrySchedule <- TwoAttempts
  PauseAfterFailures = 2
  MAX_BATCH_SIZE = 2
  Addressee = 0
  MaxLate = 1
  Setups <- Various
INVARIANTS
  ResultsFollowEvents
  BatchCountsOnce
  AcknowledgedWasHandled
  HandledOncePerStart
  VerifiersAgree
PROPERTIES
  CallsReturn
CHECK_DEADLOCK FALSE
