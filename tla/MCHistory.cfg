SPECIFICATION FairSpec
CONSTANTS
  AnySource = AnySource
  Source = {a, b}
  Pager = {p1}
  retentionMs = 1
  deliveryLogRetentionMs = 2
  Limits <- PageSizes
  DefaultLimit = 1
  MaxLimit = 2
  MaxTime = 2
  MaxSetBacks = 1
  MaxEvents = 3
  MaxAttempts = 1
INVARIANTS
  TypeOK
  NoSilentGap
PROPERTIES
  RetentionFloor
  CatchingUpEnds
CHECK_DEADLOCK FALSE
