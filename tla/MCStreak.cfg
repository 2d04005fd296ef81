SPECIFICATION FairSpec
CONSTANTS
  NoSub = NoSub
  NoLease = NoLease
  MaxTime = 2
  StartTime = 1
  AppEvent = {e1, e2, e3}
  Request = {r1}
  InitialTables <- OneLeased
  RetrySchedule <- TwiceThenSleep
  PauseAfterFailures = 2
  Ops = {"pause", "unsubscribe"}
  NewRecords <- NoBodies
  Leases = {}
  MaxRedeliverIds = 1
  HasEventStore = FALSE
  Overlap = FALSE
  Stops = TRUE
  MaxCrashes = 0
PROPERTIES
  StreakKept
  EveryDispatchSettles
CHECK_DEADLOCK FALSE
