SPECIFICATION Spec
CONSTANTS
  NoSub = NoSub
  NoLease = NoLease
  MaxTime = 1
  StartTime = 1
  AppEvent = {e1}
  Request = {r1}
  InitialTables <- OneSubscriber
  RetrySchedule <- ImmediateThenSleep
  PauseAfterFailures = 1
  Ops = {"unsubscribe"}
  NewRecords <- NoBodies
  Leases = {}
  MaxRedeliverIds = 1
  HasEventStore = FALSE
  Overlap = TRUE
  Stops = FALSE
  MaxCrashes = 0
PROPERTY NoRetryAfterCancel
CHECK_DEADLOCK FALSE
