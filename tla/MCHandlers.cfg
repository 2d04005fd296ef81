SPECIFICATION Spec
CONSTANTS
  NoSub = NoSub
  NoLease = NoLease
  MaxTime = 2
  StartTime = 2
  AppEvent = {e1}
  Request = {r1, r2}
  InitialTables <- CuriousAndQuiet
  RetrySchedule <- ImmediateThenSleep
  PauseAfterFailures = 1
  Ops = {"subscribe", "pause", "resume", "test", "unsubscribe", "redeliver"}
  NewRecords <- AnyBodies
  Leases = {1}
  MaxRedeliverIds = 1
  HasEventStore = FALSE
  Overlap = TRUE
  Stops = FALSE
  MaxCrashes = 0
INVARIANTS
  CancelledNotNotified
PROPERTIES
  OnlySubscribeCreates
  OnlyResumeReactivates
SYMMETRY Symmetric
CHECK_DEADLOCK FALSE
