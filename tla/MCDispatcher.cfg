SPECIFICATION Spec
CONSTANTS
  NoSub = NoSub
  NoLease = NoLease
  MaxTime = 1
  StartTime = 1
  AppEvent = {e1, e2, e3}
  Request = {r1}
  InitialTables <- OneSubscriber
  RetrySchedule <- ImmediateThenSleep
  PauseAfterFailures = 2
  Ops = {"pause"}
  NewRecords <- NoBodies
  Leases = {}
  MaxRedeliverIds = 1
  HasEventStore = TRUE
  Overlap = TRUE
  Stops = TRUE
  MaxCrashes = 1
INVARIANTS
  TypeOK
  CounterNeverOvercounts
  PauseJustified
  LogTellsOutcome
PROPERTIES
  NoAttemptAfterStop
SYMMETRY Symmetric
CHECK_DEADLOCK FALSE
