SPECIFICATION FairSpec
CONSTANTS
  Options <- Lines
  Webhooks <- Posts
  Vectors <- Sample
  NoWebhook = NoWebhook
  MaxDeviations = 1
  MaxWebhooks = 2
INVARIANTS
  ClaimEarnedAtALevel
  ExitTellsFailuresIfReported
  ReportTellsLabel
  SignatureHasEvidence
  SecondLookAgrees
  CorruptVectorCaught
PROPERTY EveryRunEnds
CHECK_DEADLOCK FALSE
