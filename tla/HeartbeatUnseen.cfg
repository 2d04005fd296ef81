SPECIFICATION Spec
CONSTANTS
  Options <- Lines
  Webhooks <- Posts
  Vectors <- Sample
  NoWebhook = NoWebhook
  MaxDeviations = 1
  MaxWebhooks = 0
INVARIANT HeartbeatIsSeen
CHECK_DEADLOCK FALSE
