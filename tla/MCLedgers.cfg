SPECIFICATION Spec
CONSTANTS
  Call = {c1, c2}
  Key <- Keys
  NoKey = NoKey
  sha256 <- Digest
  NonceProof <- Proofs
  PaymentProof <- Payments
  ttl = 2
  MaxTime = 4
INVARIANTS
  ConsumedOnceByRedis
  VerdictTellsConsumption
  ReplayJustified
PROPERTIES
  ImplementsLedger
CHECK_DEADLOCK FALSE
