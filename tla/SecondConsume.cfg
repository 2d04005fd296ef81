SPECIFICATION Spec
CONSTANTS
  Call = {c1, c2}
  Key <- Keys
  NoKey = NoKey
  sha256 <- Digest
  NonceProof <- Proofs
  PaymentProof <- Payments
  ttl = 2
  MaxTime = 4
INVARIANT ConsumedOnceInMemory
CHECK_DEADLOCK FALSE
