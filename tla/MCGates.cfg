SPECIFICATION Spec
CONSTANTS
  Requirement <- Nodes
  RequirementType <- TypeOf
  Nested <- NestedIn
  CombineMode <- Mode
  TierOrder <- Order
  default_tier = "public"
  Configs <- Gates
  Resources <- Asked
  NoResource = NoResource
  Proof <- Proofs
  ProofType <- TypeOfProof
  Sound <- SoundProofs
  Verified = {"payment", "identity"}
  MaxAccessPatterns = 100
  MaxChanges = 1
INVARIANTS
  GrantJustified
  RefusalJustified
  MostPermissive
  RefusalExplained
CHECK_DEADLOCK FALSE
