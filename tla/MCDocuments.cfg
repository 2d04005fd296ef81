SPECIFICATION Spec
CONSTANTS
  Base <- Sound
  Choice <- Changes
  MaxEdits = 2
  MaxDeals = 2
INVARIANTS
  ProofPortsAgree
  ListingPortsAgree
  GateCanBeOpened
  IntentValidatorsAgree
  PaymentsAnswerInvoices
CHECK_DEADLOCK FALSE
