\* At most two recipients; a validation ends with its verdict.
SPECIFICATION Spec
CONSTANTS
  MaximumExplicitRecipients = 2
  Requests <- SomeRequests
CHECK_DEADLOCK FALSE
INVARIANTS
  TypeOK
  IntentVerdictRight
  AcceptedLeadsOn
