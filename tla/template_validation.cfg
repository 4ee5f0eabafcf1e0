\* The default providers; a validation ends with its verdict.
SPECIFICATION Spec
CONSTANTS
  Providers <- defaultProviderCapabilities
  Requests <- SomeRequests
  StableKeys <- Stable
CHECK_DEADLOCK FALSE
INVARIANTS
  TypeOK
  AcceptedFallbacksResolve
  AcceptedTokensDeclared
  VerdictStable
