SPECIFICATION Spec
CONSTANTS
  c1 = c1
  c2 = c2
  Callers = {c1, c2}
  Grants <- TwoGrants
  RequestTimeoutSetting = 3
  Lifetimes <- Lives
  MaxClock = 5
SYMMETRY CallerSymmetry
INVARIANTS
  TypeOK
  TokenForOwnGrant
  CachedTokenOutlivesRequest
  NoRedundantExchange
  IdentityBindingsClosed
