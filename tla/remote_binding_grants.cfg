SPECIFICATION BindingSpec
CONSTANTS
  c1 = c1
  c2 = c2
  Calls = {c1, c2}
  Routes <- ThreeRoutes
  Replayable <- OnlyPublish
  GrantOf <- RouteGrants
  Grants <- ThreeGrants
  MaxAttemptsSetting = 2
  FailureThresholdSetting = 1
  OpenDurationSetting = 1
  RequestTimeoutSetting = 2
  Lifetimes <- Lives
  StableFrom = 2
  MaxClock = 5
SYMMETRY CallSymmetry
INVARIANTS
  RequestsCarryTheirGrant
