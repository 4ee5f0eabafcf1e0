SPECIFICATION Spec
CONSTANTS
  c1 = c1
  c2 = c2
  c3 = c3
  Calls = {c1, c2, c3}
  Routes <- OnlyPublish
  Replayable <- OnlyPublish
  MaxAttemptsSetting = 1
  FailureThresholdSetting = 2
  OpenDurationSetting = 1
  StableFrom = 4
SYMMETRY CallSymmetry
INVARIANTS
  TypeOK
  CircuitCoherent
  OpenWindowBounded
PROPERTIES
  ShedsLoadWhileOpen
