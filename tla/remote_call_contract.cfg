SPECIFICATION FairSpec
CONSTANTS
  c1 = c1
  c2 = c2
  Calls = {c1, c2}
  Routes <- PublishAndMutate
  Replayable <- OnlyPublish
  MaxAttemptsSetting = 0
  FailureThresholdSetting = 1
  OpenDurationSetting = 1
  StableFrom = 4
INVARIANTS
  ProbeSlotHeld
  AtMostOnceMutation
PROPERTIES
  CircuitRecovers
  KeepsContract
