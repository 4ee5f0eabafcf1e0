SPECIFICATION SourceSpec
CONSTANTS
  c1 = c1
  c2 = c2
  Calls = {c1, c2}
  Routes <- OnlyPublish
  Replayable <- OnlyPublish
  GrantOf <- PublishGrant
  Grants <- OnlyEventPublish
  MaxAttemptsSetting = 1
  FailureThresholdSetting = 1
  OpenDurationSetting = 1
  RequestTimeoutSetting = 2
  Lifetimes <- Lives
  StableFrom = 4
  MaxClock = 9
PROPERTIES
  CallsAsSpecified
