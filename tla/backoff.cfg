\* Every policy of up to 600 ms, durations of eight bits, five attempts.
SPECIFICATION BackoffSpec
CONSTANTS
  MaxAttemptsSetting = 5
  Width = 8
  MaxSetting = 60
INVARIANTS
  BackoffTypeOK
  DelayWithinPolicy
  BackoffNeverShrinks
