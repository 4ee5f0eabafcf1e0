\* Every use case, with and without a user, complete and incomplete input.
SPECIFICATION Spec
CONSTANTS
  MaxAttemptsSetting = 0
  HostHeaders <- SomeHostHeaders
  CategoryPaths <- TwoCategories
INVARIANTS
  TypeOK
  EveryUseCaseGranted
  CredentialsAreTheBindings
  TokenPowersSeparated
  OnlyReplayableRepeats
