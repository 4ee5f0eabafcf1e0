SPECIFICATION FairSpec
CONSTANTS
  Releases <- Services
  Applications <- Runtimes
  Configs <- Factories
INVARIANTS
  TypeOK
  DisclosesExpectedContract
  VerdictFromDisclosedContract
PROPERTIES
  OpenReturns
