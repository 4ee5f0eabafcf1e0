SPECIFICATION FairSpec
CONSTANTS
  s1 = s1
  s2 = s2
  Senders = {s1, s2}
  Requests <- TwoRequests
  Applications <- TwoApplications
  MaxAttemptsSetting = 2
INVARIANTS
  TypeOK
  AcceptedAsRequested
PROPERTIES
  KeepsContract
