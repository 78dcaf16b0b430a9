SPECIFICATION FairSpec
CONSTANTS
  Callers = {c1, c2, c3}
  FailureThreshold = 2
  HalfOpenMaxCalls = 2
  MaxFailures = 6
INVARIANTS TypeOK TrialsBounded
PROPERTIES KeepsContract OpenIsRetried
