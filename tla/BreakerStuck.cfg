SPECIFICATION FairSpec
CONSTANTS
  Callers = {c1, c2}
  FailureThreshold = 2
  HalfOpenMaxCalls = 3
  MaxFailures = 3
PROPERTIES HalfOpenDecides
