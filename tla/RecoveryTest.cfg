SPECIFICATION Spec
CONSTANTS
  p1 = p1
  p2 = p2
  r1 = r1
  r2 = r2
  s1 = s1
  NoProvider = NoProvider
  Providers = {p1, p2}
  Requests = {r1, r2, s1}
  Streams = {s1}
  Supports <- MCSupports
  MaxRetries = 1
  StreamLen = 2
  FailureThreshold = 2
  HalfOpenMaxCalls = 2
PROPERTIES RecoveryIsTested
CHECK_DEADLOCK FALSE
