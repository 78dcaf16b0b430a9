SPECIFICATION Spec
CONSTANTS
  NoValue = NoValue
  RedisFails = FALSE
  Tagged = {}
  Callers = {w1, w2, w3}
  Keys = {k1}
  Values = {small, large}
  Large = {large}
  Ttl = 2
  FailureThreshold = 2
INVARIANTS OpensOnlyOnRedisFailures
