SPECIFICATION Spec
CONSTANTS
  NoValue = NoValue
  RedisFails = TRUE
  Tagged = {k1}
  Callers = {w1, w2, w3}
  Keys = {k1}
  Values = {small, large}
  Large = {large}
  Ttl = 2
  FailureThreshold = 2
SYMMETRY CallerSymmetry
INVARIANTS TypeOK CleanEntriesAreReadable TagFindsEntries CountMatchesState
