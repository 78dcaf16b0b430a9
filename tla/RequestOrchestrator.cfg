SPECIFICATION Spec
CONSTANTS
  r1 = r1  r2 = r2  r3 = r3  s1 = s1  t1 = t1  t2 = t2  k1 = k1  c1 = c1  c2 = c2
  None = None
  Requests = {r1, r2, r3, s1}
  Streams = {s1}
  Providers = {"p"}
  tenant <- MCTenant
  idempotencyKey <- MCKey
  content <- MCContent
  Similar <- MCSimilar
  GlobalLimit = 2
  TenantLimit = 1
  MaxPerMinute = 1
  MaxAttempts = 2
  SemanticSize = 1
  Minute = 2
  CacheTtl = 2
  IdempotencyTtl = 2
  Day = 3
  MaxClock = 3
  MaxStarts = 1
INVARIANT TypeOK
INVARIANT WithinLimits
INVARIANT ShareIsBounded
PROPERTY RetryIsReplayed
CHECK_DEADLOCK FALSE
PROPERTY EveryRequestEnds
