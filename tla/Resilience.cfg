SPECIFICATION Resilience
CONSTANTS
  m1 = m1  m2 = m2  i1 = i1  i2 = i2  s1 = s1  s2 = s2  r1 = r1  r2 = r2
  c1 = c1  c2 = c2  u1 = u1  t1 = t1  t2 = t2  e1 = e1  e2 = e2  None = None
INVARIANT TypesOK
 
INVARIANT NothingLeftBehind
INVARIANT ChoicesAreSound
CHECK_DEADLOCK FALSE
PROPERTY RefusalsEnd
