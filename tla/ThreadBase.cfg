SPECIFICATION ThreadSpec
CONSTANTS
  o1 = o1
  p1 = p1  p2 = p2
  None = None
  Objects = {o1}
  PthreadIds = {p1, p2}
  Cpus = {0, 1}
INVARIANT
  AffinityTakesEffect
CHECK_DEADLOCK FALSE
