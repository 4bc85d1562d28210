SPECIFICATION Spec
CONSTANTS
  w1 = w1  w2 = w2  o1 = o1
  p1 = p1  p2 = p2
  m1 = m1
  None = None
  Objects = {w1, w2, o1}
  Workers = {w1, w2}
  PthreadIds = {p1, p2}
  Cpus = {0}
  Monitors = {m1}
  Delay = 1
  Sleep = 1
  TpGrace = 1
  TpSuicide = 4
  QueueGraces <- Graces
SYMMETRY Symmetry
INVARIANTS
  OwnThread
  HandlesAlive
  IdleNotKilled
  ScanMissesNobody
  NoLateRenewal
CHECK_DEADLOCK FALSE
