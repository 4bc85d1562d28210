SPECIFICATION Spec
CONSTANTS
  t1 = t1  t2 = t2
  m1 = m1  m2 = m2  m3 = m3
  a = a  b = b  c = c
  None = None
  Threads = {t1, t2}
  Mutexes = {m1, m2, m3}
  Tracked = {m1, m2, m3}
  Names = {a, b, c}
  NameOf <- OwnNames
  MaxLocks = 3
SYMMETRY Symmetry
INVARIANTS
  LockOrderAcyclic
  RegistryConsistent
  HeldExact
  IsLockedByMeExact
  NoCircularWait
