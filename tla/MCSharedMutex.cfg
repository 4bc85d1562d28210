SPECIFICATION MCFairSpec
CONSTANTS
  t1 = t1  t2 = t2  t3 = t3
  m1 = m1  s1 = s1
  a = a  b = b
  None = None
  Threads = {t1, t2, t3}
  Mutexes = {m1, s1}
  Tracked = {m1, s1}
  Shared = {s1}
  PreferWriter = {s1}
  Names = {a, b}
  NameOf <- OwnNames
  MaxLocks = 2
INVARIANTS
  SharedFieldsExact
  NoCircularWaitShared
PROPERTY
  LockReturns
