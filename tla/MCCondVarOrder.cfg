SPECIFICATION CvSpec
CONSTANTS
  t1 = t1  t2 = t2
  m1 = m1  m2 = m2  m3 = m3  m4 = m4
  a = a  b = b
  v1 = v1
  None = None
  Threads = {t1, t2}
  Mutexes = {m1, m2}
  Tracked = {m1, m2}
  Names = {a, b}
  NameOf <- TwoNames
  MaxLocks = 2
  Conds = {v1}
SYMMETRY Symmetry
INVARIANT
  NoCircularWaitInCond
