SPECIFICATION Spec
CONSTANTS
  w1 = w1  w2 = w2
  admin = admin  user = user
  q1 = q1  q2 = q2
  i1 = i1  i2 = i2
  None = None
  Workers = {w1, w2}
  Clients = {admin, user}
  Admin = admin
  CondUsers = {}
  Queues = {q1, q2}
  Items = {i1, i2}
  MaxStops = 1
SYMMETRY Symmetry
INVARIANT
  DrainWokenByStop
