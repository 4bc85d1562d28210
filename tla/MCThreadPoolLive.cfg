SPECIFICATION FairSpec
CONSTANTS
  w1 = w1  w2 = w2
  admin = admin  user = user
  q1 = q1
  i1 = i1
  None = None
  Workers = {w1, w2}
  Clients = {admin, user}
  Admin = admin
  CondUsers = {user}
  Queues = {q1}
  Items = {i1}
  MaxStops = 1
PROPERTIES
  ItemsSettle
  StopReturns
  PauseReturns
  DrainReturns
