SPECIFICATION FairSpec
CONSTANTS
  w1 = w1  w2 = w2
  s1 = s1
  admin = admin  user = user
  i1 = i1  i2 = i2
  None = None
  Workers = {w1, w2}
  Clients = {admin, user}
  Admin = admin
  Shards = {s1}
  ShardOf <- OneShard
  Items = {i1, i2}
INVARIANTS
  ParkedCounted
  PausedQuiescent
  StoppedForGood
PROPERTIES
  DrainMeansDone
  CallsReturn
