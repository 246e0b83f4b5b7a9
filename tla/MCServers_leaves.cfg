\* The same network with two users, so that no table is halved.
SPECIFICATION ServersSpec
CONSTANTS
  me = me
  hub = hub
  leaf = leaf
  sub = sub
  u1 = u1
  u2 = u2
  u3 = u3
  u4 = u4
  u5 = u5
  u6 = u6
  u7 = u7
  u8 = u8
  u9 = u9
  Server = {me, hub, leaf, sub}
  User = {u1, u2, u3, u4, u5, u6, u7, u8, u9}
  InitSize = 2
  NULL = NULL
  Freed = Freed
  HKey <- MCHKey
  Home <- MCHome
  Arrivals <- MCFewArrivals
  MaxLinks = 3
  MaxQuits = 1
INVARIANT LeavesRemoved
CHECK_DEADLOCK FALSE
