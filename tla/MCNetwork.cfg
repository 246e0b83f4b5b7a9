\* Channels: two users and three bots, of which one is persistent, on three
\* channels of a network with KICKPART, where nobody quits unexpectedly.
\* Servers: four servers and nine users.
SPECIFICATION NetworkSpec
CONSTANTS
  Users = {u1, u2}
  Bots = {b1, b2, b3}
  Persist = {b2}
  Root = {b1}
  Careful = {b1, b3}
  Exposed = {b1, b3}
  Chans = {c1, c2, svs}
  ServicesChan = svs
  KickPart = TRUE
  UIntSize = 8
  TsBots = {b2}
  Main <- MainChan
  MainListed = FALSE
  c1 = c1
  b2 = b2
  me = me
  hub = hub
  leaf = leaf
  sub = sub
  w1 = w1
  w2 = w2
  w3 = w3
  w4 = w4
  w5 = w5
  w6 = w6
  w7 = w7
  w8 = w8
  w9 = w9
  Server <- Servers4
  User <- Names
  InitSize = 2
  NULL = NULL
  Freed = Freed
  HKey <- Key
  Home <- Homes
  Arrivals <- SignOns
  MaxLinks = 3
  MaxQuits = 1
INVARIANTS MembershipAgrees UsersCounted NeoUsersCounted PersistentUsersCounted NeverCrashed
  TablesVerified ServerUsersCounted
PROPERTIES BotsLeaveDeadChannels BotsStayWithUsers SplitEnds SplitsAreWhole
CHECK_DEADLOCK FALSE
