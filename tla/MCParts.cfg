\* For Modules: two modules that share two numbers, and an auth module that
\* fails to load.
\* For Statistics: nine days of a year; a week begins
\* on days 2 and 9, a month on day 4.
\* For LimitServ: two users, a bot of another module, one channel.
\* A crash of the program ends some parts.
SPECIFICATION PartsSpec
CONSTANTS
  u = u
  v = v
  b = b
  p = p
  ls = ls
  c = c
  d = d
  Mods = {m1, m2, a}
  BrokenAuth = {a}
  VersionMods = {m1, m2}
  NumModules = 2
  MaxData = 2
  Users = {u, v}
  OtherBots = {b}
  LsBot = ls
  BotOrder <- Bothash
  Chans = {c}
  MaxBuffer = 3
  MaxGrace = 2
  Limits = {0, 1, 4}
  UIntSize = 16
  MaxCalls = 3
  UserRecs = {u1}
  ChanRecs = {c1}
  ServerRecs = {s1}
  LastDay = 9
  FirstWday = 5
  WeekDays = 7
  FirstDays = {4}
  MaxUsers = 2
  StopsAtMidnight = FALSE
INVARIANTS TypesOK DataOwned DataCounted VersionScanCounted
  CarelessMembership ListedIsWatched LimitLeavesRoom HighestOfPeriod PeriodsNested
PROPERTIES NumbersKept DeadChannelIsLeft RecordsSurvive
CHECK_DEADLOCK FALSE
