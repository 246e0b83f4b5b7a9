\* A module that attached data to a user is unloaded.
SPECIFICATION Spec
CONSTANTS
  Mods = {m1, m2}
  BrokenAuth = {}
  VersionMods = {}
  NumModules = 2
  MaxData = 1
  UserRecs = {u1}
  ChanRecs = {}
  ServerRecs = {s1}
INVARIANT UserDataOwned
