\* A module with two lookups next to each other is unloaded.
SPECIFICATION DnsSpec
CONSTANTS
  Core = core
  Mods = {m1, m2}
  Ids = {1, 2, 3, 4}
  DnsQueueSize = 2
  SubmitFails = FALSE
INVARIANT NoLookupOfUnloaded
CHECK_DEADLOCK FALSE
