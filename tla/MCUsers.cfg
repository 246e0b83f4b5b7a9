\* Memory for two users; two nicks, two hosts, one of which is looked up.
\* Of Dns two modules and the core, two active lookups and two queued ones; a
\* crash of the program ends it.
SPECIFICATION UsersSpec
CONSTANTS
  h1 = h1
  h2 = h2
  Mods = {m1, m2}
  Core = core
  Ids = {1, 2, 3, 4}
  DnsQueueSize = 2
  SubmitFails = TRUE
  Addrs = {a1, a2}
  Nicks = {n1, n2}
  Hosts = {h1, h2}
  Known = {h1}
  Codes = {"us", "de", "???"}
  Code <- CountryOf
  Unknown = "???"
  NULL = NULL
  Masks = {n1}
  Exclusions = FALSE
  MaxLookups = 1
  MaxCount = 4
INVARIANTS TypeOK NetworkUsersCounted TldCoversUsers
  QueueOnlyWhenFull
PROPERTIES QueueServedInOrder NoLookupWaitsForever KeepsThePromise
CHECK_DEADLOCK FALSE
