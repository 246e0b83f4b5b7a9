\* An answer comes when another user is where the one it is for was.
SPECIFICATION Spec
CONSTANTS
  h1 = h1
  h2 = h2
  Addrs = {a1, a2}
  Nicks = {n1, n2}
  Hosts = {h1, h2}
  Known = {h1}
  Codes = {"us", "de", "???"}
  Code <- MCCode
  Unknown = "???"
  NULL = NULL
  Masks = {n1}
  Exclusions = FALSE
  MaxLookups = 1
  MaxCount = 3
INVARIANT AddressOfOwnHost
CHECK_DEADLOCK FALSE
