\* RunLevel: two modules, a stack of seven frames, three run levels.  A crash of
\* the program ends RunLevel.
\* LineMode: reads of one or two characters, buffers of four and five.
\* Modes: a user and a bot; one mode of each kind, lines of at most two changes.
SPECIFICATION EventLoopSpec
CONSTANTS
  ping = ping
  flush = flush
  limit = limit
  limitserv = limitserv
  letter = letter
  colon = colon
  newline = newline
  Mods = {m1, m2}
  Core = core
  MaxLevel = 3
  MaxFrames = 7
  Timers = {ping, flush, limit}
  Modules = {nsmodule, limitserv}
  NsModule = nsmodule
  Owner <- MCOwner
  Intervals = {1, 3}
  Adjusting = {limit}
  RetryDelay = 2
  TableSize = 3
  MaxLate = 1
  Chars = {letter, colon}
  Newlines = {newline}
  Refused <- MCRefused
  RecvQs = {4, 5}
  ReadSize = 2
  MaxStream = 7
  Users = {u}
  Bots = {b}
  Status = {"o"}
  Lists = {"b"}
  Flags = {"n"}
  Masks = {mask, other}
  Keys = {key, word}
  Limits = {1, 2}
  MaxChanges = 2
  MaxParams = 2
  NULL = NULL
INVARIANTS TypeOK CurrentIsInnermost LoopRunsAsCore
  Sorted NeverSleepsOver LinesFollow ModesFollow
CHECK_DEADLOCK FALSE
PROPERTIES JumpAbandonsCulpritOnly NeverEarly TimersNotStarved
