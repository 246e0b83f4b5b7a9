SPECIFICATION TimersSpec
CONSTANTS
  ping = ping
  flush = flush
  limit = limit
  core = core
  limitserv = limitserv
  Timers = {ping, flush, limit}
  Modules = {core, limitserv}
  NsModule = core
  Owner <- MCOwner
  Intervals = {1, 3}
  Adjusting = {}
  RetryDelay = 2
  TableSize = 3
  MaxLate = 1
PROPERTIES TimersKeepRunning
