SPECIFICATION Spec
CONSTANTS
  Users = {u1, u2}
  Bots = {b1, b2}
  Persist = {b2}
  Root = {}
  Careful = {b1, b2}
  Exposed = {b2}
  Chans = {c1, svs}
  ServicesChan = svs
  KickPart = TRUE
  UIntSize = 8
  MaxDrift = 4
PROPERTIES BotsLeaveDeadChannels
