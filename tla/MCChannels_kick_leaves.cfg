SPECIFICATION BoundedSpec
CONSTANTS
  Users = {u1, u2}
  Bots = {b1, b2}
  Persist = {}
  Root = {}
  Careful = {b1, b2}
  Exposed = {b1, b2}
  Chans = {c1, svs}
  ServicesChan = svs
  KickPart = FALSE
  UIntSize = 8
  MaxDrift = 4
PROPERTIES BotsStayWithUsers
