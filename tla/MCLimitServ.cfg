SPECIFICATION LsSpec
CONSTANTS
  u1 = u1
  b1 = b1
  ls = ls
  Users <- MCUsers
  OtherBots <- MCOtherBots
  LsBot = ls
  BotOrder <- MCBotOrder
  Chans = {c1}
  MaxBuffer = 3
  MaxGrace = 3
  Limits = {0, 1, 3}
  UIntSize = 16
  MaxCalls = 4
INVARIANT NoBotPartsTwice
CHECK_DEADLOCK FALSE
