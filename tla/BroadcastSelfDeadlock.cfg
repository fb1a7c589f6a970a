SPECIFICATION Spec
CONSTANTS
  Player = {p1}
  Worker = {w1, w2}
  Sdk = sdk
  MAX_PLAYER_PER_GAME = 1
  SendCap = 1
  MaxChats = 1
  SendMayFail = FALSE
  ServiceMayTerminate = TRUE
PROPERTY ShutdownCompletes
CHECK_DEADLOCK FALSE
