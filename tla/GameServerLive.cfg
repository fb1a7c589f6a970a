SPECIFICATION Spec
CONSTANTS
  Player = {p1, p2}
  Worker = {w1}
  Sdk = sdk
  MAX_PLAYER_PER_GAME = 2
  SendCap = 3
  MaxChats = 1
  SendMayFail = FALSE
  ServiceMayTerminate = TRUE
PROPERTIES Terminates ShutdownCompletes
