SPECIFICATION Spec
CONSTANTS
  Player = {p1, p2}
  Worker = {w1, w2}
  Sdk = sdk
  MAX_PLAYER_PER_GAME = 2
  SendCap = 3
  MaxChats = 1
  SendMayFail = TRUE
  ServiceMayTerminate = FALSE
INVARIANT EndsWhenEmpty
CHECK_DEADLOCK FALSE
