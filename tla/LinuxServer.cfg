SPECIFICATION Spec
CONSTANTS
  Player = {p1, p2, p3}
  Fd = {1, 2}
  MAX_PLAYER_PER_GAME = 3
  SendCap = 2
  Window = 1
  MaxChats = 1
  Departure = {"exit", "other", "reset", "fin"}
  ServiceMayTerminate = FALSE
INVARIANTS AssertConnected ListAgrees
SYMMETRY Symmetry
