SPECIFICATION Spec
CONSTANTS
  Player = {p1, p2}
  Fd = {1, 2}
  MAX_PLAYER_PER_GAME = 2
  SendCap = 1
  Window = 1
  MaxChats = 1
  Departure = {"exit", "reset", "fin"}
  ServiceMayTerminate = TRUE
INVARIANTS NoGhost
PROPERTIES LivesAsPromised Served TerminatesWhenEmpty
