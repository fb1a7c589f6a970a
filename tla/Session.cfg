SPECIFICATION Spec
CONSTANTS
  Worker = {w1, w2}
  Main = main
  Byte = {0, 1}
  Capacity = 3
  Payload <- MCPayload
  MaxSends = 3
PROPERTIES Drained Released
INVARIANTS InFlightIntact AssertsHold OneReceiver ClosedOnce
CHECK_DEADLOCK FALSE
