SPECIFICATION Spec
CONSTANTS
  Games = 1
  PerGame = 1
  Session <- MCSession
  Worker = {w1, w2}
  NoOne = NoOne
  PLAYER_ACTION_REQUEST = 2
  PLAYER_ACTION_INTERVAL = 1
  SendCap = 2
  MaxLag = 1
INVARIANTS RefsAccounted AssertsHold OneChain
PROPERTIES NamelessOnlyInLaunch PopsWhatRan EndsTest Noticed MainEnds
