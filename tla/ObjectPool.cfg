SPECIFICATION Spec
CONSTANTS
  Thread = {t1, t2, t3}
  Block = {b1, b2, b3, b4, b5}
  nullptr = nullptr
  POOL_MAX_SIZE = 2
  Wrap = 4
INVARIANTS OnePlace NothingLost
SYMMETRY Symmetry
