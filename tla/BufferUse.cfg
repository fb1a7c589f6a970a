SPECIFICATION UseSpec
CONSTANTS
  Byte = {0, 1}
  Capacity = 5
  Chunk <- MCChunk
INVARIANTS RegionsApart HalfIsUsable
PROPERTY IsFifo
