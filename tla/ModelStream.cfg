SPECIFICATION StreamSpec
CONSTANTS
  MaxBlocks = 2
  MaxPieces = 2
  ChunkSizes = {1, 5}
INVARIANTS HeardInOrder SettlesOnce WholeAnswer
PROPERTY StreamSettles
CHECK_DEADLOCK FALSE
