SPECIFICATION FairSpec
CONSTANTS
  NULL = NULL
  MaxLength = 3
  MaxWire = 2
  MaxChain = 2
  MaxDrops = 2
INVARIANTS InOrderOnce EndIsComplete
PROPERTY StreamEnds
CHECK_DEADLOCK FALSE
