CONSTANTS
  BlockBody = 2
  MAX_BLOCKS = 3
  Lengths = {0, 2, 3}
  NoTarget = NoTarget
  BlockTargets <- MCTargets
  MaxMessages = 2
  MaxOthers = 2
  MaxList = 4
SPECIFICATION LongSpec
INVARIANTS LongTypeOK WholeOrNothing
