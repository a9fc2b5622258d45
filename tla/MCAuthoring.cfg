CONSTANTS
  MAX_ID = 15
  MAX_BITS = 4
  MAX_WORDS = 4
  MAX_NAME = 2
  ODD_WORDS = {"Puzzles"}
  MAX_PARAMS = 3
  MAX_EXPONENT = 3
  POINT_PREFIX_BITS = 2
  ByteBits = 2
  MAX_INDEX = 7
  MEMORY = 6
  Originals <- MCOriginals
  Drafts <- MCDrafts
  BLOCKED <- MCBlocked
  BlockSize = 4
  FACTORS = {1, 3, 4, 6}
  SLOTS <- MCSlots
  TRIALS = 1
  BODY = 4
  CEILING = 5
  Sabotage <- MCSabotage
  MaxDrafts = 1
  MaxWork = 2
SPECIFICATION Spec
INVARIANTS TypeOK PassedGoTogether MadeAreCandidates  ControlWorks BoundsLoseNothing
CHECK_DEADLOCK FALSE
