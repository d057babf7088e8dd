CONSTANTS
  Records = {r1, r2}
  MaxBlocks = 4
  MaxTampers = 1
SPECIFICATION Spec
PROPERTY FollowingBlockIsNamed
CHECK_DEADLOCK FALSE
