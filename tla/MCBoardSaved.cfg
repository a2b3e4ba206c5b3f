SPECIFICATION Spec
CONSTANTS
  Repairs = {{}}
  Boards = {1}
  MaxTurns = 2
  MaxMessages = 3
  MaxRefusals = 1
  MaxBoxes = 2
INVARIANT MessagesSaved
CHECK_DEADLOCK FALSE
