SPECIFICATION Spec
CONSTANTS
  Repairs = {{}, {"list"}, {"list", "block"}}
  Boards = {1}
  MaxTurns = 2
  MaxMessages = 3
  MaxRefusals = 1
  MaxBoxes = 2
INVARIANTS
  CountsAgree
  AskedOnce
  SavedAndShown
  ReaderFinds
PROPERTIES
  TripsOnlyAtGaps
CHECK_DEADLOCK FALSE
