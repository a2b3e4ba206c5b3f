SPECIFICATION Spec
CONSTANTS
  KindSets = {{"Object"}}
  Ids = {1, 2}
  PageSizes = {1, 2}
  FirstTime = 1
  Patient = FALSE
  MaxLists = 2
INVARIANT UpdatesHandled
CHECK_DEADLOCK FALSE
