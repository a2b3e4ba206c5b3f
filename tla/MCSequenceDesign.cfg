SPECIFICATION Spec
CONSTANTS
  KindSets = {{"Design"}}
  Ids = {1, 2}
  PageSizes = {1, 2}
  FirstTime = 1
  Patient = TRUE
  MaxLists = 2
INVARIANT UpdatesHandled
CHECK_DEADLOCK FALSE
