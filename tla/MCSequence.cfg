SPECIFICATION FairSpec
CONSTANTS
  KindSets = {{"Object"}, {"Design"}, {"Object", "Design"}}
  Ids = {1, 2}
  PageSizes = {1, 2}
  FirstTime = 1
  Patient = TRUE
  MaxLists = 2
INVARIANTS
  TypeOK
  PagesInOrder
  
  NewOnceFirst
PROPERTIES
  CacheMonotone
  CatchesUp
CHECK_DEADLOCK FALSE
