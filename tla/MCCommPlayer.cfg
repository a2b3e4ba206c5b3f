SPECIFICATION FairSpec
CONSTANTS
  PlayerAsSequence = TRUE
  MaxSeq = 8
  MaxTurn = 3
PROPERTY PlayerLearned
CHECK_DEADLOCK FALSE
