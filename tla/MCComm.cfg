SPECIFICATION FairSpec
CONSTANTS
  PlayerAsSequence = FALSE
  MaxSeq = 8
  MaxTurn = 3
INVARIANTS
  TypeOK
  LoginAgrees
  TurnInStep
  EachTurnOnce
PROPERTIES
  TurnMonotone
  ConnectSettles
  PlayerLearned
CHECK_DEADLOCK FALSE
