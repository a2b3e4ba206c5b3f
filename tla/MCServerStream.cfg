SPECIFICATION FairSpec
CONSTANTS
  HeaderSize = 2
  Lens = {0, 1, 2}
  Magics = {TRUE, FALSE}
  MaxFrames = 3
INVARIANTS
  TypeOK
  InOrder
  ExitIsJustified
  NothingWaits
  NoByteLost
PROPERTY ChannelSpec
CHECK_DEADLOCK FALSE
