SPECIFICATION FairSpec
CONSTANTS
  Body = {ask}
  Reply = {heard, unheard}
  Callback = {call}
  NoCallback = NoCallback
  Heard = {heard}
  MaxSeq = 4
  MaxSends = 2
  MaxReply = 2
  MaxPush = 1
INVARIANTS
  TypeOK
  TableMatchesWire
  OneEntryPerNumber
  EventAfterCallback
PROPERTY RequestsSpec
CHECK_DEADLOCK FALSE
