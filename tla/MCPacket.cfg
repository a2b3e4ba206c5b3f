SPECIFICATION AnySpec
CONSTANTS
  Radix = 4
  ClientFormats <- MCClientFormats
  ServerFormats <- MCServerFormats
  IntValues = {1, 27}
  LongValues = {5000}
  StringValues <- MCStrings
  RawValues <- MCRaw
  MaxList = 2
  MaxString = 20
  Junk = {0, 1}
  MaxOptions = 20
  MaxBlockString = 20
  IntoBlock = {TRUE, FALSE}
  BuildWords <- MCBuildWords
  Descriptions <- MCDescriptions
INVARIANTS
  SentIsMeant
  FramesReadAsMeant
  ArgsFit
  
  
CHECK_DEADLOCK FALSE
