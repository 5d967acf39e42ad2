SPECIFICATION FairSpec
CONSTANTS
  N = 2
  MaxDatagrams = 2
INVARIANTS
  TypeOK
  Exclusive
  NeverBlocksAsWritten
  JoinsLive
PROPERTIES
  HandOff
  EventuallyHandled
  BackgroundEnds
  MainEnds
