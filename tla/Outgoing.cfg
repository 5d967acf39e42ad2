SPECIFICATION FairSpec
CONSTANTS
  Lines <- MCLines
  MaxLines = 1
  Others <- MCOthers
  MaxOthers = 2
  MAX_SENDS = 2
  SEND_EVERY = 2
INVARIANTS TypeOK Conserved Farewell
PROPERTIES Streamed TypedIsSent
