SPECIFICATION Spec
CONSTANTS
  Lines <- MCLines
  MaxLines = 1
  Others <- MCOthers
  MaxOthers = 2
  MAX_SENDS = 2
  SEND_EVERY = 2
INVARIANT LongMessages
