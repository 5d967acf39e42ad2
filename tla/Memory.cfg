SPECIFICATION FairSpec
CONSTANTS
  a1 = a1  a2 = a2  me = me  u1 = u1  u2 = u2
  Addr = {a1}
  myAddr = myAddr
  Uuid = {me, u1, u2}
  myId = me
  NoId = NoId
  Nonce = {1}
  Datagrams <- Remembering
  Sockets = 2
  Multicast = FALSE
  MINUTE = 1
  HELLO_DELAY = 1
  HELLO_LONG_DELAY = 2
  SEND_PENDING_DELAY = 0
  DATA_LIFETIME = 2
  minSymNeighbours = 1
  MAX_RR = 0
  MAX_SENDS = 2
  Pow2 <- MCPow2
  PACKET_MAX = 9
  MaxTime = 4
INVARIANTS
  NeighboursFresh
  RememberedWhileFresh
  RRBound
PROPERTIES
  QuitEnds
  NoDoubleDisplay
  DisplayFromSymmetric
