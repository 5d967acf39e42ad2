SPECIFICATION Spec
CONSTANTS
  a1 = a1  a2 = a2  me = me  u1 = u1  u2 = u2
  Addr = {a1, a2}
  myAddr = myAddr
  Uuid = {me, u1, u2}
  myId = me
  NoId = NoId
  Nonce = {1}
  Datagrams <- Flooding
  Sockets = 1
  Multicast = TRUE
  MINUTE = 2
  HELLO_DELAY = 9
  HELLO_LONG_DELAY = 9
  SEND_PENDING_DELAY = 0
  DATA_LIFETIME = 1
  minSymNeighbours = 1
  MAX_RR = 1
  MAX_SENDS = 2
  Pow2 <- MCPow2
  PACKET_MAX = 9
  MaxTime = 4
INVARIANTS
  TypeOK
  NoEcho
PROPERTIES
  Patience
