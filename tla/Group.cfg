SPECIFICATION FairSpec
CONSTANTS
  p1 = p1
  p2 = p2
  p3 = p3
  m1 = m1
  Peers <- MCPeers
  Links <- MCLinks
  Messages = {m1}
  author <- MCAuthor
  MAX_SENDS = 2
  Faults = 1
INVARIANTS TypeOK NoFalseAck
PROPERTIES Broadcasts HopReliable
