CONSTANTS
  Relays = {r1}
  Conns = {c1, c2}
  First = c1
  Ways <- MCWays
  NoRelay = norelay
  NoConn = noconn
SPECIFICATION FairSpec
INVARIANTS MapIsLive LeftIsTorn FailuresStopOnce
PROPERTIES ConnectingEnds PeersClose ImplementsPool
CHECK_DEADLOCK FALSE
