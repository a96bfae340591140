SPECIFICATION FairSpec
CONSTANTS
  g1 = g1  g2 = g2  c1 = c1  c2 = c2  c3 = c3
  NoConn = NoConn
  Clients <- MCClients
  Conns <- MCConns
  First = g1
  Tools <- MCTools
  Summary = TRUE
  MaxTries = 2
  Mixes <- MCMixes
INVARIANTS NoStraySession
PROPERTIES EndedCallReleasesAgent LostSessionSettles
CHECK_DEADLOCK FALSE
