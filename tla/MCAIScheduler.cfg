SPECIFICATION FairSpec
CONSTANTS
  s1 = s1  s2 = s2  d1 = d1  d2 = d2  w1 = w1  w2 = w2
  NoDevice = NoDevice
  Sessions = {s1, s2}
  Devices = {d1, d2}
  Workers = {w1, w2}
  Limit = 1
  Scheds = {1, 2}
  MaxEdits = 2
  Mixes <- MCMixes
INVARIANTS DatabaseHasRow PairedSurvives DialledOnce
PROPERTIES DueScheduleFires
CHECK_DEADLOCK FALSE
