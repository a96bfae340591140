CONSTANTS
  MaxTime = 6
  TicksPerSecond = 2
  Reasons <- MCReasons
  Ids = {c1}
  NoId = NoId
  Browsers = {b1}
  Other = Other
  NoOwner = NoOwner
  Writers = {w1, w2}
  Capacity = 2
  MaxRevs = 2
SPECIFICATION ViewSpec
INVARIANTS DurationIsTalkTime ShownIsLive BrowserLetsGo
PROPERTIES RecordsAreFinal
SYMMETRY Symmetry
CHECK_DEADLOCK FALSE
