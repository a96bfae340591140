CONSTANTS
  OutCalls = {}
  InCalls = {c1}
  Operators = {o1}
  Server = server
  NoOne = noone
  Bridges = {b1, b2}
  NoBridge = nobridge
  Workers = {w1, w2}
  Sig = sig
  NoCall = nocall
  MaxCalls = 1
  Requests = {"accept", "auto", "webrtc", "end", "reject", "ice", "drain"}
SPECIFICATION Spec
INVARIANTS NoBridgeLeak HistoryIsOver
CHECK_DEADLOCK FALSE
