CONSTANTS
  OutCalls = {c1}
  InCalls = {c2, c3}
  Operators = {o1}
  Server = server
  NoOne = noone
  Bridges = {b1}
  NoBridge = nobridge
  Workers = {w1}
  Sig = sig
  NoCall = nocall
  MaxCalls = 1
  Requests = {"start", "webrtc", "timeout"}
SPECIFICATION FairSpec
PROPERTIES EndedLeaves BridgesClose
CHECK_DEADLOCK FALSE
