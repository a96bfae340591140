CONSTANTS
  OutCalls = {c1, c2}
  InCalls = {}
  Operators = {o1}
  Server = server
  NoOne = noone
  Bridges = {b1}
  NoBridge = nobridge
  Workers = {w1, w2}
  Sig = sig
  NoCall = nocall
  MaxCalls = 1
  Requests = {"start"}
SPECIFICATION Spec
INVARIANTS SessionCapRespected
CHECK_DEADLOCK FALSE
