CONSTANTS
  OutCalls = {}
  InCalls = {c1}
  Operators = {o1}
  Server = server
  NoOne = noone
  Bridges = {b1}
  NoBridge = nobridge
  Workers = {w1}
  Sig = sig
  NoCall = nocall
  MaxCalls = 1
  Requests = {"accept"}
SPECIFICATION FairSpec
PROPERTIES OwnerKept
CHECK_DEADLOCK FALSE
