CONSTANTS
  Relays = {r1, r2}
  Actors = {"accept"}
  MaxSignals = 2
  CodecAvailable = TRUE
  W = 8
  H = 2
  Starts = {7}
  MaxSent = 3
  MaxFrames = 3
  Reach = 2
  MaxStrays = 1
  MaxAccepts = 1
SPECIFICATION MediaSpec
INVARIANTS ActiveIsSupervised ActiveOutgoingIsKeyed InStep HeardOnce
PROPERTIES SilentAfterCleanup
CHECK_DEADLOCK FALSE
