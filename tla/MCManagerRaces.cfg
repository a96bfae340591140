CONSTANTS
  Relays = {r1}
  Actors = {"hangup", "drain", "accept", "reject"}
  MaxSignals = 1
  CodecAvailable = TRUE
SPECIFICATION Spec
INVARIANTS
  CodecClosedOnce NoMediaAfterCleanup EndedNotifiedOnce OrphanedOnlyBy
CHECK_DEADLOCK FALSE
