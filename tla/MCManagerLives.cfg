CONSTANTS
  Relays = {r1}
  Actors = {"ice", "reject"}
  MaxSignals = 1
  CodecAvailable = TRUE
SPECIFICATION FairSpec
PROPERTIES ActivationNotLost LostCallEnds EndedIsReleased ImplementsLifecycle
CHECK_DEADLOCK FALSE
