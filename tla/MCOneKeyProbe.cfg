SPECIFICATION FairSpec
CONSTANTS
  None = None
  Coyotes <- MCCoyotes
  Strangers <- MCStrangers
  Saved = {}
  Present = {}
  Attempts = 3
  SeenMax = 1
  IdleFrames = 1
  MaxKeys = 2
INVARIANTS NothingLeftOpen CappedAtDisconnect TargetKept
PROPERTIES SequenceEnds
