SPECIFICATION FairWsSpec
CONSTANTS
  Frames <- MCFrames
  Short = 1
  MaxMessage = 2
  MaxHandshake = 4
  MaxFrames = 4
INVARIANTS OnlyWrongIsDropped
PROPERTIES ImplementsStreams EverythingArrives
