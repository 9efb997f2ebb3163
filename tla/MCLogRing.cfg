SPECIFICATION FairLogsSpec
CONSTANTS
  RingSize = 3
  LineMax = 2
  Chunk = 2
  PartialMax = 3
  Scrollback = 2
  Rounds <- MCRounds
  MaxUnits <- MCMaxUnits
INVARIANT LinesAreTheLog
PROPERTY CatchesUp
