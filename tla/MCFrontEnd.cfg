SPECIFICATION FairSpec
CONSTANTS
  MaxStrength = 1
  AppLimits = {0, 2}
INVARIANTS SleepRestored RowWasSent StreamEndsWithPage RowsAgreeOnceMet
PROPERTIES SleepFollows
