SPECIFICATION FairSpec
CONSTANTS
  SlotList <- MCSlotList
  FdList <- MCFdList
  None = None
  TxRoom = 2
  MaxConns = 2
  MaxFrames <- MCFewFrames
INVARIANTS WholeFrames NothingLost LockOrder
PROPERTIES IpcReturns QueuesDrain
