SPECIFICATION FairSpec
CONSTANTS
  SlotList <- MCSlotList
  Fds = {f1, f2, f3}
  None = None
  Callers = {"ipc"}
INVARIANTS NothingLeft OwnDescriptor StacksReleased
PROPERTY StopEnds
