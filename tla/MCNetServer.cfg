SPECIFICATION FairSpec
CONSTANTS
  Conns = {c1, c2}
  None = None
  MaxClients = 2
  ElementSlots = 2
  QueueSlots = 4
  BatchElements = 1
  LeadTicks = 0
  UploadSizes = {3}
  MaxDelay = 1
  SlotBudget <- MCSlotBudget
INVARIANTS TypeOK PairingSound GesturesMixOnlyWhenWiped
PROPERTIES ImplementsPairing ImplementsStreams Flushed
