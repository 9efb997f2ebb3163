SPECIFICATION Spec
CONSTANTS
  None = None
  StrengthMax = 2
  SequenceMax = 1
  Capacity = 2
  Slots = 1
  Interval = 1
  QueueMax = 2
  CeilingPairs <- MCCeilings
  Values = {1}
  Uploads = {}
  DeviceStarts <- MCDevices
  DrainTicks = 0
  LinkSlots = 2
  MaxRequests = 3
  MaxStarts = 1
INVARIANT LedgerExact
CHECK_DEADLOCK FALSE
