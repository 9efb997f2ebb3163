SPECIFICATION FairSpec
CONSTANTS
  None = None
  StrengthMax = 2
  SequenceMax = 1
  Capacity = 2
  Slots = 1
  Interval = 1
  QueueMax = 2
  CeilingPairs <- MCCeilings
  Values = {1}
  Uploads <- MCUploads
  DeviceStarts <- MCDevices
  DrainTicks = 1
  LinkSlots = 2
  MaxRequests = 1
  MaxStarts = 2
INVARIANT CappedAtEnd
PROPERTIES StopEnds JoinEnds
CHECK_DEADLOCK FALSE
