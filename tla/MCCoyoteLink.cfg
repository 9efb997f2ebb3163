SPECIFICATION FairSpec
CONSTANTS
  StrengthMax = 2
  SequenceMax = 2
  Capacity = 3
  Slots = 2
  Interval = 2
  Requests <- MCRequests
  WaveformSizes = {3}
  Ceilings = {1, 2}
  Delays = {1, 5}
  LinkSlots = 2
  MaxRequests = 2
  MaxTurns = 1
  MaxLosses = 1
INVARIANTS OneInFlight NothingForgotten
PROPERTY ZeroDelivered
