SPECIFICATION Spec
CONSTANTS
  NaN = NaN
  Least <- MCLeast
  Most <- MCMost
  Default <- MCDefault
  Full = 3
  SlotUnits = 2
  Width = 8
  MaxSlots = 2
  IdleStop = 1
  Fingers = {f1, f2}
  NoFinger = NoFinger
  Elapses = {1, 7}
  Samples <- MCSamples
  Frames <- MCFrames
  Edited <- MCEdited
  QuietPolls = 1
  RescanAfter = 2
INVARIANT SettingsSurvive
