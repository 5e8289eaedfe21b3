SPECIFICATION SettledSpec
CONSTANTS
  a = a
  b = b
  AskA = 0
  AskB = 1
  BeatA = 0
  BeatB = 1
  Nodes = {a, b}
  Dials <- OneDials
  Syncing = {a}
  Room = 6
  Breaks = {b}
  MaxBeats <- Beats
  MaxAsks <- Asks
INVARIANTS
  WritersHoldTheirLock
  UnconnectedIsClosed
PROPERTIES
  NeverRevived
  DeadAreExpunged
  ReadersGetOn
CHECK_DEADLOCK FALSE
