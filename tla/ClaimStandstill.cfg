SPECIFICATION SettledSpec
CONSTANTS
  a = a
  b = b
  AskA = 3
  AskB = 3
  BeatA = 0
  BeatB = 0
  Nodes = {a, b}
  Dials <- OneDials
  Syncing = {a}
  Room = 1
  Breaks = {}
  MaxBeats <- Beats
  MaxAsks <- Asks
PROPERTIES
  ReadersGetOn
CHECK_DEADLOCK FALSE
