SPECIFICATION FairSpec
CONSTANTS
  a = a
  b = b
  AskA = 1
  AskB = 0
  BeatA = 0
  BeatB = 0
  Nodes = {a, b}
  Dials <- BothDial
  Syncing = {a}
  Room = 6
  Breaks = {}
  MaxBeats <- Beats
  MaxAsks <- Asks
INVARIANTS
  TypeOK
  SendersAreKnown
PROPERTIES
  DeadAreExpunged
CHECK_DEADLOCK FALSE
