CONSTANTS
  MaxNotes = 2
  MaxPings = 2
  MaxLosses = 2
SPECIFICATION SocketFairSpec
INVARIANTS DisplayedInOrder FreshWhenQuiet
PROPERTIES RegistersAgain EndsWhenDone
CHECK_DEADLOCK FALSE
