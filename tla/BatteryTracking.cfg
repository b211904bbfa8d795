CONSTANTS
  Battery = {b1, b2}
  Nobody = Nobody
  MaxChanges = 2
  MaxTasks = 3
SPECIFICATION FairSpec
INVARIANTS TracksThePresent
PROPERTIES EndsWhenDone
CHECK_DEADLOCK FALSE
