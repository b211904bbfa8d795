CONSTANTS
  Worker <- AllWorkers
  MaxChanges = 2
  MaxForeign = 1
  MaxTasks = 1
SPECIFICATION FairSpec
INVARIANTS PanicOnlyWhenDone LastWordIsTruth
PROPERTIES  EndsWhenDone
CHECK_DEADLOCK FALSE
