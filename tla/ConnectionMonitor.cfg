CONSTANTS
  Conn = {c1}
  MaxLoops = 2
  MaxChanges = 1
SPECIFICATION Spec
INVARIANTS EveryConnectionMonitored LastWordIsTruth PanicOnlyInHaste
CHECK_DEADLOCK FALSE
