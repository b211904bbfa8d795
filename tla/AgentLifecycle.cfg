CONSTANTS
  Config <- AllConfigs
  MaxClicks = 2
SPECIFICATION FairSpec
INVARIANTS WaitsForWorkers WorksRegistered
PROPERTIES EndsUnlessHeld
CHECK_DEADLOCK FALSE
