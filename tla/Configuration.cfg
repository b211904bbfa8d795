CONSTANTS
  MaxHooks = 2
  Faults = TRUE
SPECIFICATION Spec
INVARIANTS SavedIsThere RegistryIsCurrent
CHECK_DEADLOCK FALSE
