CONSTANTS
  Sensor = {s1, loc}
  Location = {loc}
  Value = {v1}
  Task = {t1, t2}
  NoValue = NoValue
  NoTask = NoTask
  UserMay = {"disable", "forget"}
  MaxRestarts = 1
SPECIFICATION Spec
SYMMETRY Symmetry
INVARIANTS RegistryHeard
PROPERTIES ImplementsLifecycle
CHECK_DEADLOCK FALSE
