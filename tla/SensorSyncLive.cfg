CONSTANTS
  Sensor = {s1}
  Location = {}
  Value = {v1}
  Task = {t1, t2}
  NoValue = NoValue
  NoTask = NoTask
  UserMay = {"disable"}
  MaxRestarts = 1
SPECIFICATION ConnectedSpec
PROPERTIES EveryUpdateEnds StopsSending KeepsSending
CHECK_DEADLOCK FALSE
