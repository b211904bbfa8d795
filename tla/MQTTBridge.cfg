CONSTANTS
  Sender = {s1, s2}
  MaxMsgs = 2
  MaxGens = 5
  MaxVersion = 2
  c1 = c1
  c2 = c2
  c3 = c3
  c4 = c4
  UserCommand = {c1, c2, c3, c4}
  CommandsFile <- MCCommandsFile
  Surroundings <- MCSurroundings
  Nobody = Nobody
  MaxEdits = 1
  MaxStarts = 3
SPECIFICATION MCSpec
INVARIANTS Accounted PublishedInOrder PanicOnlyWhenDone VolumeIsCurrent BrokerAgrees
PROPERTIES EndsWhenDone
CHECK_DEADLOCK FALSE
