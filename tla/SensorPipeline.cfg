CONSTANTS
  w1 = w1
  w2 = w2
  linux = linux
  scripts = scripts
  Worker = {w1, w2}
  Controller = {linux}
  Owner <- OwnerOf
  Scripts = {scripts}
  Nobody = Nobody
  Limit = 2
  Runs = 1
  Outputs = 2
SPECIFICATION FairSpec
INVARIANTS NoSendOnClosed NothingLost
PROPERTIES ImplementsDelivery EveryUpdateArrives EndsWhenDone
CHECK_DEADLOCK FALSE
