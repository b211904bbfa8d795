CONSTANTS
  c1 = c1
  c2 = c2
  sda = sda
  sdb = sdb
  Chip = {c1, c2}
  File <- MCFile
  NoFile = NoFile
  Worker <- MCWorker
  Item = {sda, sdb}
  Total = Total
  NaN = NaN
  Unknown = Unknown
  Width = 64
  Interval <- MCInterval
  Traffic <- MCTraffic
  MaxPolls <- MCMaxPolls
SPECIFICATION PollFairSpec
INVARIANTS BilledOnce CollectsAll
PROPERTIES TotalsAgree CollectionEnds
CHECK_DEADLOCK FALSE
