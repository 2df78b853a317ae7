SPECIFICATION Spec
CONSTANTS
  Metrics = {memory, cpu}
  Slots = {s1}
  MaxTime = 4
  Retention = 2
  MaxLag = 0
  OldestFirst = TRUE
  QuietRounds = TRUE
  MaxCharts = 2
  Lossy = TRUE
SYMMETRY PollSymmetry
INVARIANTS
  TypeOK
  PairsAligned
  NoPointTwice
  NothingSkippedByBoth
  LastLimitIsNewest
