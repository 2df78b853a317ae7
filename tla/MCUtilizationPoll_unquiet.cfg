SPECIFICATION FairSpec
CONSTANTS
  Metrics = {memory, cpu}
  Slots = {s1}
  MaxTime = 2
  Retention = 2
  MaxLag = 1
  OldestFirst = TRUE
  QuietRounds = FALSE
  MaxCharts = 1
  Lossy = TRUE
INVARIANT
  CursorIsCharted
PROPERTIES
  CursorCatchesUp
  StatsCatchUp
