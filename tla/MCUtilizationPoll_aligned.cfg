SPECIFICATION Spec
CONSTANTS
  Metrics = {memory, cpu}
  Slots = {s1}
  MaxTime = 3
  Retention = 3
  MaxLag = 0
  OldestFirst = TRUE
  QuietRounds = FALSE
  MaxCharts = 1
  Lossy = FALSE
SYMMETRY PollSymmetry
INVARIANT
  PairsAligned
