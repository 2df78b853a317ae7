SPECIFICATION Spec
CONSTANTS
  Metrics = {memory, cpu}
  Slots = {s1}
  MaxTime = 2
  Retention = 2
  MaxLag = 0
  OldestFirst = TRUE
  QuietRounds = TRUE
  MaxCharts = 1
  Lossy = FALSE
SYMMETRY PollSymmetry
INVARIANT
  ChartTimeAscending
