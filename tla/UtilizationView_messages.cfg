SPECIFICATION Spec
CONSTANTS
  MaxVisits = 1
  PageKinds = {"namespace"}
  Usages = {0, 1, 5}
  Limits = {0, 100, 5000}
  Lossy = FALSE
\* The user opens MaxVisits pages; once their limits are decided nothing is left.
CHECK_DEADLOCK FALSE
INVARIANTS
  MessagesDistinct
