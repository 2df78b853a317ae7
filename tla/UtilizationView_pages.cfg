SPECIFICATION FairSpec
CONSTANTS
  MaxVisits = 2
  PageKinds = {"listing", "direct", "fallback", "namespace"}
  Usages = {1}
  Limits = {100, 5000}
  Lossy = TRUE
\* The user opens MaxVisits pages; once their limits are decided nothing is left.
CHECK_DEADLOCK FALSE
INVARIANTS
  TypeOK
  MessagesMatchLimits
  ReplacementsTold
  PollersHaveDecided
PROPERTIES
  LeavingCancelsOne
  OpenPageGetsPolled
