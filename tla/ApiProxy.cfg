SPECIFICATION FairSpec
CONSTANTS
  Conns = {c1, c2}
  Payloads = {p1, p2}
  Empty = Empty
  Headless = FALSE
  FlagURL = "none"
\* main may exit when the address cannot be bound.
CHECK_DEADLOCK FALSE
INVARIANTS
  TypeOK
  RelaysOnlyGoodBodies
  BodyClosedOnReturn
  FailuresAreMasked
PROPERTIES
  EveryRequestFinishes
  ImplementsRelay
