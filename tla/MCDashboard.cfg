SPECIFICATION FairSpec
CONSTANTS
  MaxVersion = 2
  Rows <- MCRows
  Links <- MCLinks
  Headers <- MCHeaders
  MaxLoads = 2
  MaxPolls = 2
INVARIANTS
  TypeOK
  LastClickWins
  RowsAreTheLists
  RowsInOrder
  OnlyShownListsPolled
  ChartsWipedOnLeaving
PROPERTIES
  TablesCatchUp
