SPECIFICATION FairSpec
CONSTANTS
  Conns = {c1, c2}
  Contexts = {x1, x2}
  Requests <- MCRequests
  Route <- MCRoute
  Method <- MCMethod
INVARIANTS
  TypeOK
  ContextExclusive
  HeadersSentOnce
  StatusIsTheRequests
  HandlerRunsOnce
  LogIsTrue
  RoutesAreFound
PROPERTIES
  ContextComesBack
  ImplementsExchange
