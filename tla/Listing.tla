------------------------------ MODULE Listing -------------------------------
(***************************************************************************)
(* The table of a ListingController (app/util.js): the rows that a poll    *)
(* puts into $scope.items, and the order in which ng-table's column        *)
(* headers ask for them.                                                   *)
(***************************************************************************)
EXTENDS Integers, SequencesExt

\* bytes in a megabyte
MB == 1048576

\* Math.round of a number of bytes in megabytes
RoundMB(b) == (b + MB \div 2) \div MB

\* The rows of $scope.items for a response of Heapster
Displayed(rows) == {[r EXCEPT !.memUsage = RoundMB(@)] : r \in rows}

\* What orderBy compares: names stand in the order of their rank, in which
\* upper and lower case are the same.
Key(row, column) ==
  CASE column = "memUsage" -> row.memUsage
    [] column = "cpuUsage" -> row.cpuUsage
    [] column = "name" -> row.rank

\* doComparison: the first predicate that tells two rows apart decides.
NotAfter(a, b, order) ==
  \A i \in 1 .. Len(order) :
    (\A j \in 1 .. i - 1 : Key(a, order[j].column) = Key(b, order[j].column)) =>
      IF order[i].direction = "desc"
        THEN Key(a, order[i].column) >= Key(b, order[i].column)
        ELSE Key(a, order[i].column) <= Key(b, order[i].column)

Ordered(s, order) ==
  \A i, j \in 1 .. Len(s) : i < j => NotAfter(s[i], s[j], order)

\* $filter('orderBy'): rows that no predicate tells apart may come in any
\* order, since Array.prototype.sort need not be stable.
OrderBy(rows, order) == {s \in SetToSeqs(rows) : Ordered(s, order)}

\* sorting: { memUsage: 'desc' }
DefaultOrder == <<[column |-> "memUsage", direction |-> "desc"]>>

\* Faulty variant: a third click on a column asks for no direction.
Direction_Cycle(order, column) ==
  IF \E i \in 1 .. Len(order) : order[i] = [column |-> column, direction |-> "asc"]
    THEN "none" ELSE "asc"

\* The direction that a click on a column's header asks for
Direction(order, column) ==
  IF \E i \in 1 .. Len(order) : order[i] = [column |-> column, direction |-> "desc"]
    THEN "asc" ELSE "desc"

\* sortBy: a click replaces the order; with the control key it adds a column
\* or turns a column's direction in its place.
Clicked(order, column, ctrl) ==
  LET new == [column |-> column, direction |-> Direction(order, column)]
      at == {i \in 1 .. Len(order) : order[i].column = column}
  IN  CASE ~ctrl -> <<new>>
        [] ctrl /\ at = {} -> Append(order, new)
        [] OTHER -> [i \in 1 .. Len(order) |-> IF i \in at THEN new ELSE order[i]]

=============================================================================
