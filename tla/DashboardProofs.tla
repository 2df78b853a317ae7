-------------------------- MODULE DashboardProofs ---------------------------
(***************************************************************************)
(* What holds of the dashboard for every cluster, every bound on loads and *)
(* polls and every set of links and headers: the intervals that run are    *)
(* those of the lists on the screen, charts are only missing from a page   *)
(* that is being left, tables stay in the order of their headers and hold  *)
(* rows of their own list, and what was clicked last is what the router has *)
(* or loads.  The last two are one invariant (ScreenInv): a late response or *)
(* template is harmless because a poll that is live, and the load that is  *)
(* current, belong to what the screen and the location are by now.         *)
(***************************************************************************)
EXTENDS Dashboard, PagesProofs, FiniteSetTheorems

\* The intervals of a page with the given lists
Intervals(links) ==
  {[table |-> k, link |-> links[k], live |-> TRUE] : k \in DOMAIN links}

\* The tables of the screen are records of rows and order.
TablesShape ==
  /\ tables = [k \in DOMAIN tables |-> tables[k]]
  /\ \A k \in DOMAIN tables :
       tables[k] = [items |-> tables[k].items, order |-> tables[k].order]

TablesInv == TablesShape /\ RowsInOrder

-----------------------------------------------------------------------------
(* Intervals *)

\* The empty screen has no lists.
LEMMA NoLists == ListLinks(NoView) = <<>>
BY DEF ListLinks, NoView

\* No interval survives its page.
LEMMA NoneUncancelled ==
  ASSUME OnlyShownListsPolled
  PROVE  Uncancelled = {}
BY DEF OnlyShownListsPolled, Uncancelled

\* A page that is shown runs the intervals of its own lists and no others.
LEMMA ShownPolled ==
  ASSUME OnlyShownListsPolled, NEW v, Show(v)
  PROVE  OnlyShownListsPolled'
<1>1. view' = v /\ ticking' = {} \cup Intervals(ListLinks(v))
  BY NoneUncancelled DEF Show, ToSet, Intervals
<1> QED
  BY <1>1 DEF OnlyShownListsPolled, Intervals, Lists

\* A cleared screen runs none.
LEMMA ClearedUnpolled ==
  ASSUME OnlyShownListsPolled, Clear
  PROVE  OnlyShownListsPolled'
BY NoneUncancelled, NoLists DEF Clear, OnlyShownListsPolled, Lists

\* The intervals that run are those of the lists on the screen: $destroy
\* cancels them all, and only ng-view's change of page starts any.
THEOREM DashboardPollsWhatItShows == Spec => []OnlyShownListsPolled
<1>1. Init => OnlyShownListsPolled
  BY NoLists DEF Init, OnlyShownListsPolled, Lists
<1>2. ASSUME OnlyShownListsPolled, [Next]_vars
      PROVE  OnlyShownListsPolled'
  <2>1. ASSUME UNCHANGED <<view, ticking>>
        PROVE  OnlyShownListsPolled'
    BY <1>2, <2>1 DEF OnlyShownListsPolled, Lists
  <2>2. ASSUME NEW p, NEW what, Go(p, what)
        PROVE  OnlyShownListsPolled'
    <3>1. CASE IsPage(p)
      BY <2>1, <2>2, <3>1 DEF Go
    <3>2. CASE ~IsPage(p)
      BY <1>2, <2>2, <3>2, ClearedUnpolled DEF Go
    <3> QED
      BY <3>1, <3>2
  <2>3. ASSUME NEW l \in loads, LoadDone(l)
        PROVE  OnlyShownListsPolled'
    BY <1>2, <2>3, ShownPolled DEF LoadDone
  <2>4. ASSUME NEW l \in loads, LoadStale(l) \/ LoadFails(l)
        PROVE  OnlyShownListsPolled'
    BY <2>1, <2>4 DEF LoadStale, LoadFails
  <2>5. ASSUME NEW t \in ticking, Tick(t)
        PROVE  OnlyShownListsPolled'
    BY <2>1, <2>5 DEF Tick, Routing
  <2>6. ASSUME NEW i \in DOMAIN polls, Answer(i) \/ Lose(i) \/ Take(i) \/ Ignore(i)
        PROVE  OnlyShownListsPolled'
    BY <2>1, <2>6 DEF Answer, Lose, Take, Ignore, Routing
  <2>7. ASSUME NEW k, NEW c, NEW ctrl, ClickHeader(k, c, ctrl)
        PROVE  OnlyShownListsPolled'
    BY <2>1, <2>7 DEF ClickHeader, Routing
  <2>8. CASE Change
    BY <2>1, <2>8 DEF Change, Routing
  <2>9. CASE UNCHANGED vars
    BY <2>1, <2>9 DEF vars
  <2> QED
    BY <1>2, <2>2, <2>3, <2>4, <2>5, <2>6, <2>7, <2>8, <2>9
       DEF Next, FollowLink, ClickRow
<1> QED
  BY <1>1, <1>2, PTL DEF Spec

-----------------------------------------------------------------------------
(* Charts *)

\* A page without its charts is being left, or was to be left for a page that
\* could not be loaded: $routeChangeStart is always followed by a load for the
\* current route, which a newer route replaces and never drops.
THEOREM DashboardWipesOnLeaving == Spec => []ChartsWipedOnLeaving
<1>1. Init => ChartsWipedOnLeaving
  BY DEF Init, ChartsWipedOnLeaving
<1>2. ASSUME ChartsWipedOnLeaving, [Next]_vars
      PROVE  ChartsWipedOnLeaving'
  <2>1. ASSUME UNCHANGED <<loads, failed, wiped>>
        PROVE  ChartsWipedOnLeaving'
    BY <1>2, <2>1 DEF ChartsWipedOnLeaving, Pending
  <2>2. ASSUME NEW p, NEW what, Go(p, what)
        PROVE  ChartsWipedOnLeaving'
    <3> DEFINE new == [to |-> RouteOf(Canonical(p)), current |-> TRUE]
    <3>1. new \in loads' /\ new.current
      BY <2>2 DEF Go
    <3> QED
      BY <3>1 DEF ChartsWipedOnLeaving, Pending
  <2>3. ASSUME NEW l \in loads, LoadDone(l)
        PROVE  ChartsWipedOnLeaving'
    BY <2>3 DEF LoadDone, ChartsWipedOnLeaving
  <2>4. ASSUME NEW l \in loads, LoadStale(l)
        PROVE  ChartsWipedOnLeaving'
    BY <1>2, <2>4 DEF LoadStale, ChartsWipedOnLeaving, Pending
  <2>5. ASSUME NEW l \in loads, LoadFails(l)
        PROVE  ChartsWipedOnLeaving'
    BY <2>5 DEF LoadFails, ChartsWipedOnLeaving
  <2>6. ASSUME NEW t \in ticking, Tick(t)
        PROVE  ChartsWipedOnLeaving'
    BY <2>1, <2>6 DEF Tick, Routing
  <2>7. ASSUME NEW i \in DOMAIN polls, Answer(i) \/ Lose(i) \/ Take(i) \/ Ignore(i)
        PROVE  ChartsWipedOnLeaving'
    BY <2>1, <2>7 DEF Answer, Lose, Take, Ignore, Routing
  <2>8. ASSUME NEW k, NEW c, NEW ctrl, ClickHeader(k, c, ctrl)
        PROVE  ChartsWipedOnLeaving'
    BY <2>1, <2>8 DEF ClickHeader, Routing
  <2>9. CASE Change \/ UNCHANGED vars
    BY <2>1, <2>9 DEF Change, Routing, vars
  <2> QED
    BY <1>2, <2>2, <2>3, <2>4, <2>5, <2>6, <2>7, <2>8, <2>9
       DEF Next, FollowLink, ClickRow
<1> QED
  BY <1>1, <1>2, PTL DEF Spec

-----------------------------------------------------------------------------
(* Tables *)

\* A table without rows is in every order.
LEMMA EmptyOrdered == ASSUME NEW order PROVE Ordered(<<>>, order)
BY DEF Ordered

\* What orderBy returns is in order.
LEMMA SortedOrdered ==
  ASSUME NEW rows, NEW order, NEW s \in OrderBy(rows, order)
  PROVE  Ordered(s, order)
BY DEF OrderBy

\* New rows in the table's own order keep all tables in order.
LEMMA RowsReplaced ==
  ASSUME TablesInv, NEW k, NEW s, Ordered(s, tables[k].order),
         tables' = [tables EXCEPT ![k].items = s]
  PROVE  TablesInv'
<1>1. DOMAIN tables' = DOMAIN tables
  BY DEF TablesInv, TablesShape
<1>2. ASSUME NEW j \in DOMAIN tables
      PROVE  tables'[j] = IF j = k THEN [items |-> s, order |-> tables[j].order]
                                   ELSE tables[j]
  BY DEF TablesInv, TablesShape
<1>3. TablesShape'
  BY <1>1, <1>2 DEF TablesInv, TablesShape
<1>4. ASSUME NEW j \in DOMAIN tables
      PROVE  Ordered(tables'[j].items, tables'[j].order)
  BY <1>2 DEF TablesInv, RowsInOrder
<1> QED
  BY <1>1, <1>3, <1>4 DEF TablesInv, RowsInOrder

\* So does a table that is sorted anew when its order changes.
LEMMA RowsResorted ==
  ASSUME TablesInv, NEW k, NEW s, NEW order, Ordered(s, order),
         tables' = [tables EXCEPT ![k] = [items |-> s, order |-> order]]
  PROVE  TablesInv'
<1>1. DOMAIN tables' = DOMAIN tables
  BY DEF TablesInv, TablesShape
<1>2. ASSUME NEW j \in DOMAIN tables
      PROVE  tables'[j] = IF j = k THEN [items |-> s, order |-> order]
                                   ELSE tables[j]
  BY DEF TablesInv, TablesShape
<1>3. TablesShape'
  BY <1>1, <1>2 DEF TablesInv, TablesShape
<1>4. ASSUME NEW j \in DOMAIN tables
      PROVE  Ordered(tables'[j].items, tables'[j].order)
  BY <1>2 DEF TablesInv, RowsInOrder
<1> QED
  BY <1>1, <1>3, <1>4 DEF TablesInv, RowsInOrder

\* The tables of a new page have no rows yet.
LEMMA NewTablesOrdered ==
  ASSUME NEW links, tables' = [k \in DOMAIN links |-> NewTable]
  PROVE  TablesInv'
BY EmptyOrdered DEF TablesInv, TablesShape, RowsInOrder, NewTable

\* The rows of a table are in the order that its headers show, for every
\* interleaving of polls that come back and clicks on headers: both the poll's
\* callback and getData sort, by the order of that moment.
THEOREM DashboardTablesSorted == Spec => []RowsInOrder
<1>1. Init => TablesInv
  BY DEF Init, TablesInv, TablesShape, RowsInOrder
<1>2. ASSUME TablesInv, [Next]_vars
      PROVE  TablesInv'
  <2>1. ASSUME UNCHANGED tables
        PROVE  TablesInv'
    BY <1>2, <2>1 DEF TablesInv, TablesShape, RowsInOrder, Ordered
  <2>2. ASSUME tables' = <<>>
        PROVE  TablesInv'
    BY <2>2 DEF TablesInv, TablesShape, RowsInOrder
  <2>3. ASSUME NEW p, NEW what, Go(p, what)
        PROVE  TablesInv'
    BY <2>1, <2>2, <2>3 DEF Go, Clear
  <2>4. ASSUME NEW l \in loads, LoadDone(l)
        PROVE  TablesInv'
    BY <2>4, NewTablesOrdered DEF LoadDone, Show
  <2>5. ASSUME NEW i \in DOMAIN polls, Take(i)
        PROVE  TablesInv'
    BY <1>2, <2>5, SortedOrdered, RowsReplaced DEF Take
  <2>6. ASSUME NEW k, NEW c, NEW ctrl, ClickHeader(k, c, ctrl)
        PROVE  TablesInv'
    BY <1>2, <2>6, SortedOrdered, RowsResorted DEF ClickHeader
  <2>7. ASSUME NEW l \in loads, LoadStale(l) \/ LoadFails(l)
        PROVE  TablesInv'
    BY <2>1, <2>7 DEF LoadStale, LoadFails
  <2>8. ASSUME NEW i, \/ Tick(i) \/ Answer(i) \/ Lose(i) \/ Ignore(i)
                      \/ Change \/ UNCHANGED vars
        PROVE  TablesInv'
    BY <2>1, <2>8 DEF Tick, Answer, Lose, Ignore, Change, vars
  <2> QED
    BY <1>2, <2>3, <2>4, <2>5, <2>6, <2>7, <2>8
       DEF Next, FollowLink, ClickRow
<1>3. TablesInv => RowsInOrder
  BY DEF TablesInv
<1> QED
  BY <1>1, <1>2, <1>3, PTL DEF Spec

-----------------------------------------------------------------------------
(* Sequences and rows *)

\* A function on 1 .. n is a sequence.
LEMMA FunctionIsSeq ==
  ASSUME NEW S, NEW n \in Nat, NEW f \in [1 .. n -> S]
  PROVE  f \in Seq(S) /\ Len(f) = n
OBVIOUS

\* A sequence without one of its elements
LEMMA RemoveAtSeq ==
  ASSUME NEW S, NEW s \in Seq(S), NEW i \in 1 .. Len(s)
  PROVE  RemoveAt(s, i) \in Seq(S)
<1>1. Len(s) \in Nat /\ \A j \in 1 .. Len(s) : s[j] \in S
  BY ElementOfSeq
<1>2. SubSeq(s, 1, i - 1) \in Seq(S)
  BY <1>1, SubSeqProperties
<1>3. SubSeq(s, i + 1, Len(s)) \in Seq(S)
  BY <1>1, SubSeqProperties
<1> QED
  BY <1>2, <1>3, ConcatProperties DEF RemoveAt

\* The rows of a table are finitely many.
LEMMA ToSetFinite ==
  ASSUME NEW S, NEW s \in Seq(S)
  PROVE  IsFiniteSet(ToSet(s)) /\ ToSet(s) \subseteq S
<1>1. Len(s) \in Nat /\ DOMAIN s = 1 .. Len(s) /\ s \in [1 .. Len(s) -> S]
  BY LenProperties
<1>2. s \in Surjection(1 .. Len(s), ToSet(s))
  BY <1>1 DEF ToSet, Surjection
<1>3. IsFiniteSet(1 .. Len(s))
  BY <1>1, FS_Interval
<1>4. IsFiniteSet(ToSet(s))
  BY <1>2, <1>3, FS_Surjection
<1> QED
  BY <1>1, <1>4 DEF ToSet

\* orderBy neither drops nor invents a row.
LEMMA SortedRows ==
  ASSUME NEW rows, IsFiniteSet(rows), NEW order, NEW s \in OrderBy(rows, order)
  PROVE  s \in Seq(rows) /\ ToSet(s) = rows
<1> DEFINE n == Cardinality(rows)
<1>1. n \in Nat
  BY FS_CardinalityType
<1>2. s \in [1 .. n -> rows] /\ \A i, j \in 1 .. n : i # j => s[i] # s[j]
  BY DEF OrderBy, SetToSeqs
<1>3. s \in Injection(1 .. n, rows)
  BY <1>2 DEF Injection, IsInjective
<1>4. Cardinality(1 .. n) = n
  BY <1>1, FS_Interval
<1>5. s \in Surjection(1 .. n, rows)
  BY <1>3, <1>4, FS_Injection
<1>6. ToSet(s) = rows
  BY <1>2, <1>5 DEF ToSet, Surjection
<1> QED
  BY <1>1, <1>2, <1>6, FunctionIsSeq

\* The rows that tables show
ShownRows == [name : Seq(Names), rank : Int, memUsage : Int, cpuUsage : Int]

\* What a response shows: finitely many rows, with the names of its list
LEMMA DisplayedRows ==
  ASSUME NEW link, NEW w \in Versions
  PROVE  LET rows == Displayed(RowsOf(link, w))
         IN  /\ IsFiniteSet(rows) /\ rows \subseteq ShownRows
             /\ \A r \in rows : Len(r.name) = NameParts(link)
<1> DEFINE given == RowsOf(link, w)
           shown == Displayed(given)
           f == [r \in given |-> [r EXCEPT !.memUsage = RoundMB(@)]]
<1>1. /\ IsFiniteSet(given)
      /\ \A r \in given :
           /\ r \in [name : Seq(STRING \ {Empty}), rank : Int, memUsage : Int, cpuUsage : Int]
           /\ Len(r.name) = NameParts(link)
  BY HeapsterRows, FS_EmptySet DEF RowsOf
<1>2. f \in Surjection(given, shown)
  BY DEF Displayed, Surjection
<1>3. IsFiniteSet(shown)
  BY <1>1, <1>2, FS_Surjection
<1>4. ASSUME NEW r \in given
      PROVE  LET d == [r EXCEPT !.memUsage = RoundMB(@)]
             IN  d \in ShownRows /\ Len(d.name) = NameParts(link)
  <2> DEFINE d == [r EXCEPT !.memUsage = RoundMB(@)]
  <2>1. r.name \in Seq(STRING \ {Empty}) /\ r.rank \in Int /\ r.memUsage \in Int /\ r.cpuUsage \in Int
    BY <1>1
  <2>2. STRING \ {Empty} \subseteq Names
    BY DEF Names, Texts
  <2>3. r.name \in Seq(Names)
    BY <2>1, <2>2, SeqMonotonic
  <2>4. RoundMB(r.memUsage) \in Int
    BY <2>1 DEF RoundMB, MB
  <2>5. d = [name |-> r.name, rank |-> r.rank, memUsage |-> RoundMB(r.memUsage), cpuUsage |-> r.cpuUsage]
    BY <1>1
  <2> QED
    BY <1>1, <2>1, <2>3, <2>4, <2>5 DEF ShownRows
<1> QED
  BY <1>3, <1>4 DEF Displayed

\* A click on a header leaves a list of columns with directions.
LEMMA ClickedOrder ==
  ASSUME NEW order \in Seq(Sorters), NEW column \in {"name", "memUsage", "cpuUsage"}, NEW ctrl
  PROVE  Clicked(order, column, ctrl) \in Seq(Sorters)
<1> DEFINE new == [column |-> column, direction |-> Direction(order, column)]
           at == {i \in 1 .. Len(order) : order[i].column = column}
           turned == [i \in 1 .. Len(order) |-> IF i \in at THEN new ELSE order[i]]
<1>1. new \in Sorters
  BY DEF Direction, Sorters
<1>2. Clicked(order, column, ctrl) \in {<<new>>, Append(order, new), turned}
  BY DEF Clicked
<1> HIDE DEF new, at
<1>3. <<new>> \in Seq(Sorters)
  BY <1>1
<1>4. Append(order, new) \in Seq(Sorters)
  BY <1>1, AppendProperties
<1>5. turned \in Seq(Sorters)
  <2>1. Len(order) \in Nat /\ \A i \in 1 .. Len(order) : order[i] \in Sorters
    BY ElementOfSeq
  <2>2. turned \in [1 .. Len(order) -> Sorters]
    BY <1>1, <2>1
  <2> QED
    BY <2>1, <2>2, FunctionIsSeq
<1> QED
  BY <1>2, <1>3, <1>4, <1>5

-----------------------------------------------------------------------------
(* The screen *)

\* The polls under way when the lists on the screen are the given ones: a poll
\* of the page on the screen is a poll of one of its own lists.
PollsOf(links) ==
  {p \in [table : Nat, link : Seq(Texts), live : BOOLEAN, at : Versions \cup {0}] :
     p.live => p.table \in DOMAIN links /\ p.link = links[p.table]}

Tables == [items : Seq(ShownRows), order : Seq(Sorters)]
Loads == [to : Views, current : BOOLEAN]

\* The parts of the state, by the page that is on the screen
LocationInv ==
  /\ path \in Paths /\ IsPage(path)
  /\ loads \subseteq Loads
  /\ \A l, m \in loads : l.current /\ m.current => l = m
  /\ failed \in BOOLEAN /\ wiped \in BOOLEAN
  /\ view \in Views \cup {NoView}

ListInv ==
  /\ version \in Versions
  /\ polls \in Seq(PollsOf(Lists))
  /\ tables \in [DOMAIN Lists -> Tables]

\* The load for the current route is for what the user wants.
LoadsWanted == \A l \in loads : l.current => Subject(l.to) = wanted

ScreenInv ==
  /\ LocationInv
  /\ ListInv
  /\ RowsAreTheLists
  /\ LoadsWanted
  /\ LastClickWins

\* The lists of the page on the screen are sequences of links.
LEMMA ListsTyped ==
  ASSUME NEW v \in Views \cup {NoView}
  PROVE  /\ ListLinks(v) \in Seq(Seq(Texts))
         /\ DOMAIN ListLinks(v) = 1 .. Len(ListLinks(v)) /\ Len(ListLinks(v)) \in Nat
<1>1. ListLinks(v) \in Seq(Seq(Texts))
  <2>1. CASE v = NoView
    BY <2>1, NoLists
  <2>2. CASE v \in Views
    BY <2>2, PageLists
  <2> QED
    BY <2>1, <2>2
<1> HIDE DEF ListLinks
<1> QED
  BY <1>1, LenProperties

\* No page is the empty screen.
LEMMA PagesAreShown ==
  ASSUME NEW v \in Views
  PROVE  v # NoView /\ v.page \in Controllers
<1>1. v.page \in Controllers
  BY ViewParams
<1> QED
  BY <1>1, EightPages DEF NoView

\* The polls of a page that is left fit every page.
LEMMA OrphansFit ==
  ASSUME NEW links, polls \in Seq(PollsOf(links)), NEW others
  PROVE  Orphaned \in Seq(PollsOf(others))
<1> DEFINE S == PollsOf(links)
           T == PollsOf(others)
<1>1. \A p \in S : [p EXCEPT !.live = FALSE] \in T
  BY DEF PollsOf
<1> HIDE DEF S, T
<1>2. Len(polls) \in Nat /\ DOMAIN polls = 1 .. Len(polls) /\ \A i \in 1 .. Len(polls) : polls[i] \in S
  <2>1. polls \in Seq(S)
    BY DEF S
  <2> QED
    BY <2>1, LenProperties, ElementOfSeq
<1>3. Orphaned \in [1 .. Len(polls) -> T]
  BY <1>1, <1>2 DEF Orphaned
<1>4. Orphaned \in Seq(T)
  BY <1>2, <1>3, FunctionIsSeq
<1> QED
  BY <1>4 DEF T

\* The polls that a page starts with are of its lists.
LEMMA FirstPollsFit ==
  ASSUME NEW v \in Views
  PROVE  [k \in DOMAIN ListLinks(v) |->
            [table |-> k, link |-> ListLinks(v)[k], live |-> TRUE, at |-> 0]]
           \in Seq(PollsOf(ListLinks(v)))
<1> DEFINE links == ListLinks(v)
           n == Len(links)
           T == PollsOf(links)
           f == [k \in 1 .. n |-> [table |-> k, link |-> links[k], live |-> TRUE, at |-> 0]]
<1>1. links \in Seq(Seq(Texts)) /\ DOMAIN links = 1 .. n /\ n \in Nat
  BY ListsTyped
<1> HIDE DEF links
<1>2. \A k \in 1 .. n : links[k] \in Seq(Texts)
  BY <1>1, ElementOfSeq
<1>3. \A k \in 1 .. n : [table |-> k, link |-> links[k], live |-> TRUE, at |-> 0] \in T
  BY <1>1, <1>2 DEF PollsOf
<1> HIDE DEF T
<1>4. f \in [1 .. n -> T]
  BY <1>3
<1>5. f \in Seq(T)
  BY <1>1, <1>4, FunctionIsSeq
<1> QED
  BY <1>1, <1>5 DEF T, links

\* A step that leaves routing and tables alone and keeps the polls well formed
LEMMA OnlyPolls ==
  ASSUME ScreenInv, UNCHANGED <<path, loads, failed, view, wiped, wanted, tables>>,
         version' \in Versions, polls' \in Seq(PollsOf(Lists))
  PROVE  ScreenInv'
<1>1. Lists' = Lists
  BY DEF Lists
<1>2. ListInv'
  BY <1>1 DEF ScreenInv, ListInv
<1>3. LocationInv' /\ LoadsWanted' /\ LastClickWins'
  BY DEF ScreenInv, LocationInv, LoadsWanted, LastClickWins, Pending
<1>4. RowsAreTheLists'
  BY <1>1 DEF ScreenInv, RowsAreTheLists
<1> QED
  BY <1>2, <1>3, <1>4 DEF ScreenInv

LEMMA TickStep ==
  ASSUME ScreenInv, OnlyShownListsPolled, NEW t \in ticking, Tick(t)
  PROVE  ScreenInv'
<1> DEFINE p == [table |-> t.table, link |-> t.link, live |-> t.live, at |-> 0]
           T == PollsOf(Lists)
<1>1. Lists \in Seq(Seq(Texts)) /\ DOMAIN Lists = 1 .. Len(Lists) /\ Len(Lists) \in Nat
  BY ListsTyped DEF ScreenInv, LocationInv, Lists
<1>2. PICK k \in DOMAIN Lists : t = [table |-> k, link |-> Lists[k], live |-> TRUE]
  BY DEF OnlyShownListsPolled
<1>3. Lists[k] \in Seq(Texts)
  BY <1>1, ElementOfSeq
<1>4. p \in T
  BY <1>1, <1>2, <1>3 DEF PollsOf
<1> HIDE DEF p, T
<1>5. polls \in Seq(T)
  BY DEF ScreenInv, ListInv, T
<1>6. polls' = Append(polls, p)
  BY DEF Tick, p
<1>7. polls' \in Seq(T)
  BY <1>4, <1>5, <1>6, AppendProperties
<1> QED
  BY <1>7, OnlyPolls DEF Tick, Routing, T, ScreenInv, ListInv

LEMMA AnswerStep ==
  ASSUME ScreenInv, NEW i \in DOMAIN polls, Answer(i)
  PROVE  ScreenInv'
<1> DEFINE T == PollsOf(Lists)
           p == [polls[i] EXCEPT !.at = version]
<1>1. polls \in Seq(T) /\ version \in Versions
  BY DEF ScreenInv, ListInv
<1>2. \A q \in T : [q EXCEPT !.at = version] \in T
  BY <1>1 DEF PollsOf
<1> HIDE DEF T
<1>3. i \in 1 .. Len(polls) /\ polls[i] \in T
  BY <1>1, LenProperties, ElementOfSeq
<1>4. p \in T
  BY <1>2, <1>3
<1>5. polls' = [polls EXCEPT ![i] = p]
  BY DEF Answer
<1> HIDE DEF p
<1>6. polls' \in Seq(T)
  BY <1>1, <1>3, <1>4, <1>5, ExceptSeq
<1> QED
  BY <1>1, <1>6, OnlyPolls DEF Answer, Routing, T

LEMMA LoseStep ==
  ASSUME ScreenInv, NEW i \in DOMAIN polls, Lose(i) \/ Ignore(i)
  PROVE  ScreenInv'
<1> DEFINE T == PollsOf(Lists)
<1>1. polls \in Seq(T) /\ version \in Versions
  BY DEF ScreenInv, ListInv
<1> HIDE DEF T
<1>2. i \in 1 .. Len(polls)
  BY <1>1, LenProperties
<1>3. polls' = RemoveAt(polls, i)
  BY DEF Lose, Ignore, Arrives
<1>4. polls' \in Seq(T)
  BY <1>1, <1>2, <1>3, RemoveAtSeq
<1> QED
  BY <1>1, <1>4, OnlyPolls DEF Lose, Ignore, Routing, T

LEMMA ChangeStep ==
  ASSUME ScreenInv, Change
  PROVE  ScreenInv'
BY OnlyPolls DEF Change, Routing, ScreenInv, ListInv

\* A load that is dropped or fails
LEMMA LoadDroppedStep ==
  ASSUME ScreenInv, NEW l \in loads, LoadStale(l) \/ LoadFails(l)
  PROVE  ScreenInv'
<1>1. Lists' = Lists
  BY DEF LoadStale, LoadFails, Lists
<1>2. ListInv'
  BY <1>1 DEF ScreenInv, ListInv, LoadStale, LoadFails
<1>3. RowsAreTheLists'
  BY <1>1 DEF ScreenInv, RowsAreTheLists, LoadStale, LoadFails
<1>4. LocationInv' /\ LoadsWanted'
  BY DEF ScreenInv, LocationInv, LoadsWanted, LoadStale, LoadFails
<1>5. LastClickWins'
  BY DEF ScreenInv, LastClickWins, Pending, LoadStale, LoadFails
<1> QED
  BY <1>2, <1>3, <1>4, <1>5 DEF ScreenInv

\* A page is shown: it is the one the user wants, and its tables are empty.
LEMMA LoadDoneStep ==
  ASSUME ScreenInv, NEW l \in loads, LoadDone(l)
  PROVE  ScreenInv'
<1> DEFINE v == l.to
           links == ListLinks(v)
           first == [k \in DOMAIN links |->
                       [table |-> k, link |-> links[k], live |-> TRUE, at |-> 0]]
           T == PollsOf(links)
<1>1. l.to \in Views /\ l.current /\ view' = v /\ loads' = loads \ {l}
  BY DEF ScreenInv, LocationInv, Loads, LoadDone, Show
<1>2. LocationInv' /\ LoadsWanted'
  BY <1>1 DEF ScreenInv, LocationInv, LoadsWanted, LoadDone
<1>3. LastClickWins'
  <2>1. v # NoView /\ Subject(v) = wanted
    BY <1>1, PagesAreShown DEF ScreenInv, LoadsWanted
  <2> QED
    BY <1>1, <2>1 DEF LastClickWins, LoadDone
<1>4. Lists' = links
  BY <1>1 DEF Lists
<1>5. tables' = [k \in DOMAIN links |-> NewTable]
  BY DEF LoadDone, Show
<1>6. RowsAreTheLists'
  BY <1>5 DEF RowsAreTheLists, NewTable
<1>7. tables' \in [DOMAIN Lists' -> Tables]
  <2>1. NewTable \in Tables
    BY DEF NewTable, Tables, DefaultOrder, Sorters
  <2> QED
    BY <1>4, <1>5, <2>1
<1>8. polls' \in Seq(T)
  <2>1. polls' = Orphaned \o first
    BY DEF LoadDone, Show
  <2>2. Orphaned \in Seq(T)
    BY OrphansFit DEF ScreenInv, ListInv
  <2>3. first \in Seq(T)
    BY <1>1, FirstPollsFit
  <2> HIDE DEF T, first
  <2> QED
    BY <2>1, <2>2, <2>3, ConcatProperties
<1>9. ListInv'
  BY <1>4, <1>7, <1>8 DEF ScreenInv, ListInv, LoadDone
<1> QED
  BY <1>2, <1>3, <1>6, <1>9 DEF ScreenInv

\* The location changes: the one load that is current is for what is wanted.
LEMMA GoStep ==
  ASSUME ScreenInv, NEW p \in Paths, NEW what, Go(p, what),
         what = Subject(RouteOf(Canonical(p)))
  PROVE  ScreenInv'
<1> DEFINE to == RouteOf(Canonical(p))
           new == [to |-> to, current |-> TRUE]
           old == {[l EXCEPT !.current = FALSE] : l \in loads}
<1>1. path' = Canonical(p) /\ Canonical(p) \in Paths /\ IsPage(Canonical(p))
  BY EveryPathHasAPage DEF Go
<1>2. to \in Views
  BY <1>1 DEF Views
<1> HIDE DEF to
<1>3. loads' = old \cup {new} /\ new \in Loads /\ new.current /\ new.to = to
  BY <1>2 DEF Go, Loads, to
<1>4. \A l \in old : l \in Loads /\ ~l.current
  BY DEF ScreenInv, LocationInv, Loads
<1> HIDE DEF new, old
<1>5. view' \in Views \cup {NoView} /\ failed' \in BOOLEAN /\ wiped' \in BOOLEAN
  BY DEF ScreenInv, LocationInv, Go, Clear
<1>6. LocationInv'
  BY <1>1, <1>3, <1>4, <1>5 DEF LocationInv
<1>7. LoadsWanted'
  <2>1. wanted' = Subject(to)
    BY DEF Go, to
  <2> QED
    BY <1>3, <1>4, <2>1 DEF LoadsWanted
<1>8. LastClickWins'
  BY <1>3 DEF LastClickWins, Pending
<1>9. ListInv' /\ RowsAreTheLists'
  <2>1. CASE IsPage(p)
    <3>1. UNCHANGED <<version, tables, polls>> /\ Lists' = Lists
      BY <2>1 DEF Go, Lists
    <3> QED
      BY <3>1 DEF ScreenInv, ListInv, RowsAreTheLists
  <2>2. CASE ~IsPage(p)
    <3>1. version' = version /\ tables' = <<>> /\ polls' = Orphaned /\ Lists' = <<>>
      BY <2>2, NoLists DEF Go, Clear, Lists
    <3>2. Orphaned \in Seq(PollsOf(<<>>))
      BY OrphansFit DEF ScreenInv, ListInv
    <3> QED
      BY <3>1, <3>2 DEF ScreenInv, ListInv, RowsAreTheLists
  <2> QED
    BY <2>1, <2>2
<1> QED
  BY <1>6, <1>7, <1>8, <1>9 DEF ScreenInv

LEMMA FollowLinkStep ==
  ASSUME ScreenInv, NEW p \in Links, FollowLink(p)
  PROVE  ScreenInv'
<1>1. p \in Seq(STRING) /\ p # <<>>
  BY DashboardConstants
<1>2. STRING \subseteq Texts
  BY DEF Texts
<1>3. p \in Paths
  BY <1>1, <1>2, SeqMonotonic DEF Paths
<1> QED
  BY <1>3, GoStep DEF FollowLink

\* A row leads to the page of its entity, because the rows in a table are those
\* of the table's own list.
LEMMA ClickRowStep ==
  ASSUME ScreenInv, NEW k \in DOMAIN tables, NEW i \in DOMAIN tables[k].items, ClickRow(k, i)
  PROVE  ScreenInv'
<1> DEFINE items == tables[k].items
           name == items[i].name
           p == GoTo(view, k, name)
<1>1. k \in DOMAIN Lists /\ items \in Seq(ShownRows)
  BY DEF ScreenInv, ListInv, Tables
<1>2. items # <<>>
  OBVIOUS
<1>3. PICK w \in Versions : ToSet(items) = Displayed(RowsOf(Lists[k], w))
  BY <1>2 DEF ScreenInv, RowsAreTheLists
<1>4. items[i] \in Displayed(RowsOf(Lists[k], w))
  BY <1>3 DEF ToSet
<1>5. items[i] \in ShownRows /\ Len(name) = NameParts(Lists[k])
  BY <1>4, DisplayedRows
<1>6. name \in Seq(Names)
  BY <1>5 DEF ShownRows
<1>7. view \in Views
  BY <1>1, NoLists DEF ScreenInv, LocationInv, Lists
<1> HIDE DEF name
<1>8. p \in Paths /\ IsPage(p) /\ Subject(RouteOf(p)) = Entity(Lists[k], name)
  BY <1>1, <1>5, <1>6, <1>7, RowsLeadToTheirPage DEF Lists
<1>9. Go(p, Entity(Lists[k], name))
  BY DEF ClickRow, name
<1> HIDE DEF p
<1>10. Canonical(p) = p
  BY <1>8 DEF Canonical
<1> QED
  BY <1>8, <1>9, <1>10, GoStep

\* The rows of a live poll are those of its table's list.
LEMMA TakeStep ==
  ASSUME ScreenInv, NEW i \in DOMAIN polls, Take(i)
  PROVE  ScreenInv'
<1> DEFINE T == PollsOf(Lists)
           k == polls[i].table
           rows == Displayed(Response(i))
<1>1. polls \in Seq(T) /\ version \in Versions
  BY DEF ScreenInv, ListInv
<1>2. \A q \in T :
        /\ q.at \in Versions \cup {0}
        /\ q.live => q.table \in DOMAIN Lists /\ q.link = Lists[q.table]
  BY DEF PollsOf
<1> HIDE DEF T
<1>3. i \in 1 .. Len(polls) /\ polls[i] \in T
  BY <1>1, LenProperties, ElementOfSeq
<1>4. polls[i].at \in Versions /\ k \in DOMAIN Lists /\ polls[i].link = Lists[k]
  <2> DEFINE q == polls[i]
  <2>1. q.at # 0 /\ q.live /\ q \in T
    BY <1>3 DEF Take, Arrives
  <2> HIDE DEF q
  <2>2. q.at \in Versions /\ q.table \in DOMAIN Lists /\ q.link = Lists[q.table]
    BY <1>2, <2>1
  <2> QED
    BY <2>2 DEF q
<1>5. rows = Displayed(RowsOf(Lists[k], polls[i].at))
  BY <1>4 DEF Response
<1>6. IsFiniteSet(rows) /\ rows \subseteq ShownRows
  BY <1>4, <1>5, DisplayedRows
<1>7. PICK s \in OrderBy(rows, tables[k].order) : tables' = [tables EXCEPT ![k].items = s]
  BY DEF Take
<1> HIDE DEF rows
<1>8. s \in Seq(rows) /\ ToSet(s) = rows
  BY <1>6, <1>7, SortedRows
<1>9. s \in Seq(ShownRows)
  BY <1>6, <1>8, SeqMonotonic
<1>10. Lists' = Lists
  BY DEF Take, Routing, Lists
<1> HIDE DEF k
<1>11. DOMAIN tables = DOMAIN Lists /\ \A j \in DOMAIN Lists : tables[j] \in Tables
  BY DEF ScreenInv, ListInv
<1>12. ASSUME NEW j \in DOMAIN Lists
       PROVE  tables'[j] = IF j = k THEN [items |-> s, order |-> tables[j].order] ELSE tables[j]
  BY <1>7, <1>11 DEF Tables
<1>13. tables' \in [DOMAIN Lists -> Tables]
  <2>1. \A j \in DOMAIN Lists : tables'[j] \in Tables
    <3> SUFFICES ASSUME NEW j \in DOMAIN Lists PROVE tables'[j] \in Tables
      OBVIOUS
    <3>1. tables[j].order \in Seq(Sorters)
      BY <1>11 DEF Tables
    <3>2. [items |-> s, order |-> tables[j].order] \in Tables
      BY <1>9, <3>1 DEF Tables
    <3> QED
      BY <1>11, <1>12, <3>2
  <2>2. DOMAIN tables' = DOMAIN Lists /\ tables' = [j \in DOMAIN tables |-> tables'[j]]
    BY <1>7, <1>11
  <2> QED
    BY <1>11, <2>1, <2>2
<1>14. polls' \in Seq(T)
  BY <1>1, <1>3, RemoveAtSeq DEF Take, Arrives
<1>15. ListInv'
  BY <1>1, <1>10, <1>13, <1>14 DEF ListInv, Take, T
<1>16. RowsAreTheLists'
  <2> SUFFICES ASSUME NEW j \in DOMAIN Lists
               PROVE  \/ tables'[j].items = <<>>
                      \/ \E w \in Versions :
                           ToSet(tables'[j].items) = Displayed(RowsOf(Lists[j], w))
    BY <1>10, <1>13 DEF RowsAreTheLists
  <2>1. CASE j = k
    <3>0. tables'[j] = [items |-> s, order |-> tables[j].order]
      BY <1>12, <2>1
    <3>1. tables'[j].items = s
      BY <3>0
    <3>2. rows = Displayed(RowsOf(Lists[j], polls[i].at))
      BY <1>5, <2>1 DEF k
    <3> QED
      BY <1>4, <1>8, <3>1, <3>2
  <2>2. CASE j # k
    BY <1>11, <1>12, <2>2 DEF ScreenInv, RowsAreTheLists
  <2> QED
    BY <2>1, <2>2
<1>17. LocationInv' /\ LoadsWanted' /\ LastClickWins'
  BY DEF ScreenInv, LocationInv, LoadsWanted, LastClickWins, Pending, Take, Routing
<1> QED
  BY <1>15, <1>16, <1>17 DEF ScreenInv

\* A click on a header sorts the rows that are there.
LEMMA ClickHeaderStep ==
  ASSUME ScreenInv, NEW k, NEW column \in {"name", "memUsage", "cpuUsage"}, NEW ctrl,
         ClickHeader(k, column, ctrl)
  PROVE  ScreenInv'
<1> DEFINE order == Clicked(tables[k].order, column, ctrl)
           rows == ToSet(tables[k].items)
<1>1. DOMAIN tables = DOMAIN Lists /\ \A j \in DOMAIN Lists : tables[j] \in Tables
  BY DEF ScreenInv, ListInv
<1>2. k \in DOMAIN Lists
  BY <1>1 DEF ClickHeader
<1>3. tables[k].items \in Seq(ShownRows) /\ tables[k].order \in Seq(Sorters)
  BY <1>1, <1>2 DEF Tables
<1>4. order \in Seq(Sorters)
  BY <1>3, ClickedOrder
<1>5. IsFiniteSet(rows) /\ rows \subseteq ShownRows
  BY <1>3, ToSetFinite
<1>6. PICK s \in OrderBy(rows, order) :
        tables' = [tables EXCEPT ![k] = [items |-> s, order |-> order]]
  BY DEF ClickHeader
<1> HIDE DEF order, rows
<1>7. s \in Seq(rows) /\ ToSet(s) = rows
  BY <1>5, <1>6, SortedRows
<1>8. s \in Seq(ShownRows)
  BY <1>5, <1>7, SeqMonotonic
<1> DEFINE new == [items |-> s, order |-> order]
<1>9. new \in Tables /\ new.items = s
  BY <1>4, <1>8 DEF Tables
<1>10. tables' = [tables EXCEPT ![k] = new]
  BY <1>6
<1> HIDE DEF new
<1>11. DOMAIN tables' = DOMAIN Lists /\ tables'[k] = new
       /\ \A j \in DOMAIN Lists : j # k => tables'[j] = tables[j]
  BY <1>1, <1>2, <1>10 DEF ScreenInv, ListInv
<1>12. tables' \in [DOMAIN Lists -> Tables]
  BY <1>1, <1>9, <1>10 DEF ScreenInv, ListInv
<1>13. Lists' = Lists
  BY DEF ClickHeader, Routing, Lists
<1>14. ListInv'
  BY <1>12, <1>13 DEF ScreenInv, ListInv, ClickHeader
<1>15. RowsAreTheLists'
  <2> SUFFICES ASSUME NEW j \in DOMAIN Lists
               PROVE  \/ tables'[j].items = <<>>
                      \/ \E w \in Versions :
                           ToSet(tables'[j].items) = Displayed(RowsOf(Lists[j], w))
    BY <1>11, <1>13 DEF RowsAreTheLists
  <2>1. \/ tables[j].items = <<>>
        \/ \E w \in Versions : ToSet(tables[j].items) = Displayed(RowsOf(Lists[j], w))
    BY <1>1 DEF ScreenInv, RowsAreTheLists
  <2>2. CASE j # k
    BY <1>11, <2>1, <2>2
  <2>3. CASE j = k
    <3>1. tables'[j].items = s /\ ToSet(s) = ToSet(tables[j].items)
      BY <1>7, <1>9, <1>11, <2>3 DEF rows
    <3>2. ASSUME tables[j].items = <<>>
          PROVE  s = <<>>
      <4>1. rows = {}
        BY <2>3, <3>2 DEF rows, ToSet
      <4> QED
        BY <1>7, <4>1 DEF ToSet
    <3> QED
      BY <2>1, <3>1, <3>2
  <2> QED
    BY <2>2, <2>3
<1>16. LocationInv' /\ LoadsWanted' /\ LastClickWins'
  BY DEF ScreenInv, LocationInv, LoadsWanted, LastClickWins, Pending, ClickHeader, Routing
<1> QED
  BY <1>14, <1>15, <1>16 DEF ScreenInv

\* The dashboard starts with the load of the Cluster page.
LEMMA ScreenStarts ==
  ASSUME Init
  PROVE  ScreenInv
<1>1. Root \in Paths /\ Cluster(Root)
  BY FixedTexts DEF Root, Paths, Cluster
<1>2. IsPage(Root) /\ RouteOf(Root).page = "clusterUtil"
  BY <1>1, PagePaths, RouteIs, EightPages DEF IsPage
<1>3. RouteOf(Root) \in Views /\ Subject(RouteOf(Root)) = <<>>
  BY <1>1, <1>2 DEF Views, Subject
<1>4. Lists = <<>>
  BY NoLists DEF Init, Lists
<1>5. LocationInv /\ LoadsWanted
  <2> DEFINE v == RouteOf(Root)
             l == [to |-> v, current |-> TRUE]
  <2>1. loads = {l} /\ path = Root /\ wanted = <<>>
    BY DEF Init
  <2>2. l \in Loads /\ l.to = v
    BY <1>3 DEF Loads
  <2> HIDE DEF l
  <2>3. LoadsWanted
    BY <1>3, <2>1, <2>2 DEF LoadsWanted
  <2>4. LocationInv
    BY <1>1, <1>2, <2>1, <2>2 DEF Init, LocationInv
  <2> QED
    BY <2>3, <2>4
<1>6. LastClickWins
  BY DEF Init, LastClickWins, Pending
<1>7. ListInv
  BY <1>4, DashboardConstants DEF Init, ListInv, Versions
<1>8. RowsAreTheLists
  BY DEF Init, RowsAreTheLists
<1> QED
  BY <1>5, <1>6, <1>7, <1>8 DEF ScreenInv

LEMMA ScreenStep ==
  ASSUME ScreenInv, OnlyShownListsPolled, [Next]_vars
  PROVE  ScreenInv'
<1>1. ASSUME NEW k \in DOMAIN tables, NEW h \in Headers, NEW ctrl \in BOOLEAN,
             ClickHeader(k, h.column, ctrl)
      PROVE  ScreenInv'
  <2>1. h.column \in {"name", "memUsage", "cpuUsage"}
    BY DashboardConstants
  <2> QED
    BY <1>1, <2>1, ClickHeaderStep
<1>2. CASE UNCHANGED vars
  BY <1>2, OnlyPolls DEF vars, ScreenInv, ListInv
<1> QED
  BY <1>1, <1>2, FollowLinkStep, ClickRowStep, LoadDoneStep, LoadDroppedStep, TickStep,
     AnswerStep, LoseStep, TakeStep, ChangeStep
     DEF Next

\* The invariant of the screen holds throughout.
THEOREM DashboardScreen == Spec => []ScreenInv
<1>1. Init => ScreenInv
  BY ScreenStarts
<1>2. ScreenInv /\ OnlyShownListsPolled /\ [Next]_vars => ScreenInv'
  BY ScreenStep
<1> QED
  BY <1>1, <1>2, DashboardPollsWhatItShows, PTL DEF Spec

\* The rows in a table are all the rows of one response to that table's own
\* list, for every interleaving of navigation, polls and header clicks: a poll
\* whose page was left writes to a scope that nobody sees.
THEOREM DashboardRowsAreTheLists == Spec => []RowsAreTheLists
<1>1. ScreenInv => RowsAreTheLists
  BY DEF ScreenInv
<1> QED
  BY <1>1, DashboardScreen, PTL

\* When no template is on its way and none failed to load, the screen shows
\* what the user asked for last, whatever loads were overtaken before.
THEOREM DashboardLastClickWins == Spec => []LastClickWins
<1>1. ScreenInv => LastClickWins
  BY DEF ScreenInv
<1> QED
  BY <1>1, DashboardScreen, PTL

\* The type invariant; in particular $route.current has at most one load.
THEOREM DashboardTypes == Spec => []TypeOK
<1>1. ASSUME ScreenInv
      PROVE  TypeOK
  <2>1. Cardinality({l \in loads : l.current}) <= 1
    <3> DEFINE C == {l \in loads : l.current}
    <3>1. \A l, m \in C : l = m
      BY <1>1 DEF ScreenInv, LocationInv
    <3>2. CASE C = {}
      BY <3>2, FS_EmptySet
    <3>3. CASE C # {}
      <4>1. PICK l \in C : C = {l}
        BY <3>1, <3>3
      <4> QED
        BY <4>1, FS_Singleton
    <3> QED
      BY <3>2, <3>3
  <2>2. \A l \in loads : l.to.page \in Controllers /\ l.current \in BOOLEAN
    BY <1>1, PagesAreShown DEF ScreenInv, LocationInv, Loads
  <2>3. view = NoView \/ view.page \in Controllers
    BY <1>1, PagesAreShown DEF ScreenInv, LocationInv
  <2>4. DOMAIN tables = DOMAIN Lists /\ \A k \in DOMAIN tables : tables[k].order \in Seq(Sorters)
    BY <1>1 DEF ScreenInv, ListInv, Tables
  <2>5. \A i \in DOMAIN polls : polls[i].at \in Versions \cup {0}
    <3> DEFINE T == PollsOf(Lists)
    <3>1. polls \in Seq(T)
      BY <1>1 DEF ScreenInv, ListInv
    <3>2. \A p \in T : p.at \in Versions \cup {0}
      BY DEF PollsOf
    <3> HIDE DEF T
    <3> QED
      BY <3>1, <3>2, LenProperties, ElementOfSeq
  <2> QED
    BY <1>1, <2>1, <2>2, <2>3, <2>4, <2>5 DEF ScreenInv, LocationInv, ListInv, TypeOK
<1> QED
  BY <1>1, DashboardScreen, PTL

=============================================================================
